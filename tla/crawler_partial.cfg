\* Responses that arrive in part, and a process that may stop at any moment.
SPECIFICATION Spec
CONSTANTS
  home = home
  news = news
  about = about
  gone = gone
  orphan = orphan
  torn = torn
  t1 = t1
  t2 = t2
  t3 = t3
  Thread = {t1, t2}
  Main = Main
  NoOne = NoOne
  Url <- SmallUrl
  Start = home
  Links <- SmallLinks
  Missing = {gone, torn}
  Torn = {torn}
  WholeReads = FALSE
  MayStop = TRUE
INVARIANTS
  EachUrlOnce
  PagesNotInflated
  NoLostWakeup
  OnlyReachable
CHECK_DEADLOCK FALSE
