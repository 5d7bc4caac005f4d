\* Three threads, whole pages, a process that keeps running.  When the site has
\* been crawled all threads wait, so the system stops.
SPECIFICATION FairSpec
CONSTANTS
  home = home
  news = news
  about = about
  gone = gone
  orphan = orphan
  torn = torn
  t1 = t1
  t2 = t2
  t3 = t3
  Thread = {t1, t2, t3}
  Main = Main
  NoOne = NoOne
  Url <- MCUrl
  Start = home
  Links <- MCLinks
  Missing = {gone, torn}
  Torn = {torn}
  WholeReads = TRUE
  MayStop = FALSE
INVARIANTS
  TypeOK
  CrawlComplete
PROPERTIES
  CrawlsFrontier
CHECK_DEADLOCK FALSE
