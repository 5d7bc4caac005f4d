\* One STATS among three browsers.  The system stops when nobody connects any more.
SPECIFICATION Spec
CONSTANTS
  t1 = t1
  t2 = t2
  c1 = c1
  c2 = c2
  c3 = c3
  s1 = s1
  d1 = d1
  d2 = d2
  f0 = f0
  f1 = f1
  f2 = f2
  Thread = {t1, t2}
  Client = {c1, c2, c3}
  Found = {c1}
  Silent = {}
  Stats = {s1}
  Shutdown = {}
  Fd = {f0, f1, f2}
  NoOne = NoOne
  None = None
  MayStop = FALSE
INVARIANTS
  NewsockIsMine
CHECK_DEADLOCK FALSE
