\* Two browsers, one of which may keep silent for ever, and SIGINT or a failing
\* call at any moment.  The system stops when nobody connects any more.
SPECIFICATION FairSpec
CONSTANTS
  t1 = t1
  t2 = t2
  c1 = c1
  c2 = c2
  c3 = c3
  s1 = s1
  d1 = d1
  d2 = d2
  f0 = f0
  f1 = f1
  f2 = f2
  Thread = {t1, t2}
  Client = {c1, c2}
  Found = {c1}
  Silent = {c2}
  Stats = {}
  Shutdown = {}
  Fd = {f0, f1}
  NoOne = NoOne
  None = None
  MayStop = TRUE
INVARIANTS
  TypeOK
  HandledByOne
PROPERTIES
  KeepsPromise
  ShutdownEnds
CHECK_DEADLOCK FALSE
