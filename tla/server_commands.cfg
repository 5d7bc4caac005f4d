\* Three browsers and a SHUTDOWN share two descriptors, and SIGINT or a failing
\* call comes at any moment.  Threads, descriptors and browsers are alike: none
\* asks for a file that is there.  The system stops when the process has ended.
SPECIFICATION Spec
CONSTANTS
  t1 = t1
  t2 = t2
  c1 = c1
  c2 = c2
  c3 = c3
  s1 = s1
  d1 = d1
  d2 = d2
  f0 = f0
  f1 = f1
  f2 = f2
  Thread = {t1, t2}
  Client = {c1, c2, c3}
  Found = {}
  Silent = {}
  Stats = {}
  Shutdown = {d1}
  Fd = {f0, f1}
  NoOne = NoOne
  None = None
  MayStop = TRUE
INVARIANTS
  NoIdleWithWork
  
  LeaksBounded
SYMMETRY Interchangeable
CHECK_DEADLOCK FALSE
