\* Commands without timeouts and with answers of one line: the exchange is
\* exact.  The user stops after MaxQueries commands, so the system may stop.
SPECIFICATION FairSpec
CONSTANTS
  N = 3
  MaxQueries = 3
  Timeouts = {0}
  MaxLines = 1
  ReadMax = 2
  PipeMax = 2
INVARIANTS
  TypeOK
PROPERTIES
  ImplementsService
CHECK_DEADLOCK FALSE
