\* No timeouts, but an answer of two lines.
SPECIFICATION Spec
CONSTANTS
  N = 1
  MaxQueries = 2
  Timeouts = {0}
  MaxLines = 2
  ReadMax = 2
  PipeMax = 2
INVARIANTS
  AnswersThisCommand
CHECK_DEADLOCK FALSE
