\* Two workers and three commands with and without timeouts: answers may be
\* late by two commands, requests lost or repeated, a pipe full or holding two
\* answers.
\* The user stops after MaxQueries commands, so the system may stop.
SPECIFICATION FairSpec
CONSTANTS
  N = 2
  MaxQueries = 3
  Timeouts = {0, 1}
  MaxLines = 1
  ReadMax = 2
  PipeMax = 2
INVARIANTS
  AnswerOnTheWay
  EveryWorkerHeard
  AnswersInOrder
PROPERTIES
  EveryCommandFinishes
CHECK_DEADLOCK FALSE
