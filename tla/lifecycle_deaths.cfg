\* Three deaths and two stops at any point of any process's life, a command and an
\* interrupt.
\* The system may stop: the user types nothing, or the master is gone.
SPECIFICATION FairSpec
CONSTANTS
  N = 2
  MaxDeaths = 3
  MaxStops = 2
  MaxCommands = 1
  MayInterrupt = TRUE
INVARIANTS
  TypeOK
  OneWorkerPerSlot
  AllListed
  
  
  HandlersAreReady
PROPERTIES
  ComesUp
  IsRepaired
  GoesDown
CHECK_DEADLOCK FALSE
