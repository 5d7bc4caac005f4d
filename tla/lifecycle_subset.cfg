\* One worker dies; does its replacement serve?
SPECIFICATION FairSpec
CONSTANTS
  N = 2
  MaxDeaths = 1
  MaxStops = 0
  MaxCommands = 0
  MayInterrupt = FALSE
PROPERTIES
  EverySubsetServed
\* The system may stop: the user types nothing, or the master is gone.
CHECK_DEADLOCK FALSE
