SPECIFICATION FairStageSpec
CONSTANTS
  Capacity = 2
  MaxPush = 1
  MaxNotify = 1
  RelaxedGuess = FALSE
PROPERTY ShutdownCompletes
CHECK_DEADLOCK FALSE
