SPECIFICATION FairStageSpec
CONSTANTS
  Capacity = 2
  MaxPush = 5
  MaxNotify = 1
  RelaxedGuess = TRUE
INVARIANTS NoSlotRace ExactlyOneFate DropsCounted NoLostWakeup RingInv DrainedAtExit
PROPERTIES EvictsOnlyWhenFull ImplementsDropOldest ItemsMoveOn PushReturns SleeperExits
CHECK_DEADLOCK FALSE
