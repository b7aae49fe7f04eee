SPECIFICATION FairRunnerSpec
CONSTANTS
  NumShards = 2
  Capacity = 1
  MaxPackets = 2
  MaxDeltas = 1
INVARIANTS
  RunnerInv
  NothingOutlives
  JoinedMeansDrained
  FlagsBeforeJoins
  StopIsPrompt
PROPERTIES
  JoinHangsOnlyAsleep
CHECK_DEADLOCK FALSE
