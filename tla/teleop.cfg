\* One arm, three POSE packets of eight kinds, the loop seeing them or not.
SPECIFICATION FairSpec
CONSTANTS
  Grips = {0, 1, 3}
  Deadband = 2
  MaxAction = 2
  MaxPackets = 3
  Received <- FewSamples
INVARIANTS
  CommandsFollowHand
PROPERTIES
  ProgramEnds
CHECK_DEADLOCK FALSE
