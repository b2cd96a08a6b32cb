\* Two activities of one process, sessions that come and go, raw and codec frames.
SPECIFICATION FairSpec
CONSTANTS
  Indices = {0, 1}
  MaxActivity = 2
  MaxReady = 1
  MaxPub = 2
INVARIANTS
  TypeOK
  RefsBalanced
  StoppedIsClean
  FramesInSession
  PictureIsRecent
PROPERTIES
  NeverRevived
  VideoStays
  StopReturns
CHECK_DEADLOCK FALSE
