\* Encoders of different delay, ffmpeg exiting, one close() and a new start.
\* With the splitting of ffmpeg's output over all streams of three pieces.
SPECIFICATION Spec
CONSTANTS
  MaxSubmits = 6
  MaxCloses = 1
INVARIANTS
  UnitsIgnoreReads
  OneUnitPerPicture
  TypeOK
  PairsMatch
  LagCounted
PROPERTIES
  PairsInOrder
CHECK_DEADLOCK FALSE
