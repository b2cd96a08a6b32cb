\* Two connections, full buffers, both sides stopping: the safety part.
SPECIFICATION Spec
CONSTANTS
  MaxConn = 2
  Cap = 2
  MaxPose = 2
INVARIANTS
  TypeOK
  OpenIsServed
  PacketsIgnoreReads
  ParsersAgree
PROPERTIES
  PosesInOrder
CHECK_DEADLOCK FALSE
