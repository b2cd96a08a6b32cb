\* Two senders, reconnects, close() and one restart: safety.
SPECIFICATION Spec
CONSTANTS
  Senders = {s1, s2}
  Waiters = {}
  Kinds = {"GOODBYE"}
  MaxConn = 2
  MaxInbox = 1
  MaxPackets = 1
  MaxSends = 2
  MaxStarts = 1
SYMMETRY Symmetry
INVARIANTS
  TypeOK
  PacketsContiguous
  SeqIncreases
  ConnectedOnlyWhileServing
  ServedIsReachable
CHECK_DEADLOCK FALSE
