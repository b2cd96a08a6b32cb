\* close() and restarts against two connections, a waiter, every packet kind.
SPECIFICATION FairSpec
CONSTANTS
  Senders = {}
  Waiters = {w1}
  Kinds = {"TOUCH", "POSE", "ACK", "GOODBYE", "UNKNOWN", "BAD"}
  MaxConn = 2
  MaxInbox = 1
  MaxPackets = 1
  MaxSends = 0
  MaxStarts = 2
INVARIANTS
  NoLostWakeup
PROPERTIES
  CloseEndsReader
CHECK_DEADLOCK FALSE
