\* tests/test_quest3_api.py: the state wait_for_state returns holds the POSE
\* that was sent before the call.  Violated.
SPECIFICATION Spec
CONSTANTS
  Senders = {}
  Waiters = {w1}
  Kinds = {"POSE"}
  MaxConn = 1
  MaxInbox = 1
  MaxPackets = 1
  MaxSends = 0
  MaxStarts = 1
INVARIANTS
  WaitSeesSentPose
CHECK_DEADLOCK FALSE
