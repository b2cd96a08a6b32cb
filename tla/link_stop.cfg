\* The same with fair threads: who stops, and what can keep it from stopping.
SPECIFICATION FairSpec
CONSTANTS
  MaxConn = 2
  Cap = 1
  MaxPose = 1
PROPERTIES
  HostStops
  TransportStops
CHECK_DEADLOCK FALSE
