\* Frames skipped, sent again, connections lost, the headset restarted; and what
\* becomes of the stream when the connection holds.  Seven is the
\* least for an acknowledgement that goes back to leave frames outside the window.
SPECIFICATION FairSpec
CONSTANTS
  MaxFrame = 7
  MaxMissed = 1
  MaxFlight = 1
  Age = 1
INVARIANTS
  TypeOK
  WindowHolds
  AcksTrackPublished
PROPERTIES
  NoRestartInWindow
  StreamAdvances
CHECK_DEADLOCK FALSE
