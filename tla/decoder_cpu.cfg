\* openxr_app.cpp line 234 promises a CPU fallback.  Violated.
SPECIFICATION Spec
CONSTANTS
  Frames = {0, 1}
  Sizes = {1}
  Oversize = {}
  Depth = 1
  MaxOffered = 3
INVARIANTS
  CpuFallback
CHECK_DEADLOCK FALSE
