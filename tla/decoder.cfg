\* Frames sent again and out of order, surfaces that come and go.
SPECIFICATION Spec
CONSTANTS
  Frames = {0, 2, 3}
  Sizes = {1, 2}
  Oversize = {0}
  Depth = 2
  MaxOffered = 1
INVARIANTS
  TypeOK
  PublishedOnBothEyes
PROPERTIES
  ImplementsPublisher
CHECK_DEADLOCK FALSE
