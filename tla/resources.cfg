SPECIFICATION Spec
CONSTANT Views = 2
INVARIANTS
  DependantsFirst
  NothingLeft
