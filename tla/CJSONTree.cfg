SPECIFICATION Spec
SYMMETRY Symmetry
CONSTANTS
  Item = {i1, i2, i3, i4}
  Name = {n1}
  NULL = NULL
INVARIANTS
  TypeOK
  NothingDangling
  SiblingsLinked
  NothingLost
PROPERTIES
  ImplementsForest
CHECK_DEADLOCK FALSE
