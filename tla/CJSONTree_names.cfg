SPECIFICATION Spec
SYMMETRY Symmetry
CONSTANTS
  Item = {i1, i2, i3, i4, i5, i6}
  Name = {n1}
  NULL = NULL
INVARIANTS
  ChildrenNamed
CHECK_DEADLOCK FALSE
