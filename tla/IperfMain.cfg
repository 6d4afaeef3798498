SPECIFICATION Spec
CONSTANT MaxArgs = 5
INVARIANTS
  HandsOverServerTest
PROPERTIES
  RoleExclusive
CHECK_DEADLOCK FALSE
