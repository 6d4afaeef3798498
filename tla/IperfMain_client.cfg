SPECIFICATION Spec
CONSTANT MaxArgs = 5
INVARIANTS
  ClientModeStarts
CHECK_DEADLOCK FALSE
