SPECIFICATION Spec
CONSTANTS
  Heads = {h1, h2}
  Entries = {e1, e2, e3}
  NULL = NULL
INVARIANTS
  TypeOK
  Rings
  TraversalInStep
PROPERTIES
  ImplementsLists
