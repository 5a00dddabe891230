SPECIFICATION Spec
CONSTANTS
  Names = {l1, l2}
  Pools = {p1}
  Versions = {1, 2}
  MaxEdits = 2
SYMMETRY Interchangeable
CHECK_DEADLOCK FALSE
INVARIANTS
  NoEditMissed
PROPERTY StaysServed
