SPECIFICATION Spec
CONSTANTS
  Move = {m1, m2}
  NoMove = m0
  Iterations = 6
INVARIANTS MovesBecomeArcs GrowsTree
PROPERTY Terminates
\* The driver ends.
CHECK_DEADLOCK FALSE
