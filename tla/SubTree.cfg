SPECIFICATION Spec
CONSTANTS
  MaxNodes = 3
  MaxArcs = 4
INVARIANTS LoopInv MovedOnce ResultExact
PROPERTIES Returns
