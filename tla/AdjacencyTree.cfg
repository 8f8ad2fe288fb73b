SPECIFICATION Spec
CONSTANTS
  Addresses = {10, 20, 30}
  MaxNodes = 3
  MaxArcs = 3
INVARIANTS VectorsExact PoolsExact DestroysLive
PROPERTY UndefinedFromThree
\* A tree that is destroyed, or undefined, does nothing more.
CHECK_DEADLOCK FALSE
