SPECIFICATION Spec
CONSTANTS
  Hashes = {1, 2}
  Data = {2, 3}
  RootHash = 9
  MaxNodes = 3
  MaxArcs = 4
INVARIANTS TableExact
PROPERTIES SubTreeKeepsArcs
