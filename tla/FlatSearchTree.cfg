SPECIFICATION Spec
CONSTANTS
  Data = {d0}
  NoData = d0
  MaxNodes = 3
  MaxArcs = 5
INVARIANTS TypeOK ListsExact CursorExact LinkFindsOldest
PROPERTIES IterationComplete OnlyGrows ImplementsGraph
