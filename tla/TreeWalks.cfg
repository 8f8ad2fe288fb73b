SPECIFICATION Spec
CONSTANTS
  MaxNodes = 4
  TraverseArcs = 4
  SortArcs = 5
  NoData = d0
INVARIANTS LoopInv ArcsOnce ReachMetOnce Topological SortsLeastSet
PROPERTIES NearestFirst DeeperFirst Returns
