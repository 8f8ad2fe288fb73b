SPECIFICATION TableSpec
CONSTANTS
  Keys = {1, 2, 3, 4, 5}
  Words = 8
  jump_distances <- Jumps
  MinBuckets = 3
  Values = {0, 1}
  Assigned = {2}
  Hashers <- Ascending
  Sizes = {0, 8}
INVARIANTS ChainsExact MapExact
