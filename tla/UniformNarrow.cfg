SPECIFICATION DrawSpec
CONSTANTS
  W = 16
  Promoted = TRUE
INVARIANT Uniform
