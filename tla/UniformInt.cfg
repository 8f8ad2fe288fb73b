SPECIFICATION DrawSpec
CONSTANTS
  W = 16
  Promoted = FALSE
INVARIANTS InInterval Uniform
