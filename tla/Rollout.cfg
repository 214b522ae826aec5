SPECIFICATION FairSpec
CONSTANTS
  N = 3
  BatchSize = 2
  PressureSizes = {1}
  Blocking = {2}
  Gated = TRUE
  Settings <- MCSettings
  MaxVersion = 3
  MaxFrozen = 1
  Options <- MCMixed
INVARIANTS
  
  BlastRadius
  
PROPERTIES
  Converges
