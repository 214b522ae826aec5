SPECIFICATION Spec
CONSTANTS
  AddrBits = 3
  PortBits = 4
  PriorityMax = 2
  Private <- MCPrivate
  FragNeeded <- MCFragNeeded
  TooBig = 2
  Neighbour <- MCNeighbour
  DefaultTTL = 0
  Observers = {"o1"}
  MaxClock = 4
  MaxAnswers = 2
  MaxFaults = 1
  Plans <- MCPlans
INVARIANTS
  CompiledMeansIntent
  
  GrantsAreLive
  SavedIsKept
CHECK_DEADLOCK FALSE
