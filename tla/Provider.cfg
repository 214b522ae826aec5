CONSTANTS
  QueueId = {"1", "2"}
  Nic = {"e1", "e2"}
  Plans <- AllPlans
  MaxChanges = 1
  MaxDrifts = 1
  MaxFaults = 1
SPECIFICATION Spec
INVARIANTS InSync 
PROPERTIES  Converges
