CONSTANTS
  Block <- Blocks
  Packets <- SomePackets
  Plans <- AllPlans
  MaxChanges = 1
  MaxDrifts = 1
  MaxFaults = 1
SPECIFICATION Spec
INVARIANTS
  DesiredIsInstalled AcceptedIsNotRefused AuditTellsTheTruth RoutesAreUnambiguous
PROPERTIES RightRowsStay ForeignRowsStay Converges
