SPECIFICATION Spec
CONSTANTS
  None = None
  w1 = w1
  w2 = w2
  Id <- MCId
  Ip <- MCIp
  TableSize = 3
  Offset <- MCOffset
  Plans <- AllPlans
  MaxChanges = 2
  MaxDrifts = 1
  MaxFaults = 1
INVARIANTS Installed
PROPERTIES RightStays ConvergesUnlessHalfMade
