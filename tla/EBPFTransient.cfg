SPECIFICATION Spec
CONSTANTS
  Endpoint = {e1, e2}
  Key = {k1, k2, k3}
  Value = {allow}
  Absent = Absent
  MaxEntries = 2
  Pinned = FALSE
  OverflowClear = TRUE
  Faults = {"map", "meta", "unlink"}
  Drift = FALSE
  MaxRevision = 2
 
PROPERTY ImplementsPolicyStore
