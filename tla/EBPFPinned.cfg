SPECIFICATION Spec
CONSTANTS
  Endpoint = {e1}
  Key = {k1, k2, k3}
  Value = {allow, deny}
  Absent = Absent
  MaxEntries = 2
  Pinned = TRUE
  OverflowClear = TRUE
  Faults = {"map", "meta", "unlink"}
  Drift = TRUE
  MaxRevision = 2
INVARIANTS DeletesComeTooLate
PROPERTIES CommitInstallsNext

