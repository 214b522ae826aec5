SPECIFICATION Spec
CONSTANTS
  Endpoint = {e1, e2}
  Program <- MCProgram
  Settings <- MCSettings
  NoHandle = NoHandle
  MaxHandles = 4
INVARIANTS HeldIsAttached NeverUnenforced
PROPERTIES SyncInstallsTargets
