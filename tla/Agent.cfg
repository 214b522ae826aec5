SPECIFICATION FairSpec
CONSTANTS
  e1 = e1
  e2 = e2
  v1 = v1
  v2 = v2
  Endpoint = {e1}
  Version <- MCVersion
  Gone = Gone
  Deny = Deny
  Uses <- MCUses
INVARIANTS
  NoStaleConntrack
PROPERTIES
  FrozenIsHeld
  Settles
