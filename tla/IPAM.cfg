SPECIFICATION Spec
CONSTANTS
  Owner = {o1, o2, o3, o4, o5}
  NoOwner = NoOwner
  Network = 0
  Broadcast = 7
  FamilyLast = 255
  Reserved <- MCReserved
  Excluded <- MCExcluded
INVARIANTS TablesAgree
PROPERTIES AddressStable 
