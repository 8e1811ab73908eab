CONSTANTS
  Slices = 4
  Capacity = 2
  Drives = {"pump", "drain_all"}
SPECIFICATION FairSpec
INVARIANTS
  TypeOK
  SessionReleased
  HeldBounded
  PinHolds
PROPERTIES
  ImplementsPump
CHECK_DEADLOCK FALSE
