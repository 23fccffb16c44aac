SPECIFICATION Spec
CONSTANTS
  r1 = r1
  r2 = r2
  p1 = p1
  Requests <- MCRequests
  Passwords <- MCPasswords
  None = None
  Updates <- MCUpdates
  CallSigns <- MCCallSigns
  UsedPorts <- MCUsedPorts
  MaxSaves = 3
SYMMETRY MCSymmetry
CONSTRAINT Apart
INVARIANTS
  SavedStays
  UnitRestored
PROPERTY
  GateStays
CHECK_DEADLOCK FALSE
