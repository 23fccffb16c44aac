SPECIFICATION Spec
CONSTANTS
  m1 = m1
  m2 = m2
  r1 = r1
  r2 = r2
  Messages <- MCMessages
  Requests <- MCRequests
  NoMessage = NoMessage
  Routes = {"cms", "rf"}
  Single = TRUE
  Faults = {"raise", "crash"}
SYMMETRY MCSymmetry
INVARIANT
  SendingOwned
PROPERTY
  DeletedStaysDeleted
