SPECIFICATION Spec
CONSTANTS
  d1 = d1
  d2 = d2
  d3 = d3
  NoDesc = NoDesc
  Descs <- MCDescs
  MaxJobs = 2
SYMMETRY MCSymmetry
CHECK_DEADLOCK FALSE
INVARIANTS
  OnlyBuilt
  NoLostCompletion
  NoTransferForgotten
PROPERTIES
  SyncIsComplete
