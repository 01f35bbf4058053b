SPECIFICATION SessionSpec
CONSTANTS
  p1 = p1
  p2 = p2
  r1 = r1
  Nobody = Nobody
  NoRequest = NoRequest
  Peers <- MCBoth
  Requests <- MCRequests
  Segments <- MCSegments
  SegLens <- MCSegLens
  SeqSpace <- MCSeqSpace
  ISS <- MCISS
  PageLen <- MCPageLen
  EstTimeout = 1
  CloseTimeout = 2
  SecsMax = 3
  NullTicks = 0
  Reliable = FALSE
  ReqLen = 2
  ToServerMax = 2
  ToClientMax = 1
SYMMETRY MCSymmetry
INVARIANTS
  EstablishedIsReal
PROPERTIES
  ForgetsOnlyDelivered
CHECK_DEADLOCK FALSE
