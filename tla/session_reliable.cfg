SPECIFICATION SessionFairSpec
CONSTANTS
  p1 = p1
  p2 = p2
  r1 = r1
  Nobody = Nobody
  NoRequest = NoRequest
  Peers <- MCBoth
  Requests <- MCRequests
  Segments <- MCSegments
  SegLens <- MCSegLens
  SeqSpace <- MCSeqSpace
  ISS <- MCISS
  PageLen <- MCPageLen
  EstTimeout = 2
  CloseTimeout = 3
  SecsMax = 4
  NullTicks = 1
  Reliable = TRUE
  ReqLen = 2
  ToServerMax = 3
  ToClientMax = 3
PROPERTIES
  AskedIsServed
  DiesDown
CHECK_DEADLOCK FALSE
