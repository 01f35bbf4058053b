SPECIFICATION FairSpec
CONSTANTS
  p1 = p1
  p2 = p2
  r1 = r1
  Nobody = Nobody
  NoRequest = NoRequest
  Peers <- MCLivePeers
  Requests <- MCRequests
  Segments <- MCLiveSegments
  SegLens <- MCSegLens
  SeqSpace <- MCSeqSpace
  ISS <- MCISS
  PageLen <- MCPageLen
  EstTimeout = 2
  CloseTimeout = 3
  SecsMax = 4
  NullTicks = 1
PROPERTIES
  PageThenClosed
