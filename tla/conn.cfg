SPECIFICATION FairSpec
CONSTANTS
  p1 = p1
  p2 = p2
  r1 = r1
  Nobody = Nobody
  NoRequest = NoRequest
  Peers <- MCPeers
  Requests <- MCRequests
  Segments <- MCSegments
  SegLens <- MCSegLens
  SeqSpace <- MCSeqSpace
  ISS <- MCISS
  PageLen <- MCPageLen
  EstTimeout = 2
  CloseTimeout = 3
  SecsMax = 4
  NullTicks = 1
INVARIANTS
  TypeOK
  TimerCovers
  SendWindow
PROPERTIES
  KeepsPromise
  ConnectionsEnd
