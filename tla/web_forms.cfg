SPECIFICATION WebSpec
CONSTANTS
  p1 = p1
  hello = hello
  NoText = NoText
  Garbled = Garbled
  Nobody = Nobody
  NoRequest = NoRequest
  Texts <- MCTexts
  Peers <- MCPeers
  Requests <- MCRequests
  Segments <- MCSegments
  SegLens <- MCSegLens
  SeqSpace <- MCSeqSpace
  ISS <- MCISS
  PageLen <- MCPageLen
  EstTimeout = 1
  CloseTimeout = 2
  SecsMax = 3
  NullTicks = 0
INVARIANTS
  NoTextForgotten
PROPERTIES
  FormShownUnlessOverwritten
