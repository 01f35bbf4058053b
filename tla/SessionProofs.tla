--------------------------- MODULE SessionProofs ---------------------------
(***************************************************************************)
(* Proofs about TcpSession, for any number of clients, any requests and    *)
(* channels of any length, on a reliable network and on one that loses,    *)
(* duplicates and reorders; and about WebServer, for any requests.         *)
(***************************************************************************)
EXTENDS TcpSession, WebServer, TcpConnProofs

Connected == {"estab", "fin_sent", "done"}

(* What a segment that acknowledges n tells of the client it came from.    *)
KnowsOf(c, n) ==
  /\ c.st \in Connected
  /\ n = ISS + 2 => c.finRcvd
  /\ n = ISS + PageLen + 1 => c.finRcvd /\ c.page

SentFlags(st) == IF st = "closed" THEN 0 ELSE IF st \in {"fin_sent", "done"} THEN 2 ELSE 1

ClientOK(c) ==
  /\ c \in Client
  /\ c.una <= c.nxt /\ (c.st \in Connected => 0 < c.una)
  /\ c.st \notin Connected => ~c.asked /\ c.rcv = 0
  /\ c.st \in Connected => c.rcv \in RcvNumbers /\ KnowsOf(c, c.rcv)
  /\ c.nxt = (IF c.asked THEN ReqLen ELSE 0) + SentFlags(c.st)

SegmentOK(m) ==
  /\ m \in ClientSegment
  /\ m.ack => KnowsOf(client[m.src], m.ackNum)

PacketOK(m) ==
  /\ m.to \in Peers /\ m.ack \in SeqNo
  /\ \/ m.flags = "synack" /\ m.seq = ISS /\ m.len = 0
     \/ m.flags = "finack" /\ m.seq = ISS /\ m.len = PageLen
     \/ m.flags = "finack" /\ m.seq = ISS + 1 /\ m.len = 0
     \/ m.flags = "ack" /\ m.len = 0

ClientsOK  == client \in [Peers -> Client] /\ \A p \in Peers : ClientOK(client[p])
SegmentsOK == \A i \in 1 .. Len(toServer) : SegmentOK(toServer[i])
PacketsOK  == \A i \in 1 .. Len(toClient) : PacketOK(toClient[i])

ChannelsOK == toServer \in Seq(ClientSegment) /\ toClient \in Seq(Packet)

SessionInv == /\ ConnInv /\ ClientsOK /\ ChannelsOK /\ SegmentsOK /\ PacketsOK
              /\ EstablishedIsReal

-----------------------------------------------------------------------------
(* The numbers.                                                            *)
LEMMA NoWrap ==
  /\ ISS \in Nat /\ PageLen \in Nat /\ PageLen > 1 /\ SeqSpace \in Nat
  /\ ISS + PageLen + 2 < SeqSpace
  /\ Add(ISS, 1) = ISS + 1 /\ Add(ISS, 2) = ISS + 2
  /\ Add(ISS, PageLen + 1) = ISS + PageLen + 1
  /\ RcvNumbers \subseteq SeqNo
  /\ ReqLen \in Nat /\ ReqLen > 1
BY ConnAssumption, SessionAssumption DEF Add, SeqNo, RcvNumbers

(* What the network does to a channel: whatever holds of every message in  *)
(* it holds of every message left.                                         *)
LEMMA Removed ==
  ASSUME NEW S, NEW chan \in Seq(S), NEW i \in 1 .. Len(chan)
  PROVE  /\ RemoveAt(chan, i) \in Seq(S)
         /\ \A j \in 1 .. Len(RemoveAt(chan, i)) :
              \E k \in 1 .. Len(chan) : RemoveAt(chan, i)[j] = chan[k]
<1> DEFINE a == SubSeq(chan, 1, i - 1)
           b == SubSeq(chan, i + 1, Len(chan))
<1>1. RemoveAt(chan, i) = a \o b
  BY DEF RemoveAt
<1>2. /\ a \in Seq(S) /\ Len(a) = i - 1 /\ \A j \in 1 .. i - 1 : a[j] = chan[j]
  OBVIOUS
<1>3. /\ b \in Seq(S) /\ Len(b) = Len(chan) - i
      /\ \A j \in 1 .. Len(chan) - i : b[j] = chan[i + j]
  OBVIOUS
<1> HIDE DEF a, b
<1>4. ASSUME NEW j \in 1 .. Len(a \o b) PROVE \E k \in 1 .. Len(chan) : (a \o b)[j] = chan[k]
  <2>1. CASE j <= i - 1
    BY <1>2, <1>3, <2>1, SMTT(30)
  <2>2. CASE j > i - 1
    <3>1. (a \o b)[j] = b[j - (i - 1)] /\ j - (i - 1) \in 1 .. Len(chan) - i
      BY <1>2, <1>3, <2>2
    <3>2. (a \o b)[j] = chan[i + (j - (i - 1))] /\ i + (j - (i - 1)) \in 1 .. Len(chan)
      BY <1>3, <3>1
    <3> QED BY <3>2
  <2> QED BY <2>1, <2>2, SMTT(30)
<1> QED BY <1>1, <1>2, <1>3, <1>4

LEMMA StillIn ==
  ASSUME NEW S, NEW chan \in Seq(S), NEW i \in Arriving(chan), NEW rest \in After(chan, i)
  PROVE  /\ i \in 1 .. Len(chan) /\ rest \in Seq(S)
         /\ \A j \in 1 .. Len(rest) : \E k \in 1 .. Len(chan) : rest[j] = chan[k]
<1>1. i \in 1 .. Len(chan)
  BY DEF Arriving
<1>2. rest = RemoveAt(chan, i) \/ rest = chan
  BY DEF After
<1> QED BY <1>1, <1>2, Removed

LEMMA Added ==
  ASSUME NEW S, NEW chan \in Seq(S), NEW m \in S
  PROVE  /\ Append(chan, m) \in Seq(S)
         /\ \A j \in 1 .. Len(Append(chan, m)) :
              Append(chan, m)[j] = m \/ \E k \in 1 .. Len(chan) : Append(chan, m)[j] = chan[k]
OBVIOUS

-----------------------------------------------------------------------------
(* The server: what it sends, and which clients it takes for connected.    *)
LEMMA WindowNumbers ==
  ASSUME ConnInv
  PROVE  /\ state \in {"SYN_RECEIVED", "ESTABLISHED"} => AfterAck = ISS
         /\ state = "FIN_WAIT" =>
              \/ Expected = ISS + PageLen + 1
              \/ Expected = ISS + 2 /\ last_sended_len = 0
         /\ state = "LAST_ACK" => Expected = ISS + 2 /\ last_sended_len = 0
<1>1. CASE state \in {"SYN_RECEIVED", "ESTABLISHED"}
  BY <1>1, NothingToAck DEF ConnInv, SendWindow
<1>2. ASSUME PageSent PROVE Expected = ISS + PageLen + 1
  BY <1>2, NoWrap DEF PageSent, Expected
<1>3. ASSUME NEW cmd, FinSent(cmd) PROVE Expected = ISS + 2 /\ last_sended_len = 0
  BY <1>3, NoWrap DEF FinSent, Expected, Add
<1> QED BY <1>1, <1>2, <1>3 DEF ConnInv, SendWindow

LEMMA PktFields ==
  ASSUME NEW to, NEW flags, NEW seq, NEW ack, NEW len
  PROVE  LET m == TcpPkt(to, flags, seq, ack, len)
         IN m.to = to /\ m.flags = flags /\ m.seq = seq /\ m.ack = ack /\ m.len = len
BY DEF TcpPkt

LEMMA ReplyOK ==
  ASSUME ConnInv, NEW f \in Segments, RxSegment(f)
  PROVE  out' \in Packet /\ (out'.flags = "none" \/ PacketOK(out'))
<1>1. out' \in Packet /\ seq_num' \in SeqNo
  BY SegmentInv DEF ConnInv, TypeOK
<1>2. f.src \in Peers /\ dest \in Peers
  BY SegmentFields DEF ConnInv, TypeOK
<1>3. NoPacket.flags = "none"
  BY DEF NoPacket
<1>4. CASE ListenSyn(f)
  BY <1>1, <1>2, <1>4, PktFields DEF ListenSyn, PacketOK
<1>5. CASE EstablishedGet(f)
  <2>1. AfterAck = ISS
    BY <1>5, WindowNumbers DEF EstablishedGet
  <2> QED BY <1>1, <1>2, <1>5, <2>1, PktFields DEF EstablishedGet, PacketOK
<1>6. CASE EstablishedFin(f)
  <2>1. Add(AfterAck, 1) = ISS + 1
    BY <1>6, WindowNumbers, NoWrap DEF EstablishedFin
  <2> QED BY <1>1, <1>2, <1>6, <2>1, PktFields DEF EstablishedFin, PacketOK
<1>7. CASE EstablishedAck(f)
  BY <1>1, <1>2, <1>7, PktFields DEF EstablishedAck, PacketOK
<1>8. CASE FinWaitFin(f)
  BY <1>1, <1>2, <1>8, PktFields DEF FinWaitFin, PacketOK
<1>9. CASE ListenOther(f) \/ SynReceivedAck(f) \/ LastAckAck(f) \/ NotAcked(f) \/ Ignored(f)
  BY <1>1, <1>3, <1>9 DEF ListenOther, SynReceivedAck, LastAckAck, NotAcked, Ignored
<1> QED BY <1>4, <1>5, <1>6, <1>7, <1>8, <1>9 DEF RxSegment

LEMMA TimeoutOK ==
  ASSUME ConnInv, TimeoutIsr
  PROVE  out' \in Packet /\ (out'.flags = "none" \/ PacketOK(out'))
<1>1. out' \in Packet /\ seq_num' \in SeqNo /\ dest \in Peers
  BY TimeoutInv DEF ConnInv, TypeOK
<1>2. NoPacket.flags = "none"
  BY DEF NoPacket
<1>3. CASE TickIdleClose
  <2>1. Add(last_acked, 1) = ISS + 1
    BY <1>3, NoWrap DEF TickIdleClose, ConnInv, SendWindow, NothingSent
  <2> QED BY <1>1, <1>3, <2>1, PktFields DEF TickIdleClose, PacketOK
<1>4. CASE TickDrop \/ TickCount \/ TickStop
  BY <1>1, <1>2, <1>4 DEF TickDrop, TickCount, TickStop
<1> QED BY <1>3, <1>4 DEF TimeoutIsr

LEMMA TransmitKeeps ==
  ASSUME ChannelsOK, PacketsOK, Transmit,
         out' \in Packet, out'.flags = "none" \/ PacketOK(out')
  PROVE  toClient' \in Seq(Packet) /\ PacketsOK'
<1>1. CASE out'.flags = "none"
  BY <1>1 DEF Transmit, ChannelsOK, PacketsOK, PacketOK
<1>2. CASE out'.flags # "none"
  <2>1. toClient' = Append(toClient, out') /\ PacketOK(out')
    BY <1>2 DEF Transmit
  <2>2. /\ toClient' \in Seq(Packet)
        /\ \A j \in 1 .. Len(toClient') :
             toClient'[j] = out' \/ \E k \in 1 .. Len(toClient) : toClient'[j] = toClient[k]
    BY <2>1, Added DEF ChannelsOK
  <2> QED BY <2>1, <2>2 DEF PacketsOK, PacketOK
<1> QED BY <1>1, <1>2

LEMMA DeliveredOK ==
  ASSUME SessionInv, NEW i \in Arriving(toServer)
  PROVE  toServer[i] \in Segments /\ SegmentOK(toServer[i])
<1>1. i \in 1 .. Len(toServer)
  BY DEF Arriving, SessionInv, ChannelsOK
<1> QED BY <1>1, SessionAssumption DEF SessionInv, ChannelsOK, SegmentsOK

LEMMA RealOnReceive ==
  ASSUME ConnInv, EstablishedIsReal, NEW f \in Segments, SegmentOK(f), RxSegment(f),
         client' = client
  PROVE  EstablishedIsReal'
<1>1. CASE SynReceivedAck(f)
  <2>1. f.src = dest /\ f.ack /\ dest' = dest
    BY <1>1 DEF SynReceivedAck, FromPeer
  <2> QED BY <2>1 DEF SegmentOK, KnowsOf, Connected, EstablishedIsReal
<1>2. CASE ListenSyn(f) \/ ListenOther(f) \/ FinWaitFin(f) \/ LastAckAck(f)
  BY <1>2 DEF ListenSyn, ListenOther, FinWaitFin, LastAckAck, EstablishedIsReal
<1>3. CASE EstablishedGet(f) \/ EstablishedFin(f) \/ EstablishedAck(f) \/ NotAcked(f) \/ Ignored(f)
  BY <1>3 DEF EstablishedGet, EstablishedFin, EstablishedAck, NotAcked, Ignored, conn,
     EstablishedIsReal
<1> QED BY <1>1, <1>2, <1>3 DEF RxSegment

LEMMA RealOnTick ==
  ASSUME EstablishedIsReal, TimeoutIsr, client' = client
  PROVE  EstablishedIsReal'
BY DEF EstablishedIsReal, TimeoutIsr, TickIdleClose, TickDrop, TickCount, TickStop, conn

LEMMA ServerReceiveKeeps == ASSUME SessionInv, ServerReceive PROVE SessionInv'
<1>1. PICK i \in Arriving(toServer) : RxSegment(toServer[i]) /\ toServer' \in After(toServer, i)
  BY DEF ServerReceive
<1>2. toServer[i] \in Segments /\ SegmentOK(toServer[i])
  BY DeliveredOK
<1>3. ConnInv'
  BY <1>1, <1>2, SegmentInv DEF SessionInv
<1>4. toClient' \in Seq(Packet) /\ PacketsOK'
  BY <1>1, <1>2, ReplyOK, TransmitKeeps DEF SessionInv, ServerReceive
<1>5. /\ toServer' \in Seq(ClientSegment)
      /\ \A j \in 1 .. Len(toServer') : \E k \in 1 .. Len(toServer) : toServer'[j] = toServer[k]
  BY <1>1, StillIn DEF SessionInv, ChannelsOK
<1>6. client' = client
  BY DEF ServerReceive
<1>7. SegmentsOK' /\ ClientsOK'
  BY <1>5, <1>6 DEF SessionInv, SegmentsOK, SegmentOK, ClientsOK
<1>8. EstablishedIsReal'
  BY <1>1, <1>2, <1>6, RealOnReceive DEF SessionInv
<1> QED BY <1>3, <1>4, <1>5, <1>7, <1>8 DEF SessionInv, ChannelsOK

LEMMA ServerTickKeeps == ASSUME SessionInv, ServerTick PROVE SessionInv'
<1>1. TimeoutIsr /\ Transmit /\ client' = client /\ toServer' = toServer
  BY DEF ServerTick
<1>2. ConnInv' /\ toClient' \in Seq(Packet) /\ PacketsOK'
  BY <1>1, TimeoutInv, TimeoutOK, TransmitKeeps DEF SessionInv
<1>3. ClientsOK' /\ SegmentsOK' /\ EstablishedIsReal'
  BY <1>1, RealOnTick DEF SessionInv, ClientsOK, SegmentsOK, SegmentOK
<1> QED BY <1>1, <1>2, <1>3 DEF SessionInv, ChannelsOK

LEMMA ServerElsewhereKeeps ==
  ASSUME SessionInv, ServerMain \/ UNCHANGED sessionVars
  PROVE  SessionInv'
<1>1. /\ client' = client /\ toServer' = toServer /\ toClient' = toClient
      /\ state' = state /\ dest' = dest
  BY DEF ServerMain, sessionVars, MainTakeRequest, vars, conn
<1>2. ConnInv'
  BY StepInv DEF SessionInv, ServerMain, sessionVars, Next
<1> QED BY <1>1, <1>2 DEF SessionInv, ClientsOK, ChannelsOK, SegmentsOK, SegmentOK, PacketsOK,
        PacketOK, EstablishedIsReal

-----------------------------------------------------------------------------
(* The network and the clients leave the server alone.                     *)
LEMMA ServerRests ==
  ASSUME ConnInv, UNCHANGED vars
  PROVE  ConnInv' /\ state' = state /\ dest' = dest
BY StepInv DEF vars, conn

LEMMA LoseKeeps == ASSUME SessionInv, Lose PROVE SessionInv'
<1>1. UNCHANGED vars /\ client' = client
  BY DEF Lose
<1>2. ConnInv' /\ ClientsOK' /\ EstablishedIsReal'
  BY <1>1, ServerRests DEF SessionInv, ClientsOK, EstablishedIsReal
<1>3. /\ toServer' \in Seq(ClientSegment)
      /\ \A j \in 1 .. Len(toServer') : \E k \in 1 .. Len(toServer) : toServer'[j] = toServer[k]
  BY Removed DEF Lose, SessionInv, ChannelsOK
<1>4. /\ toClient' \in Seq(Packet)
      /\ \A j \in 1 .. Len(toClient') : \E k \in 1 .. Len(toClient) : toClient'[j] = toClient[k]
  BY Removed DEF Lose, SessionInv, ChannelsOK
<1>5. SegmentsOK'
  BY <1>1, <1>3 DEF SessionInv, SegmentsOK, SegmentOK
<1>6. PacketsOK'
  BY <1>4 DEF SessionInv, PacketsOK, PacketOK
<1> QED BY <1>2, <1>3, <1>4, <1>5, <1>6 DEF SessionInv, ChannelsOK

(* What a client has it keeps.                                             *)
Grows(c, d) ==
  /\ c.st \in Connected => d.st \in Connected
  /\ c.finRcvd => d.finRcvd
  /\ c.page => d.page

(* What a client sends: nothing, or a segment that tells what it is.       *)
Says(p, c) ==
  \/ toServer' = toServer
  \/ \E m \in ClientSegment : /\ toServer' = Append(toServer, m)
                             /\ m.src = p /\ (m.ack => KnowsOf(c, m.ackNum))

LEMMA ClientKeeps ==
  ASSUME SessionInv, UNCHANGED vars,
         NEW p \in Peers, NEW c, ClientOK(c), Grows(client[p], c),
         client' = [client EXCEPT ![p] = c], Says(p, c),
         toClient' \in Seq(Packet),
         \A j \in 1 .. Len(toClient') : \E k \in 1 .. Len(toClient) : toClient'[j] = toClient[k]
  PROVE  SessionInv'
<1>1. ConnInv' /\ state' = state /\ dest' = dest /\ dest \in Peers
  BY ServerRests DEF SessionInv, ConnInv, TypeOK
<1>2. /\ client' \in [Peers -> Client]
      /\ \A q \in Peers : client'[q] = IF q = p THEN c ELSE client[q]
  BY DEF SessionInv, ClientsOK, ClientOK
<1>3. ClientsOK'
  BY <1>2 DEF SessionInv, ClientsOK
<1>4. ASSUME NEW q \in Peers, NEW n, KnowsOf(client[q], n) PROVE KnowsOf(client'[q], n)
  BY <1>2, <1>4 DEF KnowsOf, Grows
<1>5. ASSUME NEW m \in ClientSegment, SegmentOK(m) PROVE SegmentOK(m)'
  <2>1. m.src \in Peers
    BY DEF ClientSegment
  <2> QED BY <1>4, <1>5, <2>1 DEF SegmentOK
<1>6. toServer' \in Seq(ClientSegment) /\ SegmentsOK'
  <2>1. toServer \in Seq(ClientSegment) /\ SegmentsOK
    BY DEF SessionInv, ChannelsOK
  <2>2. CASE toServer' = toServer
    BY <1>5, <2>1, <2>2 DEF SegmentsOK
  <2>3. ASSUME NEW m \in ClientSegment, toServer' = Append(toServer, m),
               m.src = p, m.ack => KnowsOf(c, m.ackNum)
        PROVE  toServer' \in Seq(ClientSegment) /\ SegmentsOK'
    <3>1. SegmentOK(m)'
      BY <1>2, <2>3 DEF SegmentOK
    <3>2. /\ toServer' \in Seq(ClientSegment)
          /\ \A j \in 1 .. Len(toServer') :
               toServer'[j] = m \/ \E k \in 1 .. Len(toServer) : toServer'[j] = toServer[k]
      BY <2>1, <2>3, Added
    <3>3. ASSUME NEW j \in 1 .. Len(toServer') PROVE SegmentOK(toServer[j])'
      <4>1. CASE toServer'[j] = m
        BY <3>1, <4>1 DEF SegmentOK
      <4>2. ASSUME NEW k \in 1 .. Len(toServer), toServer'[j] = toServer[k]
            PROVE  SegmentOK(toServer[j])'
        <5> DEFINE n == toServer[k]
        <5>1. n \in ClientSegment /\ SegmentOK(n)
          BY <2>1 DEF SegmentsOK
        <5> HIDE DEF n
        <5>2. n.src \in Peers
          BY <5>1 DEF ClientSegment
        <5>3. n.ack => KnowsOf(client'[n.src], n.ackNum)
          BY <1>4, <5>1, <5>2 DEF SegmentOK
        <5> QED BY <4>2, <5>1, <5>3 DEF SegmentOK, n
      <4> QED BY <3>2, <4>1, <4>2
    <3> QED BY <3>2, <3>3 DEF SegmentsOK
  <2> QED BY <2>2, <2>3 DEF Says
<1>7. PacketsOK'
  BY DEF SessionInv, PacketsOK, PacketOK
<1>8. EstablishedIsReal'
  BY <1>1, <1>2 DEF SessionInv, EstablishedIsReal, Grows, Connected
<1> QED BY <1>1, <1>3, <1>6, <1>7, <1>8 DEF SessionInv, ChannelsOK

LEMMA SaysOne ==
  ASSUME NEW p \in Peers, NEW c, NEW d, c.rcv \in RcvNumbers,
         NEW syn \in BOOLEAN, NEW fin \in BOOLEAN,
         NEW seq \in 0 .. ReqLen + 2, NEW len \in 0 .. ReqLen,
         toServer' = Append(toServer, ClientSeg(p, c, syn, fin, seq, len)),
         syn \/ KnowsOf(d, c.rcv)
  PROVE  Says(p, d)
<1> DEFINE r == IF len = ReqLen THEN CHOOSE r \in Requests : TRUE ELSE NoRequest
           m == [src |-> p, syn |-> syn, ack |-> ~syn, fin |-> fin, seq |-> seq,
                 ackNum |-> c.rcv, len |-> len, req |-> r]
<1>1. r \in Requests \cup {NoRequest}
  BY SessionAssumption
<1>2. ClientSeg(p, c, syn, fin, seq, len) = m
  BY DEF ClientSeg
<1> HIDE DEF r
<1>3. (~syn) \in BOOLEAN
  OBVIOUS
<1>4. m \in ClientSegment
  BY <1>1, <1>3, Zenon DEF ClientSegment
<1>5. m.src = p /\ m.ackNum = c.rcv /\ (m.ack <=> ~syn)
  OBVIOUS
<1> HIDE DEF m
<1> QED BY <1>2, <1>4, <1>5 DEF Says

LEMMA RequestFits == ASSUME NEW p \in Peers PROVE 0 .. ReqLen + 2 \subseteq SeqNo
<1> SUFFICES ASSUME NEW n \in 0 .. ReqLen + 2 PROVE n \in SeqNo
  OBVIOUS
<1> DEFINE m == [src |-> p, syn |-> TRUE, ack |-> FALSE, fin |-> FALSE, seq |-> n,
                 ackNum |-> 0, len |-> 0, req |-> NoRequest]
<1>1. 0 \in RcvNumbers /\ 0 \in 0 .. ReqLen
  BY SessionAssumption DEF RcvNumbers
<1>2. m \in ClientSegment
  BY <1>1, Zenon DEF ClientSegment
<1>3. m \in Segment
  BY <1>2, SessionAssumption, ConnAssumption
<1> QED BY <1>3 DEF Segment

(* The facts about a client that its steps use.                            *)
LEMMA ClientFacts ==
  ASSUME SessionInv, NEW p \in Peers
  PROVE  LET c == client[p]
         IN  /\ c \in Client /\ c.una \in Nat /\ c.nxt \in Nat /\ c.una <= c.nxt
             /\ c.rcv \in RcvNumbers /\ c.asked \in BOOLEAN
             /\ c.st \in Connected => 0 < c.una /\ KnowsOf(c, c.rcv)
             /\ c.st \notin Connected => ~c.asked /\ c.rcv = 0
             /\ c.nxt = (IF c.asked THEN ReqLen ELSE 0) + SentFlags(c.st)
             /\ c.nxt <= ReqLen + 2
<1>1. client[p] \in Client /\ ClientOK(client[p])
  BY DEF SessionInv, ClientsOK
<1>2. /\ client[p].una \in Nat /\ client[p].nxt \in Nat
      /\ client[p].asked \in BOOLEAN
  BY <1>1, NoWrap DEF Client, SeqNo
<1>3. client[p].rcv \in RcvNumbers
  BY <1>1 DEF ClientOK, RcvNumbers
<1>4. SentFlags(client[p].st) \in 0 .. 2
  BY DEF SentFlags
<1>5. client[p].nxt <= ReqLen + 2
  BY <1>1, <1>2, <1>4, NoWrap DEF ClientOK
<1> QED BY <1>1, <1>2, <1>3, <1>5 DEF ClientOK

LEMMA ConnectKeeps == ASSUME SessionInv, NEW p \in Peers, Connect(p) PROVE SessionInv'
<1> DEFINE c == [client[p] EXCEPT !.st = "syn_sent", !.nxt = 1]
<1>1. /\ client[p] \in Client /\ client[p].una <= client[p].nxt /\ client[p].rcv = 0
      /\ client[p].nxt = 0 /\ ~client[p].asked /\ client[p].una \in Nat
  BY ClientFacts DEF Connect, Connected, SentFlags
<1>2. 1 \in SeqNo
  BY NoWrap DEF SeqNo
<1>3. /\ c \in Client /\ c.st = "syn_sent" /\ c.nxt = 1 /\ c.una = client[p].una
      /\ c.asked = client[p].asked /\ c.rcv = client[p].rcv
      /\ c.finRcvd = client[p].finRcvd /\ c.page = client[p].page
  BY <1>1, <1>2 DEF Client
<1>4. client' = [client EXCEPT ![p] = c] /\ UNCHANGED vars /\ toClient' = toClient
  BY DEF Connect, ClientMoves
<1> HIDE DEF c
<1>5. ClientOK(c) /\ Grows(client[p], c)
  BY <1>1, <1>3 DEF ClientOK, Grows, Connected, SentFlags, Connect
<1>6. Says(p, c)
  <2>1. toServer' = Append(toServer, ClientSeg(p, client[p], TRUE, FALSE, 0, 0))
    BY DEF Connect, ClientSends
  <2>2. 0 \in 0 .. ReqLen + 2 /\ 0 \in 0 .. ReqLen /\ client[p].rcv \in RcvNumbers
    BY <1>1, NoWrap DEF RcvNumbers
  <2>3. TRUE \in BOOLEAN /\ FALSE \in BOOLEAN
    OBVIOUS
  <2> QED BY <2>1, <2>2, <2>3, SaysOne, Zenon
<1> QED BY <1>4, <1>5, <1>6, ClientKeeps DEF SessionInv, ChannelsOK

LEMMA RequestKeeps == ASSUME SessionInv, NEW p \in Peers, Request(p) PROVE SessionInv'
<1> DEFINE d == client[p]
           c == [d EXCEPT !.asked = TRUE, !.nxt = d.nxt + ReqLen]
<1>1. /\ d \in Client /\ d.una <= d.nxt /\ 0 < d.una /\ d.rcv \in RcvNumbers
      /\ d.nxt = 1 /\ d.una \in Nat /\ KnowsOf(d, d.rcv) /\ d.st = "estab"
  BY ClientFacts DEF Request, Connected, SentFlags
<1>2. d.nxt + ReqLen \in SeqNo
  BY <1>1, RequestFits, NoWrap
<1>3. /\ c \in Client /\ c.st = d.st /\ c.nxt = 1 + ReqLen /\ c.una = d.una
      /\ c.asked = TRUE /\ c.rcv = d.rcv /\ c.finRcvd = d.finRcvd /\ c.page = d.page
  BY <1>1, <1>2 DEF Client
<1>4. client' = [client EXCEPT ![p] = c] /\ UNCHANGED vars /\ toClient' = toClient
  BY DEF Request, ClientMoves
<1>5. toServer' = Append(toServer, ClientSeg(p, d, FALSE, FALSE, d.nxt, ReqLen))
  BY DEF Request, ClientSends
<1> HIDE DEF c, d
<1>6. ClientOK(c) /\ Grows(d, c) /\ KnowsOf(c, d.rcv)
  BY <1>1, <1>3, NoWrap DEF ClientOK, Grows, Connected, SentFlags, KnowsOf
<1>7. Says(p, c)
  <2>1. d.nxt \in 0 .. ReqLen + 2 /\ ReqLen \in 0 .. ReqLen /\ FALSE \in BOOLEAN
    BY <1>1, NoWrap
  <2> QED BY <1>1, <1>5, <1>6, <2>1, SaysOne, Zenon
<1> QED BY <1>4, <1>6, <1>7, ClientKeeps DEF SessionInv, ChannelsOK, d

LEMMA CloseKeeps == ASSUME SessionInv, NEW p \in Peers, Close(p) PROVE SessionInv'
<1> DEFINE d == client[p]
           c == [d EXCEPT !.st = "fin_sent", !.nxt = d.nxt + 1]
<1>1. /\ d \in Client /\ d.una <= d.nxt /\ 0 < d.una /\ d.rcv \in RcvNumbers
      /\ d.nxt = (IF d.asked THEN ReqLen ELSE 0) + 1 /\ d.una \in Nat /\ d.nxt \in Nat
      /\ KnowsOf(d, d.rcv) /\ d.st = "estab"
  BY ClientFacts DEF Close, Connected, SentFlags
<1>2. d.nxt + 1 \in 0 .. ReqLen + 2 /\ d.nxt + 1 \in SeqNo
  <2>1. d.nxt + 1 \in 0 .. ReqLen + 2
    BY <1>1, NoWrap
  <2> QED BY <2>1, RequestFits
<1>3. /\ c \in Client /\ c.st = "fin_sent" /\ c.nxt = d.nxt + 1 /\ c.una = d.una
      /\ c.asked = d.asked /\ c.rcv = d.rcv /\ c.finRcvd = d.finRcvd /\ c.page = d.page
  BY <1>1, <1>2 DEF Client
<1>4. client' = [client EXCEPT ![p] = c] /\ UNCHANGED vars /\ toClient' = toClient
  BY DEF Close, ClientMoves
<1>5. toServer' = Append(toServer, ClientSeg(p, d, FALSE, TRUE, d.nxt, 0))
  BY DEF Close, ClientSends
<1> HIDE DEF c, d
<1>6. ClientOK(c) /\ Grows(d, c) /\ KnowsOf(c, d.rcv)
  BY <1>1, <1>3, NoWrap DEF ClientOK, Grows, Connected, SentFlags, KnowsOf
<1>7. Says(p, c)
  <2>1. d.nxt \in 0 .. ReqLen + 2 /\ 0 \in 0 .. ReqLen /\ TRUE \in BOOLEAN /\ FALSE \in BOOLEAN
    BY <1>1, <1>2, NoWrap
  <2> QED BY <1>1, <1>5, <1>6, <2>1, SaysOne, Zenon
<1> QED BY <1>4, <1>6, <1>7, ClientKeeps DEF SessionInv, ChannelsOK, d

LEMMA RetransmitKeeps == ASSUME SessionInv, NEW p \in Peers, Retransmit(p) PROVE SessionInv'
<1> DEFINE c == client[p]
           fin == c.st = "fin_sent"
           len == c.nxt - c.una - (IF fin THEN 1 ELSE 0)
<1>1. /\ c \in Client /\ c.una \in Nat /\ c.nxt \in Nat /\ c.una < c.nxt
      /\ c.rcv \in RcvNumbers
      /\ c.st \in Connected => 0 < c.una /\ KnowsOf(c, c.rcv)
      /\ c.nxt = (IF c.asked THEN ReqLen ELSE 0) + SentFlags(c.st)
      /\ c.nxt <= ReqLen + 2
  BY ClientFacts DEF Retransmit
<1>2. /\ client' = [client EXCEPT ![p] = c] /\ UNCHANGED vars /\ toClient' = toClient
  BY DEF Retransmit, SessionInv, ClientsOK
<1>3. \/ c.st = "syn_sent" /\ toServer' = Append(toServer, ClientSeg(p, c, TRUE, FALSE, 0, 0))
      \/ /\ c.st \in {"estab", "fin_sent"}
         /\ toServer' = Append(toServer, ClientSeg(p, c, FALSE, fin, c.una, len))
  BY DEF Retransmit, ClientSends
<1>4. c.st \in {"estab", "fin_sent"} => len \in 0 .. ReqLen /\ c.una \in 0 .. ReqLen + 2
  BY <1>1, NoWrap DEF SentFlags, Connected
<1>5. fin \in BOOLEAN
  OBVIOUS
<1>6. ClientOK(c) /\ Grows(c, c)
  BY DEF SessionInv, ClientsOK, Grows
<1> HIDE DEF c, fin, len
<1>7. Says(p, c)
  <2>1. CASE c.st = "syn_sent" /\ toServer' = Append(toServer, ClientSeg(p, c, TRUE, FALSE, 0, 0))
    <3>1. 0 \in 0 .. ReqLen + 2 /\ 0 \in 0 .. ReqLen /\ TRUE \in BOOLEAN /\ FALSE \in BOOLEAN
      BY NoWrap
    <3> QED BY <1>1, <2>1, <3>1, SaysOne, Zenon
  <2>2. CASE /\ c.st \in {"estab", "fin_sent"}
             /\ toServer' = Append(toServer, ClientSeg(p, c, FALSE, fin, c.una, len))
    BY <1>1, <1>4, <1>5, <2>2, SaysOne DEF Connected
  <2> QED BY <1>3, <2>1, <2>2
<1> QED BY <1>2, <1>6, <1>7, ClientKeeps DEF SessionInv, ChannelsOK, c

LEMMA AcceptOK ==
  ASSUME SessionInv, NEW p \in Peers, NEW m, PacketOK(m), m \in Packet,
         client[p].st \in {"estab", "fin_sent"},
         Acceptable(client[p], m), m.ack <= client[p].nxt
  PROVE  /\ ClientOK(Accept(client[p], m)) /\ Grows(client[p], Accept(client[p], m))
         /\ Accept(client[p], m).nxt = client[p].nxt
         /\ Accept(client[p], m).st \in Connected
<1> DEFINE c   == client[p]
           d   == Accept(c, m)
           fin == m.flags = "finack"
           una == IF m.ack > c.una THEN m.ack ELSE c.una
           over == c.st = "fin_sent" /\ una = c.nxt /\ (c.finRcvd \/ fin)
<1>1. /\ c \in Client /\ c.una \in Nat /\ c.nxt \in Nat /\ c.una <= c.nxt
      /\ c.rcv \in RcvNumbers /\ c.asked \in BOOLEAN
      /\ c.st \in Connected /\ 0 < c.una /\ KnowsOf(c, c.rcv)
      /\ c.nxt = (IF c.asked THEN ReqLen ELSE 0) + SentFlags(c.st)
  BY ClientFacts DEF Connected
<1>2. c.finRcvd \in BOOLEAN /\ c.page \in BOOLEAN /\ c.nxt \in SeqNo
  BY <1>1 DEF Client
<1>3. m.ack \in Nat /\ m.len \in Nat
  BY NoWrap DEF Packet, SeqNo
<1>4. una \in SeqNo /\ 0 < una /\ una <= c.nxt
  BY <1>1, <1>2, <1>3, NoWrap DEF Client, SeqNo, Packet
<1>5. fin => \/ m.seq + m.len + 1 = ISS + PageLen + 1 /\ m.len > 0
             \/ m.seq + m.len + 1 = ISS + 2
  BY NoWrap DEF PacketOK
<1>6. (IF fin THEN m.seq + m.len + 1 ELSE c.rcv) \in RcvNumbers
  BY <1>1, <1>5 DEF RcvNumbers
<1>7. (c.page \/ m.len > 0) \in BOOLEAN /\ (c.finRcvd \/ fin) \in BOOLEAN
  OBVIOUS
<1>8. (IF over THEN "done" ELSE c.st) \in {"estab", "fin_sent", "done"}
  BY <1>1 DEF Connected
<1>9. d = [c EXCEPT !.una = una, !.rcv = IF fin THEN m.seq + m.len + 1 ELSE c.rcv,
                    !.page = c.page \/ m.len > 0, !.finRcvd = c.finRcvd \/ fin,
                    !.st = IF over THEN "done" ELSE c.st]
  BY DEF Accept
<1>10. /\ d.una = una /\ d.nxt = c.nxt /\ d.asked = c.asked
       /\ d.rcv = IF fin THEN m.seq + m.len + 1 ELSE c.rcv
       /\ d.page <=> c.page \/ m.len > 0
       /\ d.finRcvd <=> c.finRcvd \/ fin
       /\ d.st = IF over THEN "done" ELSE c.st
  BY <1>1, <1>9 DEF Client
<1>11. d \in Client
  <2>1. (IF fin THEN m.seq + m.len + 1 ELSE c.rcv) \in SeqNo
    BY <1>6, NoWrap
  <2> QED BY <1>1, <1>4, <1>7, <1>8, <1>9, <2>1 DEF Client
<1> HIDE DEF c, d, una
<1>12. SentFlags(d.st) = SentFlags(c.st) /\ d.st \in Connected
  BY <1>1, <1>10 DEF SentFlags, Connected
<1>13. KnowsOf(d, d.rcv)
  BY <1>1, <1>5, <1>10, <1>12, NoWrap DEF KnowsOf
<1>14. ClientOK(d)
  BY <1>1, <1>4, <1>6, <1>10, <1>11, <1>12, <1>13 DEF ClientOK
<1>15. Grows(c, d)
  BY <1>10, <1>12 DEF Grows
<1> QED BY <1>10, <1>12, <1>14, <1>15 DEF c, d

LEMMA ClientReceiveKeeps == ASSUME SessionInv, NEW p \in Peers, ClientReceive(p) PROVE SessionInv'
<1>1. PICK i \in Arriving(toClient) : ClientHandles(p, toClient[i]) /\ toClient' \in After(toClient, i)
  BY DEF ClientReceive
<1> DEFINE m == toClient[i]
           c == client[p]
<1>2. /\ i \in 1 .. Len(toClient) /\ toClient' \in Seq(Packet)
      /\ \A j \in 1 .. Len(toClient') : \E k \in 1 .. Len(toClient) : toClient'[j] = toClient[k]
  BY <1>1, StillIn DEF SessionInv, ChannelsOK
<1>3. PacketOK(m) /\ m \in Packet
  BY <1>2 DEF SessionInv, PacketsOK, ChannelsOK
<1>4. UNCHANGED vars
  BY DEF ClientReceive
<1>5. /\ c \in Client /\ c.una \in Nat /\ c.nxt \in Nat /\ c.una <= c.nxt
      /\ c.rcv \in RcvNumbers /\ c.asked \in BOOLEAN
      /\ c.st \in Connected => 0 < c.una /\ KnowsOf(c, c.rcv)
      /\ c.st \notin Connected => ~c.asked /\ c.rcv = 0
      /\ c.nxt = (IF c.asked THEN ReqLen ELSE 0) + SentFlags(c.st)
      /\ c.nxt <= ReqLen + 2 /\ client \in [Peers -> Client] /\ ClientOK(c)
  BY ClientFacts DEF SessionInv, ClientsOK
<1>6. c.nxt \in 0 .. ReqLen + 2 /\ 0 \in 0 .. ReqLen
  BY <1>5, NoWrap
<1>7. FALSE \in BOOLEAN
  OBVIOUS
<1>8. ASSUME c.st = "syn_sent", m.flags = "synack", m.ack = c.nxt,
             LET d == [c EXCEPT !.st = "estab", !.una = m.ack, !.rcv = m.seq + 1]
             IN  ClientMoves(p, d) /\ ClientSends(PureAck(p, d))
      PROVE  SessionInv'
  <2> DEFINE d == [c EXCEPT !.st = "estab", !.una = m.ack, !.rcv = m.seq + 1]
  <2>1. m.seq + 1 = ISS + 1 /\ ISS + 1 \in SeqNo /\ ISS + 1 \in RcvNumbers /\ m.ack \in SeqNo
    BY <1>3, <1>8, NoWrap DEF PacketOK, RcvNumbers
  <2>2. /\ d \in Client /\ d.st = "estab" /\ d.una = c.nxt /\ d.rcv = ISS + 1 /\ d.nxt = c.nxt
        /\ d.asked = c.asked /\ d.finRcvd = c.finRcvd /\ d.page = c.page
    BY <1>5, <1>8, <2>1 DEF Client
  <2>3. client' = [client EXCEPT ![p] = d]
    BY <1>8 DEF ClientMoves
  <2>4. toServer' = Append(toServer, ClientSeg(p, d, FALSE, FALSE, d.nxt, 0))
    BY <1>8 DEF ClientSends, PureAck
  <2> HIDE DEF d, c, m
  <2>5. KnowsOf(d, d.rcv)
    BY <2>2, NoWrap DEF KnowsOf, Connected
  <2>6. ClientOK(d) /\ Grows(c, d)
    BY <1>5, <1>8, <2>1, <2>2, <2>5, NoWrap DEF ClientOK, Grows, Connected, SentFlags
  <2>7. Says(p, d)
    <3>1. d.nxt \in 0 .. ReqLen + 2 /\ d.rcv \in RcvNumbers
      BY <1>6, <2>1, <2>2
    <3> QED BY <1>6, <1>7, <2>4, <2>5, <3>1, SaysOne, Zenon
  <2> QED BY <1>2, <1>4, <2>3, <2>6, <2>7, ClientKeeps DEF c
<1>9. ASSUME c.st \in {"estab", "fin_sent"}, Acceptable(c, m), m.ack <= c.nxt,
             ClientMoves(p, Accept(c, m)),
             IF m.flags = "finack" THEN ClientSends(PureAck(p, Accept(c, m)))
                                   ELSE UNCHANGED toServer
      PROVE  SessionInv'
  <2> DEFINE d == Accept(c, m)
  <2>1. ClientOK(d) /\ Grows(c, d) /\ d.nxt = c.nxt /\ d.st \in Connected
    BY <1>3, <1>9, AcceptOK
  <2>2. client' = [client EXCEPT ![p] = d]
    BY <1>9 DEF ClientMoves
  <2>3. \/ toServer' = toServer
        \/ toServer' = Append(toServer, ClientSeg(p, d, FALSE, FALSE, d.nxt, 0))
    BY <1>9 DEF ClientSends, PureAck
  <2> HIDE DEF d
  <2>4. d.rcv \in RcvNumbers /\ KnowsOf(d, d.rcv)
    BY <2>1 DEF ClientOK
  <2>5. d.nxt \in 0 .. ReqLen + 2
    BY <1>6, <2>1
  <2>6. Says(p, d)
    <3>1. CASE toServer' = toServer
      BY <3>1 DEF Says
    <3>2. CASE toServer' = Append(toServer, ClientSeg(p, d, FALSE, FALSE, d.nxt, 0))
      BY <1>6, <1>7, <2>4, <2>5, <3>2, SaysOne, Zenon
    <3> QED BY <2>3, <3>1, <3>2
  <2> QED BY <1>2, <1>4, <2>1, <2>2, <2>6, ClientKeeps
<1>10. ASSUME c.st \in {"estab", "fin_sent"} \/ UNCHANGED toServer,
              UNCHANGED toServer \/ ClientSends(PureAck(p, c)), UNCHANGED client
       PROVE  SessionInv'
  <2>1. client' = [client EXCEPT ![p] = c]
    BY <1>5, <1>10
  <2>2. Grows(c, c)
    BY DEF Grows
  <2>3. Says(p, c)
    <3>1. CASE toServer' = toServer
      BY <3>1 DEF Says
    <3>2. CASE c.st \in {"estab", "fin_sent"} /\ ClientSends(PureAck(p, c))
      <4>1. toServer' = Append(toServer, ClientSeg(p, c, FALSE, FALSE, c.nxt, 0))
        BY <3>2 DEF ClientSends, PureAck
      <4>2. KnowsOf(c, c.rcv)
        BY <1>5, <3>2 DEF Connected
      <4> HIDE DEF c
      <4> QED BY <1>5, <1>6, <1>7, <4>1, <4>2, SaysOne, Zenon
    <3> QED BY <1>10, <3>1, <3>2
  <2> QED BY <1>2, <1>4, <1>5, <2>1, <2>2, <2>3, ClientKeeps
<1> QED BY <1>1, <1>8, <1>9, <1>10 DEF ClientHandles

-----------------------------------------------------------------------------
LEMMA SessionInvInit == SessionInit => SessionInv
<1> SUFFICES ASSUME SessionInit PROVE SessionInv
  OBVIOUS
<1>1. ConnInv
  BY InitInv DEF SessionInit
<1>2. state = "LISTEN" /\ toServer = <<>> /\ toClient = <<>>
  BY DEF SessionInit, Init
<1> DEFINE c == [st |-> "closed", asked |-> FALSE, page |-> FALSE, finRcvd |-> FALSE,
                 una |-> 0, nxt |-> 0, rcv |-> 0]
<1>3. client = [p \in Peers |-> c]
  BY DEF SessionInit
<1>4. 0 \in SeqNo
  BY NoWrap DEF SeqNo
<1>5. c \in Client
  BY <1>4, Zenon DEF Client
<1>6. ClientOK(c)
  <2>1. c.st = "closed" /\ ~c.asked /\ c.una = 0 /\ c.nxt = 0 /\ c.rcv = 0
    OBVIOUS
  <2> HIDE DEF c
  <2> QED BY <1>5, <2>1 DEF ClientOK, Connected, SentFlags
<1> HIDE DEF c
<1>7. ClientsOK
  BY <1>3, <1>5, <1>6 DEF ClientsOK
<1> QED BY <1>1, <1>2, <1>7 DEF SessionInv, ChannelsOK, SegmentsOK, PacketsOK, EstablishedIsReal

LEMMA SessionInvNext == SessionInv /\ [SessionNext]_sessionVars => SessionInv'
BY ServerReceiveKeeps, ServerTickKeeps, ServerElsewhereKeeps, LoseKeeps, ConnectKeeps, RequestKeeps,
   CloseKeeps, RetransmitKeeps, ClientReceiveKeeps DEF SessionNext

LEMMA SessionAlways == SessionSpec => []SessionInv
BY SessionInvInit, SessionInvNext, PTL DEF SessionSpec

(* However many clients there are and whatever the network does to what    *)
(* they send, a connection the server takes for established is one whose   *)
(* client has had its SYN-ACK (tcp_socket.c:276-281).                      *)
THEOREM EstablishedIsAlwaysReal == SessionSpec => []EstablishedIsReal
<1>1. SessionInv => EstablishedIsReal
  BY DEF SessionInv
<1> QED BY <1>1, SessionAlways, PTL

LEMMA ForgetStep ==
  ASSUME SessionInv, [SessionNext]_sessionVars,
         state \in {"FIN_WAIT", "LAST_ACK"}, state' = "LISTEN", timer_on'
  PROVE  client[dest].finRcvd /\ (last_sended_len # 0 => client[dest].page)
<1>1. state' # state
  OBVIOUS
<1>2. ServerReceive
  BY <1>1 DEF SessionNext, sessionVars, vars, conn, ServerTick, ServerMain, Lose, Connect, Request,
     Close, Retransmit, ClientReceive, MainTakeRequest, TimeoutIsr, TickIdleClose, TickDrop,
     TickCount, TickStop
<1>3. PICK i \in Arriving(toServer) : RxSegment(toServer[i])
  BY <1>2 DEF ServerReceive
<1> DEFINE f == toServer[i]
<1>4. f \in Segments /\ SegmentOK(f)
  BY DeliveredOK
<1> HIDE DEF f
<1>5. FinWaitFin(f) \/ LastAckAck(f)
  BY <1>1, <1>3 DEF f, RxSegment, ListenSyn, ListenOther, SynReceivedAck, EstablishedGet,
     EstablishedFin, EstablishedAck, NotAcked, Ignored, conn
<1>6. f.src = dest /\ f.ack /\ f.ackNum = Expected
  BY <1>5 DEF FinWaitFin, LastAckAck, FromPeer, Acked
<1>7. KnowsOf(client[dest], Expected)
  BY <1>4, <1>6 DEF SegmentOK
<1>8. \/ Expected = ISS + PageLen + 1
      \/ Expected = ISS + 2 /\ last_sended_len = 0
  BY WindowNumbers DEF SessionInv
<1> QED BY <1>7, <1>8 DEF KnowsOf

(* The server forgets a connection on an acknowledgment only if its client *)
(* has the FIN, and the page if one was sent (tcp_socket.c:339-345,        *)
(* 363-364).                                                               *)
THEOREM ForgetsOnlyTheDelivered == SessionSpec => ForgetsOnlyDelivered
<1>1. SessionInv /\ [SessionNext]_sessionVars =>
        [ (state \in {"FIN_WAIT", "LAST_ACK"} /\ state' = "LISTEN" /\ timer_on') =>
            /\ client[dest].finRcvd
            /\ last_sended_len # 0 => client[dest].page ]_sessionVars
  BY ForgetStep
<1> QED BY <1>1, SessionAlways, PTL DEF SessionSpec, ForgetsOnlyDelivered

-----------------------------------------------------------------------------
LEMMA SessionStep ==
  ASSUME SessionInv, [SessionNext]_sessionVars
  PROVE  [Next]_vars
<1>1. CASE ServerReceive
  BY <1>1, DeliveredOK DEF ServerReceive, Next, RxEthernetIsr
<1>2. CASE ServerTick \/ ServerMain
  BY <1>2 DEF ServerTick, ServerMain, Next
<1>3. CASE Lose \/ UNCHANGED sessionVars
  BY <1>3 DEF Lose, sessionVars
<1>4. ASSUME NEW p \in Peers, Connect(p) \/ Request(p) \/ Close(p) \/ Retransmit(p) \/ ClientReceive(p)
      PROVE  [Next]_vars
  BY <1>4 DEF Connect, Request, Close, Retransmit, ClientReceive
<1> QED BY <1>1, <1>2, <1>3, <1>4 DEF SessionNext

(* Among its clients the server takes only the steps of TcpConn, so what   *)
(* is proved of TcpConn on its own holds among them (tcp_socket.c:210-434).*)
THEOREM SessionRunsConn == SessionSpec => Spec
<1>1. SessionInit => Init
  BY DEF SessionInit
<1>2. SessionInv /\ [SessionNext]_sessionVars => [Next]_vars
  BY SessionStep
<1> QED BY <1>1, <1>2, SessionAlways, PTL DEF SessionSpec, Spec

(* So every connection with a client is served as OneShot promises         *)
(* (tcp_socket.c:254-373).                                                 *)
THEOREM ClientsGetThePromise == SessionSpec => KeepsPromise
BY SessionRunsConn, Refinement, PTL

-----------------------------------------------------------------------------
(* The main loop: what it does with a text, and that the handlers beside it *)
(* are those of TcpConn.                                                    *)

LEMMA TextInvNext == NoTextForgotten /\ [WebNext]_webVars => NoTextForgotten'
<1> SUFFICES ASSUME NoTextForgotten, [WebNext]_webVars PROVE NoTextForgotten'
  OBVIOUS
<1>1. CASE CopyText
  BY <1>1 DEF CopyText, NoTextForgotten
<1>2. CASE WriteLcd
  BY <1>2 DEF WriteLcd, NoTextForgotten
<1>3. CASE \/ UNCHANGED webVars \/ UNCHANGED mainVars
           \/ PollRequest \/ PollNothing \/ ReadMark \/ ReadCommand \/ ReadSeparator \/ DriveLeds
  BY <1>3 DEF webVars, mainVars, PollRequest, PollNothing, ReadMark, ReadCommand, ReadSeparator,
     DriveLeds, NoTextForgotten
<1> QED BY <1>1, <1>2, <1>3 DEF WebNext, MainStep

(* No text waits unnoticed: while the flag is down the LCD shows the last   *)
(* text copied (tcp_webserver.c:64-66, 100-103).                            *)
THEOREM NoTextIsForgotten == WebSpec => []NoTextForgotten
<1>1. WebInit => NoTextForgotten
  BY DEF WebInit, NoTextForgotten
<1> QED BY <1>1, TextInvNext, PTL DEF WebSpec

LEMMA WebStep == [WebNext]_webVars => [Next]_vars
<1> SUFFICES ASSUME [WebNext]_webVars PROVE [Next]_vars
  OBVIOUS
<1>1. CASE PollRequest
  BY <1>1 DEF PollRequest, Next
<1>2. CASE \/ UNCHANGED webVars \/ PollNothing \/ ReadMark \/ ReadCommand \/ CopyText
           \/ ReadSeparator \/ DriveLeds \/ WriteLcd
  BY <1>2 DEF webVars, PollNothing, ReadMark, ReadCommand, CopyText, ReadSeparator, DriveLeds, WriteLcd
<1>3. CASE TimeoutIsr \/ \E f \in Segments : RxSegment(f)
  BY <1>3 DEF Next, RxEthernetIsr
<1> QED BY <1>1, <1>2, <1>3 DEF WebNext, MainStep

(* Beside the main loop the connection keeps OneShot's promises too: the    *)
(* loop touches nothing of it but the flag (tcp_webserver.c:51-68).         *)
THEOREM LoopKeepsThePromise == WebSpec => KeepsPromise
<1>1. WebInit => Init
  BY DEF WebInit
<1>2. WebSpec => Spec
  BY <1>1, WebStep, PTL DEF WebSpec, Spec
<1> QED BY <1>2, Refinement, PTL
=============================================================================
