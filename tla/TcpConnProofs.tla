--------------------------- MODULE TcpConnProofs ---------------------------
(***************************************************************************)
(* Proofs about TcpConn, for every sequence space, page length, pair of    *)
(* timeouts and set of segments that ConnAssumption allows:                *)
(* the inductive invariant ConnInv and the refinement of OneShot.          *)
(* Then the checksums of tcp_socket.c, for every memory and length.        *)
(***************************************************************************)
EXTENDS TcpConn, Checksums, Inductions

(* Sums of sequence numbers are sequence numbers (the code's alt_u32).     *)
LEMMA AddInSeq == ASSUME NEW a \in Int, NEW b \in Int
                  PROVE  Add(a, b) \in SeqNo
BY ConnAssumption DEF Add, SeqNo

LEMMA AckPointInSeq == ASSUME NEW s \in Int, NEW n \in Nat
                       PROVE  AckPoint(s, n) \in SeqNo
BY AddInSeq DEF AckPoint

(* Sequence numbers and lengths are numbers.                               *)
LEMMA SeqIsInt == ASSUME NEW s \in SeqNo PROVE s \in Int
BY DEF SeqNo

LEMMA LenIsNat == ASSUME NEW n \in SegLens PROVE n \in Nat
BY ConnAssumption

(* What the handlers may assume of a segment.                              *)
LEMMA SegmentFields ==
  ASSUME NEW f \in Segments
  PROVE  /\ f.src \in Peers
         /\ f.seq \in SeqNo /\ f.seq \in Int
         /\ f.len \in SegLens /\ f.len \in Nat
         /\ f.req \in Requests \cup {NoRequest}
         /\ f.syn \in BOOLEAN /\ f.ack \in BOOLEAN /\ f.fin \in BOOLEAN
<1>1. f \in Segment
  BY ConnAssumption
<1>2. f.src \in Peers /\ f.seq \in SeqNo /\ f.len \in SegLens
      /\ f.req \in Requests \cup {NoRequest}
  BY <1>1 DEF Segment
<1>3. f.syn \in BOOLEAN /\ f.ack \in BOOLEAN /\ f.fin \in BOOLEAN
  BY <1>1, Zenon DEF Segment
<1>4. f.seq \in Int /\ f.len \in Nat
  BY <1>2, SeqIsInt, LenIsNat
<1>5. QED BY <1>2, <1>3, <1>4

(* In a well-typed state the numbers the handlers compute are well typed.  *)
LEMMA Numbers ==
  ASSUME TypeOK
  PROVE  /\ AckedBytes \in Nat
         /\ AfterAck \in SeqNo
         /\ Expected \in SeqNo
         /\ Add(AfterAck, 1) \in SeqNo
         /\ Add(last_acked, 1) \in SeqNo
         /\ AckPoint((seq_num - 1) % SeqSpace, rec_payload_len) \in SeqNo
         /\ Tick \in 0 .. SecsMax
<1>1. /\ last_acked \in Int /\ last_sended_len \in Nat
      /\ seq_num \in Int /\ rec_payload_len \in Nat
  <2>1. PageLen \in Nat
    BY ConnAssumption
  <2>2. QED BY <2>1, SeqIsInt, LenIsNat DEF TypeOK
<1>2. AckedBytes \in Nat
  <2>1. (IF last_sended_len # 0 THEN last_sended_len + 1 ELSE 0) \in Nat
    BY <1>1
  <2>2. (IF command_sent THEN 1 ELSE 0) \in Nat
    OBVIOUS
  <2>3. QED BY <2>1, <2>2 DEF AckedBytes
<1>3. AfterAck \in SeqNo
  BY <1>1, <1>2, AddInSeq DEF AfterAck
<1>4. Expected \in SeqNo
  BY <1>1, AddInSeq DEF Expected
<1>5. Add(AfterAck, 1) \in SeqNo /\ Add(last_acked, 1) \in SeqNo
  BY <1>1, <1>3, AddInSeq, SeqIsInt
<1>6. AckPoint((seq_num - 1) % SeqSpace, rec_payload_len) \in SeqNo
  <2>1. (seq_num - 1) % SeqSpace \in Int
    BY <1>1, ConnAssumption
  <2>2. QED BY <2>1, <1>1, AckPointInSeq
<1>7. Tick \in 0 .. SecsMax
  BY ConnAssumption DEF TypeOK, Tick
<1>8. QED BY <1>2, <1>3, <1>4, <1>5, <1>6, <1>7

(* Before anything is sent, an accepted acknowledgment moves nothing: the  *)
(* SYN-ACK itself is never counted.                                        *)
LEMMA NothingToAck == ASSUME NothingSent PROVE AfterAck = ISS
<1>1. AckedBytes = 0
  BY DEF NothingSent, AckedBytes
<1>2. ISS % SeqSpace = ISS
  BY ConnAssumption DEF SeqNo
<1>3. AfterAck = (ISS + 0) % SeqSpace
  BY <1>1 DEF NothingSent, AfterAck, Add
<1>4. QED BY <1>2, <1>3, ConnAssumption DEF SeqNo

LEMMA NoPacketType == NoPacket \in Packet
BY ConnAssumption DEF NoPacket, Packet, SeqNo

LEMMA TcpPktType ==
  ASSUME NEW to \in Peers, NEW flags \in {"synack", "finack", "ack"},
         NEW seq \in SeqNo, NEW ack \in SeqNo, NEW len \in {0, PageLen}
  PROVE  TcpPkt(to, flags, seq, ack, len) \in Packet
BY DEF TcpPkt, Packet

LEMMA ArpReplyType == ASSUME NEW p \in Peers PROVE ArpReply(p) \in Packet
BY ConnAssumption DEF ArpReply, Packet, SeqNo

-----------------------------------------------------------------------------
LEMMA InitInv == Init => ConnInv
<1> SUFFICES ASSUME Init PROVE ConnInv
  OBVIOUS
<1>1. TypeOK
  <2>1. secs \in 0 .. SecsMax
    BY ConnAssumption DEF Init
  <2>2. QED BY <2>1, NoPacketType, Zenon DEF Init, TypeOK, States
<1>2. TimerCovers /\ SendWindow /\ TimerZeroNeverSet
  BY DEF Init, TimerCovers, SendWindow, TimerZeroNeverSet
<1>3. QED BY <1>1, <1>2 DEF ConnInv

-----------------------------------------------------------------------------
(* Each path through rx_ethernet_isr preserves the invariant.              *)
LEMMA SegmentInv ==
  ASSUME ConnInv, NEW f \in Segments, RxSegment(f)
  PROVE  ConnInv'
<1> USE DEF ConnInv, TimerCovers, TimerZeroNeverSet
<1>f. /\ f.src \in Peers /\ f.seq \in SeqNo /\ f.seq \in Int
      /\ f.len \in SegLens /\ f.len \in Nat
      /\ f.req \in Requests \cup {NoRequest}
  BY SegmentFields
<1>n. /\ AfterAck \in SeqNo /\ Add(AfterAck, 1) \in SeqNo
      /\ AckPoint(f.seq, f.len) \in SeqNo /\ ISS \in SeqNo
  BY <1>f, Numbers, AckPointInSeq, ConnAssumption
<1>1. CASE ListenSyn(f)
  <2>1. TypeOK'
    BY <1>1, <1>f, <1>n, NoPacketType, TcpPktType DEF ListenSyn, TypeOK, States, conn, numbers, mailbox, timer, Payload
  <2>2. TimerCovers' /\ TimerZeroNeverSet'
    BY <1>1 DEF ListenSyn, conn, numbers, mailbox, timer
  <2>3. SendWindow'
    BY <1>1 DEF ListenSyn, SendWindow, NothingSent, PageSent, FinSent, conn, numbers
  <2>4. QED BY <2>1, <2>2, <2>3
<1>2. CASE ListenOther(f)
  <2>1. TypeOK'
    BY <1>2, <1>f, <1>n, NoPacketType, TcpPktType DEF ListenOther, TypeOK, States, conn, numbers, mailbox, timer, Payload
  <2>2. TimerCovers' /\ TimerZeroNeverSet'
    BY <1>2 DEF ListenOther, conn, numbers, mailbox, timer
  <2>3. SendWindow'
    BY <1>2 DEF ListenOther, SendWindow, NothingSent, PageSent, FinSent, conn, numbers
  <2>4. QED BY <2>1, <2>2, <2>3
<1>3. CASE SynReceivedAck(f)
  <2>1. TypeOK'
    BY <1>3, <1>f, <1>n, NoPacketType, TcpPktType DEF SynReceivedAck, TypeOK, States, conn, numbers, mailbox, timer, Payload
  <2>2. TimerCovers' /\ TimerZeroNeverSet'
    BY <1>3 DEF SynReceivedAck, conn, numbers, mailbox, timer
  <2>3. SendWindow'
    <3>1. NothingSent
      BY <1>3 DEF SynReceivedAck, SendWindow
    <3>2. AfterAck = ISS
      BY <3>1, NothingToAck
    <3>3. QED BY <1>3, <3>1, <3>2 DEF SynReceivedAck, SendWindow, NothingSent, PageSent, FinSent
  <2>4. QED BY <2>1, <2>2, <2>3
<1>4. CASE EstablishedGet(f)
  <2>1. TypeOK'
    BY <1>4, <1>f, <1>n, NoPacketType, TcpPktType DEF EstablishedGet, TypeOK, States, conn, numbers, mailbox, timer, Payload
  <2>2. TimerCovers' /\ TimerZeroNeverSet'
    BY <1>4 DEF EstablishedGet, conn, numbers, mailbox, timer
  <2>3. SendWindow'
    <3>1. NothingSent
      BY <1>4 DEF EstablishedGet, SendWindow
    <3>2. AfterAck = ISS
      BY <3>1, NothingToAck
    <3>3. QED BY <1>4, <3>1, <3>2 DEF EstablishedGet, SendWindow, NothingSent, PageSent, FinSent
  <2>4. QED BY <2>1, <2>2, <2>3
<1>5. CASE EstablishedFin(f)
  <2>1. TypeOK'
    BY <1>5, <1>f, <1>n, NoPacketType, TcpPktType DEF EstablishedFin, TypeOK, States, conn, numbers, mailbox, timer, Payload
  <2>2. TimerCovers' /\ TimerZeroNeverSet'
    BY <1>5 DEF EstablishedFin, conn, numbers, mailbox, timer
  <2>3. SendWindow'
    <3>1. NothingSent
      BY <1>5 DEF EstablishedFin, SendWindow
    <3>2. AfterAck = ISS
      BY <3>1, NothingToAck
    <3>3. QED BY <1>5, <3>1, <3>2 DEF EstablishedFin, SendWindow, NothingSent, PageSent, FinSent
  <2>4. QED BY <2>1, <2>2, <2>3
<1>6. CASE EstablishedAck(f)
  <2>1. TypeOK'
    BY <1>6, <1>f, <1>n, NoPacketType, TcpPktType DEF EstablishedAck, TypeOK, States, conn, numbers, mailbox, timer, Payload
  <2>2. TimerCovers' /\ TimerZeroNeverSet'
    BY <1>6 DEF EstablishedAck, conn, numbers, mailbox, timer
  <2>3. SendWindow'
    <3>1. NothingSent
      BY <1>6 DEF EstablishedAck, SendWindow
    <3>2. AfterAck = ISS
      BY <3>1, NothingToAck
    <3>3. QED BY <1>6, <3>1, <3>2 DEF EstablishedAck, SendWindow, NothingSent, PageSent, FinSent
  <2>4. QED BY <2>1, <2>2, <2>3
<1>7. CASE FinWaitFin(f)
  <2>1. TypeOK'
    BY <1>7, <1>f, <1>n, NoPacketType, TcpPktType DEF FinWaitFin, TypeOK, States, conn, numbers, mailbox, timer, Payload
  <2>2. TimerCovers' /\ TimerZeroNeverSet'
    BY <1>7 DEF FinWaitFin, conn, numbers, mailbox, timer
  <2>3. SendWindow'
    BY <1>7 DEF FinWaitFin, SendWindow, NothingSent, PageSent, FinSent, conn, numbers
  <2>4. QED BY <2>1, <2>2, <2>3
<1>8. CASE LastAckAck(f)
  <2>1. TypeOK'
    BY <1>8, <1>f, <1>n, NoPacketType, TcpPktType DEF LastAckAck, TypeOK, States, conn, numbers, mailbox, timer, Payload
  <2>2. TimerCovers' /\ TimerZeroNeverSet'
    BY <1>8 DEF LastAckAck, conn, numbers, mailbox, timer
  <2>3. SendWindow'
    BY <1>8 DEF LastAckAck, SendWindow, NothingSent, PageSent, FinSent, conn, numbers
  <2>4. QED BY <2>1, <2>2, <2>3
<1>9. CASE NotAcked(f)
  <2>1. TypeOK'
    BY <1>9, <1>f, <1>n, NoPacketType, TcpPktType DEF NotAcked, TypeOK, States, conn, numbers, mailbox, timer, Payload
  <2>2. TimerCovers' /\ TimerZeroNeverSet'
    BY <1>9 DEF NotAcked, conn, numbers, mailbox, timer
  <2>3. SendWindow'
    BY <1>9 DEF NotAcked, SendWindow, NothingSent, PageSent, FinSent, conn, numbers
  <2>4. QED BY <2>1, <2>2, <2>3
<1>10. CASE Ignored(f)
  <2>1. TypeOK'
    BY <1>10, <1>f, <1>n, NoPacketType, TcpPktType DEF Ignored, TypeOK, States, conn, numbers, mailbox, timer, Payload
  <2>2. TimerCovers' /\ TimerZeroNeverSet'
    BY <1>10 DEF Ignored, conn, numbers, mailbox, timer
  <2>3. SendWindow'
    BY <1>10 DEF Ignored, SendWindow, NothingSent, PageSent, FinSent, conn, numbers
  <2>4. QED BY <2>1, <2>2, <2>3
<1>20. QED
  BY <1>1, <1>2, <1>3, <1>4, <1>5, <1>6, <1>7, <1>8, <1>9, <1>10 DEF RxSegment

(* So does each path through timeout_isr.                                  *)
LEMMA TimeoutInv ==
  ASSUME ConnInv, TimeoutIsr
  PROVE  ConnInv'
<1> USE DEF ConnInv, TimerCovers, TimerZeroNeverSet
<1>n. /\ Add(last_acked, 1) \in SeqNo
      /\ AckPoint((seq_num - 1) % SeqSpace, rec_payload_len) \in SeqNo
      /\ Tick \in 0 .. SecsMax /\ 0 \in 0 .. SecsMax /\ 0 <= NullTicks
  BY Numbers, ConnAssumption
<1>t. tmr_set_timer_zero' = FALSE /\ UNCHANGED mailbox
  BY DEF TimeoutIsr
<1>1. CASE TickIdleClose
  <2>1. TypeOK'
    BY <1>1, <1>n, <1>t, TcpPktType DEF TickIdleClose, TypeOK, States, mailbox
  <2>2. TimerCovers' /\ TimerZeroNeverSet'
    BY <1>1, <1>t DEF TickIdleClose
  <2>3. SendWindow'
    BY <1>1 DEF TickIdleClose, SendWindow, NothingSent, FinSent
  <2>4. QED BY <2>1, <2>2, <2>3
<1>2. CASE TickDrop
  <2>1. TypeOK'
    BY <1>2, <1>n, <1>t, NoPacketType DEF TickDrop, TypeOK, States, mailbox, numbers
  <2>2. TimerCovers' /\ TimerZeroNeverSet'
    BY <1>2, <1>n, <1>t DEF TickDrop
  <2>3. SendWindow'
    BY <1>2 DEF TickDrop, SendWindow
  <2>4. QED BY <2>1, <2>2, <2>3
<1>3. CASE TickCount
  <2>1. TypeOK'
    BY <1>3, <1>n, <1>t, NoPacketType
    DEF TickCount, TypeOK, States, mailbox, conn, numbers
  <2>2. TimerCovers' /\ TimerZeroNeverSet'
    BY <1>3, <1>t DEF TickCount, TimeoutIsr, conn
  <2>3. SendWindow'
    BY <1>3 DEF TickCount, SendWindow, NothingSent, PageSent, FinSent, conn, numbers
  <2>4. QED BY <2>1, <2>2, <2>3
<1>4. CASE TickStop
  <2>1. TypeOK'
    BY <1>4, <1>n, <1>t, NoPacketType
    DEF TickStop, TypeOK, States, mailbox, conn, numbers
  <2>2. TimerCovers' /\ TimerZeroNeverSet'
    BY <1>4, <1>n, <1>t DEF TickStop, conn
  <2>3. SendWindow'
    BY <1>4 DEF TickStop, SendWindow, conn
  <2>4. QED BY <2>1, <2>2, <2>3
<1>5. QED
  BY <1>1, <1>2, <1>3, <1>4 DEF TimeoutIsr

(* A step that leaves the connection and the timer alone.                  *)
LEMMA ElsewhereInv ==
  ASSUME ConnInv, UNCHANGED <<conn, tmr_set_timer_zero>>,
         UNCHANGED <<secs, timer_on, payload>>,
         got_html_req' \in BOOLEAN, out' \in Packet
  PROVE  ConnInv'
<1> USE DEF ConnInv, conn, numbers
<1>1. TypeOK'
  BY DEF TypeOK
<1>2. TimerCovers' /\ TimerZeroNeverSet'
  BY DEF TimerCovers, TimerZeroNeverSet
<1>3. SendWindow'
  BY DEF SendWindow, NothingSent, PageSent, FinSent
<1>4. QED BY <1>1, <1>2, <1>3

LEMMA StepInv == ConnInv /\ [Next]_vars => ConnInv'
<1> SUFFICES ASSUME ConnInv, [Next]_vars PROVE ConnInv'
  OBVIOUS
<1>o. got_html_req \in BOOLEAN /\ out \in Packet
  BY DEF ConnInv, TypeOK
<1>1. ASSUME NEW p \in Peers, RxArp(p) PROVE ConnInv'
  BY <1>1, <1>o, ElsewhereInv, ArpReplyType DEF RxArp, mailbox, timer
<1>2. CASE RxOther
  BY <1>2, <1>o, ElsewhereInv, NoPacketType DEF RxOther, mailbox, timer
<1>3. ASSUME NEW f \in Segments, RxSegment(f) PROVE ConnInv'
  BY <1>3, SegmentInv
<1>4. CASE TimeoutIsr
  BY <1>4, TimeoutInv
<1>5. CASE MainTakeRequest
  BY <1>5, <1>o, ElsewhereInv DEF MainTakeRequest, timer
<1>6. CASE UNCHANGED vars
  BY <1>6, <1>o, ElsewhereInv DEF vars, mailbox, timer
<1>7. QED
  BY <1>1, <1>2, <1>3, <1>4, <1>5, <1>6 DEF Next, RxEthernetIsr

(* The inductive invariant holds: types, the timer that covers every open  *)
(* connection, and what is unacknowledged in each state of the switch of   *)
(* rx_ethernet_isr.                                                        *)
THEOREM ConnInvariant == Spec => []ConnInv
<1>1. Init => ConnInv
  BY InitInv
<1>2. ConnInv /\ [Next]_vars => ConnInv'
  BY StepInv
<1>3. QED BY <1>1, <1>2, PTL DEF Spec

(* Type correctness of the control block (struct tcp_conn).                *)
THEOREM TypeCorrect == Spec => []TypeOK
<1>1. ConnInv => TypeOK
  BY DEF ConnInv
<1>2. QED BY <1>1, ConnInvariant, PTL

(* No connection is ever open with the timer stopped, so each can time     *)
(* out, and a stopped timer's counter is zero.                             *)
THEOREM TimerAlwaysCovers == Spec => []TimerCovers
<1>1. ConnInv => TimerCovers
  BY DEF ConnInv
<1>2. QED BY <1>1, ConnInvariant, PTL

(* last_acked, last_sended_len and command_sent agree with the state of    *)
(* the connection in every reachable state.                                *)
THEOREM SendWindowAlways == Spec => []SendWindow
<1>1. ConnInv => SendWindow
  BY DEF ConnInv
<1>2. QED BY <1>1, ConnInvariant, PTL

-----------------------------------------------------------------------------
(* The refinement of OneShot.                                              *)

(* A packet of TcpConn is one OneShot may send.                            *)
LEMMA SendsPkt ==
  ASSUME NEW to, NEW flags, NEW seq, NEW ack \in SeqNo, NEW len,
         out' = TcpPkt(to, flags, seq, ack, len)
  PROVE  Promised!Sends(to, flags, seq, len)
BY DEF TcpPkt, SeqNo, Promised!Sends, Promised!SeqNos

LEMMA SilentPkt == ASSUME out' = NoPacket PROVE Promised!Silent
BY DEF NoPacket, Promised!Silent

(* What ack_check expects, and where it leaves last_acked, in the states   *)
(* that SendWindow distinguishes.                                          *)
LEMMA ExpectedBeforeFin == ASSUME NothingSent PROVE Expected = Add(ISS, 1)
<1>1. Expected = (ISS + (0 + 1)) % SeqSpace
  BY DEF NothingSent, Expected, Add
<1>2. QED BY <1>1 DEF Add

LEMMA ExpectedAfterPage ==
  ASSUME PageSent PROVE Expected = Add(ISS, PageLen + 1) /\ AfterAck = Expected
<1>1. AckedBytes = PageLen + 1
  BY ConnAssumption DEF PageSent, AckedBytes
<1>2. QED BY <1>1 DEF PageSent, Expected, AfterAck

LEMMA ExpectedAfterFin ==
  ASSUME NEW c \in BOOLEAN, FinSent(c)
  PROVE  /\ Expected = Add(Add(ISS, 1), 1)
         /\ c => AfterAck = Expected
<1>1. last_acked = Add(ISS, 1) /\ last_sended_len = 0 /\ command_sent = c
  BY DEF FinSent
<1>2. Expected = Add(Add(ISS, 1), 1)
  BY <1>1 DEF Expected
<1>3. ASSUME c PROVE AckedBytes = 1
  BY <1>1, <1>3 DEF AckedBytes
<1>4. QED BY <1>1, <1>2, <1>3 DEF AfterAck

LEMMA InitRefines == Init => Promised!Begin
BY DEF Init, Promised!Begin, Phase, NoPacket

LEMMA QuietRefines ==
  ASSUME UNCHANGED <<state, dest, last_acked, last_sended_len>>,
         out' = NoPacket
  PROVE  Promised!Quiet
BY SilentPkt DEF Promised!Quiet, Phase, Expected

LEMMA SegmentRefines ==
  ASSUME ConnInv, NEW f \in Segments, RxSegment(f)
  PROVE  Promised!Step
<1> USE DEF Phase
<1>f. /\ f.src \in Peers /\ AckPoint(f.seq, f.len) \in SeqNo
  BY SegmentFields, AckPointInSeq
<1>1. CASE ListenSyn(f)
  <2>1. Promised!Sends(f.src, "synack", ISS, 0)
    BY <1>1, <1>f, SendsPkt DEF ListenSyn
  <2>2. Expected' = Promised!Plus(ISS, 1)
    BY <1>1, ConnAssumption DEF ListenSyn, Expected, Add, Promised!Plus, SeqNo
  <2>3. Promised!Open(f.src)
    BY <1>1, <2>1, <2>2 DEF ListenSyn, Promised!Open
  <2>4. QED BY <2>3, <1>f DEF Promised!Step
<1>2. CASE ListenOther(f)
  BY <1>2, QuietRefines DEF ListenOther, numbers, Promised!Step
<1>3. CASE SynReceivedAck(f)
  <2>1. NothingSent /\ NothingSent'
    BY <1>3, NothingToAck DEF SynReceivedAck, ConnInv, SendWindow, NothingSent
  <2>2. Expected = Expected'
    BY <2>1 DEF NothingSent, Expected
  <2>3. Promised!Establish
    BY <1>3, <2>2, SilentPkt DEF SynReceivedAck, Promised!Establish
  <2>4. QED BY <2>3 DEF Promised!Step
<1>4. CASE EstablishedGet(f)
  <2>1. NothingSent /\ AfterAck = ISS
    BY <1>4, NothingToAck DEF EstablishedGet, ConnInv, SendWindow
  <2>2. Promised!Sends(dest, "finack", ISS, PageLen)
    BY <1>4, <1>f, <2>1, SendsPkt DEF EstablishedGet
  <2>3. Expected' = Promised!Plus(ISS, PageLen + 1)
    BY <1>4, <2>1 DEF EstablishedGet, Expected, Add, Promised!Plus
  <2>4. Promised!Serve
    BY <1>4, <2>2, <2>3 DEF EstablishedGet, Promised!Serve
  <2>5. QED BY <2>4 DEF Promised!Step
<1>5. CASE EstablishedFin(f)
  <2>1. NothingSent /\ AfterAck = ISS /\ Expected = Add(ISS, 1)
    BY <1>5, NothingToAck, ExpectedBeforeFin
    DEF EstablishedFin, ConnInv, SendWindow
  <2>2. Promised!Sends(dest, "finack", Expected, 0)
    BY <1>5, <1>f, <2>1, SendsPkt DEF EstablishedFin
  <2>3. Expected' = Promised!Plus(Expected, 1)
    BY <1>5, <2>1 DEF EstablishedFin, NothingSent, Expected, Add, Promised!Plus
  <2>4. Promised!CloseEmpty
    BY <1>5, <2>2, <2>3 DEF EstablishedFin, Promised!CloseEmpty
  <2>5. QED BY <2>4 DEF Promised!Step
<1>6. CASE EstablishedAck(f)
  <2>1. NothingSent /\ AfterAck = ISS
    BY <1>6, NothingToAck DEF EstablishedAck, ConnInv, SendWindow
  <2>2. Promised!Sends(dest, "ack", ISS, 0)
    BY <1>6, <1>f, <2>1, SendsPkt DEF EstablishedAck
  <2>3. Expected' = Expected
    BY <1>6, <2>1 DEF EstablishedAck, NothingSent, Expected
  <2>4. Promised!Answer
    BY <1>6, <2>2, <2>3 DEF EstablishedAck, Promised!Answer
  <2>5. QED BY <2>4 DEF Promised!Step
<1>7. CASE FinWaitFin(f)
  <2>1. AfterAck = Expected
    BY <1>7, ExpectedAfterPage, ExpectedAfterFin
    DEF FinWaitFin, ConnInv, SendWindow
  <2>2. Promised!Sends(dest, "ack", Expected, 0)
    BY <1>7, <1>f, <2>1, SendsPkt DEF FinWaitFin
  <2>3. Promised!Finish
    BY <1>7, <2>2 DEF FinWaitFin, Promised!Finish
  <2>4. QED BY <2>3 DEF Promised!Step
<1>8. CASE LastAckAck(f)
  <2>1. Promised!Finish
    BY <1>8, SilentPkt DEF LastAckAck, Promised!Finish
  <2>2. QED BY <2>1 DEF Promised!Step
<1>9. CASE NotAcked(f)
  BY <1>9, QuietRefines DEF NotAcked, Promised!Step
<1>10. CASE Ignored(f)
  BY <1>10, QuietRefines DEF Ignored, conn, numbers, Promised!Step
<1>11. QED
  BY <1>1, <1>2, <1>3, <1>4, <1>5, <1>6, <1>7, <1>8, <1>9, <1>10 DEF RxSegment

LEMMA TimeoutRefines ==
  ASSUME ConnInv, TimeoutIsr
  PROVE  Promised!Step
<1> USE DEF Phase
<1>1. CASE TickIdleClose
  <2>1. NothingSent /\ Expected = Add(ISS, 1)
    BY <1>1, ExpectedBeforeFin DEF TickIdleClose, ConnInv, SendWindow
  <2>2. Promised!Sends(dest, "finack", Expected, 0)
    BY <1>1, <2>1, Numbers, SendsPkt DEF TickIdleClose, NothingSent, ConnInv
  <2>3. Expected' = Promised!Plus(Expected, 1)
    BY <1>1, <2>1 DEF TickIdleClose, NothingSent, Expected, Add, Promised!Plus
  <2>4. Promised!CloseEmpty
    BY <1>1, <2>2, <2>3 DEF TickIdleClose, Promised!CloseEmpty
  <2>5. QED BY <2>4 DEF Promised!Step
<1>2. CASE TickDrop
  <2>1. Promised!Finish \/ Promised!GiveUp
    BY <1>2, SilentPkt DEF TickDrop, Closing, Promised!Finish, Promised!GiveUp
  <2>2. QED BY <2>1 DEF Promised!Step
<1>3. CASE TickCount
  BY <1>3, QuietRefines DEF TickCount, conn, numbers, Promised!Step
<1>4. CASE TickStop
  BY <1>4, QuietRefines DEF TickStop, conn, numbers, Promised!Step
<1>5. QED
  BY <1>1, <1>2, <1>3, <1>4 DEF TimeoutIsr

LEMMA StutterRefines ==
  ASSUME UNCHANGED <<conn, out>>
  PROVE  UNCHANGED Promised!oneShotVars
BY DEF conn, numbers, Phase, Expected, Promised!oneShotVars

LEMMA StepRefines ==
  ConnInv /\ [Next]_vars => [Promised!Step]_(Promised!oneShotVars)
<1> SUFFICES ASSUME ConnInv, [Next]_vars
             PROVE  Promised!Step \/ UNCHANGED Promised!oneShotVars
  OBVIOUS
<1>1. ASSUME NEW p \in Peers, RxArp(p) PROVE Promised!Step
  <2>1. Promised!Sends(p, "arp", 0, 0)
    <3>1. 0 \in SeqNo
      BY ConnAssumption DEF SeqNo
    <3>2. QED BY <1>1, <3>1, SendsPkt DEF RxArp, ArpReply, TcpPkt
  <2>2. Promised!AnswerArp
    BY <1>1, <2>1
    DEF RxArp, conn, numbers, Phase, Expected, Promised!AnswerArp
  <2>3. QED BY <2>2 DEF Promised!Step
<1>2. CASE RxOther
  BY <1>2, QuietRefines DEF RxOther, conn, numbers, Promised!Step
<1>3. ASSUME NEW f \in Segments, RxSegment(f) PROVE Promised!Step
  BY <1>3, SegmentRefines
<1>4. CASE TimeoutIsr
  BY <1>4, TimeoutRefines
<1>5. CASE MainTakeRequest
  BY <1>5, StutterRefines DEF MainTakeRequest
<1>6. CASE UNCHANGED vars
  BY <1>6, StutterRefines DEF vars
<1>7. QED
  BY <1>1, <1>2, <1>3, <1>4, <1>5, <1>6 DEF Next, RxEthernetIsr

(* The handlers implement the promise of OneShot: whatever arrives, each   *)
(* connection gets one SYN-ACK, at most one page, one FIN and, in answer   *)
(* to the peer's FIN, an ACK numbered right after the server's own.        *)
THEOREM Refinement == Spec => KeepsPromise
<1>1. Init => Promised!Begin
  BY InitRefines
<1>2. ConnInv /\ [Next]_vars => [Promised!Step]_(Promised!oneShotVars)
  BY StepRefines
<1>3. QED
  BY <1>1, <1>2, ConnInvariant, PTL DEF Spec, KeepsPromise, Promised!Promise

-----------------------------------------------------------------------------
(* The checksums.  Folding a sum until it fits into 16 bits takes the rest *)
(* by 65535 (FoldedIs); the loop over the words is an induction            *)
(* (SumAddsUp), and so is that two memories that differ in one word have   *)
(* sums that differ by as much (SumsDiffer).                               *)
Bytes == 0 .. 255
Folding(s) == (s % Word16) + (s \div Word16)
Rest(s) == IF s = 0 THEN 0 ELSE ((s - 1) % 65535) + 1
Solves(f) == f = [s \in Nat |-> IF s < Word16 THEN s ELSE f[Folding(s)]]

LEMMA FoldingIs ==
  ASSUME NEW s \in Nat, ~(s < Word16)
  PROVE  Folding(s) \in Nat /\ Folding(s) < s /\ Rest(Folding(s)) = Rest(s)
<1> DEFINE h == s \div 65536
           l == s % 65536
<1>1. h \in Nat /\ l \in Nat /\ l <= 65535 /\ s = 65536 * h + l /\ h > 0
  BY DEF Word16
<1>2. Folding(s) = l + h
  BY DEF Folding, Word16
<1> HIDE DEF h, l
<1>3. l + h \in Nat \ {0} /\ l + h < s
  BY <1>1
<1>4. (l + h - 1) % 65535 = (s - 1) % 65535
  <2>1. s - 1 = 65535 * h + (l + h - 1) /\ l + h - 1 \in Nat
    BY <1>1
  <2> QED BY <1>1, <2>1
<1> QED BY <1>1, <1>2, <1>3, <1>4 DEF Rest

(* What the loop leaves of a sum: its rest by 65535, but 65535 for a       *)
(* multiple that is not zero.                                              *)
LEMMA FoldedIs == \A s \in Nat : Folded[s] = Rest(s)
<1> DEFINE rest == [s \in Nat |-> Rest(s)]
<1>1. Solves(rest)
  <2>1. ASSUME NEW s \in Nat, s < Word16 PROVE Rest(s) = s
    BY <2>1 DEF Rest, Word16
  <2>2. ASSUME NEW s \in Nat, ~(s < Word16) PROVE rest[s] = rest[Folding(s)]
    BY <2>2, FoldingIs
  <2> QED BY <2>1, <2>2 DEF Solves
<1>2. Folded = CHOOSE f : Solves(f)
  BY DEF Folded, Solves, Folding
<1>3. Solves(Folded)
  <2> HIDE DEF rest
  <2> QED BY <1>1, <1>2
<1>4. \A s \in Nat : Folded[s] = IF s < Word16 THEN s ELSE Folded[Folding(s)]
  BY <1>3 DEF Solves
<1> SUFFICES ASSUME NEW t \in Nat, Folded[t] # Rest(t) PROVE FALSE
  OBVIOUS
<1> DEFINE wrong == {s \in Nat : Folded[s] # Rest(s)}
<1>5. PICK s \in wrong : \A u \in wrong : s <= u
  BY LeastNat
<1>6. CASE s < Word16
  BY <1>4, <1>6 DEF Rest, Word16
<1>7. CASE ~(s < Word16)
  <2>1. Folding(s) \in Nat /\ Folding(s) < s /\ Rest(Folding(s)) = Rest(s)
    BY <1>7, FoldingIs
  <2>2. Folding(s) \notin wrong
    BY <1>5, <2>1
  <2>3. Folded[Folding(s)] = Rest(s)
    BY <2>1, <2>2
  <2> QED BY <1>4, <1>7, <2>3
<1> QED BY <1>6, <1>7

(* How the loop over n words adds up.                                      *)
Memory(h) == [1 .. 2 * h -> Bytes]
Word(data, n) == 256 * data[2 * n - 1] + data[2 * n]
AddsUp(sum, data, h) ==
  sum[0] = 0 /\ \A n \in 1 .. h : sum[n] = sum[n - 1] + Word(data, n)

LEMMA WordIs ==
  ASSUME NEW h \in Nat, NEW data \in Memory(h), NEW n \in 1 .. h
  PROVE  /\ data[2 * n - 1] \in Nat /\ data[2 * n - 1] <= 255
         /\ data[2 * n] \in Nat /\ data[2 * n] <= 255
         /\ Word(data, n) \in Nat /\ Word(data, n) <= 65535
<1>1. 2 * n - 1 \in 1 .. 2 * h /\ 2 * n \in 1 .. 2 * h
  OBVIOUS
<1>2. data \in [1 .. 2 * h -> Bytes]
  BY DEF Memory
<1>3. \A k \in 1 .. 2 * h : data[k] \in Bytes
  BY <1>2
<1>4. data[2 * n - 1] \in Bytes /\ data[2 * n] \in Bytes
  BY <1>1, <1>3, Zenon
<1>5. \A b \in Bytes : b \in Nat /\ b <= 255
  BY DEF Bytes
<1>6. /\ data[2 * n - 1] \in Nat /\ data[2 * n - 1] <= 255
      /\ data[2 * n] \in Nat /\ data[2 * n] <= 255
  BY <1>4, <1>5, Zenon
<1>7. Word(data, n) \in Nat /\ Word(data, n) <= 65535
  <2> DEFINE a == data[2 * n - 1]
             b == data[2 * n]
  <2>1. a \in Nat /\ a <= 255 /\ b \in Nat /\ b <= 255
    BY <1>6
  <2>2. Word(data, n) = 256 * a + b
    BY DEF Word
  <2> HIDE DEF a, b
  <2>3. 256 * a + b \in Nat /\ 256 * a + b <= 65535
    BY <2>1
  <2> QED BY <2>2, <2>3
<1> QED BY <1>6, <1>7

LEMMA WordsAre ==
  ASSUME NEW h \in Nat, NEW data \in Memory(h)
  PROVE  \A n \in 1 .. h : /\ data[2 * n - 1] \in Nat /\ data[2 * n] \in Nat
                            /\ Word(data, n) \in Nat /\ Word(data, n) <= 65535
<1> TAKE n \in 1 .. h
<1> QED BY WordIs

LEMMA SumAddsUp ==
  ASSUME NEW h \in Nat, NEW data \in Memory(h), NEW len \in Nat,
         (len + 1) \div 2 = h
  PROVE  \E sum \in [0 .. h -> Nat] : AddsUp(sum, data, h) /\ SumOfWords(data, len) = sum[h]
<1> DEFINE Adds(f) == f = [n \in 0 .. h |-> IF n = 0 THEN 0
                             ELSE f[n - 1] + 256 * data[2 * n - 1] + data[2 * n]]
           step == [n \in 1 .. h |-> [s \in Nat |-> s + Word(data, n)]]
           sum == CHOOSE f : Adds(f)
<1>0. \A n \in 1 .. h : /\ data[2 * n - 1] \in Nat /\ data[2 * n] \in Nat
                          /\ Word(data, n) \in Nat
  BY WordsAre
<1>1. step \in StepsUpTo(h, Nat)
  BY <1>0 DEF StepsUpTo
<1>2. PICK g \in [0 .. h -> Nat] : Recursively(g, h, 0, step)
  <2> HIDE DEF step
  <2>1. 0 \in Nat
    OBVIOUS
  <2> QED BY <1>1, <2>1, RecursionTo
<1>3. ASSUME NEW n \in 1 .. h PROVE g[n] = g[n - 1] + Word(data, n)
  <2>1. n - 1 \in 0 .. h /\ g[n - 1] \in Nat
    OBVIOUS
  <2> QED BY <1>2, <2>1 DEF Recursively
<1>4. ASSUME NEW n \in 1 .. h
      PROVE  g[n] = g[n - 1] + 256 * data[2 * n - 1] + data[2 * n]
  <2>1. n - 1 \in 0 .. h /\ g[n - 1] \in Nat
    OBVIOUS
  <2>2. data[2 * n - 1] \in Nat /\ data[2 * n] \in Nat
    BY <1>0
  <2> QED BY <1>3, <2>1, <2>2 DEF Word
<1>5. Adds(g)
  BY <1>2, <1>4 DEF Recursively
<1>6. Adds(sum)
  <2> HIDE DEF Adds
  <2> QED BY <1>5
<1>7. SumOfWords(data, len) = sum[h]
  BY DEF SumOfWords
<1> HIDE DEF sum
<1>8. sum[0] = 0 /\ \A n \in 1 .. h : sum[n] = sum[n - 1] + 256 * data[2 * n - 1] + data[2 * n]
  BY <1>6
<1> DEFINE S == {n \in 0 .. h : sum[n] \in Nat}
<1>9. \A n \in 0 .. h : n \in S
  <2>1. 0 \in S
    BY <1>8
  <2>2. ASSUME NEW n \in 1 .. h, n - 1 \in S PROVE n \in S
    <3>1. data[2 * n - 1] \in Nat /\ data[2 * n] \in Nat
      BY <1>0
    <3>2. sum[n] = sum[n - 1] + 256 * data[2 * n - 1] + data[2 * n]
      BY <1>8
    <3>3. sum[n - 1] \in Nat
      BY <2>2
    <3> DEFINE a == data[2 * n - 1]
               b == data[2 * n]
               c == sum[n - 1]
    <3>4. a \in Nat /\ b \in Nat /\ c \in Nat /\ sum[n] = c + 256 * a + b
      BY <3>1, <3>2, <3>3
    <3> HIDE DEF a, b, c
    <3>5. sum[n] \in Nat
      BY <3>4
    <3> QED BY <3>5
  <2> HIDE DEF S
  <2>3. \A n \in 1 .. h : n - 1 \in S => n \in S
    BY <2>2
  <2> QED BY <2>1, <2>3, InductionTo, Zenon
<1>10. sum \in [0 .. h -> Nat]
  BY <1>6, <1>9
<1>11. ASSUME NEW n \in 1 .. h PROVE sum[n] = sum[n - 1] + Word(data, n)
  <2>1. sum[n - 1] \in Nat
    BY <1>10
  <2>2. data[2 * n - 1] \in Nat /\ data[2 * n] \in Nat
    BY <1>0
  <2> QED BY <1>8, <2>1, <2>2 DEF Word
<1> QED BY <1>7, <1>8, <1>10, <1>11 DEF AddsUp

LEMMA SumBound ==
  ASSUME NEW h \in Nat, NEW data \in Memory(h), NEW len \in Nat,
         (len + 1) \div 2 = h
  PROVE  SumOfWords(data, len) \in Nat /\ SumOfWords(data, len) <= 65535 * h
<1>1. PICK sum \in [0 .. h -> Nat] : AddsUp(sum, data, h) /\ SumOfWords(data, len) = sum[h]
  BY SumAddsUp
<1> DEFINE S == {n \in 0 .. h : sum[n] <= 65535 * n}
<1>2. 0 \in S
  BY <1>1 DEF AddsUp
<1>3. ASSUME NEW n \in 1 .. h, n - 1 \in S PROVE n \in S
  <2>1. sum[n] = sum[n - 1] + Word(data, n)
    BY <1>1 DEF AddsUp
  <2>3. Word(data, n) \in Nat /\ Word(data, n) <= 65535
    BY WordsAre
  <2>2. sum[n - 1] \in Nat /\ sum[n - 1] <= 65535 * (n - 1)
    BY <1>3
  <2>4. sum[n] <= 65535 * n
    BY <2>1, <2>2, <2>3
  <2> QED BY <2>4
<1> HIDE DEF S
<1>4. \A n \in 1 .. h : n - 1 \in S => n \in S
  BY <1>3
<1>5. \A n \in 0 .. h : n \in S
  BY <1>2, <1>4, InductionTo, Zenon
<1> QED BY <1>1, <1>5 DEF S

(* Two memories that differ in one word have sums that differ by as much.  *)
LEMMA SumsDiffer ==
  ASSUME NEW h \in Nat, NEW data \in Memory(h), NEW new \in Memory(h),
         NEW len \in Nat, (len + 1) \div 2 = h, NEW p \in 1 .. h,
         \A n \in 1 .. h : n # p => Word(new, n) = Word(data, n)
  PROVE  SumOfWords(new, len) = SumOfWords(data, len) + Word(new, p) - Word(data, p)
<1>1. PICK a \in [0 .. h -> Nat] : AddsUp(a, data, h) /\ SumOfWords(data, len) = a[h]
  BY SumAddsUp
<1>2. PICK b \in [0 .. h -> Nat] : AddsUp(b, new, h) /\ SumOfWords(new, len) = b[h]
  BY SumAddsUp
<1> DEFINE more == Word(new, p) - Word(data, p)
           S == {n \in 0 .. h : b[n] = a[n] + IF n < p THEN 0 ELSE more}
<1>3. more \in Int
  BY WordsAre
<1>4. 0 \in S
  BY <1>1, <1>2 DEF AddsUp
<1>5. ASSUME NEW n \in 1 .. h, n - 1 \in S PROVE n \in S
  <2>1. a[n] = a[n - 1] + Word(data, n) /\ b[n] = b[n - 1] + Word(new, n)
    BY <1>1, <1>2 DEF AddsUp
  <2>2. a[n - 1] \in Nat /\ b[n - 1] \in Nat /\ Word(data, n) \in Nat /\ Word(new, n) \in Nat
    BY WordsAre
  <2>3. CASE n < p
    BY <1>5, <2>1, <2>2, <2>3
  <2>4. CASE n = p
    BY <1>5, <2>1, <2>2, <2>4
  <2>5. CASE n > p
    <3> HIDE DEF more
    <3> QED BY <1>3, <1>5, <2>1, <2>2, <2>5
  <2> QED BY <2>3, <2>4, <2>5
<1> HIDE DEF S
<1>6. \A n \in 1 .. h : n - 1 \in S => n \in S
  BY <1>5
<1>7. \A n \in 0 .. h : n \in S
  BY <1>4, <1>6, InductionTo, Zenon
<1>8. b[h] = a[h] + more
  BY <1>7 DEF S
<1> QED BY <1>1, <1>2, <1>8, WordsAre

(* The checksum is put on the wire high byte first.                        *)
LEMMA OnTheWire ==
  ASSUME NEW c \in Nat, c <= 65535
  PROVE  /\ Stored(Exchanged(c))[1] \in Bytes /\ Stored(Exchanged(c))[2] \in Bytes
         /\ 256 * Stored(Exchanged(c))[1] + Stored(Exchanged(c))[2] = c
<1> DEFINE high == c \div 256
           low == c % 256
<1>1. high \in Nat /\ high <= 255 /\ low \in Nat /\ low <= 255 /\ c = 256 * high + low
  OBVIOUS
<1>2. Exchanged(c) = high + 256 * low
  BY DEF Exchanged
<1> HIDE DEF high, low
<1>3. (high + 256 * low) % 256 = high /\ (high + 256 * low) \div 256 = low
  BY <1>1
<1>4. Stored(Exchanged(c)) = <<high, low>>
  BY <1>2, <1>3 DEF Stored
<1>5. high \in Bytes /\ low \in Bytes
  BY <1>1 DEF Bytes
<1>6. Stored(Exchanged(c))[1] = high /\ Stored(Exchanged(c))[2] = low
  BY <1>4
<1> QED BY <1>1, <1>5, <1>6

(* With its complement a sum verifies, whatever it was; with a byte less,  *)
(* it does not.                                                            *)
LEMMA LessAByte ==
  ASSUME NEW s \in Nat, NEW x \in Nat, x <= 255
  PROVE  /\ Complement(s) \in Nat /\ Complement(s) <= 65535
         /\ Verifies(s + Complement(s) - x) <=> x = 0
<1> DEFINE c == Complement(s)
<1>1. c = 65535 - Rest(s)
  BY FoldedIs DEF Complement, Word16
<1>2. Rest(s) \in Nat /\ Rest(s) <= 65535
  BY DEF Rest
<1>3. PICK m \in Nat : s + c = 65535 * m /\ m > 0
  <2>1. CASE s = 0
    <3>1. s + c = 65535 * 1
      BY <1>1, <2>1 DEF Rest
    <3> QED BY <3>1
  <2>2. CASE s # 0
    <3> DEFINE q == (s - 1) \div 65535
               r == (s - 1) % 65535
    <3>1. q \in Nat /\ r \in Nat /\ s - 1 = 65535 * q + r
      BY <2>2
    <3>2. c = 65534 - r
      BY <1>1, <2>2, <3>1 DEF Rest
    <3> HIDE DEF q, r, c
    <3>3. s + c = 65535 * (q + 1) /\ q + 1 \in Nat /\ q + 1 > 0
      BY <3>1, <3>2
    <3> QED BY <3>3
  <2> QED BY <2>1, <2>2
<1>0. c = 65535 - Rest(s)
  BY <1>1
<1> HIDE DEF c
<1>7. c \in Nat /\ c <= 65535
  BY <1>0, <1>2
<1>4. Rest(s + c - x) = 65535 - x
  <2> DEFINE t == s + c - x
  <2>0. t = 65535 * m - x
    BY <1>3, <1>7
  <2> HIDE DEF t
  <2>1. t - 1 = 65535 * (m - 1) + (65534 - x) /\ t \in Nat /\ t # 0
    BY <1>3, <2>0
  <2>2. m - 1 \in Nat /\ 65534 - x \in Nat /\ 65534 - x < 65535
    BY <1>3
  <2>3. (t - 1) % 65535 = 65534 - x
    BY <2>1, <2>2
  <2>4. Rest(t) = 65535 - x
    BY <2>1, <2>3 DEF Rest
  <2> QED BY <2>4 DEF t
<1>5. s + c - x \in Nat
  <2>1. s + c \in Nat /\ s + c >= 65535
    BY <1>3, <1>7
  <2> QED BY <1>7, <2>1
<1>6. Folded[s + c - x] = 65535 - x
  BY <1>4, <1>5, FoldedIs
<1>8. Verifies(s + c - x) <=> x = 0
  BY <1>6 DEF Verifies, Word16
<1> QED BY <1>7, <1>8 DEF c

LEMMA Completed ==
  ASSUME NEW s \in Nat
  PROVE  /\ Complement(s) \in Nat /\ Complement(s) <= 65535
         /\ Verifies(s + Complement(s))
<1>1. Complement(s) \in Nat /\ Complement(s) <= 65535
  BY LessAByte
<1>2. Verifies(s + Complement(s) - 0)
  BY LessAByte
<1>3. s + Complement(s) - 0 = s + Complement(s)
  BY <1>1
<1> QED BY <1>1, <1>2, <1>3

(* The sum of a memory that gets a checksum where it held a zero.          *)
LEMMA SumWithChecksum ==
  ASSUME NEW h \in Nat, NEW data \in Memory(h), NEW len \in Nat,
         (len + 1) \div 2 = h, NEW p \in 1 .. h,
         data[2 * p - 1] = 0, data[2 * p] = 0, NEW c \in Nat, c <= 65535
  PROVE  /\ WithChecksum(data, 2 * p - 1, Exchanged(c)) \in Memory(h)
         /\ SumOfWords(WithChecksum(data, 2 * p - 1, Exchanged(c)), len)
              = SumOfWords(data, len) + c
<1> DEFINE sent == WithChecksum(data, 2 * p - 1, Exchanged(c))
           x == Stored(Exchanged(c))[1]
           y == Stored(Exchanged(c))[2]
<1>1. 2 * p - 1 \in 1 .. 2 * h /\ 2 * p \in 1 .. 2 * h /\ 2 * p - 1 + 1 = 2 * p
  OBVIOUS
<1>2. x \in Bytes /\ y \in Bytes /\ 256 * x + y = c
  BY OnTheWire
<1>3. sent = [data EXCEPT ![2 * p - 1] = x, ![2 * p] = y]
  BY <1>1 DEF WithChecksum
<1>4. data \in [1 .. 2 * h -> Bytes]
  BY DEF Memory
<1> HIDE DEF sent, x, y
<1>5. sent \in Memory(h)
  BY <1>2, <1>3, <1>4 DEF Memory
<1>6. sent[2 * p - 1] = x /\ sent[2 * p] = y
  BY <1>1, <1>3, <1>4
<1>7. Word(sent, p) = c /\ Word(data, p) = 0
  BY <1>2, <1>6 DEF Word
<1>8. ASSUME NEW n \in 1 .. h, n # p PROVE Word(sent, n) = Word(data, n)
  <2>1. /\ 2 * n - 1 \in 1 .. 2 * h /\ 2 * n \in 1 .. 2 * h
        /\ 2 * n - 1 # 2 * p - 1 /\ 2 * n - 1 # 2 * p
        /\ 2 * n # 2 * p - 1 /\ 2 * n # 2 * p
    BY <1>8
  <2>2. sent[2 * n - 1] = data[2 * n - 1] /\ sent[2 * n] = data[2 * n]
    BY <1>3, <1>4, <2>1
  <2> QED BY <2>2 DEF Word
<1>9. SumOfWords(sent, len) = SumOfWords(data, len) + c - 0
  BY <1>5, <1>7, <1>8, SumsDiffer
<1>10. SumOfWords(data, len) \in Nat
  BY SumBound
<1> QED BY <1>5, <1>9, <1>10 DEF sent

(* Every header of whole words, whatever its bytes and wherever its        *)
(* checksum belongs, verifies with the checksum of get_ipv4_checksumm      *)
(* where the zero was (tcp_socket.c:451-472, 552-553; there, ten words).   *)
THEOREM Ipv4HeaderVerifies ==
  ASSUME NEW h \in Nat, NEW data \in Memory(h), NEW p \in 1 .. h,
         data[2 * p - 1] = 0, data[2 * p] = 0
  PROVE  HeaderVerifies(data, 2 * p - 1, 2 * h)
<1> DEFINE s == SumOfWords(data, 2 * h)
           c == Complement(s)
<1>1. 2 * h \in Nat /\ (2 * h + 1) \div 2 = h
  OBVIOUS
<1>2. s \in Nat
  BY <1>1, SumBound
<1>3. c \in Nat /\ c <= 65535 /\ Verifies(s + c)
  BY <1>2, Completed
<1>4. get_ipv4_checksumm(data, 2 * h) = Exchanged(c)
  BY DEF get_ipv4_checksumm
<1> HIDE DEF c
<1>5. SumOfWords(WithChecksum(data, 2 * p - 1, Exchanged(c)), 2 * h) = s + c
  BY <1>1, <1>3, SumWithChecksum
<1> QED BY <1>3, <1>4, <1>5 DEF HeaderVerifies

(* So does every segment with its pseudo header, if its length is even or  *)
(* the byte behind it is zero; with any other byte behind it, none does:   *)
(* get_tcp_checksumm adds it up (tcp_socket.c:473-506, 554-555).           *)
THEOREM TcpSegmentVerifies ==
  ASSUME NEW source_ip \in Memory(2), NEW dest_ip \in Memory(2),
         NEW len \in Nat, NEW h \in Nat, (len + 1) \div 2 = h,
         NEW data \in Memory(h), NEW p \in 1 .. h, 2 * p <= len,
         data[2 * p - 1] = 0, data[2 * p] = 0
  PROVE  SegmentVerifies(source_ip, dest_ip, data, 2 * p - 1, len)
           <=> len % 2 = 0 \/ data[len + 1] = 0
<1> DEFINE pseudo == SumOfWords(source_ip, 4) + SumOfWords(dest_ip, 4) + 6 + len
           s == pseudo + SumOfWords(data, len)
           c == Complement(s)
           sent == WithChecksum(data, 2 * p - 1, Exchanged(c))
           cut == [sent EXCEPT ![len + 1] = 0]
<1>1. SumOfWords(data, len) \in Nat /\ pseudo \in Nat
  <2>1. (4 + 1) \div 2 = 2 /\ 4 \in Nat /\ 2 \in Nat
    OBVIOUS
  <2>2. SumOfWords(source_ip, 4) \in Nat /\ SumOfWords(dest_ip, 4) \in Nat
    BY <2>1, SumBound
  <2>3. SumOfWords(data, len) \in Nat
    BY SumBound
  <2> QED BY <2>2, <2>3
<1>2. s \in Nat
  BY <1>1
<1>3. c \in Nat /\ c <= 65535 /\ Verifies(s + c)
  BY <1>2, Completed
<1>4. get_tcp_checksumm(source_ip, dest_ip, data, len) = Exchanged(c)
  BY DEF get_tcp_checksumm
<1>5. SegmentVerifies(source_ip, dest_ip, data, 2 * p - 1, len)
        <=> Verifies(pseudo + SumOfWords(IF len % 2 = 0 THEN sent ELSE cut, len))
  BY <1>4 DEF SegmentVerifies
<1> HIDE DEF pseudo, c
<1>6. sent \in Memory(h) /\ SumOfWords(sent, len) = SumOfWords(data, len) + c
  BY <1>3, SumWithChecksum
<1> HIDE DEF sent
<1>7. CASE len % 2 = 0
  <2>1. pseudo + SumOfWords(sent, len) = s + c
    BY <1>1, <1>3, <1>6
  <2> QED BY <1>3, <1>5, <1>7, <2>1
<1>8. CASE len % 2 # 0
  <2> DEFINE x == data[len + 1]
  <2>1. len + 1 = 2 * h /\ p < h
    BY <1>8
  <2>2. h \in 1 .. h /\ 2 * h \in 1 .. 2 * h /\ 2 * h - 1 \in 1 .. 2 * h /\ 2 * h - 1 # 2 * h
    OBVIOUS
  <2>3. sent[2 * h] = x
    BY <2>1, <2>2 DEF sent, WithChecksum, Memory
  <2>4. x \in Nat /\ x <= 255
    BY <2>1, <2>2, WordIs
  <2>5. sent \in [1 .. 2 * h -> Bytes] /\ cut = [sent EXCEPT ![2 * h] = 0]
    BY <1>6, <2>1 DEF Memory
  <2> HIDE DEF x, cut
  <2>6. cut \in Memory(h)
    BY <2>5 DEF Memory, Bytes
  <2>7. Word(cut, h) = Word(sent, h) - x
    <3>1. cut[2 * h] = 0 /\ cut[2 * h - 1] = sent[2 * h - 1]
      BY <2>2, <2>5
    <3>2. sent[2 * h - 1] \in Nat
      BY <1>6, <2>2, WordIs
    <3> QED BY <2>3, <2>4, <3>1, <3>2 DEF Word
  <2>8. ASSUME NEW n \in 1 .. h, n # h PROVE Word(cut, n) = Word(sent, n)
    <3>1. 2 * n - 1 # 2 * h /\ 2 * n # 2 * h /\ 2 * n - 1 \in 1 .. 2 * h /\ 2 * n \in 1 .. 2 * h
      BY <2>8
    <3>2. cut[2 * n - 1] = sent[2 * n - 1] /\ cut[2 * n] = sent[2 * n]
      BY <2>5, <3>1
    <3> QED BY <3>2 DEF Word
  <2>9. SumOfWords(cut, len) = SumOfWords(sent, len) + Word(cut, h) - Word(sent, h)
    BY <1>6, <2>2, <2>6, <2>8, SumsDiffer
  <2>10. Word(sent, h) \in Nat /\ SumOfWords(sent, len) \in Nat
    BY <1>1, <1>3, <1>6, <2>2, WordIs
  <2>11. pseudo + SumOfWords(cut, len) = s + c - x
    BY <1>1, <1>3, <1>6, <2>4, <2>7, <2>9, <2>10
  <2>12. Verifies(s + c - x) <=> x = 0
    <3> HIDE DEF s
    <3> QED BY <1>2, <2>4, LessAByte DEF c
  <2> QED BY <1>5, <1>8, <2>11, <2>12 DEF x
<1> QED BY <1>7, <1>8

(* Up to the longest even length the counter of 16 bits can reach, neither *)
(* it nor the sum of 32 bits wraps in get_tcp_checksumm: taking them for   *)
(* natural numbers is right (tcp_socket.c:473-506).                        *)
THEOREM SumsFit ==
  ASSUME NEW source_ip \in Memory(2), NEW dest_ip \in Memory(2),
         NEW len \in Nat, len <= 65534, NEW h \in Nat, (len + 1) \div 2 = h,
         NEW data \in Memory(h)
  PROVE  /\ 2 * h < Word16
         /\ SumOfWords(data, len) < Word16 * Word16
         /\ SumOfWords(source_ip, 4) + SumOfWords(dest_ip, 4) + 6 + len
              + SumOfWords(data, len) < Word16 * Word16
<1>1. (4 + 1) \div 2 = 2 /\ 4 \in Nat /\ 2 \in Nat /\ len \in Nat /\ h <= 32767 /\ 2 * h < 65536
  OBVIOUS
<1>2. /\ SumOfWords(source_ip, 4) \in Nat /\ SumOfWords(source_ip, 4) <= 65535 * 2
      /\ SumOfWords(dest_ip, 4) \in Nat /\ SumOfWords(dest_ip, 4) <= 65535 * 2
  BY <1>1, SumBound
<1>3. SumOfWords(data, len) \in Nat /\ SumOfWords(data, len) <= 65535 * h
  BY <1>1, SumBound
<1>4. SumOfWords(data, len) \in Nat /\ SumOfWords(data, len) <= 65535 * 32767
  BY <1>1, <1>3
<1> QED BY <1>1, <1>2, <1>4 DEF Word16
=============================================================================
