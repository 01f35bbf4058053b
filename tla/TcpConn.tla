------------------------------ MODULE TcpConn ------------------------------
(***************************************************************************)
(* The connection control block of the web server (struct tcp_conn) and    *)
(* everything that changes it: the receive interrupt handler               *)
(* rx_ethernet_isr, the one-second timer handler timeout_isr, and the main *)
(* loop's read-and-clear of got_html_req.                                  *)
(*                                                                         *)
(* Both handlers run with interrupts disabled, so each is one atomic step; *)
(* the main loop runs between them.  A received segment is arbitrary: this *)
(* module assumes nothing of the other end or of the network.              *)
(*                                                                         *)
(* Abstractions.  An IP address, MAC and port triple is a member of Peers  *)
(* (the code compares address and port together).  The bytes of a form     *)
(* request are a member of Requests.  Sequence numbers are 0..SeqSpace-1,  *)
(* SeqSpace standing for 2^32.  The frame classification tests of lines    *)
(* 223 and 247-252 are the choice between RxArp, RxOther and the segment   *)
(* actions.  TCP->window and the global set_timer_zero (lines 217, 282 and *)
(* 296) are written and never read, and left out.  TCP->acked is written   *)
(* and read inside one handler, and is the operator Acked.                 *)
(***************************************************************************)
EXTENDS Integers

CONSTANTS
  Peers,        \* address/port identities a frame can come from
  Nobody,       \* destination of "no packet"
  Requests,     \* contents of HTTP requests that start with "GET"
  NoRequest,    \* a segment or payload buffer that holds no such request
  Segments,     \* the TCP segments for port 80 that may arrive
  SegLens,      \* their payload lengths
  SeqSpace,       \* size of the sequence space (2^32 in the code)
  ISS,          \* the server's initial sequence number (0x13370000)
  PageLen,      \* HTML_PAGE_LEN
  EstTimeout,   \* ticks without closing before ESTABLISHED is given up (10)
  CloseTimeout, \* ticks in the other states before they are dropped (60)
  SecsMax,      \* where the tick counter is cut off: see Tick
  NullTicks     \* timer interrupts that may find TCP still NULL (1): see Init

SeqNo == 0 .. SeqSpace - 1

(* A received segment: who sent it, the flags the code looks at, the two   *)
(* numbers, get_payload_len() and what its first payload bytes hold.       *)
Segment == [src : Peers, syn : BOOLEAN, ack : BOOLEAN, fin : BOOLEAN,
            seq : SeqNo, ackNum : SeqNo, len : SegLens,
            req : Requests \cup {NoRequest}]

ASSUME ConnAssumption ==
  /\ SeqSpace \in Nat \ {0}
  /\ ISS \in SeqNo
  /\ PageLen \in Nat \ {0}
  /\ NullTicks \in Nat
  /\ EstTimeout \in Nat /\ NullTicks < EstTimeout
  /\ CloseTimeout \in Nat /\ EstTimeout < CloseTimeout
  /\ SecsMax \in Nat /\ CloseTimeout < SecsMax
  /\ SegLens \subseteq Nat /\ 0 \in SegLens
  /\ Segments \subseteq Segment
  /\ Nobody \notin Peers
  /\ NoRequest \notin Requests

VARIABLES
  state,             \* TCP->state
  dest,              \* TCP->dest_mac, dest_ip, dest_port
  seq_num,           \* TCP->seq_num
  rec_payload_len,   \* TCP->rec_payload_len
  last_acked,        \* TCP->last_acked
  last_sended_len,   \* TCP->last_sended_len
  command_sent,      \* TCP->command_sent
  got_html_req,      \* TCP->got_html_req
  payload,           \* TCP->payload
  tmr_set_timer_zero,\* tmr.set_timer_zero, the field timeout_isr tests
  secs,              \* the static counter of timeout_isr
  timer_on,          \* TIMER_0 counts and interrupts
  out                \* the packet the last handler sent, if any

numbers == <<seq_num, rec_payload_len, last_acked, last_sended_len>>
conn == <<state, dest, numbers, command_sent>>
mailbox == <<got_html_req, payload>>
timer == <<tmr_set_timer_zero, secs, timer_on>>
vars == <<conn, mailbox, timer, out>>

-----------------------------------------------------------------------------
(* Values.                                                                 *)

States == {"LISTEN", "SYN_RECEIVED", "ESTABLISHED", "FIN_WAIT", "LAST_ACK"}

(* The 64 bytes kept for the main loop: the request last copied in whole,  *)
(* and whether a later SYN has overwritten the first 24 of them.           *)
Payload == [req : Requests \cup {NoRequest}, torn : BOOLEAN]

Packet == [to : Peers \cup {Nobody},
           flags : {"none", "arp", "synack", "finack", "ack"},
           seq : SeqNo, ack : SeqNo, len : {0, PageLen}]

NoPacket == [to |-> Nobody, flags |-> "none", seq |-> 0, ack |-> 0, len |-> 0]

AddUnwrapped(a, b) == a + b                    \* mutant of Add

Add(a, b) == (a + b) % SeqSpace

(* create_tcp_pkt acknowledges one more than what was received when that   *)
(* was empty, as if the segment had been a SYN or a FIN.                   *)
AckPoint(s, len) == Add(s, IF len = 0 THEN 1 ELSE len)

TcpPkt(to, flags, seq, ack, len) ==
  [to |-> to, flags |-> flags, seq |-> seq, ack |-> ack, len |-> len]

ArpReply(p) ==
  [to |-> p, flags |-> "arp", seq |-> 0, ack |-> 0, len |-> 0]

-----------------------------------------------------------------------------
(* ack_check: the one acknowledgment number the server accepts, and what   *)
(* it adds to last_acked on accepting it.                                  *)

Expected == Add(last_acked, last_sended_len + 1)

AckedAny(f) == f.ack                              \* mutant of Acked
Acked(f) == f.ack /\ f.ackNum = Expected

(* Mutants of AckedBytes: the SYN-ACK counted as sent data, and the bare   *)
(* FIN of the idle timeout not counted.                                    *)
AckedBytesAlways == last_sended_len + 1 + (IF command_sent THEN 1 ELSE 0)
AckedBytesNoFin == IF last_sended_len # 0 THEN last_sended_len + 1 ELSE 0

AckedBytes == (IF last_sended_len # 0 THEN last_sended_len + 1 ELSE 0)
              + (IF command_sent THEN 1 ELSE 0)

AfterAck == Add(last_acked, AckedBytes)

(* The tests on the sender's address and port: check_tcp_sender_ip and     *)
(* the comparison of dest_port.                                            *)
FromAnyone(f) == f.ack                            \* mutant of FromPeer
FromPeer(f) == f.ack /\ f.src = dest

-----------------------------------------------------------------------------
(* The stack variable TCP of main is not initialised but for its state.    *)
(* TIMER_0 starts as the system clock with a period of 30 us; an interrupt *)
(* between lines 446 and 77 of tcp_socket.c reaches timeout_isr while the  *)
(* global TCP is NULL, and counts if it takes the word there for an open   *)
(* state.  Writing the period (lines 447-448) stops the timer.             *)

Init ==
  /\ state = "LISTEN"
  /\ dest \in Peers
  /\ seq_num \in SeqNo
  /\ rec_payload_len \in SegLens
  /\ last_acked \in SeqNo
  /\ last_sended_len \in {0, PageLen}
  /\ command_sent \in BOOLEAN
  /\ got_html_req \in BOOLEAN
  /\ payload \in Payload
  /\ tmr_set_timer_zero = FALSE
  /\ secs \in 0 .. NullTicks
  /\ timer_on = FALSE
  /\ out = NoPacket

-----------------------------------------------------------------------------
(* rx_ethernet_isr, one action per path through the handler.               *)

RxArp(p) ==                       \* an ARP frame that asks for my_ip
  /\ out' = ArpReply(p)
  /\ UNCHANGED <<conn, mailbox, timer>>

RxOther ==                        \* any frame the tests filter out
  /\ out' = NoPacket
  /\ UNCHANGED <<conn, mailbox, timer>>

ListenSynNoTimer(f) ==            \* mutant of ListenSyn: it forgets start_timer
  /\ state = "LISTEN" /\ f.syn
  /\ command_sent' = FALSE
  /\ dest' = f.src
  /\ rec_payload_len' = f.len
  /\ seq_num' = AckPoint(f.seq, f.len)
  /\ last_acked' = ISS
  /\ last_sended_len' = 0
  /\ payload' = [payload EXCEPT !.torn = TRUE]
  /\ out' = TcpPkt(f.src, "synack", ISS, seq_num', 0)
  /\ state' = "SYN_RECEIVED"
  /\ UNCHANGED <<got_html_req, timer>>

ListenSyn(f) ==
  /\ state = "LISTEN" /\ f.syn
  /\ command_sent' = FALSE
  /\ dest' = f.src
  /\ rec_payload_len' = f.len
  /\ seq_num' = AckPoint(f.seq, f.len)
  /\ last_acked' = ISS
  /\ last_sended_len' = 0
  /\ payload' = [payload EXCEPT !.torn = TRUE]
  /\ out' = TcpPkt(f.src, "synack", ISS, seq_num', 0)
  /\ state' = "SYN_RECEIVED"
  /\ timer_on' = TRUE
  /\ UNCHANGED <<got_html_req, tmr_set_timer_zero, secs>>

ListenOther(f) ==
  /\ state = "LISTEN" /\ ~f.syn
  /\ command_sent' = FALSE
  /\ out' = NoPacket
  /\ UNCHANGED <<state, dest, numbers, mailbox, timer>>

SynReceivedAckReply(f) ==         \* mutant of SynReceivedAck: it answers
  /\ state = "SYN_RECEIVED" /\ FromPeer(f) /\ Acked(f)
  /\ last_acked' = AfterAck
  /\ state' = "ESTABLISHED"
  /\ out' = TcpPkt(dest, "ack", AfterAck, seq_num, 0)
  /\ UNCHANGED <<dest, seq_num, rec_payload_len, last_sended_len, command_sent,
                 mailbox, timer>>

SynReceivedAck(f) ==
  /\ state = "SYN_RECEIVED" /\ FromPeer(f) /\ Acked(f)
  /\ last_acked' = AfterAck
  /\ state' = "ESTABLISHED"
  /\ out' = NoPacket
  /\ UNCHANGED <<dest, seq_num, rec_payload_len, last_sended_len, command_sent,
                 mailbox, timer>>

IsGetLong(f) == f.len > 2 /\ f.req # NoRequest     \* mutant of IsGet
IsGet(f) == f.len > 1 /\ f.req # NoRequest

EstablishedGet(f) ==
  /\ state = "ESTABLISHED" /\ FromPeer(f) /\ Acked(f) /\ IsGet(f)
  /\ rec_payload_len' = f.len
  /\ seq_num' = AckPoint(f.seq, f.len)
  /\ last_acked' = AfterAck
  /\ out' = TcpPkt(dest, "finack", AfterAck, seq_num', PageLen)
  /\ last_sended_len' = PageLen
  /\ state' = "FIN_WAIT"
  /\ payload' = [req |-> f.req, torn |-> FALSE]
  /\ got_html_req' = TRUE
  /\ UNCHANGED <<dest, command_sent, timer>>

EstablishedFin(f) ==
  /\ state = "ESTABLISHED" /\ FromPeer(f) /\ Acked(f) /\ ~IsGet(f) /\ f.fin
  /\ rec_payload_len' = f.len
  /\ seq_num' = AckPoint(f.seq, f.len)
  /\ last_acked' = Add(AfterAck, 1)
  /\ out' = TcpPkt(dest, "finack", last_acked', seq_num', 0)
  /\ state' = "LAST_ACK"
  /\ UNCHANGED <<dest, last_sended_len, command_sent, mailbox, timer>>

EstablishedAck(f) ==
  /\ state = "ESTABLISHED" /\ FromPeer(f) /\ Acked(f) /\ ~IsGet(f) /\ ~f.fin
  /\ rec_payload_len' = f.len
  /\ seq_num' = AckPoint(f.seq, f.len)
  /\ last_acked' = AfterAck
  /\ out' = TcpPkt(dest, "ack", AfterAck, seq_num', 0)
  /\ last_sended_len' = 0
  /\ UNCHANGED <<state, dest, command_sent, mailbox, timer>>

FinWaitFin(f) ==
  /\ state = "FIN_WAIT" /\ f.fin /\ FromPeer(f) /\ Acked(f)
  /\ rec_payload_len' = f.len
  /\ seq_num' = AckPoint(f.seq, f.len)
  /\ last_acked' = AfterAck
  /\ out' = TcpPkt(dest, "ack", AfterAck, seq_num', 0)
  /\ last_sended_len' = 0
  /\ state' = "LISTEN"
  /\ UNCHANGED <<dest, command_sent, mailbox, timer>>

LastAckAck(f) ==
  /\ state = "LAST_ACK" /\ FromPeer(f) /\ Acked(f)
  /\ seq_num' = f.seq
  /\ rec_payload_len' = f.len
  /\ last_acked' = AfterAck
  /\ state' = "LISTEN"
  /\ out' = NoPacket
  /\ UNCHANGED <<dest, last_sended_len, command_sent, mailbox, timer>>

(* The peer acknowledged something else: the segment is not answered, but  *)
(* its sequence number and length have already replaced the stored ones.   *)
NotAcked(f) ==
  /\ state \in {"ESTABLISHED", "FIN_WAIT", "LAST_ACK"}
  /\ state = "FIN_WAIT" => f.fin
  /\ FromPeer(f) /\ ~Acked(f)
  /\ seq_num' = f.seq
  /\ rec_payload_len' = f.len
  /\ out' = NoPacket
  /\ UNCHANGED <<state, dest, last_acked, last_sended_len, command_sent,
                 mailbox, timer>>

(* Not from the peer, not an ACK (in FIN_WAIT, no FIN), or in SYN_RECEIVED *)
(* an ACK of another number: nothing is stored.                            *)
Ignored(f) ==
  /\ state # "LISTEN"
  /\ \/ ~FromPeer(f)
     \/ state = "FIN_WAIT" /\ ~f.fin
     \/ state = "SYN_RECEIVED" /\ ~Acked(f)
  /\ out' = NoPacket
  /\ UNCHANGED <<conn, mailbox, timer>>

RxSegment(f) ==
  \/ ListenSyn(f) \/ ListenOther(f)
  \/ SynReceivedAck(f)
  \/ EstablishedGet(f) \/ EstablishedFin(f) \/ EstablishedAck(f)
  \/ FinWaitFin(f) \/ LastAckAck(f)
  \/ NotAcked(f) \/ Ignored(f)

RxEthernetIsr ==
  \/ \E p \in Peers : RxArp(p)
  \/ RxOther
  \/ \E f \in Segments : RxSegment(f)

-----------------------------------------------------------------------------
(* timeout_isr.  secs is compared only with the two timeouts, so once past *)
(* both it is cut off at SecsMax (the code's int runs on for 68 years).    *)

Tick == LET s == IF tmr_set_timer_zero THEN 0 ELSE secs
        IN  IF s < SecsMax THEN s + 1 ELSE s

Closing == {"SYN_RECEIVED", "FIN_WAIT", "LAST_ACK"}

TickIdleClose ==                  \* the tenth second in ESTABLISHED
  /\ state = "ESTABLISHED" /\ Tick = EstTimeout
  /\ last_acked' = Add(last_acked, 1)
  /\ seq_num' = AckPoint((seq_num - 1) % SeqSpace, rec_payload_len)
  /\ out' = TcpPkt(dest, "finack", last_acked', seq_num', 0)
  /\ state' = "FIN_WAIT"
  /\ command_sent' = TRUE
  /\ secs' = 0
  /\ UNCHANGED <<dest, rec_payload_len, last_sended_len, timer_on>>

TickDrop ==                       \* the sixtieth second in the others
  /\ state \in Closing /\ Tick = CloseTimeout
  /\ state' = "LISTEN"
  /\ timer_on' = FALSE
  /\ secs' = 0
  /\ out' = NoPacket
  /\ UNCHANGED <<dest, numbers, command_sent>>

TickCount ==
  /\ \/ state = "ESTABLISHED" /\ Tick # EstTimeout
     \/ state \in Closing /\ Tick # CloseTimeout
  /\ secs' = Tick
  /\ out' = NoPacket
  /\ UNCHANGED <<conn, timer_on>>

TickStopKeep ==                   \* mutant of TickStop: secs not reset
  /\ state = "LISTEN"
  /\ timer_on' = FALSE
  /\ out' = NoPacket
  /\ UNCHANGED <<conn, secs>>

TickStop ==                       \* default: no connection
  /\ state = "LISTEN"
  /\ timer_on' = FALSE
  /\ secs' = 0
  /\ out' = NoPacket
  /\ UNCHANGED conn

TimeoutIsr ==
  /\ timer_on
  /\ tmr_set_timer_zero' = FALSE
  /\ TickIdleClose \/ TickDrop \/ TickCount \/ TickStop
  /\ UNCHANGED mailbox

-----------------------------------------------------------------------------
(* The main loop notices a request and clears the flag before parsing it.  *)

MainTakeRequest ==
  /\ got_html_req
  /\ got_html_req' = FALSE
  /\ UNCHANGED <<conn, payload, timer, out>>

Next == RxEthernetIsr \/ TimeoutIsr \/ MainTakeRequest

Spec == Init /\ [][Next]_vars

(* The timer interrupt is taken again and again while the timer runs.      *)
FairSpec == Spec /\ WF_vars(TimeoutIsr)

-----------------------------------------------------------------------------
(* Every field stays within its type; of the ten states of enum tcp_state  *)
(* the code enters five.                                                   *)
TypeOK ==
  /\ state \in States
  /\ dest \in Peers
  /\ seq_num \in SeqNo
  /\ rec_payload_len \in SegLens
  /\ last_acked \in SeqNo
  /\ last_sended_len \in {0, PageLen}
  /\ command_sent \in BOOLEAN
  /\ got_html_req \in BOOLEAN
  /\ payload \in Payload
  /\ tmr_set_timer_zero \in BOOLEAN
  /\ secs \in 0 .. SecsMax
  /\ timer_on \in BOOLEAN
  /\ out \in Packet

(* An open connection has the timer running (tcp_socket.c:271), so it can  *)
(* be given up, and whenever the timer stands still its counter is where   *)
(* it started, so that the next connection has its time before it.         *)
TimerCovers ==
  /\ state # "LISTEN" => timer_on
  /\ ~timer_on => secs <= NullTicks

(* What has been sent and not acknowledged, by state: last_acked,          *)
(* last_sended_len and command_sent together always say which of the       *)
(* server's numbers the peer must acknowledge next (tcp_socket.c:200-203). *)
NothingSent == last_acked = ISS /\ last_sended_len = 0 /\ ~command_sent
PageSent    == last_acked = ISS /\ last_sended_len = PageLen /\ ~command_sent
FinSent(cmd) == /\ last_acked = Add(ISS, 1)
                /\ last_sended_len = 0
                /\ command_sent = cmd

SendWindow ==
  /\ state \in {"SYN_RECEIVED", "ESTABLISHED"} => NothingSent
  /\ state = "FIN_WAIT" => PageSent \/ FinSent(TRUE)
  /\ state = "LAST_ACK" => FinSent(FALSE)

(* The field timeout_isr tests is never set: the receive handler sets the  *)
(* global variable of the same name (tcp_socket.c:282, 296 and 395).       *)
TimerZeroNeverSet == ~tmr_set_timer_zero

(* The inductive invariant.                                                *)
ConnInv == TypeOK /\ TimerCovers /\ SendWindow /\ TimerZeroNeverSet

-----------------------------------------------------------------------------
(* The control block implements OneShot: the number the peer should expect *)
(* next is the only one ack_check accepts.                                 *)

Phase == CASE state = "LISTEN"       -> "idle"
           [] state = "SYN_RECEIVED" -> "opening"
           [] state = "ESTABLISHED"  -> "open"
           [] OTHER                  -> "closing"

Promised == INSTANCE OneShot
  WITH phase   <- Phase,
       peer    <- IF state = "LISTEN" THEN Nobody ELSE dest,
       snd_nxt <- IF state = "LISTEN" THEN ISS ELSE Expected

(* Every handler keeps the promises of OneShot: one SYN-ACK, one FIN and   *)
(* at most one page to one peer, with consistent sequence numbers, on      *)
(* every connection, whatever segments arrive (tcp_socket.c:254-373).      *)
KeepsPromise == Promised!Promise

-----------------------------------------------------------------------------
(* A connection established, or closing, before its timeout has been       *)
(* passed is over after finitely many ticks (tcp_socket.c:400-434).        *)
ConnectionsEnd ==
  /\ (state = "ESTABLISHED" /\ secs < EstTimeout) ~> (state = "LISTEN")
  /\ (state \in Closing /\ secs < CloseTimeout)
       ~> (state \in {"LISTEN", "ESTABLISHED"})

(* README.md:5 says the server "transfers an HTML page and closes the      *)
(* connection": once the page has been sent the connection is closed.      *)
PageThenClosed == (state = "FIN_WAIT" /\ last_sended_len = PageLen)
                    ~> (state = "LISTEN")
=============================================================================
