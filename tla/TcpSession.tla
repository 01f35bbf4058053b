----------------------------- MODULE TcpSession -----------------------------
(***************************************************************************)
(* The server of TcpConn, browsers that speak TCP by the book, and the     *)
(* network between them.                                                   *)
(*                                                                         *)
(* Each client opens one connection, may send one request, and closes      *)
(* after the server has, or before it has asked anything.  It follows the  *)
(* segment arrival rules of TCP: what is not acceptable, or acknowledges   *)
(* what was never sent, is dropped and answered with an ACK.  It           *)
(* retransmits what is not acknowledged.  The server never retransmits.    *)
(*                                                                         *)
(* Two channels carry segments and packets.  With Reliable they are FIFO   *)
(* and lossless, and faster than a timer tick and than the client's        *)
(* retransmission timer, as on a local link; otherwise they may lose,      *)
(* duplicate and reorder.                                                  *)
(***************************************************************************)
EXTENDS TcpConn, SequencesExt

CONSTANTS Reliable,   \* TRUE: a FIFO, lossless and fast network
          ReqLen,     \* length of a request
          ToServerMax,\* bound on the segments in flight to the server
          ToClientMax \* bound on the packets in flight to the clients

(* What a client can send: its initial sequence number is 0, and the next  *)
(* number of the server that it expects is 0 before the SYN-ACK, then what *)
(* follows the SYN-ACK, a FIN alone, or the page with a FIN.               *)
RcvNumbers == {0, ISS + 1, ISS + 2, ISS + PageLen + 1}

ClientSegment == [src : Peers, syn : BOOLEAN, ack : BOOLEAN, fin : BOOLEAN,
                  seq : 0 .. ReqLen + 2, ackNum : RcvNumbers, len : 0 .. ReqLen,
                  req : Requests \cup {NoRequest}]

(* No number wraps within a connection, as with the ISS and the page of    *)
(* the code, and TcpConn was told of every segment a client can send.      *)
ASSUME SessionAssumption ==
  /\ Reliable \in BOOLEAN
  /\ ReqLen \in Nat \ {0, 1} /\ PageLen > 1
  /\ Requests # {} /\ ISS + PageLen + 2 < SeqSpace
  /\ ClientSegment \subseteq Segments
  /\ ToServerMax \in Nat \ {0} /\ ToClientMax \in Nat \ {0}

VARIABLES client,     \* the connection at each client
          toServer,   \* segments in flight to the server
          toClient    \* packets in flight to the clients

sessionVars == <<vars, client, toServer, toClient>>

Client == [st : {"closed", "syn_sent", "estab", "fin_sent", "done"},
           asked : BOOLEAN,     \* has sent its request
           page : BOOLEAN,      \* has received the whole page
           finRcvd : BOOLEAN,   \* has received the server's FIN
           una : SeqNo, nxt : SeqNo, rcv : SeqNo]

(* The uninitialised fields of the control block are overwritten by the    *)
(* first SYN before anything reads them, so one value of each will do.     *)
SessionInit ==
  /\ Init
  /\ dest = CHOOSE p \in Peers : TRUE
  /\ seq_num = 0 /\ rec_payload_len = 0 /\ last_acked = 0
  /\ last_sended_len = 0 /\ ~command_sent /\ ~got_html_req
  /\ payload = [req |-> NoRequest, torn |-> FALSE]
  /\ client = [p \in Peers |-> [st |-> "closed", asked |-> FALSE,
                                page |-> FALSE, finRcvd |-> FALSE,
                                una |-> 0, nxt |-> 0, rcv |-> 0]]
  /\ toServer = <<>>
  /\ toClient = <<>>

-----------------------------------------------------------------------------
(* The network.                                                            *)

InFlight == toServer # <<>> \/ toClient # <<>>

(* Which message may arrive next, and what remains when it has.            *)
Arriving(chan) == IF Reliable THEN {i \in DOMAIN chan : i = 1} ELSE DOMAIN chan

After(chan, i) ==
  IF Reliable THEN {RemoveAt(chan, i)} ELSE {RemoveAt(chan, i), chan}

Lose ==
  /\ ~Reliable
  /\ \/ /\ \E i \in DOMAIN toServer : toServer' = RemoveAt(toServer, i)
        /\ UNCHANGED toClient
     \/ /\ \E i \in DOMAIN toClient : toClient' = RemoveAt(toClient, i)
        /\ UNCHANGED toServer
  /\ UNCHANGED <<vars, client>>

(* The server's packet of this step, if any, goes into the channel.        *)
Transmit ==
  toClient' = IF out'.flags = "none" THEN toClient ELSE Append(toClient, out')

-----------------------------------------------------------------------------
(* The server: the handlers of TcpConn on what the network delivers.       *)

ServerReceive ==
  /\ Len(toClient) < ToClientMax
  /\ \E i \in Arriving(toServer) :
       /\ RxSegment(toServer[i])
       /\ toServer' \in After(toServer, i)
  /\ Transmit
  /\ UNCHANGED client

(* A client that has the server's FIN closes within a tick.                *)
ClosePending == \E p \in Peers : client[p].st = "estab" /\ client[p].finRcvd

ServerTick ==
  /\ Reliable => ~InFlight /\ ~ClosePending
  /\ Len(toClient) < ToClientMax
  /\ TimeoutIsr
  /\ Transmit
  /\ UNCHANGED <<client, toServer>>

ServerMain ==
  /\ MainTakeRequest
  /\ UNCHANGED <<client, toServer, toClient>>

-----------------------------------------------------------------------------
(* The clients.                                                            *)

ClientSeg(p, c, syn, fin, seq, len) ==
  [src |-> p, syn |-> syn, ack |-> ~syn, fin |-> fin, seq |-> seq,
   ackNum |-> c.rcv, len |-> len,
   req |-> IF len = ReqLen THEN CHOOSE r \in Requests : TRUE ELSE NoRequest]

PureAck(p, c) == ClientSeg(p, c, FALSE, FALSE, c.nxt, 0)

ClientSends(m) ==
  /\ Len(toServer) < ToServerMax
  /\ toServer' = Append(toServer, m)

ClientMoves(p, c) == client' = [client EXCEPT ![p] = c]

Connect(p) ==
  /\ client[p].st = "closed"
  /\ ClientMoves(p, [client[p] EXCEPT !.st = "syn_sent", !.nxt = 1])
  /\ ClientSends(ClientSeg(p, client[p], TRUE, FALSE, 0, 0))
  /\ UNCHANGED <<vars, toClient>>

Request(p) ==
  /\ client[p].st = "estab" /\ ~client[p].asked /\ ~client[p].finRcvd
  /\ LET c == client[p]
     IN  /\ ClientMoves(p, [c EXCEPT !.asked = TRUE, !.nxt = c.nxt + ReqLen])
         /\ ClientSends(ClientSeg(p, c, FALSE, FALSE, c.nxt, ReqLen))
  /\ UNCHANGED <<vars, toClient>>

Close(p) ==
  /\ client[p].st = "estab" /\ (client[p].finRcvd \/ ~client[p].asked)
  /\ LET c == client[p]
     IN  /\ ClientMoves(p, [c EXCEPT !.st = "fin_sent", !.nxt = c.nxt + 1])
         /\ ClientSends(ClientSeg(p, c, FALSE, TRUE, c.nxt, 0))
  /\ UNCHANGED <<vars, toClient>>

(* Everything sent and not acknowledged, in one segment.                   *)
Retransmit(p) ==
  /\ Reliable => ~InFlight
  /\ client[p].una < client[p].nxt
  /\ LET c   == client[p]
         fin == c.st = "fin_sent"
     IN  \/ /\ c.st = "syn_sent"
            /\ ClientSends(ClientSeg(p, c, TRUE, FALSE, 0, 0))
         \/ /\ c.st \in {"estab", "fin_sent"}
            /\ ClientSends(ClientSeg(p, c, FALSE, fin, c.una,
                             c.nxt - c.una - (IF fin THEN 1 ELSE 0)))
  /\ UNCHANGED <<vars, client, toClient>>

(* The segment arrival rules, for the packet m in state c.                 *)
Acceptable(c, m) ==
  CASE m.flags = "finack" -> m.seq <= c.rcv /\ c.rcv <= m.seq + m.len
    [] m.flags = "ack"    -> m.seq = c.rcv
    [] OTHER              -> FALSE

Accept(c, m) ==
  LET fin  == m.flags = "finack"
      una  == IF m.ack > c.una THEN m.ack ELSE c.una
      over == c.st = "fin_sent" /\ una = c.nxt /\ (c.finRcvd \/ fin)
  IN  [c EXCEPT !.una = una,
                !.rcv = IF fin THEN m.seq + m.len + 1 ELSE @,
                !.page = @ \/ m.len > 0,
                !.finRcvd = @ \/ fin,
                !.st = IF over THEN "done" ELSE @]

ClientHandles(p, m) ==
  LET c == client[p]
  IN  \/ /\ c.st = "syn_sent" /\ m.flags = "synack" /\ m.ack = c.nxt
         /\ LET d == [c EXCEPT !.st = "estab", !.una = m.ack, !.rcv = m.seq + 1]
            IN  ClientMoves(p, d) /\ ClientSends(PureAck(p, d))
      \/ /\ c.st \in {"estab", "fin_sent"}
         /\ Acceptable(c, m) /\ m.ack <= c.nxt
         /\ ClientMoves(p, Accept(c, m))
         /\ IF m.flags = "finack" THEN ClientSends(PureAck(p, Accept(c, m)))
                                  ELSE UNCHANGED toServer
      \/ /\ c.st \in {"estab", "fin_sent"}
         /\ ~(Acceptable(c, m) /\ m.ack <= c.nxt)
         /\ ClientSends(PureAck(p, c))
         /\ UNCHANGED client
      \/ /\ \/ c.st \in {"closed", "done"}
            \/ c.st = "syn_sent" /\ ~(m.flags = "synack" /\ m.ack = c.nxt)
         /\ UNCHANGED <<client, toServer>>

ClientReceive(p) ==
  /\ \E i \in Arriving(toClient) :
       /\ toClient[i].to = p
       /\ ClientHandles(p, toClient[i])
       /\ toClient' \in After(toClient, i)
  /\ UNCHANGED vars

SessionNext ==
  \/ ServerReceive \/ ServerTick \/ ServerMain
  \/ Lose
  \/ \E p \in Peers : \/ Connect(p) \/ Request(p) \/ Close(p)
                      \/ Retransmit(p) \/ ClientReceive(p)

SessionSpec == SessionInit /\ [][SessionNext]_sessionVars

(* Messages arrive, the timer ticks, and clients carry on: they close a    *)
(* connection the server has closed, and retransmit.                       *)
SessionFairSpec ==
  /\ SessionSpec
  /\ WF_sessionVars(ServerReceive)
  /\ WF_sessionVars(ServerTick)
  /\ \A p \in Peers : /\ WF_sessionVars(ClientReceive(p))
                      /\ WF_sessionVars(Close(p) /\ client[p].finRcvd)
                      /\ WF_sessionVars(Retransmit(p))
-----------------------------------------------------------------------------
(* The server takes a connection for established only when that very       *)
(* client has received a SYN-ACK, whatever other clients and late          *)
(* segments do (tcp_socket.c:276-281).                                     *)
EstablishedIsReal ==
  state \in {"ESTABLISHED", "FIN_WAIT", "LAST_ACK"} =>
    client[dest].st \in {"estab", "fin_sent", "done"}

(* The server forgets a connection on an acknowledgment only if the client *)
(* at the other end has all of it: the FIN, and the page if one was sent   *)
(* (tcp_socket.c:339-345 and 363-364).  A connection dropped on a timeout  *)
(* has its timer stopped instead (line 424).                               *)
ForgetsOnlyDelivered ==
  [][ (state \in {"FIN_WAIT", "LAST_ACK"} /\ state' = "LISTEN" /\ timer_on') =>
        /\ client[dest].finRcvd
        /\ last_sended_len # 0 => client[dest].page ]_sessionVars

(* On a reliable network the exchange dies down: the server answers every  *)
(* plain ACK of an established connection with an ACK numbered below what  *)
(* the client expects, which a client answers with an ACK again, but it    *)
(* never starts that (tcp_socket.c:319-323, 282).                          *)
DiesDown == []<>(~InFlight)

(* On a reliable network a client that asks while the server holds its     *)
(* connection open gets the page (tcp_socket.c:297-311), and a client that *)
(* has the page sees its own FIN acknowledged: the connection is closed in *)
(* order at both ends (tcp_socket.c:332-345).                              *)
AskedIsServed ==
  \A p \in Peers :
    /\ (client[p].asked /\ state = "ESTABLISHED" /\ dest = p) ~> client[p].page
    /\ client[p].page ~> client[p].st = "done"
=============================================================================
