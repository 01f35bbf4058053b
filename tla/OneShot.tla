------------------------------ MODULE OneShot ------------------------------
(***************************************************************************)
(* What the server promises a network: one connection at a time, and on    *)
(* each connection one SYN-ACK, at most one page, exactly one FIN unless   *)
(* the connection is given up before it is established, and an             *)
(* acknowledgment of the other side's FIN that stands right after the      *)
(* server's own FIN in sequence space.                                     *)
(*                                                                         *)
(* The state is the phase of the connection, who is at the other end and   *)
(* the next sequence number that end should expect; out is the packet of   *)
(* the last step.  There are no segments, timers or flags here.            *)
(***************************************************************************)
EXTENDS Integers

CONSTANTS Peers, Nobody, SeqSpace, ISS, PageLen

VARIABLES phase, peer, snd_nxt, out

oneShotVars == <<phase, peer, snd_nxt, out>>

SeqNos == 0 .. SeqSpace - 1
Plus(a, b) == (a + b) % SeqSpace

(* Packets of the server; what they acknowledge is left open.              *)
Sends(to, flags, seq, len) ==
  \E a \in SeqNos :
    out' = [to |-> to, flags |-> flags, seq |-> seq, ack |-> a, len |-> len]

Silent == 
  out' = [to |-> Nobody, flags |-> "none", seq |-> 0, ack |-> 0, len |-> 0]

Begin ==
  /\ phase = "idle"
  /\ peer = Nobody
  /\ snd_nxt = ISS
  /\ out = [to |-> Nobody, flags |-> "none", seq |-> 0, ack |-> 0, len |-> 0]

(* A SYN is answered; the SYN-ACK takes the number ISS.                    *)
Open(p) ==
  /\ phase = "idle"
  /\ phase' = "opening"
  /\ peer' = p
  /\ snd_nxt' = Plus(ISS, 1)
  /\ Sends(p, "synack", ISS, 0)

Establish ==
  /\ phase = "opening"
  /\ phase' = "open"
  /\ Silent
  /\ UNCHANGED <<peer, snd_nxt>>

(* The page and the FIN in one packet.  Its first byte has the number of   *)
(* the SYN-ACK, so the packet ends one short of ISS + 1 + PageLen.         *)
Serve ==
  /\ phase = "open"
  /\ phase' = "closing"
  /\ snd_nxt' = Plus(ISS, PageLen + 1)
  /\ Sends(peer, "finack", ISS, PageLen)
  /\ UNCHANGED peer

(* A FIN without a page: the peer closed first, or said nothing for long.  *)
CloseEmpty ==
  /\ phase = "open"
  /\ phase' = "closing"
  /\ snd_nxt' = Plus(snd_nxt, 1)
  /\ Sends(peer, "finack", snd_nxt, 0)
  /\ UNCHANGED peer

(* A segment that asks for nothing is acknowledged, numbered as SYN-ACK.   *)
Answer ==
  /\ phase = "open"
  /\ Sends(peer, "ack", ISS, 0)
  /\ UNCHANGED <<phase, peer, snd_nxt>>

(* The end of the connection: silent, or with an ACK of the peer's FIN.    *)
Finish ==
  /\ phase = "closing"
  /\ phase' = "idle"
  /\ peer' = Nobody
  /\ snd_nxt' = ISS
  /\ Silent \/ Sends(peer, "ack", snd_nxt, 0)

GiveUp ==
  /\ phase = "opening"
  /\ phase' = "idle"
  /\ peer' = Nobody
  /\ snd_nxt' = ISS
  /\ Silent

(* ARP is answered at any time and is no part of a connection.             *)
AnswerArp ==
  /\ \E p \in Peers : Sends(p, "arp", 0, 0)
  /\ UNCHANGED <<phase, peer, snd_nxt>>

Quiet ==
  /\ Silent
  /\ UNCHANGED <<phase, peer, snd_nxt>>

Step ==
  \/ \E p \in Peers : Open(p)
  \/ Establish \/ Serve \/ CloseEmpty \/ Answer
  \/ Finish \/ GiveUp \/ AnswerArp \/ Quiet

Promise == Begin /\ [][Step]_oneShotVars
=============================================================================
