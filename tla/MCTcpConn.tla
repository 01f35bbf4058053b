----------------------------- MODULE MCTcpConn -----------------------------
(* TcpConn on a small sequence space whose page wraps past zero, with      *)
(* every flag combination and every acknowledgment number of interest.     *)
EXTENDS TcpConn

CONSTANTS p1, p2, r1

MCPeers == {p1, p2}
MCRequests == {r1}
MCSeqSpace == 6
MCISS == 4
MCPageLen == 2
MCSegLens == {0, 1, 2}

(* The numbers that acknowledge the SYN-ACK, a bare FIN and the page with  *)
(* its FIN, and one that acknowledges nothing.                             *)
AckNums == {5, 0, 1, 3}

MCSegments ==
  {f \in [src : MCPeers, syn : BOOLEAN, ack : BOOLEAN, fin : BOOLEAN,
          seq : {5}, ackNum : AckNums, len : MCSegLens,
          req : MCRequests \cup {NoRequest}] :
     f.req # NoRequest => f.len = 2}

(* For PageThenClosed: a few segments of one peer that reach every state.        *)
MCLivePeers == {p1}
MCLiveSegments ==
  {f \in MCSegments :
     /\ f.src = p1
     /\ f.ackNum # 3
     /\ f.syn = ~f.ack /\ (f.syn => ~f.fin)
     /\ f.len = 1 => f.ackNum = 5}
=============================================================================
