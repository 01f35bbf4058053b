---------------------------- MODULE MCTcpSession ----------------------------
(* TcpSession with one or two clients.  The sequence space is large enough *)
(* not to wrap: MCTcpConn covers the wrap.                                 *)
EXTENDS TcpSession, TLC

CONSTANTS p1, p2, r1

MCBoth == {p1, p2}
MCOne == {p1}
MCSymmetry == Permutations(MCBoth)
MCRequests == {r1}
MCSeqSpace == 16
MCISS == 6
MCPageLen == 2
MCSegLens == 0 .. 3

(* Every segment a client can send, and more.                              *)
MCSegments ==
  [src : Peers, syn : BOOLEAN, ack : BOOLEAN, fin : BOOLEAN,
   seq : 0 .. 4, ackNum : {0} \cup 7 .. 9, len : {0, 1, 2},
   req : MCRequests \cup {NoRequest}]
=============================================================================
