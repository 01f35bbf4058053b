---------------------------- MODULE MCWebServer ----------------------------
(* WebServer with one peer and two requests, one of them with an empty text. *)
EXTENDS WebServer

CONSTANTS p1, hello

Req(f, c, t) == [form |-> f, cmds |-> c, text |-> t]

MCPeers == {p1}
MCTexts == {hello}
Form1 == Req(TRUE, <<"led1", "led3", "lcd">>, hello)
Form2 == Req(TRUE, <<"led2", "lcd">>, NoText)
MCRequests == {Form1, Form2}
MCSeqSpace == 6
MCISS == 4
MCPageLen == 2
MCSegLens == {0, 2}

Seg(syn, ack, fin, ackNum, len, req) ==
  [src |-> p1, syn |-> syn, ack |-> ack, fin |-> fin,
   seq |-> 5, ackNum |-> ackNum, len |-> len, req |-> req]

(* A SYN, the ACKs that establish and close, and the requests.             *)
MCSegments ==
  {Seg(TRUE, FALSE, FALSE, 0, 0, NoRequest),
   Seg(FALSE, TRUE, FALSE, 5, 0, NoRequest),
   Seg(FALSE, TRUE, TRUE, 1, 0, NoRequest)}
  \cup {Seg(FALSE, TRUE, FALSE, 5, 2, r) : r \in MCRequests}
=============================================================================
