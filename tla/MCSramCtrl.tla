----------------------------- MODULE MCSramCtrl -----------------------------
(* SramCtrl with two words next to each other.  The bytes of the word that *)
(* is written all differ, so that a byte in the wrong place is seen.       *)
EXTENDS SramCtrl

MCAddresses == {0, 1}
MCBytes == 0 .. 4
Blank == [h \in Halves |-> [l \in Lanes |-> 0]]
Marked == [h \in Halves |-> [l \in Lanes |-> 1 + 2 * h + l]]

Acc(w, a, d, low, high) ==
  [op |-> w, address |-> a, data |-> d,
   enable |-> [h \in Halves |-> IF h = 0 THEN low ELSE high]]

(* Whole words, and bytes that are different in the two halves.            *)
MCRequests ==
  {Acc("read", a, Blank, Lanes, Lanes) : a \in MCAddresses}
  \cup {Acc("write", 0, Blank, Lanes, Lanes), Acc("write", 1, Marked, Lanes, Lanes),
        Acc("write", 0, Marked, {0}, {1}), Acc("write", 0, Marked, {1}, {})}

(* The chip and the registers that reset leaves alone start with zeros.    *)
MCInit == /\ Init
          /\ sram = [a \in HalfAddresses |-> [l \in Lanes |-> 0]]
          /\ data_out = Blank /\ msb = 0 /\ addr = 0
MCSpec == MCInit /\ [][Next]_vars /\ WF_vars(Next)
=============================================================================
