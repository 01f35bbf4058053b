------------------------------ MODULE MCBoard ------------------------------
(* The board around the connection: the start of the program, the way of   *)
(* the frames, and the heap.  They share no variable, so each is run by    *)
(* itself: part tells which, and the others stay as they start.            *)
(*                                                                         *)
(* The start: two restarts and a software reset.  The frames: three        *)
(* through a FIFO of two, and one timer interrupt.  The heap: fourteen     *)
(* bytes from an address that is no word's.                                *)
EXTENDS StartUp, FrameDma, Checksums, BusySleep, Heap,
        Exceptions

VARIABLE part

MCIncrements == {-5, -3, 0, 1, 4, 6}

MCInit == /\ part \in {"start", "frames", "heap"}
          /\ StartInit /\ FrameInit /\ HeapInit
          /\ (part # "start" => ~clocked)

MCNext ==
  /\ part' = part
  /\ IF part = "start" THEN StartNext ELSE UNCHANGED startVars
  /\ IF part = "frames" THEN FrameNext ELSE UNCHANGED frameVars
  /\ IF part = "heap" THEN HeapNext ELSE UNCHANGED heapVars

MCSpec == /\ MCInit /\ [][MCNext]_<<part, startVars, frameVars, heapVars>>
          /\ (part = "start" => StartFairness)
          /\ (part = "frames" => FrameFairness)
=============================================================================
