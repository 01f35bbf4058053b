-------------------------------- MODULE Heap --------------------------------
(***************************************************************************)
(* alt_sbrk.c: the heap that malloc takes its memory from.  It grows from  *)
(* the end of the program's data, __alt_heap_start, to __alt_heap_limit,   *)
(* the address the stack starts down from; without ALT_STACK_CHECK, as in  *)
(* this build, nothing keeps heap and stack apart.                         *)
(*                                                                         *)
(* Interrupts are off from the reading of heap_end to its writing, so that *)
(* a call is one step, in an interrupt handler as well.  blocks is what    *)
(* the callers hold: [from, to) each.  An address this low plus an int     *)
(* stays in the word.                                                      *)
(***************************************************************************)
EXTENDS Integers

CONSTANTS HeapStart, HeapLimit,   \* what the linker sets
          Increments              \* what callers ask for, or give back

ASSUME HeapAssumption ==
  /\ HeapStart \in Nat /\ HeapLimit \in Nat /\ HeapStart <= HeapLimit
  /\ HeapLimit % 4 = 0
  /\ Increments \subseteq Int

VARIABLES heap_end, blocks

heapVars == <<heap_end, blocks>>

(* (heap_end + 3) & ~3 *)
UpToWord(address) == ((address + 3) \div 4) * 4
Aligned == UpToWord(heap_end)

HeapInit == heap_end = HeapStart /\ blocks = {}

(* It is the aligned address that is compared and returned.                *)
FitsUnaligned(incr) == heap_end + incr <= HeapLimit
Fits(incr) == Aligned + incr <= HeapLimit

Grant(incr) ==
  /\ incr >= 0 /\ Fits(incr)
  /\ blocks' = blocks \cup {[from |-> Aligned, to |-> Aligned + incr]}
  /\ heap_end' = Aligned + incr

(* A caller gives back no more than there is.  What lies above the new end *)
(* is no longer held.                                                      *)
GiveBack(incr) ==
  /\ incr < 0 /\ HeapStart <= Aligned + incr /\ Fits(incr)
  /\ heap_end' = Aligned + incr
  /\ blocks' = {b \in blocks : b.to <= Aligned + incr}
                 \cup {[from |-> b.from, to |-> Aligned + incr] :
                         b \in {c \in blocks : /\ c.from < Aligned + incr
                                               /\ c.to > Aligned + incr}}

(* -1: but heap_end has been aligned already.                              *)
Refuse(incr) == ~Fits(incr) /\ heap_end' = Aligned /\ UNCHANGED blocks

HeapNext == \E incr \in Increments : Grant(incr) \/ GiveBack(incr) \/ Refuse(incr)
HeapSpec == HeapInit /\ [][HeapNext]_heapVars

-----------------------------------------------------------------------------
(* No two callers are given the same memory, each block starts at a word   *)
(* and lies within the heap, and the heap ends where the linker says, over *)
(* every sequence of requests, returns and refusals.                       *)
BlocksApart ==
  /\ heap_end \in HeapStart .. HeapLimit
  /\ \A b \in blocks : /\ b.from % 4 = 0 /\ HeapStart <= b.from
                       /\ b.from <= b.to /\ b.to <= heap_end
  /\ \A b, c \in blocks : b = c \/ b.to <= c.from \/ c.to <= b.from
=============================================================================
