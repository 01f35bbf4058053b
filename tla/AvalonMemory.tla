---------------------------- MODULE AvalonMemory ----------------------------
(***************************************************************************)
(* What the bus expects of a memory of 32-bit words with byte enables,     *)
(* variable latency and one access at a time: a request is taken at the    *)
(* clock edge where it is presented and the memory is ready, is carried    *)
(* out once, and a read is answered once, with the word as every earlier   *)
(* write left it.  A step is a clock cycle.                                *)
(***************************************************************************)
CONSTANTS Addresses,  \* word addresses
          Bytes,      \* values of a byte
          None        \* no request, no reply

Lanes == {0, 1}                   \* the bytes of a half word
Halves == {0, 1}                  \* the half words of a word
HalfWord == [Lanes -> Bytes]
Word == [Halves -> HalfWord]
Enables == [Halves -> SUBSET Lanes]

Access == [op : {"read", "write"}, address : Addresses, data : Word, enable : Enables]

VARIABLES mem,      \* the contents
          request,  \* what the master presents
          ready,    \* the memory takes a request at the next edge
          pending,  \* the access being carried out
          reply     \* the word that answers a read, for one cycle

Merge(old, new, lanes) == [l \in Lanes |-> IF l \in lanes THEN new[l] ELSE old[l]]

Written(r) ==
  IF r.op = "write"
  THEN [mem EXCEPT ![r.address] =
          [h \in Halves |-> Merge(mem[r.address][h], r.data[h], r.enable[h])]]
  ELSE mem

Requested == request # None /\ ready

MemInit ==
  /\ mem \in [Addresses -> Word]
  /\ request = None /\ pending = None /\ reply = None
  /\ ready = FALSE

(* A master holds its request until it is taken.                           *)
Master == request' \in IF request = None \/ ready THEN Access \cup {None}
                                                  ELSE {request}

Take ==
  /\ Requested
  /\ pending = None /\ pending' = request
  /\ mem' = Written(request)
  /\ ready' = FALSE
  /\ reply' = None

Work ==
  /\ ~Requested /\ pending # None
  /\ reply' = None
  /\ UNCHANGED <<mem, pending, ready>>

Finish ==
  /\ ~Requested /\ pending # None /\ pending' = None
  /\ ready' = TRUE
  /\ reply' = IF pending.op = "read" THEN mem[pending.address] ELSE None
  /\ UNCHANGED mem

Rest ==
  /\ ~Requested /\ pending = None
  /\ ready' = TRUE
  /\ reply' = None
  /\ UNCHANGED <<mem, pending>>

MemNext == Master /\ (Take \/ Work \/ Finish \/ Rest)

Memory == MemInit /\ [][MemNext]_<<mem, request, ready, pending, reply>>
=============================================================================
