------------------------------ MODULE SramCtrl ------------------------------
(***************************************************************************)
(* The SRAM controller sram_cntrlr.sv: an Avalon slave of 32-bit words     *)
(* before a 16-bit synchronous memory chip.  Each access is two half-word  *)
(* accesses, the low half first; msb tells which one is under way.         *)
(*                                                                         *)
(* A step is a rising clock edge.  At it the registers of the controller   *)
(* take their new values, the chip samples the pins, and the bus master    *)
(* presents its next request.  The controller is its own state machine;    *)
(* the chip and the master are its environment:                            *)
(*   - the chip writes the enabled bytes of dq when it samples cen and wen *)
(*     low, and drives dq with the half word read two edges earlier;       *)
(*   - the master holds a request while waitrequest is high, and presents  *)
(*     none in the first cycle after reset (see Init).                     *)
(***************************************************************************)
EXTENDS Integers

CONSTANTS Addresses,   \* word addresses
          Bytes,       \* values of a byte
          None,        \* no request, no reply
          Floating,    \* what the latches see when nobody drives dq
          Requests     \* the accesses the master may make

Lanes == {0, 1}
Halves == {0, 1}
HalfWord == [Lanes -> Bytes]
Word == [Halves -> HalfWord]

Enables == [Halves -> SUBSET Lanes]
Access == [op : {"read", "write"}, address : Addresses, data : Word,
           enable : Enables]

(* {avalon_slave_address, 2'd0} is the byte address of a word.             *)
ByteAddress(a) == 4 * a
HalfAddress(a, h) == ByteAddress(a) + 2 * h
HalfAddresses == {HalfAddress(a, h) : a \in Addresses, h \in Halves}

ASSUME SramAssumption ==
  /\ Addresses \subseteq Nat
  /\ Requests \subseteq Access
  /\ None \notin Access /\ None \notin Word
  /\ Floating \notin HalfWord

VARIABLES
  state,          \* the state register
  msb,            \* which half word is under way
  data_out,       \* the word to be written
  be_out,         \* its byte enables
  data_in,        \* the low half word already read
  addr,           \* pins: byte address
  cen, oen, wen,  \* pins: chip enable, output enable, write enable, active low
  bw,             \* pins: the lanes whose bwan, bwbn are low
  data_out_en,    \* the controller drives dq
  waitrequest, readdatavalid, readdata,   \* Avalon outputs
  request,        \* Avalon inputs: the request presented, or None
  sram,           \* the contents of the chip
  array, output   \* the chip's two read registers

control == <<state, msb, data_out, be_out, data_in>>
pins == <<addr, cen, oen, wen, bw, data_out_en>>
avalon == <<waitrequest, readdatavalid, readdata, request>>
chip == <<sram, array, output>>
vars == <<control, pins, avalon, chip>>

-----------------------------------------------------------------------------
(* The environment.                                                        *)

Dq == IF data_out_en = 1 THEN data_out[msb] ELSE IF oen = 1 THEN Floating ELSE output

Merge(old, new, lanes) == [l \in Lanes |-> IF l \in lanes THEN new[l] ELSE old[l]]

ChipEdge ==
  /\ sram' = IF cen = 1 \/ wen = 1 THEN sram
             ELSE [sram EXCEPT ![addr] = Merge(sram[addr], Dq, bw)]
  /\ array' = IF cen = 1 THEN Floating ELSE sram[addr]
  /\ output' = array

Waiting == request # None /\ waitrequest = 1

MasterEdge == request' \in IF Waiting THEN {request} ELSE Requests \cup {None}

-----------------------------------------------------------------------------
(* Registers that reset leaves alone may hold anything, and nothing reads  *)
(* them before they are set; one value of each stands for all.  A master   *)
(* that presented a request in this cycle, with waitrequest high, would    *)
(* have it carried out twice; the only masters are held in reset with the  *)
(* controller, and the processor first fetches from on-chip memory.        *)
Init ==
  /\ state = "IDLE"
  /\ msb \in Halves
  /\ \E b \in Bytes : data_out = [h \in Halves |-> [l \in Lanes |-> b]]
  /\ be_out = [h \in Halves |-> {}]
  /\ data_in = data_out[0]
  /\ addr \in HalfAddresses
  /\ cen = 1 /\ oen = 1 /\ wen = 1 /\ bw = Lanes
  /\ data_out_en = 0
  /\ waitrequest = 1 /\ readdatavalid = 0
  /\ readdata = data_out
  /\ request = None
  /\ sram \in [HalfAddresses -> HalfWord]
  /\ array = Floating /\ output = Floating

(* The assignments before the case statement, with the levels a state      *)
(* gives sram_cen and sram_oen.                                            *)
Pins(c, o) ==
  /\ cen' = c /\ oen' = o
  /\ wen' = 1 /\ bw' = Lanes /\ data_out_en' = 0

NoAnswer == readdatavalid' = 0 /\ UNCHANGED readdata

Accept(r) ==
  /\ state' = IF r.op = "write" THEN "CEN_W" ELSE "CEN_R"
  /\ data_out' = r.data
  /\ be_out' = r.enable
  /\ addr' = ByteAddress(r.address)
  /\ waitrequest' = 1
  /\ Pins(0, 1)

Idle ==
  /\ state = "IDLE"
  /\ msb' = 0
  /\ \/ request # None /\ Accept(request)
     \/ /\ request = None
        /\ waitrequest' = 0
        /\ Pins(1, 1)
        /\ UNCHANGED <<state, data_out, be_out, addr>>
  /\ NoAnswer
  /\ UNCHANGED data_in

Advance(from, to) ==
  /\ state = from /\ state' = to
  /\ NoAnswer
  /\ UNCHANGED <<msb, data_out, be_out, data_in, addr, waitrequest>>

CenR == Advance("CEN_R", "OEN") /\ Pins(0, 0)

Oen == Advance("OEN", "READ_LATCH") /\ Pins(0, 0)

NextHalfAgain(to) ==                      \* mutant of NextHalf: msb forgotten
  /\ msb = 0 /\ msb' = 0
  /\ state' = to
  /\ addr' = addr
  /\ Pins(0, 1)
  /\ NoAnswer
  /\ UNCHANGED waitrequest

NextHalfSame(to) ==                       \* mutant of NextHalf: addr forgotten
  /\ msb = 0 /\ msb' = 1
  /\ state' = to
  /\ addr' = addr
  /\ Pins(0, 1)
  /\ NoAnswer
  /\ UNCHANGED waitrequest

(* The low half is done: go on with the high half.                         *)
NextHalf(to) ==
  /\ msb = 0 /\ msb' = 1
  /\ state' = to
  /\ addr' = addr + 2
  /\ Pins(0, 1)
  /\ NoAnswer
  /\ UNCHANGED waitrequest

BothDone ==
  /\ msb = 1 /\ msb' = 1
  /\ state' = "IDLE"
  /\ waitrequest' = 0
  /\ Pins(1, 1)
  /\ UNCHANGED addr

ReadLatch ==
  /\ state = "READ_LATCH"
  /\ data_in' = Dq
  /\ \/ NextHalf("CEN_R")
     \/ /\ BothDone
        /\ readdatavalid' = 1
        /\ readdata' = [h \in Halves |-> IF h = 0 THEN data_in ELSE Dq]
  /\ UNCHANGED <<data_out, be_out>>

CenW == Advance("CEN_W", "WEN") /\ Pins(0, 1)

WenLow ==                                 \* mutant of Wen: be_out[0] twice
  /\ Advance("WEN", "WRITE_LATCH")
  /\ cen' = 0 /\ oen' = 1 /\ wen' = 0
  /\ bw' = be_out[0]
  /\ data_out_en' = 1

Wen ==
  /\ Advance("WEN", "WRITE_LATCH")
  /\ cen' = 0 /\ oen' = 1 /\ wen' = 0
  /\ bw' = be_out[msb]
  /\ data_out_en' = 1

WriteLatch ==
  /\ state = "WRITE_LATCH"
  /\ NextHalf("CEN_W") \/ (BothDone /\ NoAnswer)
  /\ UNCHANGED <<data_out, be_out, data_in>>

Edge == Idle \/ CenR \/ Oen \/ ReadLatch \/ CenW \/ Wen \/ WriteLatch

Next == Edge /\ ChipEdge /\ MasterEdge

(* The clock runs.                                                         *)
Spec == Init /\ [][Next]_vars /\ WF_vars(Next)

-----------------------------------------------------------------------------
Bit == {0, 1}

(* Every register has its type; what is latched from dq was driven there.  *)
TypeOK ==
  /\ state \in {"IDLE", "CEN_R", "OEN", "READ_LATCH", "CEN_W", "WEN", "WRITE_LATCH"}
  /\ msb \in Halves
  /\ data_out \in Word
  /\ be_out \in Enables
  /\ data_in \in HalfWord
  /\ addr \in HalfAddresses
  /\ cen \in Bit /\ oen \in Bit /\ wen \in Bit /\ data_out_en \in Bit
  /\ bw \subseteq Lanes
  /\ waitrequest \in Bit /\ readdatavalid \in Bit
  /\ readdata \in Word
  /\ request \in Requests \cup {None}
  /\ sram \in [HalfAddresses -> HalfWord]
  /\ array \in HalfWord \cup {Floating} /\ output \in HalfWord \cup {Floating}

Reading == state \in {"CEN_R", "OEN", "READ_LATCH"}
Writing == state \in {"CEN_W", "WEN", "WRITE_LATCH"}

Addressed(a) == addr = HalfAddress(a, msb)

(* What the pins and the chip's registers hold in each state: the chip is  *)
(* written exactly in WRITE_LATCH, with the right lanes, and what          *)
(* READ_LATCH takes from dq is the half word at addr and nothing else      *)
(* (sram_cntrlr.sv:81-136).                                                *)
Pipeline ==
  /\ state # "IDLE" => waitrequest = 1 /\ \E a \in Addresses : Addressed(a)
  /\ state = "IDLE" /\ waitrequest = 1 => request = None
  /\ state = "WRITE_LATCH" =>
       cen = 0 /\ wen = 0 /\ data_out_en = 1 /\ bw = be_out[msb]
  /\ state # "WRITE_LATCH" => wen = 1
  /\ state \in {"CEN_R", "OEN"} => cen = 0
  /\ state = "OEN" => array = sram[addr]
  /\ state = "READ_LATCH" =>
       oen = 0 /\ data_out_en = 0 /\ output = sram[addr]
  /\ Reading /\ msb = 1 => data_in = sram[addr - 2]

-----------------------------------------------------------------------------
(* The controller and its chip are a memory of words.  The access under    *)
(* way is in the controller's registers; the halves of a write that are    *)
(* not yet in the chip are already in the memory the bus sees.             *)

Underway == [op |-> IF Writing THEN "write" ELSE "read",
             address |-> CHOOSE a \in Addresses : Addressed(a),
             data |-> data_out, enable |-> be_out]

Content(a, h) ==
  IF Writing /\ Addressed(a) /\ msb <= h
  THEN Merge(sram[HalfAddress(a, h)], data_out[h], be_out[h])
  ELSE sram[HalfAddress(a, h)]

Bus == INSTANCE AvalonMemory
  WITH mem     <- [a \in Addresses |-> [h \in Halves |-> Content(a, h)]],
       ready   <- waitrequest = 0,
       pending <- IF state = "IDLE" THEN None ELSE Underway,
       reply   <- IF readdatavalid = 1 THEN readdata ELSE None

(* Every access is taken when the master believes it is, carried out once, *)
(* on its own bytes only, and every read is answered once with the word as *)
(* the writes before it left it (sram_cntrlr.sv:58-139).                   *)
IsMemory == Bus!Memory

(* A request presented is taken, and an access under way ends, after       *)
(* finitely many edges (sram_cntrlr.sv:60, 96, 128).                       *)
AccessEnds == (state # "IDLE" \/ Waiting) ~> (state = "IDLE" /\ waitrequest = 0)
=============================================================================
