--------------------------- MODULE SramCtrlProofs ---------------------------
(***************************************************************************)
(* For every set of addresses, bytes and requests: the SRAM controller's   *)
(* registers keep their types, pins and chip agree with its state, and it  *)
(* implements AvalonMemory.                                                *)
(***************************************************************************)
EXTENDS SramCtrl, TLAPS

SramInv == TypeOK /\ Pipeline

-----------------------------------------------------------------------------
(* Addresses of half words tell words and halves apart.                    *)
LEMMA HalfUnique ==
  ASSUME NEW a \in Addresses, NEW b \in Addresses, NEW h \in Halves, NEW k \in Halves,
         HalfAddress(a, h) = HalfAddress(b, k)
  PROVE  a = b /\ h = k
BY SramAssumption DEF HalfAddress, ByteAddress, Halves

LEMMA HalfType ==
  ASSUME NEW a \in Addresses, NEW h \in Halves
  PROVE  HalfAddress(a, h) \in HalfAddresses /\ HalfAddress(a, h) \in Nat
BY SramAssumption DEF HalfAddress, HalfAddresses, ByteAddress, Halves

LEMMA HighHalf ==
  ASSUME NEW a \in Addresses
  PROVE  /\ HalfAddress(a, 0) = ByteAddress(a)
         /\ HalfAddress(a, 0) + 2 = HalfAddress(a, 1)
         /\ HalfAddress(a, 1) - 2 = HalfAddress(a, 0)
BY SramAssumption DEF HalfAddress, ByteAddress

LEMMA MergeType ==
  ASSUME NEW old \in HalfWord, NEW new \in HalfWord, NEW lanes
  PROVE  Merge(old, new, lanes) \in HalfWord
BY DEF Merge, HalfWord

LEMMA RequestFields ==
  ASSUME NEW r \in Requests
  PROVE  /\ r # None
         /\ r.op \in {"read", "write"} /\ r.address \in Addresses
         /\ r.data \in Word /\ r.enable \in Enables
         /\ r = [op |-> r.op, address |-> r.address, data |-> r.data,
                 enable |-> r.enable]
BY SramAssumption DEF Access

-----------------------------------------------------------------------------
LEMMA InitInv == Init => SramInv
<1> SUFFICES ASSUME Init PROVE SramInv
  OBVIOUS
<1>1. PICK b \in Bytes : data_out = [h \in Halves |-> [l \in Lanes |-> b]]
  BY DEF Init
<1>2. data_out \in Word /\ data_in \in HalfWord
  BY <1>1 DEF Init, Word, HalfWord, Halves
<1>3. TypeOK
  BY <1>2 DEF Init, TypeOK, Bit, Enables, Lanes
<1>4. Pipeline
  BY DEF Init, Pipeline, Reading
<1>5. QED BY <1>3, <1>4 DEF SramInv

(* What every edge does to the chip, whatever the state.                   *)
LEMMA ChipType ==
  ASSUME TypeOK, Pipeline, ChipEdge
  PROVE  /\ sram' \in [HalfAddresses -> HalfWord]
         /\ array' \in HalfWord \cup {Floating}
         /\ output' \in HalfWord \cup {Floating}
<1> USE DEF TypeOK
<1>1. CASE state = "WRITE_LATCH"
  <2>1. Dq \in HalfWord
    BY <1>1 DEF Pipeline, Dq, Word
  <2>2. Merge(sram[addr], Dq, bw) \in HalfWord
    BY <2>1, MergeType
  <2>3. QED BY <2>2 DEF ChipEdge
<1>2. CASE state # "WRITE_LATCH"
  BY <1>2 DEF Pipeline, ChipEdge
<1>3. QED BY <1>1, <1>2

-----------------------------------------------------------------------------
(* Each state's edge preserves the invariant.                              *)
LEMMA StepInv ==
  ASSUME SramInv, Next
  PROVE  SramInv'
<1> USE DEF SramInv
<1>c. /\ sram' \in [HalfAddresses -> HalfWord]
      /\ array' \in HalfWord \cup {Floating}
      /\ output' \in HalfWord \cup {Floating}
  BY ChipType DEF Next
<1>m. request' \in Requests \cup {None}
  BY DEF Next, MasterEdge, TypeOK
<1>s. state # "WRITE_LATCH" => sram' = sram
  BY DEF Next, ChipEdge, Pipeline
<1>1. CASE Idle
  <2>1. CASE request # None
    <3>1. PICK r \in Requests : r = request
      BY <2>1 DEF TypeOK
    <3>2. /\ r.address \in Addresses /\ r.data \in Word /\ r.enable \in Enables
      BY RequestFields
    <3>3. Accept(r) /\ msb' = 0 /\ NoAnswer /\ data_in' = data_in
      BY <1>1, <2>1, <3>1 DEF Idle
    <3>4. addr' = HalfAddress(r.address, 0)
      BY <3>2, <3>3, HighHalf DEF Accept
    <3>5. addr' \in HalfAddresses
      BY <3>2, <3>4, HalfType DEF Halves
    <3>6. TypeOK'
      BY <1>c, <1>m, <3>2, <3>3, <3>5
      DEF TypeOK, Accept, Pins, NoAnswer, Bit, Halves
    <3>7. Addressed(r.address)'
      BY <3>3, <3>4 DEF Addressed
    <3>8. Pipeline'
      BY <3>2, <3>3, <3>7 DEF Pipeline, Accept, Pins, Reading
    <3>9. QED BY <3>6, <3>8
  <2>2. CASE request = None
    <3>1. TypeOK'
      BY <1>c, <1>m, <1>1, <2>2 DEF TypeOK, Idle, Pins, NoAnswer, Bit, Halves
    <3>2. Pipeline'
      BY <1>1, <2>2 DEF Idle, Pipeline, Pins, Reading
    <3>3. QED BY <3>1, <3>2
  <2>3. QED BY <2>1, <2>2
<1>2. CASE CenR
  <2>1. TypeOK'
    BY <1>c, <1>m, <1>2 DEF TypeOK, CenR, Advance, Pins, NoAnswer, Bit
  <2>2. array' = sram[addr]
    BY <1>2 DEF CenR, Advance, Pipeline, Next, ChipEdge
  <2>3. Pipeline'
    BY <1>2, <1>s, <2>2 DEF CenR, Advance, Pins, Pipeline, Reading, Addressed
  <2>4. QED BY <2>1, <2>3
<1>3. CASE Oen
  <2>1. TypeOK'
    BY <1>c, <1>m, <1>3 DEF TypeOK, Oen, Advance, Pins, NoAnswer, Bit
  <2>2. output' = sram[addr]
    BY <1>3 DEF Oen, Advance, Pipeline, Next, ChipEdge
  <2>3. Pipeline'
    BY <1>3, <1>s, <2>2 DEF Oen, Advance, Pins, Pipeline, Reading, Addressed
  <2>4. QED BY <2>1, <2>3
<1>4. CASE ReadLatch
  <2>1. Dq = sram[addr] /\ Dq \in HalfWord
    BY <1>4 DEF ReadLatch, Pipeline, Dq, TypeOK
  <2>2. PICK a \in Addresses : Addressed(a)
    BY <1>4 DEF ReadLatch, Pipeline
  <2>3. CASE NextHalf("CEN_R")
    <3>1. addr' = HalfAddress(a, 1) /\ addr' - 2 = addr
      BY <2>2, <2>3, HighHalf DEF NextHalf, Addressed
    <3>2. addr' \in HalfAddresses
      BY <3>1, HalfType DEF Halves
    <3>3. TypeOK'
      BY <1>c, <1>m, <1>4, <2>1, <2>3, <3>2
      DEF TypeOK, ReadLatch, NextHalf, Pins, NoAnswer, Bit, Halves
    <3>4. Addressed(a)'
      BY <2>3, <3>1 DEF Addressed, NextHalf
    <3>5. Pipeline'
      BY <1>4, <1>s, <2>1, <2>3, <3>1, <3>4
      DEF Pipeline, ReadLatch, NextHalf, Pins, Reading
    <3>6. QED BY <3>3, <3>5
  <2>4. CASE BothDone
    <3>1. readdatavalid' = 1 /\ readdata' = [h \in Halves |-> IF h = 0 THEN data_in ELSE Dq]
      BY <1>4, <2>4 DEF ReadLatch, NextHalf, BothDone
    <3>2. readdata' \in Word
      BY <2>1, <3>1 DEF TypeOK, Word
    <3>3. TypeOK'
      BY <1>c, <1>m, <1>4, <2>1, <2>4, <3>1, <3>2
      DEF TypeOK, ReadLatch, BothDone, Pins, Bit, Halves
    <3>4. Pipeline'
      BY <1>4, <2>4 DEF Pipeline, ReadLatch, BothDone, Pins, Reading
    <3>5. QED BY <3>3, <3>4
  <2>5. QED BY <1>4, <2>3, <2>4 DEF ReadLatch
<1>5. CASE CenW
  <2>1. TypeOK'
    BY <1>c, <1>m, <1>5 DEF TypeOK, CenW, Advance, Pins, NoAnswer, Bit
  <2>2. Pipeline'
    BY <1>5, <1>s DEF CenW, Advance, Pins, Pipeline, Reading, Addressed
  <2>3. QED BY <2>1, <2>2
<1>6. CASE Wen
  <2>1. be_out[msb] \subseteq Lanes
    BY DEF TypeOK, Enables
  <2>2. TypeOK'
    BY <1>c, <1>m, <1>6, <2>1 DEF TypeOK, Wen, Advance, NoAnswer, Bit
  <2>3. Pipeline'
    BY <1>6, <1>s DEF Wen, Advance, Pipeline, Reading, Addressed
  <2>4. QED BY <2>2, <2>3
<1>7. CASE WriteLatch
  <2>1. PICK a \in Addresses : Addressed(a)
    BY <1>7 DEF WriteLatch, Pipeline
  <2>2. CASE NextHalf("CEN_W")
    <3>1. addr' = HalfAddress(a, 1)
      BY <2>1, <2>2, HighHalf DEF NextHalf, Addressed
    <3>2. addr' \in HalfAddresses
      BY <3>1, HalfType DEF Halves
    <3>3. TypeOK'
      BY <1>c, <1>m, <1>7, <2>2, <3>2
      DEF TypeOK, WriteLatch, NextHalf, Pins, NoAnswer, Bit, Halves
    <3>4. Addressed(a)'
      BY <2>2, <3>1 DEF Addressed, NextHalf
    <3>5. Pipeline'
      BY <1>7, <2>2, <3>4 DEF Pipeline, WriteLatch, NextHalf, Pins, Reading
    <3>6. QED BY <3>3, <3>5
  <2>3. CASE BothDone /\ NoAnswer
    <3>1. TypeOK'
      BY <1>c, <1>m, <1>7, <2>3
      DEF TypeOK, WriteLatch, BothDone, Pins, NoAnswer, Bit, Halves
    <3>2. Pipeline'
      BY <1>7, <2>3 DEF Pipeline, WriteLatch, BothDone, Pins, Reading
    <3>3. QED BY <3>1, <3>2
  <2>4. QED BY <1>7, <2>2, <2>3 DEF WriteLatch
<1>8. QED
  BY <1>1, <1>2, <1>3, <1>4, <1>5, <1>6, <1>7 DEF Next, Edge

(* The types and the agreement of pins, chip and state, for ever.          *)
THEOREM SramInvariant == Spec => []SramInv
<1>1. SramInv /\ UNCHANGED vars => SramInv'
  <2> SUFFICES ASSUME SramInv, UNCHANGED vars PROVE SramInv'
    OBVIOUS
  <2>1. TypeOK'
    BY DEF SramInv, TypeOK, vars, control, pins, avalon, chip
  <2>2. Pipeline'
    BY DEF SramInv, Pipeline, Reading, Addressed, vars, control, pins, avalon, chip
  <2>3. QED BY <2>1, <2>2 DEF SramInv
<1>2. SramInv /\ [Next]_vars => SramInv'
  BY <1>1, StepInv
<1>3. QED BY InitInv, <1>2, PTL DEF Spec

(* Every register keeps its type.                                          *)
THEOREM SramTypeCorrect == Spec => []TypeOK
<1>1. SramInv => TypeOK
  BY DEF SramInv
<1>2. QED BY <1>1, SramInvariant, PTL

(* The chip is written exactly when it should be, and what is latched from *)
(* it is the half word asked for.                                          *)
THEOREM PipelineAlways == Spec => []Pipeline
<1>1. SramInv => Pipeline
  BY DEF SramInv
<1>2. QED BY <1>1, SramInvariant, PTL
-----------------------------------------------------------------------------
(* The refinement: the memory the bus sees, by name.                       *)
Contents == [a \in Addresses |-> [h \in Halves |-> Content(a, h)]]
Pending == IF state = "IDLE" THEN None ELSE Underway
Reply == IF readdatavalid = 1 THEN readdata ELSE None

LEMMA MappingIs ==
  /\ Bus!MemNext <=> Bus!Master /\ (Bus!Take \/ Bus!Work \/ Bus!Finish \/ Bus!Rest)
  /\ Bus!Requested <=> request # None /\ waitrequest = 0
BY DEF Bus!MemNext, Bus!Requested

(* The address of the access under way is the one whose half is on the     *)
(* pins.                                                                   *)
LEMMA UnderwayAddress ==
  ASSUME msb \in Halves, NEW a \in Addresses, Addressed(a)
  PROVE  (CHOOSE b \in Addresses : Addressed(b)) = a
<1>1. \A b \in Addresses : Addressed(b) => b = a
  BY HalfUnique DEF Addressed
<1>2. QED BY <1>1

LEMMA MasterMap ==
  ASSUME TypeOK, MasterEdge
  PROVE  Bus!Master
<1>1. Requests \subseteq Bus!Access
  BY SramAssumption
  DEF Access, Bus!Access, Enables, Bus!Enables, Word, Bus!Word, HalfWord,
      Bus!HalfWord, Lanes, Bus!Lanes, Halves, Bus!Halves
<1>2. waitrequest = 0 \/ waitrequest = 1
  BY DEF TypeOK, Bit
<1>3. QED BY <1>1, <1>2 DEF MasterEdge, Waiting, Bus!Master, TypeOK

LEMMA InitMap == Init => Bus!MemInit
<1> SUFFICES ASSUME Init PROVE Bus!MemInit
  OBVIOUS
<1>1. \A a \in Addresses, h \in Halves : Content(a, h) \in HalfWord
  BY HalfType DEF Init, Content, Writing
<1>2. Contents \in [Addresses -> Word]
  BY <1>1 DEF Contents, Word
<1>3. QED
  BY <1>2 DEF Init, Contents, Bus!MemInit, Word, Bus!Word, HalfWord, Bus!HalfWord,
              Lanes, Bus!Lanes, Halves, Bus!Halves

(* Contents are equal when they are equal half word by half word.          *)
LEMMA Pointwise ==
  ASSUME \A a \in Addresses, h \in Halves : Content(a, h)' = Content(a, h)
  PROVE  Contents' = Contents
BY DEF Contents

-----------------------------------------------------------------------------
(* What each edge is to the bus.                                           *)
LEMMA TakeMap ==
  ASSUME SramInv, Next, Idle, request # None
  PROVE  Bus!Take
<1> USE DEF SramInv
<1>1. PICK r \in Requests : r = request
  BY DEF TypeOK
<1>2. /\ r # None
      /\ r.op \in {"read", "write"} /\ r.address \in Addresses
      /\ r = [op |-> r.op, address |-> r.address, data |-> r.data, enable |-> r.enable]
  BY RequestFields
<1>3. Accept(r) /\ msb' = 0 /\ NoAnswer /\ state = "IDLE"
  BY <1>1 DEF Idle
<1>4. sram' = sram
  BY <1>3 DEF Next, ChipEdge, Pipeline
<1>5. waitrequest = 0
  BY <1>3 DEF TypeOK, Pipeline, Bit
<1>6. Addressed(r.address)' /\ addr' = HalfAddress(r.address, 0)
  BY <1>2, <1>3, HighHalf DEF Accept, Addressed
<1>7. \A a \in Addresses : Addressed(a)' => a = r.address
  BY <1>2, <1>3, <1>6, HalfUnique DEF Addressed, Halves
<1>8. (CHOOSE a \in Addresses : Addressed(a))' = r.address
  BY <1>2, <1>6, <1>7
<1>9. Underway' = r
  BY <1>2, <1>3, <1>8 DEF Underway, Accept, Writing
<1>10. Pending = None /\ Pending' = request
  BY <1>1, <1>3, <1>9 DEF Pending, Accept
<1>11. \A a \in Addresses, h \in Halves :
         /\ Content(a, h) = sram[HalfAddress(a, h)]
         /\ Content(a, h)' = IF r.op = "write" /\ a = r.address
                             THEN Merge(sram[HalfAddress(a, h)], r.data[h], r.enable[h])
                             ELSE sram[HalfAddress(a, h)]
  BY <1>2, <1>3, <1>4, <1>6, <1>7 DEF Content, Writing, Accept, Halves
<1>12. Contents' = IF r.op = "write"
                   THEN [Contents EXCEPT ![r.address] =
                          [h \in Halves |-> Merge(Contents[r.address][h], r.data[h], r.enable[h])]]
                   ELSE Contents
  <2>1. CASE r.op = "write"
    <3>1. \A a \in Addresses : Contents'[a] =
            IF a = r.address
            THEN [h \in Halves |-> Merge(Contents[r.address][h], r.data[h], r.enable[h])]
            ELSE Contents[a]
      BY <1>2, <1>11, <2>1 DEF Contents
    <3>2. QED BY <1>2, <2>1, <3>1 DEF Contents
  <2>2. CASE r.op # "write"
    BY <1>11, <2>2, Pointwise
  <2>3. QED BY <2>1, <2>2
<1>13. readdatavalid' = 0 /\ waitrequest' = 1
  BY <1>3 DEF NoAnswer, Accept
<1>14. QED
  BY <1>1, <1>2, <1>5, <1>10, <1>12, <1>13
  DEF Contents, Pending, Bus!Take, Bus!Requested, Bus!Written, Bus!Merge, Merge,
      Halves, Bus!Halves, Lanes, Bus!Lanes

LEMMA RestMap ==
  ASSUME SramInv, Next, Idle, request = None
  PROVE  Bus!Rest
<1> USE DEF SramInv
<1>1. state = "IDLE" /\ state' = "IDLE" /\ waitrequest' = 0 /\ readdatavalid' = 0
  BY DEF Idle, NoAnswer
<1>2. sram' = sram
  BY <1>1 DEF Next, ChipEdge, Pipeline
<1>3. Contents' = Contents
  BY <1>1, <1>2, Pointwise DEF Content, Writing
<1>4. QED
  BY <1>1, <1>3 DEF Contents, Bus!Rest, Bus!Requested

(* An edge that leaves the access where it is, but perhaps for the half.   *)
LEMMA WorkMap ==
  ASSUME SramInv, state # "IDLE", state' # "IDLE", Writing' <=> Writing,
         msb' \in Halves,
         NEW a \in Addresses, Addressed(a), Addressed(a)', NoAnswer,
         UNCHANGED <<data_out, be_out, waitrequest>>, Contents' = Contents
  PROVE  Bus!Work
<1> USE DEF SramInv
<1>1. (CHOOSE b \in Addresses : Addressed(b)) = a
  BY UnderwayAddress DEF TypeOK
<1>2. \A b \in Addresses : Addressed(b)' => b = a
  BY HalfUnique DEF Addressed
<1>3. (CHOOSE b \in Addresses : Addressed(b))' = a
  BY <1>2
<1>4. Underway' = Underway
  BY <1>1, <1>3 DEF Underway
<1>5. Pending' = Pending /\ Pending # None
  <2>1. Underway \in Access
    BY <1>1 DEF Underway, Access, TypeOK
  <2>2. QED BY <1>4, <2>1, SramAssumption DEF Pending
<1>6. waitrequest = 1 /\ waitrequest' = 1 /\ readdatavalid' = 0
  BY DEF Pipeline, NoAnswer
<1>7. QED
  BY <1>5, <1>6 DEF Contents, Pending, Bus!Work, Bus!Requested
(* A write's half word in the chip is what the bus saw already.            *)
LEMMA LatchContents ==
  ASSUME SramInv, Next, WriteLatch, NEW x \in Addresses, Addressed(x),
         \/ msb = 0 /\ msb' = 1 /\ Addressed(x)' /\ state' = "CEN_W"
         \/ msb = 1 /\ state' = "IDLE"
  PROVE  Contents' = Contents
<1> USE DEF SramInv
<1>1. state = "WRITE_LATCH" /\ data_out' = data_out /\ be_out' = be_out
  BY DEF WriteLatch
<1>2. sram' = [sram EXCEPT ![addr] = Merge(sram[addr], data_out[msb], be_out[msb])]
  <2>1. cen = 0 /\ wen = 0 /\ data_out_en = 1 /\ bw = be_out[msb]
    BY <1>1 DEF Pipeline
  <2>2. Dq = data_out[msb]
    BY <2>1 DEF Dq
  <2>3. QED BY <2>1, <2>2 DEF Next, ChipEdge
<1>3. addr = HalfAddress(x, msb) /\ msb \in Halves
  BY DEF Addressed, TypeOK
<1>4. ASSUME NEW a \in Addresses, NEW h \in Halves
      PROVE  Content(a, h)' = Content(a, h)
  <2>1. HalfAddress(a, h) \in HalfAddresses
    BY HalfType
  <2>2. HalfAddress(a, h) = addr <=> a = x /\ h = msb
    BY <1>3, HalfUnique
  <2>3. sram'[HalfAddress(a, h)] =
          IF a = x /\ h = msb THEN Merge(sram[HalfAddress(a, h)], data_out[h], be_out[h])
                              ELSE sram[HalfAddress(a, h)]
    BY <1>2, <2>1, <2>2 DEF TypeOK
  <2>4. Content(a, h) = IF a = x /\ msb <= h
                        THEN Merge(sram[HalfAddress(a, h)], data_out[h], be_out[h])
                        ELSE sram[HalfAddress(a, h)]
    <3>1. Addressed(a) <=> a = x
      BY <1>3, HalfUnique DEF Addressed
    <3>2. QED BY <1>1, <3>1 DEF Content, Writing
  <2>5. CASE msb = 0 /\ msb' = 1 /\ Addressed(x)' /\ state' = "CEN_W"
    <3>1. Addressed(a)' <=> a = x
      BY <2>5, HalfUnique DEF Addressed, Halves
    <3>2. Content(a, h)' = IF a = x /\ h = 1
                           THEN Merge(sram'[HalfAddress(a, h)], data_out[h], be_out[h])
                           ELSE sram'[HalfAddress(a, h)]
      BY <1>1, <2>5, <3>1 DEF Content, Writing, Halves
    <3>3. QED BY <2>3, <2>4, <2>5, <3>2 DEF Halves
  <2>6. CASE msb = 1 /\ state' = "IDLE"
    <3>1. Content(a, h)' = sram'[HalfAddress(a, h)]
      BY <2>6 DEF Content, Writing
    <3>2. QED BY <2>3, <2>4, <2>6, <3>1 DEF Halves
  <2>7. QED BY <2>5, <2>6
<1>5. QED BY <1>4, Pointwise

(* The edge at which the access ends: a read is answered with its word.    *)
LEMMA FinishMap ==
  ASSUME SramInv, Next, ReadLatch \/ WriteLatch, BothDone, Contents' = Contents,
         WriteLatch => NoAnswer,
         ReadLatch => readdatavalid' = 1
           /\ readdata' = [h \in Halves |-> IF h = 0 THEN data_in ELSE Dq]
  PROVE  Bus!Finish
<1> USE DEF SramInv
<1>1. PICK a \in Addresses : Addressed(a)
  BY DEF ReadLatch, WriteLatch, Pipeline
<1>2. Underway.address = a
  BY <1>1, UnderwayAddress DEF TypeOK, Underway
<1>3. Underway \in Access
  BY <1>2 DEF Underway, Access, TypeOK
<1>4. Pending = Underway /\ Pending # None /\ Pending' = None
  BY <1>3, SramAssumption DEF Pending, ReadLatch, WriteLatch, BothDone
<1>5. waitrequest = 1 /\ waitrequest' = 0
  BY DEF Pipeline, BothDone, ReadLatch, WriteLatch
<1>6. Reply' = IF Pending.op = "read" THEN Contents[Pending.address] ELSE None
  <2>1. CASE WriteLatch
    <3>1. Pending.op = "write" /\ Reply' = None
      BY <2>1, <1>4 DEF WriteLatch, Underway, Writing, NoAnswer, Reply
    <3>2. QED BY <3>1
  <2>2. CASE ReadLatch
    <3>1. state = "READ_LATCH" /\ msb = 1
      BY <2>2 DEF ReadLatch, BothDone
    <3>2. Pending.op = "read" /\ Pending.address = a
      BY <1>2, <1>4, <3>1 DEF Underway, Writing
    <3>3. Dq = sram[HalfAddress(a, 1)]
      BY <1>1, <3>1 DEF Pipeline, Dq, Addressed
    <3>4. data_in = sram[HalfAddress(a, 0)]
      BY <1>1, <3>1, HighHalf DEF Pipeline, Reading, Addressed
    <3>5. Contents[a] = [h \in Halves |-> sram[HalfAddress(a, h)]]
      BY <3>1 DEF Contents, Content, Writing
    <3>6. Reply' = Contents[a]
      BY <2>2, <3>3, <3>4, <3>5 DEF Reply, Halves
    <3>7. QED BY <3>2, <3>6
  <2>3. QED BY <2>1, <2>2
<1>7. QED
  BY <1>4, <1>5, <1>6 DEF Contents, Pending, Reply, Bus!Finish, Bus!Requested

-----------------------------------------------------------------------------
LEMMA StepMap ==
  ASSUME SramInv, Next
  PROVE  Bus!MemNext
<1> USE DEF SramInv
<1>m. Bus!Master
  BY MasterMap DEF Next
<1>s. state # "WRITE_LATCH" => sram' = sram
  BY DEF Next, ChipEdge, Pipeline
<1>a. state # "IDLE" => \E a \in Addresses : Addressed(a)
  BY DEF Pipeline
<1>1. CASE Idle
  BY <1>1, TakeMap, RestMap, <1>m, MappingIs
<1>2. CASE CenR \/ Oen \/ CenW \/ Wen
  <2>1. /\ state # "IDLE" /\ state' # "IDLE" /\ (Writing' <=> Writing)
        /\ state # "WRITE_LATCH" /\ NoAnswer
        /\ UNCHANGED <<msb, addr, data_out, be_out, waitrequest>>
    BY <1>2 DEF CenR, Oen, CenW, Wen, Advance, Writing
  <2>2. PICK a \in Addresses : Addressed(a)
    BY <1>a, <2>1
  <2>3. Addressed(a)' /\ msb' \in Halves
    BY <2>1, <2>2 DEF Addressed, TypeOK
  <2>4. Contents' = Contents
    BY <1>s, <2>1, Pointwise DEF Content, Addressed
  <2>5. QED BY <2>1, <2>2, <2>3, <2>4, WorkMap, <1>m, MappingIs
<1>3. CASE ReadLatch
  <2>1. state = "READ_LATCH" /\ sram' = sram /\ UNCHANGED <<data_out, be_out>>
    BY <1>3, <1>s DEF ReadLatch
  <2>2. PICK a \in Addresses : Addressed(a)
    BY <1>a, <2>1
  <2>3. CASE NextHalf("CEN_R")
    <3>1. Addressed(a)' /\ msb' \in Halves
      BY <2>2, <2>3, HighHalf DEF NextHalf, Addressed, Halves
    <3>2. ~Writing /\ ~Writing' /\ state' # "IDLE"
      BY <2>1, <2>3 DEF Writing, NextHalf
    <3>3. Contents' = Contents
      BY <2>1, <3>2, Pointwise DEF Content
    <3>4. QED
      BY <2>1, <2>2, <2>3, <3>1, <3>2, <3>3, WorkMap, <1>m, MappingIs DEF NextHalf
  <2>4. CASE BothDone
    <3>1. ~Writing /\ ~Writing'
      BY <2>1, <2>4 DEF Writing, BothDone
    <3>2. Contents' = Contents
      BY <2>1, <3>1, Pointwise DEF Content
    <3>3. /\ readdatavalid' = 1 /\ ~WriteLatch
          /\ readdata' = [h \in Halves |-> IF h = 0 THEN data_in ELSE Dq]
      BY <1>3, <2>1, <2>4 DEF ReadLatch, NextHalf, BothDone, WriteLatch
    <3>4. QED BY <1>3, <2>4, <3>2, <3>3, FinishMap, <1>m, MappingIs
  <2>5. QED BY <1>3, <2>3, <2>4 DEF ReadLatch
<1>4. CASE WriteLatch
  <2>1. state = "WRITE_LATCH" /\ ~ReadLatch /\ UNCHANGED <<data_out, be_out>>
    BY <1>4 DEF WriteLatch, ReadLatch
  <2>2. PICK a \in Addresses : Addressed(a)
    BY <1>a, <2>1
  <2>3. CASE NextHalf("CEN_W")
    <3>1. Addressed(a)' /\ msb = 0 /\ msb' = 1 /\ state' = "CEN_W"
      BY <2>2, <2>3, HighHalf DEF NextHalf, Addressed, Halves
    <3>2. Contents' = Contents
      BY <1>4, <2>2, <3>1, LatchContents
    <3>3. Writing /\ Writing' /\ msb' \in Halves
      BY <2>1, <3>1 DEF Writing, Halves
    <3>4. QED
      BY <2>1, <2>2, <2>3, <3>1, <3>2, <3>3, WorkMap, <1>m, MappingIs DEF NextHalf
  <2>4. CASE BothDone /\ NoAnswer
    <3>1. Contents' = Contents
      BY <1>4, <2>2, <2>4, LatchContents DEF BothDone
    <3>2. QED BY <1>4, <2>1, <2>4, <3>1, FinishMap, <1>m, MappingIs
  <2>5. QED BY <1>4, <2>3, <2>4 DEF WriteLatch
<1>5. QED
  BY <1>1, <1>2, <1>3, <1>4 DEF Next, Edge

(* The controller and its chip are the memory the bus expects: every step  *)
(* of theirs is one of AvalonMemory's (sram_cntrlr.sv:58-139).             *)
THEOREM SramImplements == Spec => IsMemory
<1>1. SramInv /\ [Next]_vars => [Bus!MemNext]_<<Contents, request, waitrequest = 0, Pending, Reply>>
  <2>1. SramInv /\ Next => Bus!MemNext
    BY StepMap
  <2>2. UNCHANGED vars => UNCHANGED <<Contents, request, waitrequest = 0, Pending, Reply>>
    BY DEF vars, control, pins, avalon, chip, Contents, Pending, Reply, Content,
           Writing, Addressed, Underway
  <2>3. QED BY <2>1, <2>2
<1>2. QED
  BY InitMap, <1>1, SramInvariant, PTL
  DEF Spec, IsMemory, Bus!Memory, Contents, Pending, Reply
=============================================================================
