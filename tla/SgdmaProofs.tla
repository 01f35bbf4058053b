---------------------------- MODULE SgdmaProofs ----------------------------
(***************************************************************************)
(* Proofs about the scatter-gather DMA driver of Sgdma, for any set of     *)
(* descriptors and any number of jobs.                                     *)
(*                                                                         *)
(* The inductive invariant SgdmaInv says of every place that names a       *)
(* descriptor (the pointer register, the controller's next address, a      *)
(* next field, the chain) that what it names is either not the             *)
(* controller's or completely built; that the controller walks along next  *)
(* fields; and, of each step of a transfer, what its writes have already   *)
(* made sure of.                                                           *)
(***************************************************************************)
EXTENDS Sgdma, Inductions

Building == {"clear_next", "fill", "own"}
Starting == {"async", "sync"}
Stopping == {"async_stop", "sync_stop"}
Pointing == {"async_point", "sync_point"}
Releasing == {"async_run", "sync_run"}
Ending == {"sync_wait", "sync_clear", "sync_status"}
Transfer == Starting \cup Stopping \cup Pointing \cup Releasing

(* The controller holds d: it is read, or being carried out.               *)
InHand(d) == \/ dma.current # None /\ d = dma.current.desc
             \/ dma.fetched # None /\ d = dma.fetched.desc

(* Whoever follows a reference to n finds it with the processor or built.  *)
Sound(n) == n = NoDesc \/ (mem[n].owned => built[n] # 0 /\ mem[n].job = built[n])

(* The controller is on its way to each descriptor of S.                   *)
Coming(S) ==
  \A d \in S : \/ InHand(d)
               \/ dma.more /\ dma.next = d
               \/ dma.more /\ \E e \in S : ~InHand(e) /\ mem[e].next = d

Chained == {chain[i] : i \in DOMAIN chain}
Due == {d \in Descs : built[d] \in promised}

Fresh == call["main"].at = "init"

Places == {"idle", "init", "init_control", "clear", "callback", "leave"}
          \cup Building \cup Transfer \cup Ending
Calls == [at : Places, desc : Descs \cup {NoDesc}, next : Descs \cup {NoDesc}]

CallsOK ==
  /\ call \in [Context -> Calls]
  /\ call["isr"].at \notin {"init", "init_control"}
  /\ call["main"].at \notin {"clear", "callback", "leave"}
  /\ call["isr"].at \notin Ending \cup {"sync", "sync_stop", "sync_point", "sync_run"}
  /\ \A c \in Context : call[c].at = "idle" => call[c] = Idle
  /\ call["isr"].at \in Building \cup Transfer => call["main"] = Idle
  /\ Booting => call["isr"].at \in {"idle", "clear", "leave"}

TypesOK ==
  /\ TypeOK
  /\ chain \in Seq(Descs)
  /\ dev \in [callback : BOOLEAN, chain_control : SUBSET ControlBit]

BuiltOK ==
  /\ \A d \in Descs : built[d] # 0 =>
       /\ mem[d].owned /\ mem[d].job = built[d] /\ built[d] <= jobs
       /\ mem[d].next \in Descs /\ Sound(mem[d].next)
       /\ built[mem[d].next] # 0 => built[d] < built[mem[d].next]
  /\ \A d, e \in Descs : built[d] # 0 /\ built[d] = built[e] => d = e

ControllerOK ==
  /\ Sound(dma.next) /\ Sound(dma.pointer)
  /\ \A f \in {dma.current, dma.fetched} \ {None} :
       f.job # 0 /\ built[f.desc] = f.job /\ f.next = mem[f.desc].next
  /\ dma.current # None /\ dma.fetched # None => dma.fetched.desc = dma.current.next
  /\ dma.more /\ dma.fetched # None => dma.next = dma.fetched.next
  /\ dma.more /\ dma.fetched = None /\ dma.current # None
       => dma.next = dma.current.next

BuildingAt(c) ==
  LET d == call[c].desc
      n == call[c].next IN
  call[c].at \in Building =>
    /\ d \in Descs /\ n \in Descs /\ d # n /\ built[d] = 0 /\ built[n] = 0
    /\ jobs < MaxJobs
    /\ call[c].at \in {"fill", "own"} => ~mem[n].owned
    /\ call[c].at = "own" => mem[d].job = jobs + 1 /\ mem[d].next = n
    /\ c = "isr" => chain = <<>> /\ ~Polling

BuildingOK == \A c \in Context : BuildingAt(c)

ChainOK ==
  /\ \A i \in DOMAIN chain : built[chain[i]] # 0
  /\ \A i \in DOMAIN chain : i + 1 \in DOMAIN chain => mem[chain[i]].next = chain[i + 1]
  /\ \A i, j \in DOMAIN chain : i < j => built[chain[i]] < built[chain[j]]

PromiseOK ==
  /\ 0 \notin promised
  /\ \A j \in promised : \E d \in Descs : built[d] = j
  /\ promised # {} => Running(dma)
  /\ Coming(Due)

AtHead(c) == chain = <<>> \/ Head(chain) = call[c].desc

TransferAt(c) ==
  LET at == call[c].at IN
  /\ at \in Transfer => call[c].desc \in Descs /\ Sound(call[c].desc)
  /\ at \in Starting =>
       /\ ~Polling
       /\ \/ AtHead(c) /\ (chain # <<>> => ~InHand(call[c].desc))
          \/ "RUN" \in dma.control /\ Coming(Chained)
  /\ at \in Stopping \cup Pointing \cup Releasing =>
       ~Busy(dma) /\ ~Polling /\ promised = {} /\ AtHead(c)
  /\ at \in Pointing \cup Releasing \cup {"sync_status", "init_control"} =>
       "RUN" \notin dma.control
  /\ at \in Pointing \cup Releasing => ~dma.ended
  /\ at \in Releasing => dma.status = {} /\ dma.pointer = call[c].desc

TransferOK == \A c \in Context : TransferAt(c)

SyncOK ==
  /\ call["main"].at = "sync_wait" =>
       "ERROR" \in dma.status \/ \A i \in DOMAIN chain : built[chain[i]] \in promised
  /\ call["main"].at \in {"sync_clear", "sync_status"} =>
       promised = {} /\ ("ERROR" \in dma.status \/ chain = <<>>)

FreshOK ==
  /\ jobs = 0 /\ chain = <<>> /\ promised = {} /\ \A d \in Descs : built[d] = 0

CompletionOK ==
  /\ owed \subseteq done
  /\ Booting => ~dev.callback
  /\ NoLostCompletion

Steady ==
  /\ BuiltOK /\ ControllerOK /\ BuildingOK /\ ChainOK
  /\ PromiseOK /\ TransferOK /\ SyncOK

SgdmaInv ==
  /\ TypesOK /\ CallsOK /\ CompletionOK
  /\ IF Fresh THEN FreshOK
     ELSE Steady

-----------------------------------------------------------------------------
(* The registers.  A step is looked at through the fields of dma only.     *)
Registers ==
  [control : SUBSET ControlBit, status : SUBSET StatusBit,
   pointer : Descs \cup {NoDesc}, next : Descs \cup {NoDesc},
   more : BOOLEAN, fetched : Fetched \cup {None},
   current : Fetched \cup {None}, ended : BOOLEAN, irq : BOOLEAN]

(* A register write makes run rise.                                        *)
Rises(old, new) == ~Running(old) /\ Running(new)

(* None is not a descriptor that was read.                                 *)
LEMMA NoneIsNot == None \notin Fetched
BY SgdmaAssumption DEF None, Fetched

LEMMA WrittenFields ==
  ASSUME NEW old \in Registers, NEW new \in Registers
  PROVE  LET w == Written(old, new) IN
         /\ w \in Registers
         /\ w.control = new.control /\ w.status = new.status
         /\ w.pointer = new.pointer /\ w.fetched = new.fetched
         /\ w.current = new.current /\ w.ended = new.ended /\ w.irq = new.irq
         /\ ~Rises(old, new) => w = new
         /\ Rises(old, new) => w.more = TRUE /\ w.next = new.pointer
<1>1. CASE Rises(old, new)
  <2>1. Written(old, new) = [new EXCEPT !.more = TRUE, !.next = new.pointer]
    BY <1>1 DEF Written, Rises
  <2> QED  BY <1>1, <2>1, Zenon DEF Registers
<1>2. CASE ~Rises(old, new)
  BY <1>2, Zenon DEF Written, Rises
<1> QED  BY <1>1, <1>2

(* Writing these control bits starts the controller.                       *)
Started(d, bits) ==
  ~Running(d) /\ "RUN" \in bits /\ ~d.ended
  /\ ~("STOP_DMA_ER" \in bits /\ "ERROR" \in d.status)

(* They leave the descriptor that would be read next.                      *)
Kept(d, bits) == "RUN" \in bits \/ "DESC_POLL_EN" \notin d.control

LEMMA ControlFields ==
  ASSUME NEW d \in Registers, NEW bits \in SUBSET ControlBit
  PROVE  LET w == WriteControl(d, bits) IN
         /\ w \in Registers
         /\ w.control = bits /\ w.status = d.status
         /\ w.pointer = d.pointer /\ w.fetched = d.fetched
         /\ w.current = d.current /\ (w.ended <=> d.ended /\ "RUN" \in bits)
         /\ w.irq = d.irq
         /\ ~Started(d, bits) => (w.more <=> d.more /\ Kept(d, bits)) /\ w.next = d.next
         /\ Started(d, bits) => w.more /\ w.next = d.pointer
<1> DEFINE new == [d EXCEPT !.control = bits, !.ended = d.ended /\ "RUN" \in bits,
                            !.more = d.more /\ Kept(d, bits)]
<1>1. /\ new \in Registers
      /\ new.control = bits /\ new.status = d.status
      /\ new.pointer = d.pointer /\ new.fetched = d.fetched
      /\ new.current = d.current /\ new.ended = (d.ended /\ "RUN" \in bits)
      /\ new.irq = d.irq /\ new.more = (d.more /\ Kept(d, bits)) /\ new.next = d.next
  BY Zenon DEF Registers
<1>2. WriteControl(d, bits) = Written(d, new)
  BY DEF WriteControl, Kept
<1>3. Rises(d, new) <=> Started(d, bits)
  <2> HIDE DEF new
  <2>1. Running(new) <=> /\ "RUN" \in bits /\ ~(d.ended /\ "RUN" \in bits)
                         /\ ~("STOP_DMA_ER" \in bits /\ "ERROR" \in d.status)
    BY <1>1, Zenon DEF Running
  <2> QED  BY <2>1, Zenon DEF Rises, Started
<1> DEFINE w == Written(d, new)
<1>4. /\ w \in Registers
      /\ w.control = new.control /\ w.status = new.status
      /\ w.pointer = new.pointer /\ w.fetched = new.fetched
      /\ w.current = new.current /\ w.ended = new.ended /\ w.irq = new.irq
      /\ ~Rises(d, new) => w = new
      /\ Rises(d, new) => w.more = TRUE /\ w.next = new.pointer
  <2> HIDE DEF new
  <2> QED  BY <1>1, WrittenFields, Zenon
<1> HIDE DEF new, w
<1> QED  BY <1>1, <1>2, <1>3, <1>4, Zenon DEF w

LEMMA StatusFields ==
  ASSUME NEW d \in Registers
  PROVE  LET w == ClearStatus(d)
             up == ~Running(d) /\ "RUN" \in d.control /\ ~d.ended IN
         /\ w \in Registers
         /\ w.control = d.control /\ w.status = {}
         /\ w.pointer = d.pointer /\ w.fetched = d.fetched
         /\ w.current = d.current /\ w.ended = d.ended /\ w.irq = d.irq
         /\ ~up => w.more = d.more /\ w.next = d.next
         /\ up => w.more /\ w.next = d.pointer
<1> DEFINE new == [d EXCEPT !.status = {}]
<1>1. /\ new \in Registers
      /\ new.control = d.control /\ new.status = {}
      /\ new.pointer = d.pointer /\ new.fetched = d.fetched
      /\ new.current = d.current /\ new.ended = d.ended
      /\ new.irq = d.irq /\ new.more = d.more /\ new.next = d.next
  BY Zenon DEF Registers
<1>2. ClearStatus(d) = Written(d, new)
  BY DEF ClearStatus
<1>3. Rises(d, new) <=> ~Running(d) /\ "RUN" \in d.control /\ ~d.ended
  <2> HIDE DEF new
  <2>1. Running(new) <=> "RUN" \in d.control /\ ~d.ended
    BY <1>1, Zenon DEF Running
  <2> QED  BY <2>1, Zenon DEF Rises
<1> DEFINE w == Written(d, new)
<1>4. /\ w \in Registers
      /\ w.control = new.control /\ w.status = new.status
      /\ w.pointer = new.pointer /\ w.fetched = new.fetched
      /\ w.current = new.current /\ w.ended = new.ended /\ w.irq = new.irq
      /\ ~Rises(d, new) => w = new
      /\ Rises(d, new) => w.more = TRUE /\ w.next = new.pointer
  <2> HIDE DEF new
  <2> QED  BY <1>1, WrittenFields, Zenon
<1> HIDE DEF new, w
<1> QED  BY <1>1, <1>2, <1>3, <1>4, Zenon DEF w

-----------------------------------------------------------------------------
(* The types, where each context may be, and that no completion is lost,   *)
(* step by step.                                                           *)
Basic == TypesOK /\ CallsOK /\ CompletionOK

LEMMA CallFields ==
  ASSUME CallsOK, NEW c \in Context, NEW w \in Places
  PROVE  LET new == [call EXCEPT ![c].at = w] IN
         /\ new \in [Context -> Calls]
         /\ new[c].at = w /\ new[c].desc = call[c].desc
         /\ new[c].next = call[c].next
         /\ \A b \in Context \ {c} : new[b] = call[b]
BY Zenon DEF CallsOK, Calls

(* A step that leaves what the callback's bookkeeping speaks of alone.     *)
Quietly ==
  /\ dma' \in Registers /\ (dma'.irq <=> dma.irq)
  /\ CallsOK' /\ (Booting' => Booting)
  /\ call["isr"].at \in {"clear", "callback"} => call'["isr"].at = call["isr"].at
  /\ promised' \subseteq Job
  /\ UNCHANGED <<mem, dev, jobs, chain, built, done, owed, seen>>

LEMMA QuietlyBasic ==
  ASSUME Basic, Quietly
  PROVE  Basic'
<1>1. TypesOK'
  BY Zenon DEF Quietly, Basic, TypesOK, TypeOK, Registers
<1>2. CompletionOK'
  BY DEF Quietly, Basic, CompletionOK, NoLostCompletion
<1> QED  BY <1>1, <1>2 DEF Quietly, Basic

(* Where a context may go next.                                            *)
LEMMA GoCalls ==
  ASSUME CallsOK, NEW c \in Context, NEW w \in Places \ {"idle", "init", "init_control"},
         call' = [call EXCEPT ![c].at = w], Active(c),
         c = "main" => w \notin {"clear", "callback", "leave"},
         c = "isr" => /\ w \notin Ending \cup {"sync", "sync_stop", "sync_point", "sync_run"}
                      /\ w \in Building \cup Transfer => call["main"] = Idle
                      /\ Booting => w \in {"clear", "leave"}
  PROVE  CallsOK' /\ (Booting' => Booting)
<1>1. /\ call' \in [Context -> Calls]
      /\ call'[c].at = w
      /\ \A b \in Context \ {c} : call'[b] = call[b]
  BY CallFields
<1> HIDE DEF Calls
<1>2. c \in {"main", "isr"}
  BY DEF Context
<1>3. CASE c = "main"
  <2>1. call["isr"] = Idle /\ call'["isr"] = Idle
    BY <1>1, <1>3 DEF Active, Context
  <2> QED  BY <1>1, <1>3, <2>1 DEF CallsOK, Booting, Context, Idle, Building, Transfer, Starting, Stopping, Pointing, Releasing, Ending
<1>4. CASE c = "isr"
  <2>1. call'["main"] = call["main"]
    BY <1>1, <1>4 DEF Context
  <2> QED  BY <1>1, <1>4, <2>1 DEF CallsOK, Booting, Context
<1> QED  BY <1>2, <1>3, <1>4

LEMMA ReturnCalls ==
  ASSUME CallsOK, NEW c \in Context, Return(c), Active(c)
  PROVE  CallsOK' /\ (Booting' => Booting)
<1>1. c \in {"main", "isr"}
  BY DEF Context
<1>2. Idle \in Calls /\ [Idle EXCEPT !.at = "leave"] \in Calls
      /\ Idle.at = "idle" /\ [Idle EXCEPT !.at = "leave"].at = "leave"
  BY Zenon DEF Idle, Calls, Places
<1>3. CASE c = "main"
  <2>1. call["isr"] = Idle /\ call' = [call EXCEPT !["main"] = Idle]
    BY <1>3 DEF Active, Return
  <2>2. call' \in [Context -> Calls] /\ call'["main"] = Idle /\ call'["isr"] = Idle
    BY <1>2, <2>1, Zenon DEF CallsOK, Context
  <2> QED  BY <1>2, <2>2 DEF CallsOK, Booting, Context, Building, Transfer, Starting, Stopping, Pointing, Releasing, Ending
<1>4. CASE c = "isr"
  <2>1. call' = [call EXCEPT !["isr"] = [Idle EXCEPT !.at = "leave"]]
    BY <1>4 DEF Return
  <2>2. call' \in [Context -> Calls] /\ call'["main"] = call["main"]
        /\ call'["isr"].at = "leave"
    BY <1>2, <2>1, Zenon DEF CallsOK, Context
  <2> QED  BY <1>2, <2>2 DEF CallsOK, Booting, Context, Building, Transfer, Starting, Stopping, Pointing, Releasing, Ending
<1> QED  BY <1>1, <1>3, <1>4

LEMMA Registered == ASSUME Basic PROVE dma \in Registers
BY DEF Basic, TypesOK, TypeOK, Registers

(* The fields that the controller's own steps change.                      *)
LEMMA FetchFields ==
  ASSUME Basic, Fetch
  PROVE  LET d == dma.next
             f == [desc |-> d, job |-> mem[d].job, next |-> mem[d].next]
             here == d # NoDesc /\ mem[d].owned IN
         /\ dma' \in Registers
         /\ dma'.control = dma.control /\ dma'.status = dma.status
         /\ dma'.pointer \in {dma.pointer, d} /\ dma'.current = dma.current
         /\ dma'.ended = dma.ended /\ dma'.irq = dma.irq
         /\ here => /\ d \in Descs /\ f \in Fetched
                    /\ dma'.next = mem[d].next /\ dma'.fetched = f
                    /\ dma'.more = dma.more
         /\ ~here => dma'.next = d /\ dma'.fetched = dma.fetched /\ ~dma'.more
<1> DEFINE d == dma.next
           f == [desc |-> d, job |-> mem[d].job, next |-> mem[d].next]
           p == PointerAfter(d)
<1>1. dma \in Registers
  BY Registered
<1>4. p \in {dma.pointer, d} /\ p \in Descs \cup {NoDesc}
  BY <1>1 DEF PointerAfter, Registers
<1> HIDE DEF p
<1>2. CASE d # NoDesc /\ mem[d].owned
  <2>1. d \in Descs
    BY <1>1, <1>2 DEF Registers
  <2>2. mem[d].job \in Job /\ mem[d].next \in Descs \cup {NoDesc}
    BY <2>1 DEF Basic, TypesOK, TypeOK
  <2>3. f \in Fetched
    BY <2>1, <2>2, Zenon DEF Fetched
  <2>4. dma' = [dma EXCEPT !.next = mem[d].next, !.pointer = p, !.fetched = f]
    BY <1>2 DEF Fetch, p
  <2> QED  BY <1>1, <1>2, <1>4, <2>1, <2>2, <2>3, <2>4, Zenon DEF Registers
<1>3. CASE ~(d # NoDesc /\ mem[d].owned)
  <2>1. dma' = [dma EXCEPT !.more = FALSE, !.pointer = p]
    BY <1>3 DEF Fetch, p
  <2> QED  BY <1>1, <1>3, <1>4, <2>1, Zenon DEF Registers
<1> QED  BY <1>2, <1>3

LEMMA BeginFields ==
  ASSUME Basic, Begin
  PROVE  /\ dma' \in Registers
         /\ dma'.control = dma.control /\ dma'.status = dma.status
         /\ dma'.pointer = dma.pointer /\ dma'.next = dma.next
         /\ dma'.more = dma.more /\ dma'.ended = dma.ended /\ dma'.irq = dma.irq
         /\ dma'.current = dma.fetched /\ dma'.fetched = None
<1>1. dma \in Registers /\ dma' = [dma EXCEPT !.current = dma.fetched, !.fetched = None]
  BY Registered DEF Begin
<1> QED  BY <1>1, Zenon DEF Registers

LEMMA CompleteFields ==
  ASSUME Basic, Complete
  PROVE  /\ dma' \in Registers
         /\ dma'.control = dma.control /\ dma'.pointer = dma.pointer
         /\ dma'.next = dma.next /\ dma'.more = dma.more
         /\ dma'.fetched = dma.fetched /\ dma'.current = None
         /\ dma'.ended = dma.ended /\ (dma.irq => dma'.irq)
         /\ dma'.status \in {dma.status \cup {"DESC_COMPLETED"},
                             dma.status \cup {"DESC_COMPLETED", "ERROR"}}
<1>1. PICK result \in {"ok", "error"}, on \in BOOLEAN :
         dma' = [dma EXCEPT
            !.current = None, !.irq = dma.irq \/ on,
            !.status = dma.status \cup {"DESC_COMPLETED"} \cup
                       (IF result = "error" THEN {"ERROR"} ELSE {})]
  BY Zenon DEF Complete
<1> DEFINE status == dma.status \cup {"DESC_COMPLETED"} \cup
                     (IF result = "error" THEN {"ERROR"} ELSE {})
<1>2. dma \in Registers
  BY Registered
<1>3. status \in SUBSET StatusBit
      /\ status \in {dma.status \cup {"DESC_COMPLETED"},
                     dma.status \cup {"DESC_COMPLETED", "ERROR"}}
  BY <1>2 DEF Registers, StatusBit
<1> HIDE DEF status
<1>4. dma' = [dma EXCEPT !.current = None, !.irq = dma.irq \/ on, !.status = status]
  BY <1>1, Zenon DEF status
<1> QED  BY <1>2, <1>3, <1>4, Zenon DEF Registers

LEMMA EndChainFields ==
  ASSUME Basic, EndChain
  PROVE  /\ dma' \in Registers
         /\ dma'.control = dma.control /\ dma'.pointer = dma.pointer
         /\ dma'.next = dma.next /\ dma'.more = dma.more
         /\ dma'.fetched = dma.fetched /\ dma'.current = dma.current
         /\ dma'.ended /\ dma'.irq = dma.irq
         /\ dma'.status = dma.status \cup {"CHAIN_COMPLETED"}
<1> DEFINE status == dma.status \cup {"CHAIN_COMPLETED"}
<1>1. dma \in Registers /\ dma' = [dma EXCEPT !.ended = TRUE, !.status = status]
  BY Registered DEF EndChain
<1>2. status \in SUBSET StatusBit
  BY <1>1 DEF Registers, StatusBit
<1> HIDE DEF status
<1>3. /\ dma' \in Registers
      /\ dma'.control = dma.control /\ dma'.pointer = dma.pointer
      /\ dma'.next = dma.next /\ dma'.more = dma.more
      /\ dma'.fetched = dma.fetched /\ dma'.current = dma.current
      /\ dma'.ended /\ dma'.irq = dma.irq /\ dma'.status = status
  BY <1>1, <1>2, Zenon DEF Registers
<1> QED  BY <1>3 DEF status

LEMMA RepollFields ==
  ASSUME Basic, Repoll
  PROVE  /\ dma' \in Registers
         /\ dma'.status = dma.status \ {"CHAIN_COMPLETED"}
         /\ dma'.control = dma.control /\ dma'.pointer = dma.pointer
         /\ dma'.fetched = dma.fetched /\ dma'.current = dma.current
         /\ ~dma'.ended /\ dma'.irq = dma.irq
         /\ \/ dma'.more = dma.more /\ dma'.next = dma.next
            \/ dma'.more /\ dma'.next = dma.pointer
<1> DEFINE status == dma.status \ {"CHAIN_COMPLETED"}
           new == [dma EXCEPT !.ended = FALSE, !.status = status]
<1>1. dma \in Registers /\ dma' = Written(dma, new)
  BY Registered DEF Repoll
<1>2. status \in SUBSET StatusBit
  BY <1>1 DEF Registers
<1> HIDE DEF status
<1>3. /\ new \in Registers /\ new.status = status
      /\ new.control = dma.control /\ new.pointer = dma.pointer
      /\ new.next = dma.next /\ new.more = dma.more
      /\ new.fetched = dma.fetched /\ new.current = dma.current
      /\ new.ended = FALSE /\ new.irq = dma.irq
  BY <1>1, <1>2, Zenon DEF Registers
<1> HIDE DEF new
<1> QED  BY <1>1, <1>3, WrittenFields, Zenon DEF status

LEMMA PointFields ==
  ASSUME NEW d \in Registers, NEW p \in Descs \cup {NoDesc}
  PROVE  LET w == WritePointer(d, p) IN
         /\ w \in Registers
         /\ w.control = d.control /\ w.status = d.status /\ w.pointer = p
         /\ w.next = d.next /\ w.more = d.more /\ w.fetched = d.fetched
         /\ w.current = d.current /\ w.ended = d.ended /\ w.irq = d.irq
BY Zenon DEF WritePointer, Registers

LEMMA InterruptFields ==
  ASSUME NEW d \in Registers
  PROVE  LET w == ClearInterrupt(d) IN
         /\ w \in Registers
         /\ w.control = d.control /\ w.status = d.status /\ w.pointer = d.pointer
         /\ w.next = d.next /\ (w.more <=> d.more /\ Kept(d, d.control))
         /\ w.fetched = d.fetched /\ w.current = d.current
         /\ (w.ended <=> d.ended /\ "RUN" \in d.control) /\ ~w.irq
<1> DEFINE new == WriteControl(d, d.control)
<1>1. d.control \in SUBSET ControlBit
  BY DEF Registers
<1>2. Started(d, d.control) => Running(d)
  BY DEF Started, Running
<1>3. ~Started(d, d.control)
  BY <1>2 DEF Started
<1>4. /\ new \in Registers
      /\ new.control = d.control /\ new.status = d.status
      /\ new.pointer = d.pointer /\ new.fetched = d.fetched
      /\ new.current = d.current /\ (new.ended <=> d.ended /\ "RUN" \in d.control)
      /\ (new.more <=> d.more /\ Kept(d, d.control)) /\ new.next = d.next
  BY <1>1, <1>3, ControlFields, Zenon
<1> HIDE DEF new
<1>5. ClearInterrupt(d) = [new EXCEPT !.irq = FALSE]
  BY DEF ClearInterrupt, new
<1> QED  BY <1>4, <1>5, Zenon DEF Registers

-----------------------------------------------------------------------------
(* Basic, step by step.                                                    *)
LEMMA ControllerBasic ==
  ASSUME Basic, Controller
  PROVE  Basic'
<1>1. CASE Fetch \/ Begin \/ EndChain \/ Repoll
  <2>1. dma' \in Registers /\ dma'.irq = dma.irq
    BY <1>1, FetchFields, BeginFields, EndChainFields, RepollFields, Zenon
  <2>2. UNCHANGED <<mem, dev, call, ghost>>
    BY <1>1 DEF Fetch, Begin, EndChain, Repoll
  <2>3. Quietly
    BY <2>1, <2>2 DEF Quietly, ghost, Basic, CallsOK, Booting, TypesOK, TypeOK
  <2> QED  BY <2>3, QuietlyBasic
<1>2. CASE Complete
  <2> DEFINE d == dma.current.desc
             j == dma.current.job
  <2>1. d \in Descs /\ j \in Job
    BY <1>2, Registered DEF Complete, Registers, Fetched
  <2>2. chain' \in Seq(Descs)
    <3>1. chain' = Without(d) /\ chain \in Seq(Descs)
      BY <1>2 DEF Complete, Basic, TypesOK
    <3>2. CASE chain # <<>> /\ Head(chain) = d
      BY <3>1, <3>2 DEF Without
    <3>3. CASE ~(chain # <<>> /\ Head(chain) = d) /\ \E k \in DOMAIN chain : chain[k] = d
      <4> DEFINE k == CHOOSE k \in DOMAIN chain : chain[k] = d
      <4>1. k \in DOMAIN chain
        BY <3>3
      <4>2. chain' = SubSeq(chain, 1, k - 1)
        BY <3>1, <3>3 DEF Without
      <4> HIDE DEF k
      <4> QED  BY <3>1, <4>1, <4>2
    <3>4. CASE ~(chain # <<>> /\ Head(chain) = d) /\ ~\E k \in DOMAIN chain : chain[k] = d
      BY <3>1, <3>4 DEF Without
    <3> QED  BY <3>2, <3>3, <3>4
  <2>3. /\ done' = done \cup {j} /\ owed' \in {owed, owed \cup {j}}
        /\ built' = [built EXCEPT ![d] = 0] /\ promised' \subseteq promised
        /\ UNCHANGED <<dev, call, jobs, seen>>
    BY <1>2 DEF Complete
  <2>4. mem' \in [Descs -> [owned : BOOLEAN, job : Job, next : Descs \cup {NoDesc},
                            status : {"none", "ok", "error"}]]
    <3>1. PICK result \in {"ok", "error"} :
             mem' = [mem EXCEPT ![d].owned = FALSE, ![d].status = result]
      BY <1>2 DEF Complete
    <3> DEFINE Words == [owned : BOOLEAN, job : Job, next : Descs \cup {NoDesc},
                         status : {"none", "ok", "error"}]
               m == [mem EXCEPT ![d].owned = FALSE]
    <3>2. mem \in [Descs -> Words]
      BY DEF Basic, TypesOK, TypeOK
    <3>3. m \in [Descs -> Words]
      <4> HIDE DEF d
      <4> QED  BY <2>1, <3>2, Zenon
    <3>4. mem' = [m EXCEPT ![d].status = result]
      BY <3>1
    <3> HIDE DEF d, m
    <3> QED  BY <2>1, <3>3, <3>4, Zenon
  <2>5. dma' \in Registers /\ (dma.irq => dma'.irq)
    BY <1>2, CompleteFields, Zenon
  <2>6. owed' # owed => dma'.irq
    <3>1. dma \in Registers
      BY Registered
    <3>2. CASE {"IE_GLOBAL", "IE_DESC_COMPLETED"} \subseteq dma.control /\ Running(dma)
      <4>1. \E status : dma' = [dma EXCEPT !.current = None, !.irq = TRUE, !.status = status]
        BY <1>2, <3>2, Zenon DEF Complete
      <4> QED  BY <3>1, <4>1, Zenon DEF Registers
    <3>3. CASE ~({"IE_GLOBAL", "IE_DESC_COMPLETED"} \subseteq dma.control /\ Running(dma))
      BY <1>2, <3>3, Zenon DEF Complete
    <3> QED  BY <3>2, <3>3
  <2>7. TypesOK'
    <3>1. 0 \in Job
      BY SgdmaAssumption DEF Job
    <3> HIDE DEF d, j
    <3>2. built' \in [Descs -> Job]
      BY <2>1, <2>3, <3>1, Zenon DEF Basic, TypesOK, TypeOK
    <3>3. jobs' \in Job /\ done' \subseteq Job /\ owed' \subseteq Job
          /\ seen' \subseteq Job /\ promised' \subseteq Job
      BY <2>1, <2>3 DEF Basic, TypesOK, TypeOK
    <3> QED  BY <2>2, <2>3, <2>4, <2>5, <3>2, <3>3, Zenon DEF Basic, TypesOK, TypeOK, Registers
  <2>8. CallsOK'
    BY <2>3 DEF Basic, CallsOK, Booting
  <2>9. CompletionOK'
    BY <2>3, <2>5, <2>6, Zenon DEF Basic, CompletionOK, NoLostCompletion, Booting
  <2> QED  BY <2>7, <2>8, <2>9 DEF Basic
<1> QED  BY <1>1, <1>2 DEF Controller

LEMMA ConstructBasic ==
  ASSUME Basic, BuildingOK, NEW c \in Context, Construct(c)
  PROVE  Basic'
<1> DEFINE d == call[c].desc
           n == call[c].next
           Words == [owned : BOOLEAN, job : Job, next : Descs \cup {NoDesc},
                     status : {"none", "ok", "error"}]
<1>1. Active(c) /\ call[c].at \in Building
  BY DEF Construct, ConstructClearNext, ConstructFill, ConstructOwn, At, Building
<1>2. d \in Descs /\ n \in Descs /\ jobs < MaxJobs
  BY <1>1, Zenon DEF BuildingOK, BuildingAt
<1>3. jobs + 1 \in Job /\ jobs \in Job
  BY <1>2, SgdmaAssumption DEF Job, Basic, TypesOK, TypeOK
<1>4. CallsOK' /\ (Booting' => Booting)
      /\ (call["isr"].at \in {"clear", "callback"} => call'["isr"].at = call["isr"].at)
  <2>1. c = "isr" => call["main"] = Idle /\ ~Booting
    BY <1>1 DEF Basic, CallsOK, Booting, Idle, Building
  <2>2. CASE ConstructClearNext(c) \/ ConstructFill(c)
    <3>1. PICK w \in {"fill", "own"} : call' = [call EXCEPT ![c].at = w]
      BY <2>2 DEF ConstructClearNext, ConstructFill, Go
    <3>2. /\ w \in Places \ {"idle", "init", "init_control"}
          /\ w \notin {"clear", "callback", "leave"}
          /\ w \notin Ending \cup {"sync", "sync_stop", "sync_point", "sync_run"}
      BY DEF Places, Building, Ending
    <3>3. CallsOK' /\ (Booting' => Booting)
      BY <1>1, <2>1, <3>1, <3>2, GoCalls, Zenon DEF Basic
    <3>4. c = "main" => call["isr"].at = "idle"
      BY <1>1 DEF Active, Idle
    <3> QED  BY <1>1, <3>3, <3>4 DEF Building, Context
  <2>3. CASE ConstructOwn(c) /\ c = "isr"
    <3>1. call' = [call EXCEPT ![c].at = "async"]
      BY <2>3 DEF ConstructOwn
    <3>2. /\ "async" \in Places \ {"idle", "init", "init_control"}
          /\ "async" \notin {"clear", "callback", "leave"}
          /\ "async" \notin Ending \cup {"sync", "sync_stop", "sync_point", "sync_run"}
      BY DEF Places, Transfer, Starting, Ending
    <3>3. CallsOK' /\ (Booting' => Booting)
      BY <1>1, <2>1, <3>1, <3>2, GoCalls, Zenon DEF Basic
    <3> QED  BY <1>1, <2>3, <3>3 DEF Building
  <2>4. CASE ConstructOwn(c) /\ c = "main"
    <3>1. Return(c)
      BY <2>4 DEF ConstructOwn, Return
    <3>2. CallsOK' /\ (Booting' => Booting)
      BY <1>1, <3>1, ReturnCalls DEF Basic
    <3>3. call["isr"].at = "idle"
      BY <1>1, <2>4 DEF Active, Idle
    <3> QED  BY <3>2, <3>3
  <2> QED  BY <2>2, <2>3, <2>4 DEF Construct, Context
<1>5. mem' \in [Descs -> Words] /\ UNCHANGED <<dma, dev, done, owed, seen, promised>>
  <2>1. mem \in [Descs -> Words]
    BY DEF Basic, TypesOK, TypeOK
  <2>2. CASE ConstructClearNext(c)
    <3>1. mem' = [mem EXCEPT ![n].owned = FALSE] /\ UNCHANGED <<dma, dev, ghost>>
      BY <2>2 DEF ConstructClearNext
    <3> QED  BY <1>2, <2>1, <3>1, Zenon DEF ghost
  <2>3. CASE ConstructFill(c)
    <3>1. mem' = [mem EXCEPT ![d] = Fill(mem[d], c)] /\ UNCHANGED <<dma, dev, ghost>>
      BY <2>3 DEF ConstructFill, Stores
    <3>2. mem[d] \in Words
      BY <1>2, <2>1
    <3>3. Fill(mem[d], c) \in Words
      <4> HIDE DEF d
      <4> QED  BY <1>2, <1>3, <3>2, Zenon DEF Fill
    <3> QED  BY <1>2, <2>1, <3>1, <3>3, Zenon DEF ghost
  <2>4. CASE ConstructOwn(c)
    <3>1. mem' = [mem EXCEPT ![d] = Own(mem[d])] /\ UNCHANGED <<dma, dev, done, owed, seen, promised>>
      BY <2>4 DEF ConstructOwn, Stores
    <3>2. Own(mem[d]) \in Words
      <4> HIDE DEF d
      <4>1. mem[d] \in Words
        BY <1>2, <2>1
      <4> QED  BY <4>1, Zenon DEF Own
    <3> QED  BY <1>2, <2>1, <3>1, <3>2, Zenon
  <2> QED  BY <2>2, <2>3, <2>4 DEF Construct
<1>6. jobs' \in Job /\ built' \in [Descs -> Job] /\ chain' \in Seq(Descs)
  <2>1. CASE ConstructClearNext(c) \/ ConstructFill(c)
    BY <2>1 DEF ConstructClearNext, ConstructFill, ghost, Basic, TypesOK, TypeOK
  <2>2. CASE ConstructOwn(c)
    <3>1. /\ jobs' = jobs + 1 /\ built' = [built EXCEPT ![d] = jobs + 1]
          /\ chain' \in {Append(chain, d), <<d>>}
      BY <2>2 DEF ConstructOwn
    <3>2. chain' \in Seq(Descs)
      <4> HIDE DEF d
      <4>1. chain \in Seq(Descs) /\ <<d>> \in Seq(Descs)
        BY <1>2 DEF Basic, TypesOK
      <4>2. Append(chain, d) \in Seq(Descs)
        BY <1>2, <4>1
      <4> QED  BY <3>1, <4>1, <4>2, Zenon
    <3> QED  BY <1>2, <1>3, <3>1, <3>2, Zenon DEF Basic, TypesOK, TypeOK
  <2> QED  BY <2>1, <2>2 DEF Construct
<1>7. TypesOK'
  BY <1>5, <1>6, Zenon DEF Basic, TypesOK, TypeOK
<1>8. CompletionOK'
  BY <1>4, <1>5 DEF Basic, CompletionOK, NoLostCompletion
<1> QED  BY <1>4, <1>7, <1>8 DEF Basic

LEMMA InitBasic ==
  ASSUME Basic, InitReset \/ InitControl
  PROVE  Basic'
<1>1. dma \in Registers
  BY Registered
<1>2. CASE InitReset
  <2>1. /\ Active("main") /\ Booting /\ call' = [call EXCEPT !["main"].at = "init_control"]
        /\ UNCHANGED <<mem, dev, ghost>>
    BY <1>2 DEF InitReset, At, Go, Booting
  <2>2. dma' \in Registers
    BY <1>2, Zenon DEF InitReset, Quiet, Registers
  <2>3. "main" \in Context /\ "isr" \in Context /\ "main" # "isr" /\ "init_control" \in Places
    BY DEF Context, Places
  <2>4. call' \in [Context -> Calls] /\ call'["main"].at = "init_control"
        /\ call'["isr"] = call["isr"]
    BY <2>1, <2>3, CallFields, Zenon DEF Basic
  <2>5. call'["isr"] = Idle
    BY <2>1, <2>4 DEF Active
  <2>6. CallsOK'
    BY <2>4, <2>5 DEF CallsOK, Booting, Context, Idle, Building, Transfer, Starting,
       Stopping, Pointing, Releasing, Ending
  <2>7. TypesOK'
    BY <2>1, <2>2, Zenon DEF ghost, Basic, TypesOK, TypeOK, Registers
  <2>8. CompletionOK'
    BY <2>1 DEF ghost, Basic, CompletionOK, NoLostCompletion
  <2> QED  BY <2>6, <2>7, <2>8 DEF Basic
<1>3. CASE InitControl
  <2>1. /\ Active("main") /\ Return("main") /\ UNCHANGED <<mem, dev, ghost>>
        /\ dma' = ClearStatus(WriteControl(dma, {}))
    BY <1>3 DEF InitControl, At
  <2>2. CallsOK' /\ (Booting' => Booting)
    BY <2>1, ReturnCalls DEF Basic, Context
  <2>3. dma' \in Registers /\ dma'.irq = dma.irq
    <3> DEFINE w == WriteControl(dma, {})
    <3>1. w \in Registers /\ w.irq = dma.irq
      BY <1>1, ControlFields, Zenon
    <3> HIDE DEF w
    <3>2. ClearStatus(w) \in Registers /\ ClearStatus(w).irq = w.irq
      BY <3>1, StatusFields, Zenon
    <3> QED  BY <2>1, <3>1, <3>2 DEF w
  <2>4. call["isr"].at = "idle"
    BY <2>1 DEF Active, Idle
  <2>5. Quietly
    BY <2>1, <2>2, <2>3, <2>4 DEF Quietly, ghost, Basic, TypesOK, TypeOK
  <2> QED  BY <2>5, QuietlyBasic
<1> QED  BY <1>2, <1>3

(* What Go and Return of a transfer do to the calls.                       *)
LEMMA TransferCalls ==
  ASSUME Basic, NEW c \in Context, Active(c),
         call[c].at \in Transfer \cup Ending \cup {"idle"},
         c = "isr" => call[c].at \in Transfer,
         NEW w \in Building \cup Transfer \cup Ending,
         c = "isr" => w \notin Ending \cup {"sync", "sync_stop", "sync_point", "sync_run"},
         Go(c, w) \/ Return(c)
  PROVE  /\ CallsOK' /\ (Booting' => Booting)
         /\ call["isr"].at \in {"clear", "callback"} => call'["isr"].at = call["isr"].at
<1>1. /\ w \in Places \ {"idle", "init", "init_control"}
      /\ w \notin {"clear", "callback", "leave"}
  BY DEF Places, Building, Transfer, Starting, Stopping, Pointing, Releasing, Ending
<1>2. c = "isr" => call["main"] = Idle /\ ~Booting
  BY DEF Basic, CallsOK, Booting, Idle
<1>3. call["isr"].at \notin {"clear", "callback"}
  BY DEF Active, Idle, Context, Transfer, Starting, Stopping, Pointing, Releasing
<1>4. CASE Go(c, w)
  BY <1>1, <1>2, <1>3, <1>4, GoCalls, Zenon DEF Basic, Go
<1>5. CASE Return(c)
  BY <1>3, <1>5, ReturnCalls, Zenon DEF Basic
<1> QED  BY <1>4, <1>5

LEMMA AsyncBits == Basic => AsyncControl \in SUBSET ControlBit
BY Registered DEF AsyncControl, Basic, TypesOK, Registers, ControlBit

(* The driver's writes of the control register.                            *)
LEMMA BitsBasic ==
  ASSUME Basic, NEW bits \in SUBSET ControlBit, dma' = WriteControl(dma, bits)
  PROVE  dma' \in Registers /\ dma'.irq = dma.irq
BY Registered, ControlFields, Zenon

LEMMA ClearRunBasic ==
  ASSUME Basic, dma' = ClearRun(dma)
  PROVE  dma' \in Registers /\ dma'.irq = dma.irq
<1>1. dma.control \ {"RUN"} \in SUBSET ControlBit
  BY Registered DEF Registers
<1> QED  BY <1>1, BitsBasic DEF ClearRun

LEMMA TransferBasic ==
  ASSUME Basic, NEW c \in Context, Async(c) \/ (c = "main" /\ Sync)
  PROVE  Basic'
<1>1. dma \in Registers
  BY Registered
<1> DEFINE at == call[c].at
           Steps == {"async_stop", "async_point", "async_run", "sync_stop", "sync_point",
                     "sync_run", "sync_wait", "sync_clear", "sync_status"}
<1>2. /\ Active(c) /\ at \in Transfer \cup Ending /\ (c = "isr" => at \in Transfer)
      /\ \E w \in Steps :
           /\ Go(c, w) \/ Return(c)
           /\ c = "isr" => w \in {"async_stop", "async_point", "async_run"}
  <2>1. CASE Async(c)
    BY <2>1 DEF Async, AsyncTest, TransferStop, TransferPoint, AsyncRun, At, Transfer, Starting,
       Stopping, Pointing, Releasing
  <2>2. CASE c = "main" /\ Sync
    BY <2>2 DEF Sync, SyncWait, TransferStop, TransferPoint, SyncRun, SyncReturn, At, Transfer,
       Starting, Stopping, Pointing, Releasing, Ending
  <2> QED  BY <2>1, <2>2
<1>3. /\ CallsOK' /\ (Booting' => Booting)
      /\ call["isr"].at \in {"clear", "callback"} => call'["isr"].at = call["isr"].at
  <2>1. PICK w \in Steps :
           /\ Go(c, w) \/ Return(c)
           /\ c = "isr" => w \in {"async_stop", "async_point", "async_run"}
    BY <1>2
  <2>2. /\ w \in Building \cup Transfer \cup Ending
        /\ c = "isr" => w \notin Ending \cup {"sync", "sync_stop", "sync_point", "sync_run"}
    BY <2>1 DEF Transfer, Stopping, Pointing, Releasing, Ending
  <2> QED  BY <1>2, <2>1, <2>2, TransferCalls, Zenon
<1>4. /\ UNCHANGED <<mem, dev, jobs, chain, built, done, owed, seen>>
      /\ promised' \in {promised, {built[chain[i]] : i \in DOMAIN chain}}
  BY DEF Async, AsyncTest, TransferStop, TransferPoint, AsyncRun, Sync, SyncWait, SyncRun,
     SyncReturn, Accept, ghost
<1>5. promised' \subseteq Job
  BY <1>4 DEF Basic, TypesOK, TypeOK
<1>6. /\ dma.control \ {"RUN"} \in SUBSET ControlBit
      /\ dma.control \cup {"RUN", "STOP_DMA_ER"} \in SUBSET ControlBit
      /\ AsyncControl \in SUBSET ControlBit
  BY <1>1, AsyncBits DEF Registers, ControlBit
<1>7. call[c].desc \in Descs \cup {NoDesc}
  BY DEF Basic, CallsOK, Calls
<1>8. dma' \in Registers /\ dma'.irq = dma.irq
  <2>1. CASE dma' = dma
    BY <1>1, <2>1
  <2>2. CASE dma' = ClearRun(dma)
    BY <2>2, ClearRunBasic
  <2>3. CASE dma' = WritePointer(ClearStatus(dma), call[c].desc)
    <3> DEFINE w == ClearStatus(dma)
    <3>1. w \in Registers /\ w.irq = dma.irq
      BY <1>1, StatusFields, Zenon
    <3> HIDE DEF w
    <3>2. WritePointer(w, call[c].desc) \in Registers /\ WritePointer(w, call[c].desc).irq = w.irq
      BY <1>7, <3>1, PointFields, Zenon
    <3> QED  BY <2>3, <3>1, <3>2 DEF w
  <2>4. CASE \E bits \in SUBSET ControlBit : dma' = WriteControl(dma, bits)
    BY <2>4, BitsBasic
  <2>5. CASE dma' = ClearStatus(dma)
    BY <1>1, <2>5, StatusFields, Zenon
  <2> QED
    BY <1>6, <2>1, <2>2, <2>3, <2>4, <2>5
    DEF Async, AsyncTest, TransferStop, TransferPoint, AsyncRun, Sync, SyncWait, SyncRun,
        SyncReturn
<1>9. Quietly
  BY <1>3, <1>4, <1>5, <1>8 DEF Quietly
<1> QED  BY <1>9, QuietlyBasic

LEMMA CommandBasic ==
  ASSUME Basic, Stop \/ Start \/ Poll
  PROVE  Basic'
<1>1. dma \in Registers
  BY Registered
<1>2. dma' \in Registers /\ dma'.irq = dma.irq
  <2>1. CASE Stop
    BY <2>1, ClearRunBasic DEF Stop
  <2>2. CASE Start \/ Poll
    <3>1. \A bits \in {{"RUN"}, {"DESC_POLL_EN"}} : dma.control \cup bits \in SUBSET ControlBit
          /\ dma.control \ bits \in SUBSET ControlBit
      BY <1>1 DEF Registers, ControlBit
    <3>2. \E bits \in SUBSET ControlBit : dma' = WriteControl(dma, bits)
      BY <2>2, <3>1 DEF Start, Poll
    <3> QED  BY <3>2, BitsBasic
  <2> QED  BY <2>1, <2>2
<1>3. /\ UNCHANGED <<call, mem, dev, jobs, chain, built, done, owed, seen>>
      /\ promised' \subseteq promised
  BY DEF Stop, Start, Poll, ghost
<1>4. Quietly
  BY <1>2, <1>3 DEF Quietly, Basic, CallsOK, Booting, TypesOK, TypeOK
<1> QED  BY <1>4, QuietlyBasic

LEMMA ClientBasic ==
  ASSUME Basic, ClientConstruct \/ ClientTransfer
  PROVE  Basic'
<1>1. /\ call["main"].at = "idle" /\ call["isr"] = Idle
      /\ UNCHANGED <<dma, mem, dev, ghost>>
  BY DEF ClientConstruct, ClientTransfer, At, Active
<1>2. PICK w \in {"clear_next", "async", "sync"}, d \in Descs, n \in Descs \cup {NoDesc} :
         call' = [call EXCEPT !["main"] = [at |-> w, desc |-> d, next |-> n]]
  <2>1. CASE ClientConstruct
    BY <2>1 DEF ClientConstruct
  <2>2. CASE ClientTransfer
    <3>1. Head(chain) \in Descs
      BY <2>2 DEF ClientTransfer, Basic, TypesOK
    <3> QED  BY <2>2, <3>1 DEF ClientTransfer
  <2> QED  BY <2>1, <2>2
<1>3. w \in Places
  BY DEF Places, Building, Transfer, Starting
<1> DEFINE new == [at |-> w, desc |-> d, next |-> n]
<1>4. new \in Calls /\ new.at = w
  BY <1>3, Zenon DEF Calls
<1> HIDE DEF new
<1>5. call' \in [Context -> Calls] /\ call'["main"] = new /\ call'["isr"] = Idle
  BY <1>1, <1>2, <1>4, Zenon DEF Basic, CallsOK, Context, new
<1>6. CallsOK' /\ (Booting' => Booting)
  BY <1>4, <1>5 DEF CallsOK, Booting, Context, Idle, Building, Transfer, Starting, Stopping,
     Pointing, Releasing, Ending
<1>7. Quietly
  BY <1>1, <1>5, <1>6, Registered DEF Quietly, ghost, Idle, Basic, TypesOK, TypeOK
<1> QED  BY <1>7, QuietlyBasic

LEMMA IsrBasic ==
  ASSUME Basic, Interrupt \/ Isr \/ RegisterCallback
  PROVE  Basic'
<1>1. dma \in Registers
  BY Registered
<1>2. {"clear", "callback", "leave", "clear_next"} \subseteq Places \ {"idle", "init", "init_control"}
      /\ "isr" \in Context /\ "isr" # "main" /\ "main" \in Context
  BY DEF Places, Context, Building
<1>3. CASE Interrupt
  <2>1. CallsOK' /\ (Booting' => Booting)
    <3>1. call' = [call EXCEPT !["isr"].at = "clear"]
      BY <1>3 DEF Interrupt, Go
    <3>2. "clear" \notin Ending \cup {"sync", "sync_stop", "sync_point", "sync_run"}
          /\ "clear" \notin Building \cup Transfer
      BY DEF Building, Transfer, Ending, Starting, Stopping, Pointing, Releasing
    <3> QED  BY <1>2, <3>1, <3>2, GoCalls, Zenon DEF Basic, Active
  <2>2. call["isr"].at = "idle" /\ UNCHANGED <<dma, mem, dev, ghost>>
    BY <1>3 DEF Interrupt, Idle
  <2>3. Quietly
    BY <1>1, <2>1, <2>2 DEF Quietly, ghost, Basic, TypesOK, TypeOK
  <2> QED  BY <2>3, QuietlyBasic
<1>4. CASE IsrClear
  <2>1. PICK w \in {"callback", "leave"} :
           call' = [call EXCEPT !["isr"].at = w] /\ (dev.callback => w = "callback")
                                                 /\ (~dev.callback => w = "leave")
    BY <1>4 DEF IsrClear, Go
  <2>2. CallsOK' /\ (Booting' => Booting)
    <3>1. w \notin Ending \cup {"sync", "sync_stop", "sync_point", "sync_run"}
          /\ w \notin Building \cup Transfer
      BY DEF Building, Transfer, Ending, Starting, Stopping, Pointing, Releasing
    <3>2. Booting => w = "leave"
      BY <2>1 DEF Basic, CompletionOK
    <3>3. w \in Places \ {"idle", "init", "init_control"}
      BY <1>2
    <3> QED  BY <1>2, <2>1, <3>1, <3>2, <3>3, GoCalls, Zenon DEF Basic, Active
  <2>3. dma' \in Registers /\ UNCHANGED <<mem, dev, ghost>>
    BY <1>1, <1>4, InterruptFields DEF IsrClear, AroundCallback
  <2>4. dev.callback => call'["isr"].at = "callback"
    <3>1. w \in Places
      BY <1>2
    <3>2. call'["isr"].at = w
      BY <1>2, <2>1, <3>1, CallFields, Zenon DEF Basic
    <3> QED  BY <2>1, <3>2
  <2>5. TypesOK'
    BY <2>3, Zenon DEF ghost, Basic, TypesOK, TypeOK, Registers
  <2>6. CompletionOK'
    BY <2>2, <2>3, <2>4 DEF ghost, Basic, CompletionOK, NoLostCompletion
  <2> QED  BY <2>2, <2>5, <2>6 DEF Basic
<1>5. CASE Callback
  <2>1. /\ call["isr"].at = "callback" /\ seen' = done
        /\ UNCHANGED <<dma, mem, dev, jobs, chain, built, done, owed, promised>>
    BY <1>5 DEF Callback, At
  <2>2. CallsOK' /\ (Booting' => Booting)
    <3>1. CASE Return("isr")
      BY <1>2, <3>1, ReturnCalls DEF Basic, Active
    <3>2. CASE ~Return("isr")
      <4>1. PICK d \in Descs, n \in Descs :
               /\ call["main"] = Idle
               /\ call' = [call EXCEPT !["isr"] =
                             [at |-> "clear_next", desc |-> d, next |-> n]]
        BY <1>5, <3>2 DEF Callback
      <4> DEFINE new == [at |-> "clear_next", desc |-> d, next |-> n]
      <4>2. new \in Calls /\ new.at = "clear_next"
        BY <1>2, Zenon DEF Calls
      <4> HIDE DEF new
      <4>3. call' \in [Context -> Calls] /\ call'["isr"] = new /\ call'["main"] = Idle
        BY <1>2, <4>1, <4>2, Zenon DEF Basic, CallsOK, new
      <4> QED  BY <4>2, <4>3 DEF CallsOK, Booting, Context, Idle, Building, Transfer, Starting,
               Stopping, Pointing, Releasing, Ending
    <3> QED  BY <3>1, <3>2
  <2>3. TypesOK'
    BY <2>1, Zenon DEF Basic, TypesOK, TypeOK
  <2>4. CompletionOK'
    BY <2>1, <2>2 DEF Basic, CompletionOK, NoLostCompletion
  <2> QED  BY <2>2, <2>3, <2>4 DEF Basic
<1>6. CASE IsrReturn
  <2>1. /\ call["isr"].at = "leave" /\ call' = [call EXCEPT !["isr"] = Idle]
        /\ UNCHANGED <<dma, mem, dev, ghost>>
    BY <1>6 DEF IsrReturn, At, AroundCallback
  <2>2. Idle \in Calls
    BY Zenon DEF Idle, Calls, Places
  <2>3. call' \in [Context -> Calls] /\ call'["isr"] = Idle /\ call'["main"] = call["main"]
    BY <1>2, <2>1, <2>2, Zenon DEF Basic, CallsOK
  <2>4. CallsOK' /\ (Booting' => Booting)
    BY <2>3 DEF Basic, CallsOK, Booting, Context, Idle, Building, Transfer, Starting,
       Stopping, Pointing, Releasing, Ending
  <2>5. Quietly
    BY <1>1, <2>1, <2>4 DEF Quietly, ghost, Basic, TypesOK, TypeOK
  <2> QED  BY <2>5, QuietlyBasic
<1>7. CASE RegisterCallback
  <2>1. /\ call["main"].at = "idle" /\ seen' = done
        /\ UNCHANGED <<dma, mem, call, jobs, chain, built, done, owed, promised>>
    BY <1>7 DEF RegisterCallback, At
  <2>2. dev' \in [callback : BOOLEAN, chain_control : SUBSET ControlBit]
    <3>1. {} \in SUBSET ControlBit /\ {"IE_GLOBAL", "IE_DESC_COMPLETED"} \in SUBSET ControlBit
      BY DEF ControlBit
    <3> DEFINE both == {"IE_GLOBAL", "IE_DESC_COMPLETED"}
    <3>2. PICK on \in BOOLEAN, bits \in {{}, both} :
             dev' = [callback |-> on, chain_control |-> bits]
      BY <1>7 DEF RegisterCallback
    <3>3. bits \in SUBSET ControlBit
      BY <3>1
    <3> QED  BY <3>2, <3>3, Zenon
  <2>3. TypesOK'
    BY <2>1, <2>2, Zenon DEF Basic, TypesOK, TypeOK
  <2>4. CompletionOK' /\ CallsOK'
    BY <2>1 DEF Basic, CallsOK, Booting, CompletionOK, NoLostCompletion
  <2> QED  BY <2>3, <2>4 DEF Basic
<1> QED  BY <1>3, <1>4, <1>5, <1>6, <1>7 DEF Isr

LEMMA BasicStep ==
  ASSUME Basic, ~Fresh => BuildingOK, [Next]_vars
  PROVE  Basic'
<1>1. CASE Controller
  BY <1>1, ControllerBasic
<1>2. CASE InitReset \/ InitControl
  BY <1>2, InitBasic
<1>3. ASSUME NEW c \in Context, Driver(c)
      PROVE  Basic'
  <2>1. CASE Construct(c)
    <3>1. call[c].at \in Building /\ Active(c)
      BY <2>1 DEF Construct, ConstructClearNext, ConstructFill, ConstructOwn, At, Building
    <3>2. ~Fresh
      BY <3>1 DEF Basic, CallsOK, Fresh, Context, Building, Idle
    <3> QED  BY <2>1, <3>2, ConstructBasic
  <2>2. CASE Async(c)
    BY <2>2, TransferBasic
  <2> QED  BY <1>3, <2>1, <2>2 DEF Driver
<1>4. CASE Sync
  BY <1>4, TransferBasic DEF Context
<1>5. CASE Stop \/ Start \/ Poll
  BY <1>5, CommandBasic
<1>6. CASE Interrupt \/ Isr \/ RegisterCallback
  BY <1>6, IsrBasic
<1>7. CASE ClientConstruct \/ ClientTransfer
  BY <1>7, ClientBasic
<1>8. CASE UNCHANGED vars
  <2>1. Quietly
    BY <1>8, Registered DEF vars, Quietly, Basic, CallsOK, Booting, TypesOK, TypeOK
  <2> QED  BY <2>1, QuietlyBasic
<1> QED  BY <1>1, <1>2, <1>3, <1>4, <1>5, <1>6, <1>7, <1>8, Zenon DEF Next

-----------------------------------------------------------------------------
(* What does not change under a step that leaves the descriptors, or what  *)
(* the controller is at, alone.                                            *)
DescsSame == UNCHANGED <<mem, jobs, built, chain>>
CoreLeft ==
  /\ dma'.next = dma.next /\ (dma'.more => dma.more)
  /\ dma'.fetched = dma.fetched /\ dma'.current = dma.current
CoreSame == CoreLeft /\ dma'.more = dma.more

LEMMA SameDescs ==
  ASSUME DescsSame, BuiltOK, ChainOK
  PROVE  /\ BuiltOK' /\ ChainOK' /\ Chained' = Chained
         /\ \A n : Sound(n)' <=> Sound(n)
<1>1. \A n : Sound(n)' <=> Sound(n)
  BY Zenon DEF DescsSame, Sound
<1>2. BuiltOK'
  BY <1>1, Zenon DEF DescsSame, BuiltOK
<1>3. ChainOK' /\ Chained' = Chained
  BY Zenon DEF DescsSame, ChainOK, Chained
<1> QED  BY <1>1, <1>2, <1>3

LEMMA SameCore ==
  ASSUME CoreLeft, mem' = mem
  PROVE  /\ \A d : InHand(d)' <=> InHand(d)
         /\ Busy(dma') => Busy(dma)
         /\ CoreSame => /\ \A S : Coming(S)' <=> Coming(S)
                        /\ Busy(dma') <=> Busy(dma)
<1>1. \A d : InHand(d)' <=> InHand(d)
  BY Zenon DEF CoreLeft, InHand
<1>2. /\ Busy(dma') => Busy(dma)
      /\ CoreSame => (Busy(dma') <=> Busy(dma))
  BY Zenon DEF CoreLeft, CoreSame, Busy
<1>3. CoreSame => \A S : Coming(S)' <=> Coming(S)
  BY <1>1, Zenon DEF CoreLeft, CoreSame, Coming
<1> QED  BY <1>1, <1>2, <1>3

LEMMA SameController ==
  ASSUME CoreLeft, DescsSame, ControllerOK, BuiltOK, ChainOK, Sound(dma'.pointer)
  PROVE  ControllerOK'
<1>1. \A n : Sound(n)' <=> Sound(n)
  BY SameDescs
<1>2. Sound(dma.next)' /\ Sound(dma.pointer)'
  BY DEF CoreLeft, DescsSame, ControllerOK, Sound
<1> QED  BY <1>2, Zenon DEF CoreLeft, DescsSame, ControllerOK

(* One context at a time is inside a driver routine's critical steps.      *)
LEMMA Alone ==
  ASSUME CallsOK, NEW c \in Context, Active(c),
         c = "isr" => call[c].at \in Building \cup Transfer
  PROVE  \A b \in Context \ {c} : call[b] = Idle
BY DEF CallsOK, Active, Context

LEMMA IdleIsFine ==
  ASSUME NEW b \in Context, call'[b] = Idle
  PROVE  BuildingAt(b)' /\ TransferAt(b)'
<1>1. (call[b].at)' = "idle"
  BY DEF Idle
<1> QED  BY <1>1 DEF BuildingAt, TransferAt, Building, Transfer, Starting, Stopping, Pointing, Releasing

-----------------------------------------------------------------------------
(* The controller's steps.                                                 *)
LEMMA Words ==
  ASSUME Basic
  PROVE  /\ \A d \in Descs : /\ mem[d].next \in Descs \cup {NoDesc}
                             /\ mem[d].job \in Nat /\ built[d] \in Nat
         /\ jobs \in Nat /\ chain \in Seq(Descs)
BY SgdmaAssumption DEF Basic, TypesOK, TypeOK, Job

(* Fetching takes the controller no further from where it is going: a      *)
(* descriptor that it does not own is not on the way to a built one.       *)
LEMMA ComesOn ==
  ASSUME Basic, Steady, Fetch, NEW S \in SUBSET Descs, \A d \in S : built[d] # 0,
         Coming(S)
  PROVE  Coming(S)'
<1> DEFINE n == dma.next
           here == n # NoDesc /\ mem[n].owned
<1>1. dma.more /\ dma.fetched = None /\ mem' = mem
  BY DEF Fetch
<1>2. CASE here
  <2> DEFINE f == [desc |-> n, job |-> mem[n].job, next |-> mem[n].next]
  <2>1. /\ f \in Fetched /\ f.desc = n /\ dma'.current = dma.current
        /\ dma'.next = mem[n].next /\ dma'.fetched = f /\ dma'.more = dma.more
    BY <1>2, FetchFields, Zenon
  <2>2. f # None
    BY <2>1, NoneIsNot
  <2>3. \A d : InHand(d)' <=> InHand(d) \/ d = n
    <3> HIDE DEF f, n
    <3> QED  BY <1>1, <2>1, <2>2, Zenon DEF InHand
  <2>4. ASSUME NEW d \in S
        PROVE  \/ InHand(d)'
               \/ dma'.more /\ dma'.next = d
               \/ dma'.more /\ \E e \in S : ~InHand(e)' /\ mem'[e].next = d
    <3> HIDE DEF f, n
    <3>1. \/ InHand(d)
          \/ n = d
          \/ \E e \in S : ~InHand(e) /\ mem[e].next = d
      BY Zenon DEF Coming, n
    <3> QED  BY <1>1, <2>1, <2>3, <3>1, Zenon
  <2> QED  BY <2>4, Zenon DEF Coming
<1>3. CASE ~here
  <2>1. dma'.fetched = dma.fetched /\ dma'.current = dma.current
    BY <1>3, FetchFields, Zenon
  <2>2. \A d : InHand(d)' <=> InHand(d)
    BY <2>1, Zenon DEF InHand
  <2> DEFINE T == {d \in S : ~InHand(d)}
             B == {built[d] : d \in T}
  <2>3. ASSUME T # {} PROVE FALSE
    <3>1. B \in SUBSET Nat /\ B # {} /\ \A d \in T : built[d] \in B
      BY <2>3, Words
    <3> HIDE DEF T, B
    <3>0. PICK b \in B : \A c \in B : b <= c
      BY <3>1, LeastNat
    <3>2. PICK d \in T : \A e \in T : ~(built[e] < built[d])
      <4>1. PICK f \in T : b = built[f]
        BY <3>0 DEF B
      <4>2. ASSUME NEW e \in T PROVE ~(built[e] < built[f])
        <5>1. built[e] \in B /\ b \in Nat /\ built[e] \in Nat
          BY <3>0, <3>1
        <5> QED  BY <3>0, <4>1, <5>1
      <4> QED  BY <4>1, <4>2
    <3> USE DEF T, B
    <3>3. d # n
      BY <1>3, SgdmaAssumption DEF Steady, BuiltOK
    <3>4. PICK e \in S : ~InHand(e) /\ mem[e].next = d
      BY <3>3 DEF Coming
    <3>5. built[e] < built[d]
      BY <3>4 DEF Steady, BuiltOK
    <3> QED  BY <3>2, <3>4, <3>5
  <2>4. \A d \in S : InHand(d)'
    BY <2>2, <2>3
  <2> QED  BY <2>4, Zenon DEF Coming
<1> QED  BY <1>2, <1>3

LEMMA SetsComing ==
  ASSUME Basic, Steady
  PROVE  /\ Due \subseteq Descs /\ \A d \in Due : built[d] # 0
         /\ Chained \subseteq Descs /\ \A d \in Chained : built[d] # 0
<1>1. chain \in Seq(Descs)
  BY Words
<1> QED  BY <1>1 DEF Due, Chained, Steady, PromiseOK, ChainOK

(* The controller meets the head of the chain: it comes to the rest.       *)
LEMMA MeetsHead ==
  ASSUME Basic, Steady, Fetch, chain # <<>>, dma.next = Head(chain), mem[dma.next].owned
  PROVE  Coming(Chained)'
<1> DEFINE n == dma.next
           f == [desc |-> n, job |-> mem[n].job, next |-> mem[n].next]
<1>1. dma.more /\ dma.fetched = None /\ UNCHANGED <<mem, chain>>
  BY DEF Fetch, ghost
<1>2. chain \in Seq(Descs) /\ 1 \in DOMAIN chain /\ n = chain[1] /\ n \in Descs
  BY Words
<1>3. n # NoDesc
  BY <1>2, SgdmaAssumption
<1>4. /\ f \in Fetched /\ f.desc = n /\ dma'.current = dma.current
      /\ dma'.next = mem[n].next /\ dma'.fetched = f /\ dma'.more = dma.more
  BY <1>3, FetchFields, Zenon
<1>5. f # None
  BY <1>4, NoneIsNot
<1>6. \A d : InHand(d)' <=> InHand(d) \/ d = n
  <2> HIDE DEF f, n
  <2> QED  BY <1>1, <1>4, <1>5, Zenon DEF InHand
<1>7. ASSUME NEW i \in DOMAIN chain, NEW d, d = chain[i]
      PROVE  \/ InHand(d)'
             \/ dma'.more /\ dma'.next = d
             \/ dma'.more /\ \E e \in Chained : ~InHand(e)' /\ mem'[e].next = d
  <2>1. CASE i = 1
    BY <1>2, <1>6, <1>7, <2>1
  <2>2. CASE i = 2
    <3>1. mem[n].next = d
      BY <1>2, <1>7, <2>2 DEF Steady, ChainOK
    <3> QED  BY <1>1, <1>4, <3>1, Zenon
  <2>3. CASE i # 1 /\ i # 2
    <3>1. i \in Nat /\ i > 2 /\ i - 1 \in DOMAIN chain /\ i - 1 + 1 = i
      BY <1>2, <2>3
    <3>2. PICK e \in Chained : e = chain[i - 1] /\ mem[e].next = d
      BY <1>7, <3>1 DEF Steady, ChainOK, Chained
    <3>3. built[n] < built[e] /\ built[n] < built[d] /\ built[n] \in Nat
      BY <1>2, <1>7, <3>1, <3>2, Words, SMTT(30) DEF Steady, ChainOK
    <3>4. e # n /\ d # n
      BY <3>3
    <3>5. ~InHand(e)
      <4>1. SUFFICES ASSUME dma.current # None, e = dma.current.desc
                     PROVE  FALSE
        BY <1>1, Zenon DEF InHand
      <4>2. dma.next = dma.current.next
        BY <1>1, <4>1, Zenon DEF Steady, ControllerOK
      <4>3. dma.current.next = mem[e].next
        BY <4>1, Zenon DEF Steady, ControllerOK
      <4> QED  BY <3>2, <3>4, <4>2, <4>3
    <3>6. ~InHand(e)'
      BY <1>6, <3>4, <3>5
    <3> QED  BY <1>1, <1>4, <3>2, <3>6, Zenon
  <2> QED  BY <2>1, <2>2, <2>3
<1>8. \A d \in Chained : \/ InHand(d)'
                         \/ dma'.more /\ dma'.next = d
                         \/ dma'.more /\ \E e \in Chained : ~InHand(e)' /\ mem'[e].next = d
  BY <1>7 DEF Chained
<1>9. Chained' = Chained
  BY <1>1 DEF Chained
<1> QED  BY <1>8, <1>9, Zenon DEF Coming

LEMMA FetchSteady ==
  ASSUME Basic, Steady, Fetch
  PROVE  Steady'
<1> DEFINE n == dma.next
           f == [desc |-> n, job |-> mem[n].job, next |-> mem[n].next]
           here == n # NoDesc /\ mem[n].owned
<1>1. /\ dma.more /\ dma.fetched = None /\ DescsSame
      /\ UNCHANGED <<mem, dev, call, jobs, chain, built, done, owed, seen, promised>>
  BY DEF Fetch, ghost, DescsSame
<1>2. /\ BuiltOK' /\ ChainOK' /\ Chained' = Chained /\ \A x : Sound(x)' <=> Sound(x)
  BY <1>1, SameDescs DEF Steady
<1>3. /\ dma'.control = dma.control /\ dma'.status = dma.status
      /\ dma'.pointer \in {dma.pointer, n} /\ dma'.current = dma.current
      /\ dma'.ended = dma.ended
      /\ here => /\ n \in Descs /\ f \in Fetched /\ dma'.next = mem[n].next
                 /\ dma'.fetched = f /\ dma'.more = dma.more
      /\ ~here => dma'.next = n /\ dma'.fetched = dma.fetched /\ ~dma'.more
  BY FetchFields, Zenon
<1>4. ControllerOK'
  <2>1. Sound(dma.pointer)'
    BY <1>1, <1>3, Zenon DEF Steady, ControllerOK, Sound
  <2>2. CASE here
    <3>1. /\ n \in Descs /\ f \in Fetched /\ dma'.next = mem[n].next
          /\ dma'.fetched = f /\ dma'.more = dma.more
          /\ f.desc = n /\ f.job = mem[n].job /\ f.next = mem[n].next
      BY <1>3, <2>2
    <3>2. built[n] # 0 /\ mem[n].job = built[n]
      BY <2>2 DEF Steady, ControllerOK, Sound
    <3>3. Sound(mem[n].next)
      BY <3>1, <3>2, Zenon DEF Steady, BuiltOK
    <3>4. Sound(dma.next)'
      BY <1>1, <3>1, <3>3, Zenon DEF Sound
    <3>5. f # None
      BY <3>1, NoneIsNot
    <3> HIDE DEF f, n
    <3>6. \A g \in {dma.current, dma.fetched}' \ {None} :
             g.job # 0 /\ built[g.desc] = g.job /\ g.next = mem[g.desc].next
      BY <1>1, <1>3, <3>1, <3>2 DEF Steady, ControllerOK
    <3>7. dma.current # None => n = dma.current.next
      BY <1>1, Zenon DEF Steady, ControllerOK, n
    <3> QED  BY <1>1, <1>3, <2>1, <3>1, <3>4, <3>5, <3>6, <3>7, Zenon DEF ControllerOK
  <2>3. CASE ~here
    <3>1. dma'.next = n /\ dma'.fetched = dma.fetched /\ ~dma'.more
      BY <1>3, <2>3
    <3>2. Sound(dma.next)'
      BY <1>1, <3>1, Zenon DEF Steady, ControllerOK, Sound
    <3> QED  BY <1>1, <1>3, <2>1, <3>1, <3>2, Zenon DEF Steady, ControllerOK
  <2> QED  BY <2>2, <2>3
<1>5. BuildingOK'
  BY <1>1, <1>3, Zenon DEF Steady, BuildingOK, BuildingAt, Polling
<1>6. PromiseOK'
  <2>1. Running(dma') <=> Running(dma)
    BY <1>3, Zenon DEF Running
  <2>2. Coming(Due)'
    <3>1. Due' = Due
      BY <1>1 DEF Due
    <3>2. Coming(Due)
      BY DEF Steady, PromiseOK
    <3> QED  BY <3>1, <3>2, SetsComing, ComesOn, Zenon DEF Coming
  <2> QED  BY <1>1, <2>1, <2>2, Zenon DEF Steady, PromiseOK
<1>7. ASSUME NEW c \in Context
      PROVE  TransferAt(c)'
  <2>1. TransferAt(c) /\ Busy(dma)
    BY <1>1, Zenon DEF Steady, TransferOK, Busy
  <2>2. Sound(call[c].desc)' <=> Sound(call[c].desc)
    BY <1>1, Zenon DEF Sound
  <2>3. Polling' <=> Polling
    BY <1>3, Zenon DEF Polling
  <2>4. ASSUME call[c].at \in Starting
        PROVE  (\/ AtHead(c) /\ (chain # <<>> => ~InHand(call[c].desc))
                \/ "RUN" \in dma.control /\ Coming(Chained))'
    <3>0. "RUN" \in dma'.control
      BY <1>3, Zenon DEF Fetch, Running
    <3>1. CASE Coming(Chained)
      BY <1>2, <3>0, <3>1, SetsComing, ComesOn, Zenon DEF Coming
    <3>2. CASE chain = <<>>
      BY <1>1, <3>2, Zenon DEF AtHead
    <3>3. CASE chain # <<>> /\ Head(chain) = call[c].desc /\ ~InHand(call[c].desc)
      <4>1. CASE here /\ n = Head(chain)
        BY <3>0, <3>3, <4>1, MeetsHead
      <4>2. CASE ~(here /\ n = Head(chain))
        <5>1. ~InHand(call[c].desc)'
          <6>1. CASE here
            <7>1. f.desc = n /\ dma'.fetched = f
              BY <1>3, <6>1
            <7> HIDE DEF f, n
            <7> QED  BY <1>1, <1>3, <3>3, <4>2, <6>1, <7>1, Zenon DEF InHand
          <6>2. CASE ~here
            <7>1. dma'.fetched = dma.fetched
              BY <1>3, <6>2
            <7> QED  BY <1>1, <1>3, <3>3, <7>1, Zenon DEF InHand
          <6> QED  BY <6>1, <6>2
        <5>2. AtHead(c)'
          BY <1>1, <3>3, Zenon DEF AtHead
        <5> QED  BY <5>1, <5>2, Zenon
      <4> QED  BY <4>1, <4>2
    <3> QED  BY <2>1, <2>4, <3>1, <3>2, <3>3, Zenon DEF TransferAt, AtHead
  <2> QED  BY <1>1, <1>3, <2>1, <2>2, <2>3, <2>4, Zenon DEF TransferAt
<1>8. SyncOK'
  BY <1>1, <1>3, Zenon DEF Steady, SyncOK
<1> QED  BY <1>2, <1>4, <1>5, <1>6, <1>7, <1>8, Zenon DEF Steady, TransferOK

LEMMA BeginSteady ==
  ASSUME Basic, Steady, Begin
  PROVE  Steady'
<1>1. /\ dma.current = None /\ dma.fetched # None /\ DescsSame
      /\ UNCHANGED <<mem, dev, call, jobs, chain, built, done, owed, seen, promised>>
  BY DEF Begin, ghost, DescsSame
<1>2. /\ BuiltOK' /\ ChainOK' /\ Chained' = Chained /\ \A x : Sound(x)' <=> Sound(x)
  BY <1>1, SameDescs DEF Steady
<1>3. /\ dma'.control = dma.control /\ dma'.status = dma.status
      /\ dma'.pointer = dma.pointer /\ dma'.next = dma.next
      /\ dma'.more = dma.more /\ dma'.ended = dma.ended
      /\ dma'.current = dma.fetched /\ dma'.fetched = None
  BY BeginFields
<1>4. ControllerOK'
  <2>1. Sound(dma.next)' /\ Sound(dma.pointer)'
    BY <1>1, <1>3, Zenon DEF Steady, ControllerOK, Sound
  <2>2. \A g \in {dma.current, dma.fetched}' \ {None} :
             g.job # 0 /\ built[g.desc] = g.job /\ g.next = mem[g.desc].next
    BY <1>3 DEF Steady, ControllerOK
  <2>3. dma.more => dma.next = dma.fetched.next
    BY <1>1, Zenon DEF Steady, ControllerOK
  <2> QED  BY <1>1, <1>3, <2>1, <2>2, <2>3, Zenon DEF ControllerOK
<1>5. /\ \A d : InHand(d)' <=> InHand(d)
      /\ \A S : Coming(S)' <=> Coming(S)
  <2>1. \A d : InHand(d)' <=> InHand(d)
    BY <1>1, <1>3, Zenon DEF InHand
  <2> QED  BY <1>1, <1>3, <2>1, Zenon DEF Coming
<1>6. Running(dma') <=> Running(dma)
  BY <1>3, Zenon DEF Running
<1>7. PromiseOK'
  <2>1. Due' = Due
    BY <1>1 DEF Due
  <2>2. Coming(Due)'
    BY <1>5, <2>1, Zenon DEF Coming, Steady, PromiseOK
  <2> QED  BY <1>1, <1>6, <2>2, Zenon DEF Steady, PromiseOK
<1>8. BuildingOK' /\ SyncOK'
  BY <1>1, <1>3, Zenon DEF Steady, BuildingOK, BuildingAt, Polling, SyncOK
<1>9. ASSUME NEW c \in Context
      PROVE  TransferAt(c)'
  <2>1. TransferAt(c) /\ Busy(dma)
    BY <1>1, Zenon DEF Steady, TransferOK, Busy
  <2>2. /\ Sound(call[c].desc)' <=> Sound(call[c].desc)
        /\ Polling' <=> Polling
        /\ InHand(call[c].desc)' <=> InHand(call[c].desc)
        /\ Coming(Chained)' <=> Coming(Chained)
    <3>1. Coming(Chained)' <=> Coming(Chained)
      <4>1. Chained' = Chained
        BY <1>2
      <4>2. \A d : InHand(d)' <=> InHand(d)
        BY <1>5
      <4> QED  BY <1>1, <1>3, <4>1, <4>2 DEF Coming
    <3> QED  BY <1>1, <1>3, <3>1, Zenon DEF Sound, Polling, InHand
  <2> QED  BY <1>1, <1>3, <2>1, <2>2, Zenon DEF TransferAt, AtHead
<1> QED  BY <1>2, <1>4, <1>7, <1>8, <1>9, Zenon DEF Steady, TransferOK

(* The controller has nothing on its way when it is not busy.              *)
LEMMA NothingDue ==
  ASSUME Basic, Steady, ~Busy(dma)
  PROVE  promised = {} /\ (Coming(Chained) => chain = <<>>)
<1>1. \A d : ~InHand(d)
  BY Zenon DEF Busy, InHand
<1>2. \A S : Coming(S) => S = {}
  BY <1>1, Zenon DEF Coming, Busy
<1>3. Due = {}
  BY <1>2, Zenon DEF Steady, PromiseOK
<1>4. promised = {}
  BY <1>3 DEF Due, Steady, PromiseOK
<1>5. Chained = {} => chain = <<>>
  <2>1. ASSUME chain # <<>> PROVE chain[1] \in Chained
    <3>1. 1 \in DOMAIN chain
      BY <2>1, Words
    <3> QED  BY <3>1 DEF Chained
  <2> QED  BY <2>1
<1> QED  BY <1>2, <1>4, <1>5

LEMMA EndChainSteady ==
  ASSUME Basic, Steady, EndChain
  PROVE  Steady'
<1>1. /\ Running(dma) /\ ~Busy(dma) /\ DescsSame
      /\ UNCHANGED <<mem, dev, call, jobs, chain, built, done, owed, seen, promised>>
  BY DEF EndChain, ghost, DescsSame
<1>2. /\ BuiltOK' /\ ChainOK' /\ Chained' = Chained /\ \A x : Sound(x)' <=> Sound(x)
  BY <1>1, SameDescs DEF Steady
<1>3. /\ dma'.control = dma.control /\ dma'.pointer = dma.pointer /\ dma'.ended
      /\ dma'.status = dma.status \cup {"CHAIN_COMPLETED"}
      /\ CoreLeft /\ CoreSame
  BY EndChainFields DEF CoreLeft, CoreSame
<1>4. ControllerOK'
  BY <1>1, <1>3, SameController, Zenon DEF Steady, ControllerOK
<1>5. promised = {}
  BY <1>1, NothingDue
<1>6. PromiseOK'
  BY <1>1, <1>5 DEF PromiseOK, Due, Coming
<1>7. BuildingOK' /\ SyncOK'
  BY <1>1, <1>3, Zenon DEF Steady, BuildingOK, BuildingAt, Polling, SyncOK
<1>8. ASSUME NEW c \in Context
      PROVE  TransferAt(c)'
  <2>1. TransferAt(c) /\ "RUN" \in dma.control
    BY <1>1, Zenon DEF Steady, TransferOK, Running
  <2>2. /\ Sound(call[c].desc)' <=> Sound(call[c].desc)
        /\ Polling' <=> Polling
        /\ InHand(call[c].desc)' <=> InHand(call[c].desc)
        /\ Coming(Chained)' <=> Coming(Chained)
        /\ Busy(dma') <=> Busy(dma)
    <3>1. Coming(Chained)' <=> Coming(Chained)
      <4>1. Chained' = Chained
        BY <1>2
      <4>2. \A d : InHand(d)' <=> InHand(d)
        BY <1>1, <1>3, SameCore
      <4> QED  BY <1>1, <1>3, <4>1, <4>2 DEF Coming, CoreLeft, CoreSame
    <3>2. InHand(call[c].desc)' <=> InHand(call[c].desc)
      BY <1>1, <1>3, Zenon DEF InHand, CoreLeft, CoreSame
    <3> QED  BY <1>1, <1>3, <3>1, <3>2, SameCore, Zenon DEF Sound, Polling
  <2> QED  BY <1>1, <1>3, <2>1, <2>2, Zenon DEF TransferAt, AtHead
<1> QED  BY <1>2, <1>4, <1>6, <1>7, <1>8, Zenon DEF Steady, TransferOK

LEMMA RepollSteady ==
  ASSUME Basic, Steady, Repoll
  PROVE  Steady'
<1>1. /\ Polling /\ dma.ended /\ ~Busy(dma) /\ "RUN" \in dma.control /\ DescsSame
      /\ UNCHANGED <<mem, dev, call, jobs, chain, built, done, owed, seen, promised>>
  BY DEF Repoll, ghost, DescsSame, Polling
<1>2. /\ BuiltOK' /\ ChainOK' /\ Chained' = Chained /\ \A x : Sound(x)' <=> Sound(x)
  BY <1>1, SameDescs DEF Steady
<1>3. /\ dma'.control = dma.control
      /\ dma'.pointer = dma.pointer /\ dma'.next \in {dma.next, dma.pointer}
      /\ dma'.fetched = None /\ dma'.current = None
      /\ "ERROR" \in dma.status => "ERROR" \in dma'.status
  BY <1>1, RepollFields DEF Busy
<1>4. ControllerOK'
  <2>1. Sound(dma.next)' /\ Sound(dma.pointer)'
    BY <1>1, <1>3, Zenon DEF Steady, ControllerOK, Sound
  <2> QED  BY <1>3, <2>1 DEF ControllerOK
<1>5. promised = {}
  BY <1>1, NothingDue
<1>6. PromiseOK'
  BY <1>1, <1>5 DEF PromiseOK, Due, Coming
<1>7. BuildingOK' /\ SyncOK'
  BY <1>1, <1>3, Zenon DEF Steady, BuildingOK, BuildingAt, Polling, SyncOK
<1>8. ASSUME NEW c \in Context
      PROVE  TransferAt(c)'
  <2>1. TransferAt(c)
    BY Zenon DEF Steady, TransferOK
  <2>2. call[c].at \notin Transfer \cup {"sync_status", "init_control"}
    BY <1>1, <2>1 DEF TransferAt, Transfer
  <2> QED  BY <1>1, <2>2 DEF TransferAt, Transfer
<1> QED  BY <1>2, <1>4, <1>6, <1>7, <1>8, Zenon DEF Steady, TransferOK

-----------------------------------------------------------------------------
(* Completing a descriptor.  What is left of the chain is a part of it     *)
(* that does not hold the descriptor done.                                 *)
PartFrom(w, k, d) ==
  /\ \A i \in DOMAIN w : i + k \in DOMAIN chain /\ w[i] = chain[i + k]
  /\ k = 1 => chain # <<>> /\ Head(chain) = d
  /\ k = 0 => chain = <<>> \/ Head(chain) # d

LEMMA WithoutPart ==
  ASSUME Basic, Steady, NEW d, NEW w, w = Without(d)
  PROVE  /\ w \in Seq(Descs)
         /\ \E k \in {0, 1} : PartFrom(w, k, d)
         /\ chain # <<>> /\ Head(chain) # d => w # <<>> /\ Head(w) = Head(chain)
         /\ chain = <<>> => w = <<>>
         /\ \A i \in DOMAIN w : w[i] # d
<1>1. chain \in Seq(Descs)
  BY Words
<1>2. \A i, j \in DOMAIN chain : i < j => chain[i] # chain[j]
  <2>1. \A i \in DOMAIN chain : built[chain[i]] \in Nat
    BY <1>1, Words
  <2>2. \A i, j \in DOMAIN chain : i < j => built[chain[i]] < built[chain[j]]
    BY DEF Steady, ChainOK
  <2> QED  BY <2>1, <2>2
<1>3. CASE chain # <<>> /\ Head(chain) = d
  <2>1. w = Tail(chain)
    BY <1>3 DEF Without
  <2>2. /\ w \in Seq(Descs) /\ Len(w) = Len(chain) - 1 /\ chain[1] = d
        /\ \A i \in DOMAIN w : i + 1 \in DOMAIN chain /\ w[i] = chain[i + 1]
    BY <1>1, <1>3, <2>1
  <2>3. \A i \in DOMAIN w : w[i] # d
    <3>1. 1 \in DOMAIN chain
      BY <1>1, <1>3
    <3> QED  BY <1>1, <1>2, <2>2, <3>1
  <2>4. PartFrom(w, 1, d)
    BY <1>3, <2>2 DEF PartFrom
  <2> QED  BY <1>3, <2>2, <2>3, <2>4
<1>4. CASE ~(chain # <<>> /\ Head(chain) = d) /\ \E k \in DOMAIN chain : chain[k] = d
  <2> DEFINE k == CHOOSE k \in DOMAIN chain : chain[k] = d
  <2>1. k \in DOMAIN chain /\ chain[k] = d
    BY <1>4
  <2>2. w = SubSeq(chain, 1, k - 1)
    BY <1>4 DEF Without
  <2> HIDE DEF k
  <2>3. k \in 1 .. Len(chain) /\ k # 1 /\ chain # <<>> /\ Head(chain) # d
    BY <1>1, <1>4, <2>1
  <2>4. /\ w \in Seq(Descs) /\ Len(w) = k - 1
        /\ \A i \in DOMAIN w : i + 0 \in DOMAIN chain /\ w[i] = chain[i + 0] /\ i < k
    BY <1>1, <2>2, <2>3
  <2>5. w # <<>> /\ Head(w) = Head(chain)
    <3>1. Len(w) \in Nat /\ Len(w) > 0
      BY <2>3, <2>4
    <3>2. 1 \in DOMAIN w /\ 1 + 0 = 1
      BY <2>4, <3>1
    <3> QED  BY <1>1, <2>4, <3>1, <3>2
  <2>6. \A i \in DOMAIN w : w[i] # d
    <3> QED  BY <1>1, <1>2, <2>1, <2>4
  <2>7. PartFrom(w, 0, d)
    BY <2>3, <2>4 DEF PartFrom
  <2> QED  BY <2>3, <2>4, <2>5, <2>6, <2>7
<1>5. CASE ~(chain # <<>> /\ Head(chain) = d) /\ ~\E k \in DOMAIN chain : chain[k] = d
  <2>1. w = chain
    BY <1>5 DEF Without
  <2>2. \A i \in DOMAIN w : i + 0 \in DOMAIN chain /\ w[i] = chain[i + 0] /\ w[i] # d
    BY <1>1, <1>5, <2>1
  <2>3. PartFrom(w, 0, d)
    BY <1>1, <1>5, <2>2 DEF PartFrom
  <2> QED  BY <1>1, <1>5, <2>1, <2>2, <2>3
<1> QED  BY <1>3, <1>4, <1>5

LEMMA CompleteSteady ==
  ASSUME Basic, Steady, Complete
  PROVE  Steady'
<1> DEFINE d == dma.current.desc
           j == dma.current.job
<1>1. /\ dma.current # None /\ InHand(d) /\ Busy(dma)
      /\ chain' = Without(d) /\ built' = [built EXCEPT ![d] = 0]
      /\ UNCHANGED <<dev, call, jobs>>
  BY DEF Complete, InHand, Busy
<1>2. /\ d \in Descs /\ j # 0 /\ built[d] = j /\ dma.current.next = mem[d].next
      /\ mem[d].owned
  BY <1>1, Registered DEF Registers, Fetched, Steady, ControllerOK, BuiltOK
<1>3. /\ \A e \in Descs \ {d} : mem'[e] = mem[e] /\ built'[e] = built[e]
      /\ ~mem'[d].owned /\ mem'[d].next = mem[d].next /\ mem'[d].job = mem[d].job
      /\ built'[d] = 0
  <2>1. PICK result \in {"ok", "error"} :
           mem' = [mem EXCEPT ![d].owned = FALSE, ![d].status = result]
    BY DEF Complete
  <2>2. /\ mem \in [Descs -> [owned : BOOLEAN, job : Job, next : Descs \cup {NoDesc},
                              status : {"none", "ok", "error"}]]
        /\ built \in [Descs -> Job]
    BY DEF Basic, TypesOK, TypeOK
  <2> DEFINE word == [[mem[d] EXCEPT !.owned = FALSE] EXCEPT !.status = result]
  <2>3. mem' = [mem EXCEPT ![d] = word]
    <3> HIDE DEF d
    <3> QED  BY <1>2, <2>1, <2>2, Zenon
  <2>4. ~word.owned /\ word.next = mem[d].next /\ word.job = mem[d].job
    <3>1. mem[d] \in [owned : BOOLEAN, job : Job, next : Descs \cup {NoDesc},
                              status : {"none", "ok", "error"}]
      BY <1>2, <2>2
    <3> HIDE DEF d
    <3> QED  BY <3>1, Zenon
  <2> HIDE DEF d, word
  <2> QED  BY <1>1, <1>2, <2>2, <2>3, <2>4, Zenon
<1>4. /\ \A n : Sound(n) /\ n \in Descs \cup {NoDesc} => Sound(n)'
      /\ \A e \in Descs : mem'[e].next = mem[e].next
  <2> HIDE DEF d
  <2> QED  BY <1>3, Zenon DEF Sound
<1>5. /\ dma' \in Registers /\ dma'.control = dma.control /\ dma'.pointer = dma.pointer
      /\ dma'.next = dma.next /\ dma'.more = dma.more
      /\ dma'.fetched = dma.fetched /\ dma'.current = None
      /\ dma'.ended = dma.ended
      /\ dma'.status \in {dma.status \cup {"DESC_COMPLETED"},
                          dma.status \cup {"DESC_COMPLETED", "ERROR"}}
  BY CompleteFields
<1>6. BuiltOK'
  <2>1. ASSUME NEW e \in Descs, built'[e] # 0
        PROVE  /\ mem'[e].owned /\ mem'[e].job = built'[e] /\ built'[e] <= jobs'
               /\ mem'[e].next \in Descs /\ Sound(mem[e].next)'
               /\ built'[mem'[e].next] # 0 => built'[e] < built'[mem'[e].next]
    <3> HIDE DEF d
    <3>1. e # d /\ mem'[e] = mem[e] /\ built'[e] = built[e] /\ built[e] # 0
      BY <1>3, <2>1
    <3>2. /\ mem[e].owned /\ mem[e].job = built[e] /\ built[e] <= jobs
          /\ mem[e].next \in Descs /\ Sound(mem[e].next)
          /\ built[mem[e].next] # 0 => built[e] < built[mem[e].next]
      BY <3>1 DEF Steady, BuiltOK
    <3>3. Sound(mem[e].next)'
      BY <1>3, <3>1, <3>2, Zenon DEF Sound
    <3>4. built'[mem[e].next] # 0 => built'[mem[e].next] = built[mem[e].next]
      BY <1>3, <3>2
    <3> QED  BY <1>1, <3>1, <3>2, <3>3, <3>4
  <2>2. \A e, f \in Descs : built'[e] # 0 /\ built'[e] = built'[f] => e = f
    <3> HIDE DEF d
    <3>1. \A e, f \in Descs : built[e] # 0 /\ built[e] = built[f] => e = f
      BY DEF Steady, BuiltOK
    <3>2. \A e \in Descs : built'[e] # 0 => built'[e] = built[e] /\ e # d
      BY <1>3
    <3> QED  BY <3>1, <3>2, Zenon
  <2> QED  BY <2>1, <2>2, Zenon DEF BuiltOK
<1>7. dma.fetched # None => dma.fetched.desc \in Descs \ {d}
  <2>1. SUFFICES ASSUME dma.fetched # None PROVE dma.fetched.desc \in Descs \ {d}
    OBVIOUS
  <2>2. /\ dma.fetched.desc \in Descs /\ dma.fetched.desc = mem[d].next
        /\ built[dma.fetched.desc] # 0
    BY <1>1, <1>2, <2>1, Registered DEF Registers, Fetched, Steady, ControllerOK
  <2>3. built[d] < built[mem[d].next]
    BY <1>2, <2>2 DEF Steady, BuiltOK
  <2> QED  BY <1>2, <2>2, <2>3, Words
<1>8. ControllerOK'
  <2>1. Sound(dma.next)' /\ Sound(dma.pointer)'
    <3>1. dma.next \in Descs \cup {NoDesc} /\ dma.pointer \in Descs \cup {NoDesc}
      BY Registered DEF Registers
    <3> HIDE DEF d
    <3>2. Sound(dma.next) /\ Sound(dma.pointer)
      BY DEF Steady, ControllerOK
    <3> QED  BY <1>3, <1>5, <3>1, <3>2, ZenonT(60) DEF Sound
  <2>2. ASSUME NEW f \in {dma.current, dma.fetched}' \ {None}
        PROVE  f.job # 0 /\ built'[f.desc] = f.job /\ f.next = mem'[f.desc].next
    <3>1. f = dma.fetched /\ f # None
      BY <1>5
    <3>2. f.desc \in Descs \ {d}
      BY <1>7, <3>1
    <3>3. f.job # 0 /\ built[f.desc] = f.job /\ f.next = mem[f.desc].next
      BY <3>1 DEF Steady, ControllerOK
    <3> QED  BY <1>3, <3>2, <3>3
  <2>3. dma.more /\ dma.fetched # None => dma.next = dma.fetched.next
    BY DEF Steady, ControllerOK
  <2> QED  BY <1>5, <2>1, <2>2, <2>3, Zenon DEF ControllerOK
<1>9. chain = <<>> => chain' = <<>>
  <2> HIDE DEF d
  <2>1. chain = <<>> => DOMAIN chain = {}
    OBVIOUS
  <2> QED  BY <1>1, <2>1 DEF Without
<1>10. ASSUME NEW c \in Context
       PROVE  BuildingAt(c)'
  <2>1. BuildingAt(c)
    BY DEF Steady, BuildingOK
  <2> HIDE DEF d
  <2> QED  BY <1>1, <1>3, <1>5, <1>9, <2>1, ZenonT(60) DEF BuildingAt, Polling
<1>11. PICK k \in {0, 1} :
         /\ chain' \in Seq(Descs) /\ chain \in Seq(Descs)
         /\ \A i \in DOMAIN chain' : /\ i + k \in DOMAIN chain /\ chain'[i] = chain[i + k]
                                     /\ chain'[i] # d
         /\ k = 1 => chain # <<>> /\ Head(chain) = d
         /\ k = 0 => chain = <<>> \/ Head(chain) # d
         /\ chain # <<>> /\ Head(chain) # d => chain' # <<>> /\ Head(chain') = Head(chain)
  <2>1. chain \in Seq(Descs)
    BY Words
  <2> HIDE DEF d
  <2>2. /\ chain' \in Seq(Descs)
        /\ \E k \in {0, 1} : PartFrom(chain', k, d)
        /\ chain # <<>> /\ Head(chain) # d => chain' # <<>> /\ Head(chain') = Head(chain)
        /\ \A i \in DOMAIN chain' : chain'[i] # d
    BY <1>1, WithoutPart, Zenon
  <2> QED  BY <2>1, <2>2, Zenon DEF PartFrom
<1>12. \A i \in DOMAIN chain' : /\ chain'[i] \in Descs \ {d}
                                /\ built'[chain'[i]] = built[chain[i + k]]
                                /\ mem'[chain'[i]] = mem[chain[i + k]]
  BY <1>3, <1>11
<1>13. ChainOK'
  <2> HIDE DEF d
  <2>1. \A i \in DOMAIN chain' : built'[chain'[i]] # 0
    BY <1>11, <1>12 DEF Steady, ChainOK
  <2>2. \A i \in DOMAIN chain' : i + 1 \in DOMAIN chain' => mem'[chain'[i]].next = chain'[i + 1]
    <3> TAKE i \in DOMAIN chain'
    <3> HAVE i + 1 \in DOMAIN chain'
    <3>1. (i + 1) + k = (i + k) + 1
      BY <1>11
    <3>2. /\ i + k \in DOMAIN chain /\ chain'[i] = chain[i + k]
          /\ (i + 1) + k \in DOMAIN chain /\ chain'[i + 1] = chain[(i + 1) + k]
      BY <1>11
    <3>3. mem[chain[i + k]].next = chain[(i + k) + 1]
      BY <3>1, <3>2 DEF Steady, ChainOK
    <3> QED  BY <1>12, <3>1, <3>2, <3>3
  <2>3. \A i, m \in DOMAIN chain' : i < m => built'[chain'[i]] < built'[chain'[m]]
    <3>1. \A i, m \in DOMAIN chain' : i < m => i + k < m + k
      BY <1>11
    <3> QED  BY <1>11, <1>12, <3>1 DEF Steady, ChainOK
  <2> QED  BY <2>1, <2>2, <2>3 DEF ChainOK
<1>14. \A x : /\ InHand(x)' => InHand(x)
              /\ InHand(x) /\ x # d => InHand(x)'
  BY <1>5, Zenon DEF InHand
<1>15. PromiseOK'
  <2>1. CASE promised' = {}
    BY <2>1 DEF PromiseOK, Due, Coming
  <2>2. CASE promised' # {}
    <3>1. promised' = promised \ {j} /\ dma'.status = dma.status \cup {"DESC_COMPLETED"}
      <4>1. PICK result \in {"ok", "error"} :
               /\ dma' = [dma EXCEPT
                     !.current = None,
                     !.irq = dma.irq \/ ({"IE_GLOBAL", "IE_DESC_COMPLETED"}
                                          \subseteq dma.control /\ Running(dma)),
                     !.status = dma.status \cup {"DESC_COMPLETED"} \cup
                                (IF result = "error" THEN {"ERROR"} ELSE {})]
               /\ promised' = IF result = "error" THEN {}
                              ELSE promised \ {dma.current.job}
        BY Zenon DEF Complete
      <4>2. result = "ok" /\ promised' = promised \ {j}
        BY <2>2, <4>1
      <4> DEFINE status == dma.status \cup {"DESC_COMPLETED"} \cup
                                (IF result = "error" THEN {"ERROR"} ELSE {})
      <4>3. dma'.status = status
        <5> HIDE DEF status
        <5>1. \E i : dma' = [dma EXCEPT !.current = None, !.irq = i, !.status = status]
          BY <4>1, Zenon DEF status
        <5> QED  BY <5>1, Registered, Zenon DEF Registers
      <4> QED  BY <4>2, <4>3
    <3>2. Running(dma')
      <4>1. Running(dma)
        BY <2>2, <3>1 DEF Steady, PromiseOK
      <4> QED  BY <1>5, <3>1, <4>1 DEF Running
    <3>3. 0 \notin promised'
      BY <3>1 DEF Steady, PromiseOK
    <3>4. \A i \in promised' : \E e \in Descs : built'[e] = i
      <4>1. \A i \in promised' : \E e \in Descs \ {d} : built[e] = i
        BY <1>2, <3>1 DEF Steady, PromiseOK
      <4> QED  BY <1>3, <4>1
    <3>5. Due' = Due \ {d}
      <4>1. \A e \in Descs \ {d} : built[e] \in promised' <=> built[e] \in promised
        BY <1>2, <3>1 DEF Steady, BuiltOK
      <4> QED  BY <1>2, <1>3, <3>3, <4>1 DEF Due
    <3>6. Coming(Due)'
      <4>1. ASSUME NEW x \in Due \ {d}
            PROVE  \/ InHand(x)'
                   \/ dma'.more /\ dma'.next = x
                   \/ dma'.more /\ \E e \in Due \ {d} : ~InHand(e)' /\ mem'[e].next = x
        <5>1. \/ InHand(x)
              \/ dma.more /\ dma.next = x
              \/ dma.more /\ \E e \in Due : ~InHand(e) /\ mem[e].next = x
          BY Zenon DEF Steady, PromiseOK, Coming
        <5>2. \A e \in Due : e \in Descs
          BY DEF Due
        <5> HIDE DEF d
        <5> QED  BY <1>1, <1>4, <1>5, <1>14, <5>1, <5>2, Zenon
      <4>2. \A x \in Due' : \/ InHand(x)'
                            \/ dma'.more /\ dma'.next = x
                            \/ dma'.more /\ \E e \in Due' : ~InHand(e)' /\ mem'[e].next = x
        BY <3>5, <4>1
      <4> QED  BY <4>2, Zenon DEF Coming
    <3> QED  BY <3>2, <3>3, <3>4, <3>6, Zenon DEF PromiseOK
  <2> QED  BY <2>1, <2>2
<1>16. ASSUME Coming(Chained)
       PROVE  Coming(Chained)'
  <2>1. ASSUME NEW i \in DOMAIN chain', NEW x, x = chain'[i]
        PROVE  \/ InHand(x)'
               \/ dma'.more /\ dma'.next = x
               \/ dma'.more /\ \E e \in Chained' : ~InHand(e)' /\ mem'[e].next = x
    <3>1. x \in Chained /\ x # d /\ x \in Descs /\ x = chain[i + k] /\ i + k \in DOMAIN chain
      BY <1>11, <1>12, <2>1 DEF Chained
    <3>2. \/ InHand(x)
          \/ dma.more /\ dma.next = x
          \/ dma.more /\ \E e \in Chained : ~InHand(e) /\ mem[e].next = x
      BY <1>16, <3>1, Zenon DEF Coming
    <3>3. CASE InHand(x) \/ (dma.more /\ dma.next = x)
      BY <1>5, <1>14, <3>1, <3>3, Zenon
    <3>4. CASE dma.more /\ \E e \in Chained : ~InHand(e) /\ mem[e].next = x
      <4>1. PICK m \in DOMAIN chain : ~InHand(chain[m]) /\ mem[chain[m]].next = x
        BY <3>4 DEF Chained
      <4>2. PICK e \in Descs : e = chain[m] /\ ~InHand(e) /\ mem[e].next = x
        BY <1>11, <4>1
      <4>3. e # d /\ built[e] # 0 /\ built[x] # 0
        BY <1>1, <3>1, <4>2 DEF Steady, ChainOK
      <4>4. built[e] < built[x] /\ built[e] \in Nat /\ built[x] \in Nat
        BY <3>1, <4>2, <4>3, Words DEF Steady, BuiltOK
      <4>5. i \in Nat /\ m \in Nat /\ i \in 1 .. Len(chain') /\ m \in 1 .. Len(chain)
            /\ Len(chain') \in Nat
        BY <1>11
      <4>6. m < i + k
        <5>1. ~(i + k < m)
          BY <3>1, <4>2, <4>4 DEF Steady, ChainOK
        <5>2. m # i + k
          BY <3>1, <4>2, <4>4
        <5> QED  BY <4>5, <5>1, <5>2
      <4>7. m - k \in DOMAIN chain' /\ m - k + k = m
        <5>1. k = 1 => m # 1
          <6>1. k = 1 => chain[1] = d
            BY <1>11
          <6> QED  BY <4>2, <4>3, <6>1
        <5> QED  BY <1>11, <4>5, <4>6, <5>1
      <4>8. chain'[m - k] = e
        BY <1>11, <4>2, <4>7
      <4>9. e \in Chained'
        BY <4>7, <4>8 DEF Chained
      <4>10. ~InHand(e)' /\ mem'[e].next = x
        BY <1>4, <1>14, <4>2
      <4> QED  BY <1>5, <3>4, <4>9, <4>10, Zenon
    <3> QED  BY <3>2, <3>3, <3>4
  <2>2. \A x \in Chained' : \/ InHand(x)'
                            \/ dma'.more /\ dma'.next = x
                            \/ dma'.more /\ \E e \in Chained' : ~InHand(e)' /\ mem'[e].next = x
    BY <2>1 DEF Chained
  <2> QED  BY <2>2, Zenon DEF Coming
<1>17. ASSUME NEW c \in Context
       PROVE  TransferAt(c)'
  <2>1. TransferAt(c)
    BY DEF Steady, TransferOK
  <2>2. Sound(call[c].desc) /\ call[c].desc \in Descs => Sound(call[c].desc)'
    <3> HIDE DEF d
    <3> QED  BY <1>1, <1>3, ZenonT(60) DEF Sound
  <2>3. Polling' <=> Polling
    BY <1>5, Zenon DEF Polling
  <2>4. ASSUME AtHead(c), chain # <<>> => ~InHand(call[c].desc)
        PROVE  AtHead(c)' /\ (chain' # <<>> => ~InHand(call[c].desc)')
    <3>1. CASE chain = <<>>
      BY <1>9, <3>1 DEF AtHead
    <3>2. CASE chain # <<>>
      <4>1. Head(chain) = call[c].desc /\ call[c].desc # d
        BY <1>1, <2>4, <3>2 DEF AtHead
      <4>2. Head(chain') = Head(chain)
        BY <1>11, <3>2, <4>1
      <4>3. ~InHand(call[c].desc)'
        <5>1. call'[c].desc = call[c].desc
          BY <1>1
        <5> QED  BY <1>5, <2>4, <3>2, <5>1, Zenon DEF InHand
      <4> QED  BY <1>1, <4>1, <4>2, <4>3 DEF AtHead
    <3> QED  BY <3>1, <3>2
  <2> HIDE DEF d
  <2> QED  BY <1>1, <1>5, <1>16, <2>1, <2>2, <2>3, <2>4, Zenon DEF TransferAt
<1>18. SyncOK'
  <2>1. PICK result \in {"ok", "error"} :
           /\ result = "error" => "ERROR" \in dma'.status
           /\ promised' = IF result = "error" THEN {} ELSE promised \ {j}
    <3>1. PICK result \in {"ok", "error"} :
             /\ dma' = [dma EXCEPT
                   !.current = None,
                   !.irq = dma.irq \/ ({"IE_GLOBAL", "IE_DESC_COMPLETED"}
                                        \subseteq dma.control /\ Running(dma)),
                   !.status = dma.status \cup {"DESC_COMPLETED"} \cup
                              (IF result = "error" THEN {"ERROR"} ELSE {})]
             /\ promised' = IF result = "error" THEN {}
                            ELSE promised \ {dma.current.job}
      BY Zenon DEF Complete
    <3> DEFINE status == dma.status \cup {"DESC_COMPLETED"} \cup
                              (IF result = "error" THEN {"ERROR"} ELSE {})
    <3>2. dma'.status = status
      <4> HIDE DEF status
      <4>1. \E i : dma' = [dma EXCEPT !.current = None, !.irq = i, !.status = status]
        BY <3>1, Zenon DEF status
      <4> QED  BY <4>1, Registered, Zenon DEF Registers
    <3> QED  BY <3>1, <3>2
  <2>2. "ERROR" \in dma.status => "ERROR" \in dma'.status
    BY <1>5
  <2>3. ASSUME result = "ok", \A i \in DOMAIN chain : built[chain[i]] \in promised,
               NEW i \in DOMAIN chain'
        PROVE  built'[chain'[i]] \in promised'
    <3>1. built'[chain'[i]] = built[chain[i + k]] /\ chain[i + k] \in Descs \ {d}
          /\ i + k \in DOMAIN chain
      BY <1>11, <1>12
    <3>2. built[chain[i + k]] # j
      BY <1>2, <3>1 DEF Steady, BuiltOK
    <3> QED  BY <2>1, <2>3, <3>1, <3>2
  <2>4. call["main"].at = "sync_wait" =>
          "ERROR" \in dma'.status \/ \A i \in DOMAIN chain' : built'[chain'[i]] \in promised'
    BY <2>1, <2>2, <2>3, Zenon DEF Steady, SyncOK
  <2>5. promised = {} => promised' = {}
    BY <2>1
  <2> HIDE DEF d, j
  <2> QED  BY <1>1, <1>9, <2>2, <2>4, <2>5, Zenon DEF Steady, SyncOK
<1> QED
  BY <1>6, <1>8, <1>10, <1>13, <1>15, <1>17, <1>18, Zenon
  DEF Steady, TransferOK, BuildingOK

-----------------------------------------------------------------------------
(* The driver's and the client's steps.  Most leave the descriptors and    *)
(* what the controller is at alone.                                        *)
Framed ==
  /\ DescsSame /\ CoreLeft /\ Sound(dma'.pointer)
  /\ \/ promised' = {}
     \/ promised' = promised /\ CoreSame /\ (Running(dma) => Running(dma'))

LEMMA Frame ==
  ASSUME Basic, Steady, Framed
  PROVE  /\ BuiltOK' /\ ChainOK' /\ ControllerOK' /\ PromiseOK'
         /\ Busy(dma') => Busy(dma)
         /\ CoreSame => (Coming(Chained)' <=> Coming(Chained))
         /\ \A x : Sound(x)' <=> Sound(x)
         /\ \A d : InHand(d)' <=> InHand(d)
<1>1. /\ BuiltOK' /\ ChainOK' /\ Chained' = Chained
      /\ \A x : Sound(x)' <=> Sound(x)
  BY SameDescs DEF Framed, Steady
<1>2. ControllerOK'
  BY SameController DEF Framed, Steady
<1>3. mem' = mem /\ CoreLeft /\ built' = built
  BY DEF Framed, DescsSame
<1>4. /\ \A d : InHand(d)' <=> InHand(d)
      /\ Busy(dma') => Busy(dma)
  BY <1>3, SameCore
<1>5. CoreSame => (Coming(Chained)' <=> Coming(Chained))
  <2>1. Chained' = Chained /\ \A d : InHand(d)' <=> InHand(d)
    BY <1>1, <1>4
  <2> QED  BY <1>3, <2>1 DEF Coming, CoreLeft, CoreSame
<1>6. PromiseOK'
  <2>1. CASE promised' = {}
    BY <2>1 DEF PromiseOK, Due, Coming
  <2>2. CASE promised' = promised /\ CoreSame /\ (Running(dma) => Running(dma'))
    <3>1. Due' = Due
      BY <1>3, <2>2 DEF Due
    <3>2. Coming(Due) <=> Coming(Due)'
      <4>1. \A d : InHand(d)' <=> InHand(d)
        BY <1>4
      <4> QED  BY <1>3, <2>2, <3>1, <4>1 DEF Coming, CoreLeft, CoreSame
    <3> QED  BY <1>3, <2>2, <3>2, Zenon DEF Steady, PromiseOK
  <2> QED  BY <2>1, <2>2 DEF Framed
<1> QED  BY <1>1, <1>2, <1>4, <1>5, <1>6

(* A step that does not even write the registers of the transfer, or       *)
(* writes the control bits that are there already.                         *)
Untouched ==
  /\ DescsSame /\ CoreLeft /\ promised' = promised
  /\ dma'.control = dma.control /\ dma'.status = dma.status
  /\ dma'.pointer = dma.pointer /\ (dma'.ended => dma.ended)
  /\ "RUN" \in dma.control => CoreSame /\ dma'.ended = dma.ended

LEMMA UntouchedFramed ==
  ASSUME Steady, Untouched
  PROVE  Framed
<1>1. CASE promised = {}
  BY <1>1, Zenon DEF Untouched, Framed, Steady, ControllerOK
<1>2. CASE promised # {}
  <2>1. "RUN" \in dma.control
    BY <1>2, Zenon DEF Steady, PromiseOK, Running
  <2> QED  BY <2>1, Zenon DEF Untouched, Framed, Steady, ControllerOK, Running
<1> QED  BY <1>1, <1>2

LEMMA UntouchedContext ==
  ASSUME Basic, Steady, Untouched, NEW c \in Context, call'[c] = call[c]
  PROVE  BuildingAt(c)' /\ TransferAt(c)'
<1>1. /\ Busy(dma') => Busy(dma)
      /\ "RUN" \in dma.control => (Coming(Chained)' <=> Coming(Chained))
      /\ InHand(call[c].desc)' <=> InHand(call[c].desc)
      /\ Sound(call[c].desc)' <=> Sound(call[c].desc)
      /\ Polling' <=> Polling
  <2>1. Framed
    BY UntouchedFramed
  <2>2. /\ InHand(call[c].desc)' <=> InHand(call[c].desc)
        /\ Sound(call[c].desc)' <=> Sound(call[c].desc)
        /\ Polling' <=> Polling
    BY Zenon DEF Untouched, CoreLeft, DescsSame, InHand, Sound, Polling
  <2> QED  BY <2>1, <2>2, Frame DEF Untouched
<1>2. TransferAt(c) /\ BuildingAt(c)
  BY DEF Steady, TransferOK, BuildingOK
<1>3. BuildingAt(c)'
  BY <1>1, <1>2, Zenon DEF Untouched, DescsSame, BuildingAt
<1>4. TransferAt(c)'
  BY <1>1, <1>2, Zenon DEF Untouched, DescsSame, TransferAt, AtHead
<1> QED  BY <1>3, <1>4

(* A driver routine's step: the other context is idle.                     *)
LEMMA DriverStep ==
  ASSUME Basic, Steady, BuiltOK', ChainOK', ControllerOK', PromiseOK', NEW c \in Context,
         Active(c), c = "isr" => call[c].at \in Building \cup Transfer,
         \A b \in Context \ {c} : call'[b] = call[b],
         BuildingAt(c)', TransferAt(c)', c = "main" => SyncOK'
  PROVE  Steady'
<1>1. \A b \in Context \ {c} : call'[b] = Idle
  BY Alone DEF Basic
<1>2. \A b \in Context : BuildingAt(b)' /\ TransferAt(b)'
  BY <1>1, IdleIsFine, Zenon
<1>3. SyncOK'
  <2>1. CASE c = "main"
    BY <2>1
  <2>2. CASE c = "isr"
    <3>1. (call["main"].at)' = "idle"
      BY <1>1, <2>2 DEF Context, Idle
    <3> QED  BY <3>1 DEF SyncOK
  <2> QED  BY <2>1, <2>2 DEF Context
<1> QED  BY <1>2, <1>3, Zenon DEF Steady, BuildingOK, TransferOK

LEMMA Went ==
  ASSUME Basic, NEW c \in Context, NEW w, call' = [call EXCEPT ![c].at = w]
  PROVE  /\ call'[c].at = w /\ call'[c].desc = call[c].desc /\ call'[c].next = call[c].next
         /\ \A b \in Context \ {c} : call'[b] = call[b]
BY Zenon DEF Basic, CallsOK, Calls

LEMMA Returned ==
  ASSUME Basic, NEW c \in Context, Return(c)
  PROVE  /\ call'[c].at \in {"idle", "leave"}
         /\ \A b \in Context \ {c} : call'[b] = call[b]
<1>1. call \in [Context -> Calls] /\ Idle.at = "idle" /\ [Idle EXCEPT !.at = "leave"].at = "leave"
  BY Zenon DEF Basic, CallsOK, Idle
<1> HIDE DEF Calls
<1> QED  BY <1>1, Zenon DEF Return

(* A context that has returned, or is out of the transfer, binds nothing.  *)
LEMMA Elsewhere ==
  ASSUME NEW c \in Context,
         call'[c].at \notin Building \cup Transfer \cup {"sync_status", "init_control"}
  PROVE  BuildingAt(c)' /\ TransferAt(c)'
BY DEF BuildingAt, TransferAt, Transfer

LEMMA NotElsewhere ==
  /\ {"idle", "leave", "callback", "clear", "sync_wait", "sync_clear"}
       \cap (Building \cup Transfer \cup {"sync_status", "init_control"}) = {}
  /\ Building \cap (Transfer \cup {"sync_status", "init_control"}) = {}
BY DEF Building, Transfer, Starting, Stopping, Pointing, Releasing

(* The test whether the controller is busy.                                *)
LEMMA TestSteady ==
  ASSUME Basic, Steady, NEW c \in Context,
         AsyncTest(c) \/ (c = "main" /\ SyncWait("sync", "sync_stop"))
  PROVE  Steady'
<1>1. /\ Active(c) /\ call[c].at \in Starting /\ UNCHANGED <<dma, mem, dev, ghost>>
      /\ \/ Return(c)
         \/ ~Busy(dma) /\ \E w \in Stopping : call' = [call EXCEPT ![c].at = w]
  BY DEF AsyncTest, SyncWait, At, Go, Starting, Stopping
<1>2. Untouched
  BY <1>1 DEF Untouched, DescsSame, CoreLeft, CoreSame, ghost
<1>3. /\ BuiltOK' /\ ChainOK' /\ ControllerOK' /\ PromiseOK'
  BY <1>2, UntouchedFramed, Frame
<1>4. CASE Return(c)
  <2>1. /\ call'[c].at \in {"idle", "leave"}
        /\ \A b \in Context \ {c} : call'[b] = call[b]
    BY <1>4, Returned
  <2>2. BuildingAt(c)' /\ TransferAt(c)'
    BY <2>1, NotElsewhere, Elsewhere
  <2>3. c = "main" => SyncOK'
    BY <2>1 DEF SyncOK
  <2> QED  BY <1>1, <1>3, <2>1, <2>2, <2>3, DriverStep DEF Transfer
<1>5. CASE ~Busy(dma) /\ \E w \in Stopping : call' = [call EXCEPT ![c].at = w]
  <2>1. PICK w \in Stopping : call' = [call EXCEPT ![c].at = w]
    BY <1>5
  <2>2. /\ call'[c].at = w /\ call'[c].desc = call[c].desc
        /\ \A b \in Context \ {c} : call'[b] = call[b]
    BY <2>1, Went
  <2>3. promised = {} /\ (Coming(Chained) => chain = <<>>)
    BY <1>5, NothingDue
  <2>4. TransferAt(c) /\ call[c].at \in Transfer
    BY <1>1 DEF Steady, TransferOK, Transfer
  <2>5. /\ ~Polling /\ AtHead(c) /\ call[c].desc \in Descs /\ Sound(call[c].desc)
    BY <1>1, <2>3, <2>4, Zenon DEF TransferAt, AtHead
  <2>6. (Sound(call[c].desc))'
    BY <1>1, <2>2, <2>5, Zenon DEF Sound, ghost
  <2>7. TransferAt(c)'
    <3>1. w \notin Starting \cup Pointing \cup Releasing \cup {"sync_status", "init_control"}
      BY DEF Stopping, Starting, Pointing, Releasing
    <3>2. Polling' = Polling /\ Busy(dma') = Busy(dma) /\ AtHead(c)' = AtHead(c)
      BY <1>1, <2>2 DEF Polling, AtHead, ghost
    <3> QED  BY <1>1, <1>5, <2>2, <2>3, <2>5, <2>6, <3>1, <3>2 DEF TransferAt, ghost
  <2>8. BuildingAt(c)'
    BY <2>2 DEF BuildingAt, Building, Stopping
  <2>9. c = "main" => SyncOK'
    BY <2>2 DEF SyncOK, Stopping
  <2> QED  BY <1>1, <1>3, <2>2, <2>7, <2>8, <2>9, DriverStep DEF Transfer
<1> QED  BY <1>1, <1>4, <1>5

(* Clearing RUN never makes run rise.                                      *)
LEMMA ClearRunFields ==
  ASSUME Basic, dma' = ClearRun(dma)
  PROVE  /\ dma'.control = dma.control \ {"RUN"} /\ dma'.status = dma.status
         /\ dma'.pointer = dma.pointer /\ ~dma'.ended /\ CoreLeft
<1> DEFINE bits == dma.control \ {"RUN"}
<1>1. dma \in Registers /\ bits \in SUBSET ControlBit /\ "RUN" \notin bits
      /\ dma' = WriteControl(dma, bits)
  BY Registered DEF Registers, ClearRun
<1> HIDE DEF bits
<1>2. ~Started(dma, bits)
  BY <1>1 DEF Started
<1>3. /\ dma'.control = bits /\ dma'.status = dma.status
      /\ dma'.pointer = dma.pointer /\ dma'.fetched = dma.fetched
      /\ dma'.current = dma.current /\ (dma'.ended <=> dma.ended /\ "RUN" \in bits)
      /\ (dma'.more => dma.more) /\ dma'.next = dma.next
  BY <1>1, <1>2, ControlFields
<1> QED  BY <1>1, <1>3, Zenon DEF CoreLeft, bits

LEMMA StopSteady ==
  ASSUME Basic, Steady, NEW c \in Context,
         \/ TransferStop(c, "async_stop", "async_point")
         \/ c = "main" /\ TransferStop(c, "sync_stop", "sync_point")
         \/ c = "main" /\ TransferStop(c, "sync_clear", "sync_status")
  PROVE  Steady'
<1>1. PICK w \in Pointing \cup {"sync_status"} :
        /\ Active(c) /\ call' = [call EXCEPT ![c].at = w]
        /\ w = "sync_status" => c = "main" /\ call[c].at = "sync_clear"
        /\ w # "sync_status" => call[c].at \in Stopping
        /\ dma' = ClearRun(dma) /\ UNCHANGED <<mem, dev, ghost>>
  BY DEF TransferStop, At, Go, Pointing, Stopping
<1>2. /\ call'[c].at = w /\ call'[c].desc = call[c].desc
      /\ \A b \in Context \ {c} : call'[b] = call[b]
  BY <1>1, Went
<1>3. /\ dma'.control = dma.control \ {"RUN"} /\ dma'.status = dma.status
      /\ dma'.pointer = dma.pointer /\ ~dma'.ended /\ CoreLeft
  BY <1>1, ClearRunFields
<1>4. TransferAt(c) /\ promised = {} /\ promised' = {}
  <2>1. TransferAt(c)
    BY DEF Steady, TransferOK
  <2>2. promised = {}
    BY <1>1, <2>1 DEF TransferAt, Steady, SyncOK
  <2> QED  BY <1>1, <2>1, <2>2 DEF ghost
<1>5. Framed
  <2>1. Sound(dma'.pointer)
    BY <1>3 DEF Steady, ControllerOK
  <2> QED  BY <1>1, <1>3, <1>4, <2>1 DEF Framed, DescsSame, ghost
<1>6. /\ BuiltOK' /\ ChainOK' /\ ControllerOK' /\ PromiseOK'
      /\ Busy(dma') => Busy(dma)
  BY <1>5, Frame
<1>7. TransferAt(c)'
  <2>1. CASE w = "sync_status"
    <3>1. w \notin Transfer /\ w \notin Starting
      BY <2>1 DEF Transfer, Starting, Stopping, Pointing, Releasing
    <3> QED  BY <1>2, <1>3, <3>1 DEF TransferAt, Transfer
  <2>2. CASE w # "sync_status"
    <3>1. w \in Pointing /\ w \notin Starting /\ w \notin Releasing /\ call[c].at \in Transfer
      BY <1>1, <2>2 DEF Starting, Pointing, Releasing, Transfer
    <3>2. /\ call[c].desc \in Descs /\ Sound(call[c].desc)
          /\ ~Busy(dma) /\ ~Polling /\ AtHead(c)
      BY <1>1, <1>4, <2>2, <3>1 DEF TransferAt
    <3>3. Sound(call[c].desc)' /\ ~Polling' /\ AtHead(c)'
      <4>1. UNCHANGED <<mem, built, chain>>
        BY <1>1 DEF ghost
      <4> QED  BY <1>2, <1>3, <3>2, <4>1 DEF Sound, Polling, AtHead
    <3> QED  BY <1>2, <1>3, <1>4, <1>6, <3>1, <3>2, <3>3 DEF TransferAt
  <2> QED  BY <2>1, <2>2
<1>8. BuildingAt(c)'
  BY <1>2 DEF BuildingAt, Building, Pointing
<1>9. c = "main" => SyncOK'
  <2>1. CASE w = "sync_status"
    <3>1. call["main"].at = "sync_clear" /\ UNCHANGED chain
      BY <1>1, <2>1 DEF ghost
    <3> QED  BY <1>2, <1>3, <1>4, <2>1, <3>1 DEF Steady, SyncOK
  <2>2. CASE w # "sync_status"
    BY <1>2, <2>2 DEF SyncOK, Pointing
  <2> QED  BY <2>1, <2>2
<1>10. c = "isr" => call[c].at \in Transfer
  BY <1>1 DEF Transfer
<1> QED  BY <1>1, <1>2, <1>6, <1>7, <1>8, <1>9, <1>10, DriverStep

LEMMA PointSteady ==
  ASSUME Basic, Steady, NEW c \in Context,
         \/ TransferPoint(c, "async_point", "async_run")
         \/ c = "main" /\ TransferPoint(c, "sync_point", "sync_run")
  PROVE  Steady'
<1>1. PICK w \in Releasing :
        /\ Active(c) /\ call' = [call EXCEPT ![c].at = w] /\ call[c].at \in Pointing
        /\ dma' = WritePointer(ClearStatus(dma), call[c].desc)
        /\ UNCHANGED <<mem, dev, ghost>>
  BY DEF TransferPoint, At, Go, Pointing, Releasing
<1>2. /\ call'[c].at = w /\ call'[c].desc = call[c].desc
      /\ \A b \in Context \ {c} : call'[b] = call[b]
  BY <1>1, Went
<1>3. /\ TransferAt(c) /\ call[c].at \in Transfer /\ call[c].at \notin Starting
      /\ w \in Transfer /\ w \notin Starting
  BY <1>1 DEF Steady, TransferOK, Transfer, Pointing, Releasing, Starting
<1>4. /\ call[c].desc \in Descs /\ Sound(call[c].desc)
      /\ ~Busy(dma) /\ ~Polling /\ AtHead(c) /\ promised = {}
      /\ "RUN" \notin dma.control /\ ~dma.ended
  BY <1>1, <1>3 DEF TransferAt
<1>5. /\ dma'.control = dma.control /\ dma'.status = {} /\ dma'.pointer = call[c].desc
      /\ dma'.ended = dma.ended /\ CoreSame
  <2> DEFINE v == ClearStatus(dma)
  <2>1. /\ v \in Registers /\ v.control = dma.control /\ v.status = {}
        /\ v.fetched = dma.fetched /\ v.current = dma.current /\ v.ended = dma.ended
        /\ v.more = dma.more /\ v.next = dma.next
    BY <1>4, Registered, StatusFields
  <2> HIDE DEF v
  <2>2. dma' = WritePointer(v, call[c].desc)
    BY <1>1 DEF v
  <2>3. /\ dma'.control = v.control /\ dma'.status = v.status /\ dma'.pointer = call[c].desc
        /\ dma'.next = v.next /\ dma'.more = v.more /\ dma'.fetched = v.fetched
        /\ dma'.current = v.current /\ dma'.ended = v.ended
    BY <1>4, <2>1, <2>2, PointFields
  <2> QED  BY <2>1, <2>3 DEF CoreLeft, CoreSame
<1>6. Framed
  <2>1. Sound(dma'.pointer)
    BY <1>4, <1>5
  <2> QED  BY <1>1, <1>4, <1>5, <2>1 DEF Framed, DescsSame, CoreSame, ghost
<1>7. /\ BuiltOK' /\ ChainOK' /\ ControllerOK' /\ PromiseOK'
      /\ Busy(dma') => Busy(dma)
  BY <1>6, Frame
<1>8. TransferAt(c)'
  <2>1. Sound(call[c].desc)' /\ ~Polling' /\ AtHead(c)' /\ promised' = {}
    <3>1. UNCHANGED <<mem, built, chain, promised>>
      BY <1>1 DEF ghost
    <3> QED  BY <1>2, <1>4, <1>5, <3>1 DEF Sound, Polling, AtHead
  <2> QED  BY <1>2, <1>3, <1>4, <1>5, <1>7, <2>1 DEF TransferAt
<1>9. BuildingAt(c)' /\ (c = "main" => SyncOK')
  BY <1>2 DEF BuildingAt, Building, Releasing, SyncOK
<1> QED  BY <1>1, <1>2, <1>3, <1>7, <1>8, <1>9, DriverStep

(* Setting RUN starts the controller at the head of the chain, and what    *)
(* the chain holds is due.                                                 *)
LEMMA RunSteady ==
  ASSUME Basic, Steady, NEW c \in Context, AsyncRun(c) \/ (c = "main" /\ SyncRun)
  PROVE  Steady'
<1>1. PICK bits \in SUBSET ControlBit :
        /\ Active(c) /\ call[c].at \in Releasing /\ "RUN" \in bits
        /\ Return(c) \/ (c = "main" /\ call' = [call EXCEPT ![c].at = "sync_wait"])
        /\ dma' = WriteControl(dma, bits) /\ Accept
  <2>1. dma.control \cup {"RUN", "STOP_DMA_ER"} \in SUBSET ControlBit
        /\ AsyncControl \in SUBSET ControlBit /\ "RUN" \in AsyncControl
    BY Registered, AsyncBits DEF Registers, ControlBit, AsyncControl
  <2>2. CASE AsyncRun(c)
    BY <2>1, <2>2 DEF AsyncRun, At, Releasing
  <2>3. CASE c = "main" /\ SyncRun
    BY <2>1, <2>3 DEF SyncRun, At, Go, Releasing
  <2> QED  BY <2>2, <2>3
<1>2. /\ call'[c].at \in {"idle", "leave", "sync_wait"}
      /\ \A b \in Context \ {c} : call'[b] = call[b]
  BY <1>1, Returned, Went
<1>3. /\ DescsSame /\ UNCHANGED <<mem, jobs, built, chain>>
      /\ promised' = {built[chain[i]] : i \in DOMAIN chain}
  BY <1>1 DEF Accept, DescsSame
<1>4. /\ BuiltOK' /\ ChainOK' /\ Chained' = Chained
      /\ \A x : Sound(x)' <=> Sound(x)
  BY <1>3, SameDescs DEF Steady
<1>5. TransferAt(c) /\ call[c].at \in Transfer
  BY <1>1 DEF Steady, TransferOK, Transfer
<1>6. /\ ~Busy(dma) /\ "RUN" \notin dma.control /\ ~dma.ended /\ AtHead(c)
      /\ dma.status = {} /\ dma.pointer = call[c].desc
  BY <1>1, <1>5 DEF TransferAt
<1>7. Started(dma, bits)
  BY <1>1, <1>6 DEF Started, Running
<1>8. /\ dma'.control = bits /\ dma'.status = {} /\ dma'.pointer = dma.pointer
      /\ dma'.fetched = None /\ dma'.current = None /\ ~dma'.ended
      /\ dma'.more /\ dma'.next = dma.pointer
  <2>1. dma.fetched = None /\ dma.current = None
    BY <1>6 DEF Busy
  <2> QED  BY <1>1, <1>6, <1>7, <2>1, Registered, ControlFields
<1>9. ControllerOK'
  <2>1. Sound(dma.next)' /\ Sound(dma.pointer)'
    BY <1>3, <1>8 DEF Steady, ControllerOK, Sound
  <2> QED  BY <1>8, <2>1 DEF ControllerOK
<1>10. chain \in Seq(Descs)
  BY Words
<1>11. PromiseOK'
  <2>1. Running(dma')
    BY <1>1, <1>8 DEF Running
  <2>2. 0 \notin promised' /\ \A i \in promised' : \E d \in Descs : built'[d] = i
    BY <1>3, <1>10 DEF Steady, ChainOK
  <2>3. \A d \in Due' : \E i \in DOMAIN chain : chain[i] = d
    <3>1. \A d \in Due' : d \in Descs /\ built[d] \in promised'
      BY <1>3 DEF Due
    <3>2. \A d \in Due' : \E i \in DOMAIN chain : built[d] = built[chain[i]] /\ built[chain[i]] # 0
                                                /\ chain[i] \in Descs
      BY <1>3, <1>10, <3>1 DEF Steady, ChainOK
    <3> QED  BY <3>1, <3>2 DEF Steady, BuiltOK
  <2>4. \A i \in DOMAIN chain : chain[i] \in Due'
    BY <1>3, <1>10 DEF Due
  <2>5. \A d : ~InHand(d)'
    BY <1>8, Zenon DEF InHand
  <2>6. ASSUME NEW d \in Due'
        PROVE  \/ dma'.next = d
               \/ \E e \in Due' : ~InHand(e)' /\ mem'[e].next = d
    <3>1. PICK i \in DOMAIN chain : chain[i] = d
      BY <2>3
    <3>2. CASE i = 1
      BY <1>6, <1>8, <1>10, <3>1, <3>2 DEF AtHead
    <3>3. CASE i # 1
      <4>1. i - 1 \in DOMAIN chain /\ (i - 1) + 1 = i
        BY <1>10, <3>3
      <4>2. mem[chain[i - 1]].next = d
        BY <3>1, <4>1 DEF Steady, ChainOK
      <4>3. PICK e \in Due' : e = chain[i - 1]
        BY <2>4, <4>1
      <4> QED  BY <1>3, <2>5, <4>2, <4>3
    <3> QED  BY <3>2, <3>3
  <2>7. Coming(Due)'
    BY <1>8, <2>6, Zenon DEF Coming
  <2> QED  BY <2>1, <2>2, <2>7, Zenon DEF PromiseOK
<1>12. BuildingAt(c)' /\ TransferAt(c)'
  BY <1>2, NotElsewhere, Elsewhere
<1>13. SyncOK'
  <2>1. \A i \in DOMAIN chain : built[chain[i]] \in promised'
    BY <1>3
  <2>2. call'["main"].at \notin {"sync_clear", "sync_status"}
    <3>1. CASE c = "main"
      BY <1>2, <3>1
    <3>2. CASE c = "isr"
      <4>1. call["main"] = Idle
        BY <1>1, <1>5, <3>2, Alone DEF Basic, Context
      <4> QED  BY <1>2, <3>2, <4>1 DEF Context, Idle
    <3> QED  BY <3>1, <3>2 DEF Context
  <2> QED  BY <1>3, <2>1, <2>2 DEF SyncOK
<1> QED  BY <1>1, <1>2, <1>4, <1>5, <1>9, <1>11, <1>12, <1>13, DriverStep

LEMMA WaitSteady ==
  ASSUME Basic, Steady, SyncWait("sync_wait", "sync_clear") \/ SyncReturn
  PROVE  Steady'
<1>1. "main" \in Context /\ Active("main")
  BY DEF SyncWait, SyncReturn, At, Context
<1>2. CASE SyncWait("sync_wait", "sync_clear")
  <2>1. /\ ~Busy(dma) /\ call["main"].at = "sync_wait"
        /\ call' = [call EXCEPT !["main"].at = "sync_clear"]
        /\ UNCHANGED <<dma, mem, dev, ghost>>
    BY <1>2 DEF SyncWait, At, Go
  <2>2. /\ call'["main"].at = "sync_clear"
        /\ \A b \in Context \ {"main"} : call'[b] = call[b]
    BY <1>1, <2>1, Went
  <2>3. Untouched
    BY <2>1 DEF Untouched, DescsSame, CoreLeft, CoreSame, ghost
  <2>4. BuiltOK' /\ ChainOK' /\ ControllerOK' /\ PromiseOK'
    BY <2>3, UntouchedFramed, Frame
  <2>5. BuildingAt("main")' /\ TransferAt("main")'
    BY <1>1, <2>2, NotElsewhere, Elsewhere
  <2>6. SyncOK'
    <3>1. promised = {}
      BY <2>1, NothingDue
    <3>2. "ERROR" \in dma.status \/ chain = <<>>
      <4>1. SUFFICES ASSUME "ERROR" \notin dma.status PROVE chain = <<>>
        OBVIOUS
      <4>2. \A i \in DOMAIN chain : FALSE
        BY <2>1, <3>1, <4>1 DEF Steady, SyncOK
      <4>3. chain \in Seq(Descs)
        BY Words
      <4> QED  BY <4>2, <4>3
    <3> QED  BY <2>1, <2>2, <3>1, <3>2 DEF SyncOK, ghost
  <2> QED  BY <1>1, <2>2, <2>4, <2>5, <2>6, DriverStep
<1>3. CASE SyncReturn
  <2>1. /\ call["main"].at = "sync_status" /\ Return("main") /\ dma' = ClearStatus(dma)
        /\ UNCHANGED <<mem, dev, ghost>>
    BY <1>3 DEF SyncReturn, At
  <2>2. /\ call'["main"].at \in {"idle", "leave"}
        /\ \A b \in Context \ {"main"} : call'[b] = call[b]
    BY <1>1, <2>1, Returned
  <2>3. "RUN" \notin dma.control /\ promised = {}
    BY <1>1, <2>1 DEF Steady, TransferOK, TransferAt, SyncOK
  <2>4. CoreSame /\ dma'.pointer = dma.pointer
    BY <2>1, <2>3, Registered, StatusFields DEF CoreLeft, CoreSame
  <2>5. Framed
    <3>1. Sound(dma'.pointer)
      BY <2>4 DEF Steady, ControllerOK
    <3> QED  BY <2>1, <2>3, <2>4, <3>1 DEF Framed, DescsSame, CoreSame, ghost
  <2>6. BuiltOK' /\ ChainOK' /\ ControllerOK' /\ PromiseOK'
    BY <2>5, Frame
  <2>7. BuildingAt("main")' /\ TransferAt("main")'
    BY <1>1, <2>2, NotElsewhere, Elsewhere
  <2>8. SyncOK'
    BY <2>2 DEF SyncOK
  <2> QED  BY <1>1, <2>2, <2>6, <2>7, <2>8, DriverStep
<1> QED  BY <1>2, <1>3

LEMMA CommandSteady ==
  ASSUME Basic, Steady, Stop \/ Start \/ Poll
  PROVE  Steady'
<1>1. /\ "main" \in Context /\ Active("main") /\ call["main"].at = "idle"
      /\ UNCHANGED <<call, mem, jobs, built, chain>>
      /\ promised' = promised \/ promised' = {}
  BY DEF Stop, Start, Poll, At, Context, ghost
<1>2. DescsSame /\ promised' \in {promised, {}}
  BY <1>1 DEF DescsSame
<1>3. BuildingAt("main")' /\ TransferAt("main")' /\ SyncOK'
  <2>1. call'["main"].at = "idle"
    BY <1>1
  <2> QED  BY <1>1, <2>1, NotElsewhere, Elsewhere DEF SyncOK
<1>4. /\ BuiltOK' /\ ChainOK' /\ ControllerOK' /\ PromiseOK'
  <2>1. CASE Stop
    <3>1. CoreLeft /\ dma'.pointer = dma.pointer /\ promised' = {}
      BY <2>1, ClearRunFields DEF Stop
    <3>2. Framed
      BY <1>2, <3>1 DEF Framed, Steady, ControllerOK
    <3> QED  BY <3>2, Frame
  <2>2. CASE Start
    <3> DEFINE bits == dma.control \cup {"RUN"}
    <3>1. /\ dma \in Registers /\ bits \in SUBSET ControlBit /\ "RUN" \in bits
          /\ dma' = WriteControl(dma, bits) /\ promised' = promised
      BY <2>2, Registered DEF Start, Registers, ControlBit, ghost
    <3> HIDE DEF bits
    <3>2. /\ dma'.control = bits /\ dma'.status = dma.status
          /\ dma'.pointer = dma.pointer /\ dma'.fetched = dma.fetched
          /\ dma'.current = dma.current /\ (dma'.ended <=> dma.ended)
          /\ ~Started(dma, bits) => dma'.more = dma.more /\ dma'.next = dma.next
          /\ Started(dma, bits) => dma'.more /\ dma'.next = dma.pointer
      <4>1. WriteControl(dma, bits).more \in BOOLEAN /\ dma.more \in BOOLEAN
        BY <3>1, ControlFields DEF Registers
      <4> QED  BY <3>1, <4>1, ControlFields DEF Kept
    <3>3. CASE ~Started(dma, bits)
      <4>1. CoreSame /\ Sound(dma'.pointer)
        BY <3>2, <3>3 DEF CoreLeft, CoreSame, Steady, ControllerOK
      <4>2. Running(dma) => Running(dma')
        BY <3>1, <3>2 DEF Running, bits
      <4>3. Framed
        BY <1>2, <3>1, <4>1, <4>2 DEF Framed, CoreSame
      <4> QED  BY <4>3, Frame
    <3>4. CASE Started(dma, bits)
      <4>1. dma.current = None /\ dma.fetched = None
        BY <2>2 DEF Start
      <4>2. BuiltOK' /\ ChainOK'
        BY <1>2, SameDescs DEF Steady
      <4>3. Sound(dma.next)' /\ Sound(dma.pointer)'
        BY <1>1, <3>2, <3>4 DEF Steady, ControllerOK, Sound
      <4>4. ControllerOK'
        BY <3>2, <4>1, <4>3 DEF ControllerOK
      <4>5. promised' = {}
        BY <3>1, <3>4 DEF Started, Steady, PromiseOK
      <4>6. PromiseOK'
        BY <4>5 DEF PromiseOK, Due, Coming
      <4> QED  BY <4>2, <4>4, <4>6
    <3> QED  BY <3>3, <3>4
  <2>3. CASE Poll
    <3>1. PICK bits \in SUBSET ControlBit :
             /\ dma' = WriteControl(dma, bits) /\ promised' = promised
             /\ "RUN" \in bits <=> "RUN" \in dma.control
             /\ "STOP_DMA_ER" \in bits <=> "STOP_DMA_ER" \in dma.control
      BY <2>3, Registered DEF Poll, Registers, ControlBit, ghost
    <3>2. ~Started(dma, bits)
      BY <3>1 DEF Started, Running
    <3>3. /\ dma'.control = bits /\ dma'.status = dma.status
          /\ dma'.pointer = dma.pointer /\ dma'.fetched = dma.fetched
          /\ dma'.current = dma.current /\ (dma'.ended <=> dma.ended /\ "RUN" \in bits)
          /\ (dma'.more <=> dma.more /\ Kept(dma, bits)) /\ dma'.next = dma.next
          /\ dma'.more \in BOOLEAN
      BY <3>1, <3>2, Registered, ControlFields DEF Registers
    <3>4. CoreLeft /\ Sound(dma'.pointer)
      BY <3>3 DEF CoreLeft, Steady, ControllerOK
    <3>5. Framed
      <4>1. CASE "RUN" \in bits
        <5>1. CoreSame /\ (Running(dma) => Running(dma'))
          BY <3>1, <3>3, <3>4, <4>1, Registered DEF CoreSame, Kept, Running, Registers
        <5> QED  BY <1>2, <3>1, <3>4, <5>1 DEF Framed
      <4>2. CASE "RUN" \notin bits
        BY <1>2, <3>1, <3>4, <4>2 DEF Framed, Steady, PromiseOK, Running
      <4> QED  BY <4>1, <4>2
    <3> QED  BY <3>5, Frame
  <2> QED  BY <2>1, <2>2, <2>3
<1>5. \A b \in Context \ {"main"} : call'[b] = call[b]
  BY <1>1
<1> QED  BY <1>1, <1>3, <1>4, <1>5, DriverStep

LEMMA InitControlSteady ==
  ASSUME Basic, Steady, InitControl
  PROVE  Steady'
<1>1. /\ "main" \in Context /\ Active("main") /\ call["main"].at = "init_control"
      /\ Return("main") /\ dma' = ClearStatus(WriteControl(dma, {}))
      /\ UNCHANGED <<mem, dev, ghost>>
  BY DEF InitControl, At, Context
<1>2. /\ call'["main"].at \in {"idle", "leave"}
      /\ \A b \in Context \ {"main"} : call'[b] = call[b]
  BY <1>1, Returned
<1>3. "RUN" \notin dma.control /\ promised = {}
  <2>1. "RUN" \notin dma.control
    BY <1>1 DEF Steady, TransferOK, TransferAt
  <2> QED  BY <2>1 DEF Steady, PromiseOK, Running
<1>4. CoreLeft /\ dma'.pointer = dma.pointer
  <2> DEFINE w == WriteControl(dma, {})
  <2>1. ~Started(dma, {})
    BY DEF Started
  <2>2. /\ w \in Registers /\ w.control = {} /\ w.pointer = dma.pointer
        /\ w.fetched = dma.fetched /\ w.current = dma.current
        /\ (w.more => dma.more) /\ w.next = dma.next
    BY <2>1, Registered, ControlFields
  <2> HIDE DEF w
  <2>3. dma' = ClearStatus(w)
    BY <1>1 DEF w
  <2>4. /\ dma'.pointer = w.pointer /\ dma'.fetched = w.fetched
        /\ dma'.current = w.current /\ dma'.more = w.more /\ dma'.next = w.next
    BY <2>2, <2>3, StatusFields
  <2> QED  BY <2>2, <2>4 DEF CoreLeft
<1>5. Framed
  <2>1. Sound(dma'.pointer)
    BY <1>4 DEF Steady, ControllerOK
  <2> QED  BY <1>1, <1>3, <1>4, <2>1 DEF Framed, DescsSame, ghost
<1>6. /\ BuiltOK' /\ ChainOK' /\ ControllerOK' /\ PromiseOK'
  BY <1>5, Frame
<1>7. BuildingAt("main")' /\ TransferAt("main")' /\ SyncOK'
  BY <1>1, <1>2, NotElsewhere, Elsewhere DEF SyncOK
<1> QED  BY <1>1, <1>2, <1>6, <1>7, DriverStep

LEMMA ClientSteady ==
  ASSUME Basic, Steady, ClientConstruct \/ ClientTransfer
  PROVE  Steady'
<1>1. /\ "main" \in Context /\ Active("main") /\ call["main"].at = "idle"
      /\ UNCHANGED <<dma, mem, dev, ghost>>
  BY DEF ClientConstruct, ClientTransfer, At, Context
<1>2. Untouched
  BY <1>1 DEF Untouched, DescsSame, CoreLeft, CoreSame, ghost
<1>3. /\ BuiltOK' /\ ChainOK' /\ ControllerOK' /\ PromiseOK'
      /\ \A x : Sound(x)' <=> Sound(x)
      /\ \A d : InHand(d)' <=> InHand(d)
  BY <1>2, UntouchedFramed, Frame
<1>4. UNCHANGED <<mem, jobs, chain, built, promised>>
  BY <1>1 DEF ghost
<1>5. call \in [Context -> Calls]
  BY DEF Basic, CallsOK
<1>6. CASE ClientConstruct
  <2>1. PICK d \in Descs, n \in Descs :
          /\ MayBuild(d, n)
          /\ call' = [call EXCEPT !["main"] = [at |-> "clear_next", desc |-> d, next |-> n]]
    BY <1>6 DEF ClientConstruct
  <2>2. /\ call'["main"].at = "clear_next" /\ call'["main"].desc = d
        /\ call'["main"].next = n /\ \A b \in Context \ {"main"} : call'[b] = call[b]
    <3> HIDE DEF Calls
    <3> QED  BY <1>1, <1>5, <2>1
  <2>3. BuildingAt("main")'
    BY <1>4, <2>1, <2>2 DEF BuildingAt, MayBuild
  <2>4. TransferAt("main")' /\ SyncOK'
    BY <2>2, NotElsewhere DEF TransferAt, Transfer, SyncOK, Building, Starting, Stopping,
       Pointing, Releasing
  <2> QED  BY <1>1, <1>3, <2>2, <2>3, <2>4, DriverStep
<1>7. CASE ClientTransfer
  <2>1. /\ chain # <<>> /\ ~Polling /\ ~InFlight(Head(chain))
        /\ \E routine \in Starting :
             call' = [call EXCEPT !["main"] =
                        [at |-> routine, desc |-> Head(chain), next |-> NoDesc]]
    BY <1>7 DEF ClientTransfer, Starting
  <2>2. /\ call'["main"].at \in Starting /\ call'["main"].desc = Head(chain)
        /\ \A b \in Context \ {"main"} : call'[b] = call[b]
    <3> HIDE DEF Calls, Starting
    <3> QED  BY <1>1, <1>5, <2>1
  <2>3. Head(chain) \in Descs /\ Sound(Head(chain))
    <3>1. chain \in Seq(Descs) /\ 1 \in DOMAIN chain /\ Head(chain) = chain[1]
      BY <2>1, Words
    <3> QED  BY <3>1 DEF Steady, ChainOK, BuiltOK, Sound
  <2>4. ~InHand(Head(chain))
    BY <2>1 DEF InFlight, InHand
  <2>5. TransferAt("main")'
    <3>1. Sound(call["main"].desc)' /\ ~Polling' /\ AtHead("main")'
      BY <1>1, <1>4, <2>1, <2>2, <2>3 DEF Sound, Polling, AtHead
    <3>2. ~InHand(call["main"].desc)'
      BY <1>1, <2>2, <2>4, Zenon DEF InHand
    <3>3. \A w \in Starting : w \notin Stopping \cup Pointing \cup Releasing
                                      \cup {"sync_status", "init_control"}
      BY DEF Starting, Stopping, Pointing, Releasing
    <3> QED  BY <2>2, <2>3, <3>1, <3>2, <3>3 DEF TransferAt
  <2>6. BuildingAt("main")' /\ SyncOK'
    BY <2>2 DEF BuildingAt, Building, Starting, SyncOK
  <2> QED  BY <1>1, <1>3, <2>2, <2>5, <2>6, DriverStep
<1> QED  BY <1>6, <1>7

LEMMA IsrSteady ==
  ASSUME Basic, Steady, Interrupt \/ Isr \/ RegisterCallback
  PROVE  Steady'
<1>1. "main" \in Context /\ "isr" \in Context /\ Context = {"main", "isr"}
      /\ call \in [Context -> Calls]
  BY DEF Context, Basic, CallsOK
<1>2. call'["main"] = call["main"]
  <2> HIDE DEF Calls
  <2> QED  BY <1>1 DEF Interrupt, Isr, IsrClear, Callback, IsrReturn, RegisterCallback, Go, Return
<1>3. Untouched
  <2>1. CASE dma' = dma
    BY <2>1 DEF Interrupt, Isr, IsrClear, Callback, IsrReturn, RegisterCallback, ghost,
       Untouched, DescsSame, CoreLeft, CoreSame
  <2>2. CASE dma' = ClearInterrupt(dma)
    <3>1. /\ dma'.control = dma.control /\ dma'.status = dma.status
          /\ dma'.pointer = dma.pointer /\ dma'.next = dma.next /\ (dma'.more => dma.more)
          /\ dma'.fetched = dma.fetched /\ dma'.current = dma.current
          /\ (dma'.ended => dma.ended)
          /\ "RUN" \in dma.control => (dma'.more <=> dma.more) /\ (dma'.ended <=> dma.ended)
          /\ dma \in Registers /\ dma' \in Registers
      BY <2>2, Registered, InterruptFields DEF Kept
    <3>2. "RUN" \in dma.control => CoreSame /\ dma'.ended = dma.ended
      BY <3>1, Zenon DEF CoreLeft, CoreSame, Registers
    <3> QED  BY <3>1, <3>2 DEF Interrupt, Isr, IsrClear, Callback, IsrReturn, RegisterCallback, ghost,
             Untouched, DescsSame, CoreLeft
  <2> QED  BY <2>1, <2>2 DEF Interrupt, Isr, IsrClear, Callback, IsrReturn, RegisterCallback,
           AroundCallback
<1>4. /\ BuiltOK' /\ ChainOK' /\ ControllerOK' /\ PromiseOK'
  BY <1>3, UntouchedFramed, Frame
<1>5. BuildingAt("main")' /\ TransferAt("main")'
  BY <1>1, <1>2, <1>3, UntouchedContext
<1>6. BuildingAt("isr")' /\ TransferAt("isr")'
  <2>1. CASE RegisterCallback
    <3>1. call'["isr"] = call["isr"]
      BY <2>1 DEF RegisterCallback
    <3> QED  BY <1>1, <1>3, <3>1, UntouchedContext
  <2>2. CASE call'["isr"].at \in {"idle", "leave", "callback", "clear"}
    BY <1>1, <2>2, NotElsewhere, Elsewhere
  <2>3. CASE \E d \in Descs, n \in Descs :
               /\ MayBuild(d, n) /\ chain = <<>> /\ ~Polling
               /\ call' = [call EXCEPT !["isr"] = [at |-> "clear_next", desc |-> d, next |-> n]]
    <3>1. PICK d \in Descs, n \in Descs :
            /\ MayBuild(d, n) /\ chain = <<>> /\ ~Polling
            /\ call' = [call EXCEPT !["isr"] = [at |-> "clear_next", desc |-> d, next |-> n]]
      BY <2>3
    <3>2. /\ call'["isr"].at = "clear_next" /\ call'["isr"].desc = d /\ call'["isr"].next = n
      <4> HIDE DEF Calls
      <4> QED  BY <1>1, <3>1
    <3>3. UNCHANGED <<mem, jobs, built, chain>> /\ ~Polling'
      BY <1>3, <3>1 DEF Untouched, DescsSame, Polling
    <3>4. BuildingAt("isr")'
      BY <3>1, <3>2, <3>3 DEF BuildingAt, MayBuild
    <3>5. TransferAt("isr")'
      BY <3>2 DEF TransferAt, Transfer, Starting, Stopping, Pointing, Releasing
    <3> QED  BY <3>4, <3>5
  <2>4. CASE Interrupt \/ IsrClear \/ IsrReturn
    <3>1. Idle.at = "idle"
      BY DEF Idle
    <3>2. call'["isr"].at \in {"idle", "leave", "callback", "clear"}
      <4> HIDE DEF Calls
      <4>1. CASE IsrReturn
        BY <1>1, <3>1, <4>1 DEF IsrReturn
      <4>2. CASE Interrupt \/ IsrClear
        <5>1. \E w \in {"leave", "callback", "clear"} : call' = [call EXCEPT !["isr"].at = w]
          BY <4>2 DEF Interrupt, IsrClear, Go
        <5> QED  BY <1>1, <5>1, Went
      <4> QED  BY <2>4, <4>1, <4>2
    <3> QED  BY <1>1, <3>2, NotElsewhere, Elsewhere
  <2>5. CASE Callback /\ Return("isr")
    <3>1. call'["isr"].at \in {"idle", "leave"}
      BY <1>1, <2>5, Returned
    <3> QED  BY <1>1, <3>1, NotElsewhere, Elsewhere
  <2>6. CASE Callback /\ ~Return("isr")
    BY <2>3, <2>6 DEF Callback
  <2> QED  BY <2>1, <2>4, <2>5, <2>6 DEF Isr
<1>7. SyncOK'
  BY <1>2, <1>3, Zenon DEF Untouched, DescsSame, Steady, SyncOK
<1> QED  BY <1>1, <1>4, <1>5, <1>6, <1>7, Zenon DEF Steady, BuildingOK, TransferOK

-----------------------------------------------------------------------------
(* Constructing a descriptor: neither it nor the next one is built, so     *)
(* nothing that is built changes under the two first stores.               *)
Memories == [Descs -> [owned : BOOLEAN, job : Job, next : Descs \cup {NoDesc},
                       status : {"none", "ok", "error"}]]

(* A step that changes descriptors only where none is built.               *)
Unbuilt ==
  /\ UNCHANGED <<dma, jobs, chain, built, promised>>
  /\ \A e \in Descs : built[e] # 0 => mem'[e] = mem[e]
  /\ \A e \in Descs : built[e] = 0 /\ mem'[e].owned => mem[e].owned

LEMMA UnbuiltFrame ==
  ASSUME Basic, Steady, Unbuilt
  PROVE  /\ BuiltOK' /\ ChainOK' /\ ControllerOK' /\ PromiseOK'
<1>1. ASSUME NEW n \in Descs \cup {NoDesc}, Sound(n)
      PROVE  Sound(n)'
  BY <1>1 DEF Unbuilt, Sound
<1>2. BuiltOK'
  <2>1. ASSUME NEW e \in Descs, built[e] # 0
        PROVE  mem'[e] = mem[e] /\ Sound(mem[e].next)' /\ mem[e].next \in Descs
    <3>1. /\ mem'[e] = mem[e] /\ mem[e].next \in Descs /\ Sound(mem[e].next)
      BY <2>1 DEF Unbuilt, Steady, BuiltOK
    <3>2. PICK n \in Descs : n = mem[e].next
      BY <3>1
    <3>3. Sound(n)'
      BY <1>1, <3>1, <3>2
    <3> QED  BY <3>1, <3>2, <3>3 DEF Sound
  <2> QED  BY <2>1 DEF Unbuilt, Steady, BuiltOK
<1>3. ChainOK'
  <2>1. \A i \in DOMAIN chain : chain[i] \in Descs /\ mem'[chain[i]] = mem[chain[i]]
    BY Words DEF Unbuilt, Steady, ChainOK
  <2> QED  BY <2>1 DEF Unbuilt, Steady, ChainOK
<1>4. ControllerOK'
  <2>1. Sound(dma.next)' /\ Sound(dma.pointer)'
    <3>1. /\ dma.next \in Descs \cup {NoDesc} /\ dma.pointer \in Descs \cup {NoDesc}
          /\ Sound(dma.next) /\ Sound(dma.pointer) /\ dma' = dma
      BY Registered DEF Registers, Steady, ControllerOK, Unbuilt
    <3> QED  BY <3>1 DEF Unbuilt, Sound
  <2>2. ASSUME NEW f \in {dma.current, dma.fetched} \ {None}
        PROVE  f.job # 0 /\ built[f.desc] = f.job /\ f.next = mem'[f.desc].next
    <3>1. f.desc \in Descs
      BY Registered DEF Registers, Fetched
    <3> QED  BY <3>1 DEF Unbuilt, Steady, ControllerOK
  <2> QED  BY <2>1, <2>2, Zenon DEF Unbuilt, Steady, ControllerOK
<1>5. PromiseOK'
  <2>1. Due' = Due /\ \A e \in Due : mem'[e] = mem[e]
    BY SetsComing DEF Unbuilt, Due
  <2>2. \A d : InHand(d)' <=> InHand(d)
    BY Zenon DEF Unbuilt, InHand
  <2>3. Coming(Due)'
    <3>1. Coming(Due) /\ dma' = dma
      BY DEF Steady, PromiseOK, Unbuilt
    <3> QED  BY <2>1, <2>2, <3>1 DEF Coming
  <2> QED  BY <2>3, Zenon DEF Unbuilt, Steady, PromiseOK
<1> QED  BY <1>2, <1>3, <1>4, <1>5

LEMMA StoreSteady ==
  ASSUME Basic, Steady, NEW c \in Context, ConstructClearNext(c) \/ ConstructFill(c)
  PROVE  Steady'
<1> DEFINE d == call[c].desc
           n == call[c].next
<1>1. PICK w \in {"fill", "own"} :
         /\ Active(c) /\ call[c].at \in Building /\ call' = [call EXCEPT ![c].at = w]
         /\ UNCHANGED <<dma, dev, ghost>>
         /\ \/ w = "fill" /\ mem' = [mem EXCEPT ![n].owned = FALSE]
            \/ w = "own" /\ call[c].at = "fill" /\ mem' = [mem EXCEPT ![d] = Fill(mem[d], c)]
  BY DEF ConstructClearNext, ConstructFill, At, Go, Building, Stores
<1>2. /\ call'[c].at = w /\ call'[c].desc = d /\ call'[c].next = n
      /\ \A b \in Context \ {c} : call'[b] = call[b]
  BY <1>1, Went
<1>3. /\ d \in Descs /\ n \in Descs /\ d # n /\ built[d] = 0 /\ built[n] = 0
      /\ jobs < MaxJobs /\ (call[c].at = "fill" => ~mem[n].owned)
      /\ (c = "isr" => chain = <<>> /\ ~Polling)
  BY <1>1, Zenon DEF Steady, BuildingOK, BuildingAt
<1>4. mem \in Memories
  BY DEF Basic, TypesOK, TypeOK, Memories
<1>5. /\ \A e \in Descs \ {d, n} : mem'[e] = mem[e]
      /\ mem'[d].owned = mem[d].owned /\ ~mem'[n].owned
      /\ w = "own" => mem'[d].job = jobs + 1 /\ mem'[d].next = n
  <2>1. CASE w = "fill"
    <3>1. mem' = [mem EXCEPT ![n] = [mem[n] EXCEPT !.owned = FALSE]]
      BY <1>1, <2>1
    <3>2. ~[mem[n] EXCEPT !.owned = FALSE].owned
      <4>1. mem[n] \in [owned : BOOLEAN, job : Job, next : Descs \cup {NoDesc},
                       status : {"none", "ok", "error"}]
        BY <1>3, <1>4 DEF Memories
      <4> HIDE DEF n
      <4> QED  BY <4>1, Zenon
    <3> DEFINE word == [mem[n] EXCEPT !.owned = FALSE]
    <3> HIDE DEF d, n, word
    <3>3. mem' = [mem EXCEPT ![n] = word] /\ ~word.owned
      BY <3>1, <3>2 DEF word
    <3>4. \A e \in Descs : mem'[e] = IF e = n THEN word ELSE mem[e]
      BY <1>4, <3>3, Zenon DEF Memories
    <3> QED  BY <1>3, <2>1, <3>3, <3>4
  <2>2. CASE w = "own"
    <3> DEFINE word == Fill(mem[d], c)
    <3>1. word.owned = mem[d].owned /\ word.job = jobs + 1 /\ word.next = n
      <4>1. mem[d] \in [owned : BOOLEAN, job : Job, next : Descs \cup {NoDesc},
                       status : {"none", "ok", "error"}]
        BY <1>3, <1>4 DEF Memories
      <4> HIDE DEF d
      <4> QED  BY <4>1, Zenon DEF Fill
    <3>2. mem' = [mem EXCEPT ![d] = word] /\ ~mem[n].owned
      BY <1>1, <1>3, <2>2
    <3> HIDE DEF d, n, word
    <3>3. \A e \in Descs : mem'[e] = IF e = d THEN word ELSE mem[e]
      BY <1>4, <3>2, Zenon DEF Memories
    <3> QED  BY <1>3, <3>1, <3>2, <3>3
  <2> QED  BY <2>1, <2>2
<1>6. Unbuilt
  <2>1. UNCHANGED <<dma, jobs, chain, built, promised>>
    BY <1>1 DEF ghost
  <2> HIDE DEF d, n
  <2> QED  BY <1>3, <1>5, <2>1 DEF Unbuilt
<1>7. /\ BuiltOK' /\ ChainOK' /\ ControllerOK' /\ PromiseOK'
  BY <1>6, UnbuiltFrame
<1>8. BuildingAt(c)'
  <2>1. UNCHANGED <<dma, jobs, chain, built>>
    BY <1>1 DEF ghost
  <2>2. Polling' <=> Polling
    BY <2>1 DEF Polling
  <2> QED  BY <1>2, <1>3, <1>5, <2>1, <2>2 DEF BuildingAt
<1>9. TransferAt(c)' /\ (c = "main" => SyncOK')
  BY <1>2 DEF TransferAt, Transfer, SyncOK, Starting, Stopping, Pointing, Releasing
<1> QED  BY <1>1, <1>2, <1>7, <1>8, <1>9, DriverStep

(* Handing the descriptor over: the last store, which makes it built.      *)
LEMMA OwnSteady ==
  ASSUME Basic, Steady, NEW c \in Context, ConstructOwn(c)
  PROVE  Steady'
<1> DEFINE d == call[c].desc
           n == call[c].next
<1>1. /\ Active(c) /\ call[c].at = "own" /\ call[c].at \in Building
      /\ mem' = [mem EXCEPT ![d] = Own(mem[d])]
      /\ jobs' = jobs + 1 /\ built' = [built EXCEPT ![d] = jobs + 1]
      /\ chain' = IF Linked(d) THEN Append(chain, d) ELSE <<d>>
      /\ UNCHANGED <<dma, dev, done, owed, seen, promised>>
  BY DEF ConstructOwn, At, Building, Stores
<1>2. /\ d \in Descs /\ n \in Descs /\ d # n /\ built[d] = 0 /\ built[n] = 0
      /\ jobs < MaxJobs /\ ~mem[n].owned /\ mem[d].job = jobs + 1 /\ mem[d].next = n
      /\ (c = "isr" => chain = <<>> /\ ~Polling)
  BY <1>1, Zenon DEF Steady, BuildingOK, BuildingAt
<1>3. /\ \A e \in Descs \ {d} : mem'[e] = mem[e] /\ built'[e] = built[e]
      /\ mem'[d].owned /\ mem'[d].job = jobs + 1 /\ mem'[d].next = n
      /\ built'[d] = jobs + 1 /\ jobs \in Nat /\ jobs + 1 # 0
  <2>1. mem \in Memories /\ built \in [Descs -> Job] /\ jobs \in Nat
    BY Words DEF Basic, TypesOK, TypeOK, Memories
  <2> DEFINE word == Own(mem[d])
  <2>2. word.owned /\ word.job = mem[d].job /\ word.next = mem[d].next
    <3>1. mem[d] \in [owned : BOOLEAN, job : Job, next : Descs \cup {NoDesc},
                       status : {"none", "ok", "error"}]
      BY <1>2, <2>1 DEF Memories
    <3> HIDE DEF d
    <3> QED  BY <3>1, Zenon DEF Own
  <2> HIDE DEF d, n, word
  <2>3. \A e \in Descs : mem'[e] = IF e = d THEN word ELSE mem[e]
    BY <1>1, <2>1, Zenon DEF Memories, word
  <2>4. \A e \in Descs : built'[e] = IF e = d THEN jobs + 1 ELSE built[e]
    BY <1>1, <2>1, Zenon
  <2> QED  BY <1>2, <2>1, <2>2, <2>3, <2>4
<1>4. \A e \in Descs : mem'[e].next = mem[e].next
  BY <1>2, <1>3
<1>5. ASSUME NEW x \in Descs \cup {NoDesc}, Sound(x)
      PROVE  Sound(x)'
  <2>1. CASE x = NoDesc
    BY <2>1 DEF Sound
  <2>2. CASE x = d /\ x # NoDesc
    BY <1>3, <2>2 DEF Sound
  <2>3. CASE x # d /\ x \in Descs
    BY <1>3, <1>5, <2>3 DEF Sound
  <2> QED  BY <2>1, <2>2, <2>3
<1> HIDE DEF d, n
<1>6. BuiltOK'
  <2>1. \A e \in Descs : built[e] # 0 => built[e] <= jobs /\ built[e] \in Nat
    BY Words DEF Steady, BuiltOK
  <2>2. ASSUME NEW e \in Descs, built'[e] # 0
        PROVE  /\ mem'[e].owned /\ mem'[e].job = built'[e] /\ built'[e] <= jobs'
               /\ mem'[e].next \in Descs /\ Sound(mem[e].next)'
               /\ built'[mem'[e].next] # 0 => built'[e] < built'[mem'[e].next]
    <3>1. CASE e = d
      <4>1. Sound(mem[e].next)'
        BY <1>2, <1>3, <3>1 DEF Sound
      <4> QED  BY <1>1, <1>2, <1>3, <3>1, <4>1
    <3>2. CASE e # d
      <4>1. /\ mem'[e] = mem[e] /\ built'[e] = built[e] /\ built[e] # 0
        BY <1>3, <2>2, <3>2
      <4>2. /\ mem[e].owned /\ mem[e].job = built[e] /\ built[e] <= jobs
            /\ mem[e].next \in Descs /\ Sound(mem[e].next)
            /\ built[mem[e].next] # 0 => built[e] < built[mem[e].next]
        BY <4>1 DEF Steady, BuiltOK
      <4>3. PICK x \in Descs : x = mem[e].next /\ Sound(x)
        BY <4>2
      <4>4. Sound(x)'
        BY <1>5, <4>3
      <4>5. Sound(mem[e].next)'
        BY <4>1, <4>3, <4>4 DEF Sound
      <4>6. built'[x] # 0 => built'[e] < built'[x]
        BY <1>3, <2>1, <4>1, <4>2, <4>3
      <4> QED  BY <1>1, <1>3, <2>1, <4>1, <4>2, <4>3, <4>5, <4>6
    <3> QED  BY <3>1, <3>2
  <2>3. \A e, f \in Descs : built'[e] # 0 /\ built'[e] = built'[f] => e = f
    <3>1. \A e \in Descs \ {d} : built'[e] = built[e] /\ built[e] # jobs + 1
      BY <1>3, <2>1
    <3>2. \A e, f \in Descs : built[e] # 0 /\ built[e] = built[f] => e = f
      BY DEF Steady, BuiltOK
    <3> QED  BY <1>3, <3>1, <3>2
  <2> QED  BY <2>2, <2>3, Zenon DEF BuiltOK
<1>7. ControllerOK'
  <2>1. Sound(dma.next)' /\ Sound(dma.pointer)'
    <3>1. PICK x \in Descs \cup {NoDesc}, y \in Descs \cup {NoDesc} :
             x = dma.next /\ y = dma.pointer /\ Sound(x) /\ Sound(y)
      BY Registered DEF Registers, Steady, ControllerOK
    <3>2. Sound(x)' /\ Sound(y)'
      BY <1>5, <3>1
    <3> QED  BY <1>1, <3>1, <3>2 DEF Sound
  <2>2. ASSUME NEW f \in {dma.current, dma.fetched} \ {None}
        PROVE  f.job # 0 /\ built'[f.desc] = f.job /\ f.next = mem'[f.desc].next
    <3>1. f.desc \in Descs
      BY Registered DEF Registers, Fetched
    <3>2. f.job # 0 /\ built[f.desc] = f.job /\ f.next = mem[f.desc].next
      BY DEF Steady, ControllerOK
    <3> QED  BY <1>2, <1>3, <3>1, <3>2
  <2> QED  BY <1>1, <2>1, <2>2, Zenon DEF Steady, ControllerOK
<1>8. \A e \in Descs : built[e] # 0 => e # d /\ built[e] < jobs + 1
  BY <1>2, <1>3, Words DEF Steady, BuiltOK
<1>9. ChainOK'
  <2>1. chain \in Seq(Descs)
    BY Words
  <2>2. CASE Linked(d)
    <3>1. /\ chain' = Append(chain, d) /\ chain # <<>> /\ mem[chain[Len(chain)]].next = d
      BY <1>1, <2>2 DEF Linked
    <3>2. /\ Len(chain) \in Nat /\ Len(chain) > 0 /\ DOMAIN chain = 1 .. Len(chain)
          /\ DOMAIN chain' = 1 .. Len(chain) + 1 /\ chain'[Len(chain) + 1] = d
          /\ \A i \in DOMAIN chain : chain'[i] = chain[i]
      BY <1>2, <2>1, <3>1
    <3>3. \A i \in DOMAIN chain : /\ chain'[i] = chain[i] /\ chain[i] \in Descs \ {d}
                                  /\ built'[chain'[i]] = built[chain[i]]
                                  /\ built[chain[i]] # 0 /\ built[chain[i]] < jobs + 1
                                  /\ mem'[chain'[i]].next = mem[chain[i]].next
      BY <1>3, <1>8, <2>1, <3>2 DEF Steady, ChainOK
    <3>4. ASSUME NEW i \in DOMAIN chain' PROVE i \in DOMAIN chain \/ i = Len(chain) + 1
      BY <3>2
    <3>5. \A i \in DOMAIN chain' : built'[chain'[i]] # 0
      BY <1>3, <3>2, <3>3, <3>4
    <3>6. \A i \in DOMAIN chain' : i + 1 \in DOMAIN chain'
                                     => mem'[chain'[i]].next = chain'[i + 1]
      <4> TAKE i \in DOMAIN chain'
      <4> HAVE i + 1 \in DOMAIN chain'
      <4>1. i \in DOMAIN chain
        BY <3>2
      <4>2. CASE i + 1 \in DOMAIN chain
        BY <3>2, <3>3, <4>1, <4>2 DEF Steady, ChainOK
      <4>3. CASE i + 1 \notin DOMAIN chain
        <5>1. i = Len(chain)
          BY <3>2, <4>1, <4>3
        <5> QED  BY <3>1, <3>2, <3>3, <4>1, <5>1
      <4> QED  BY <4>2, <4>3
    <3>7. \A i, m \in DOMAIN chain' : i < m => built'[chain'[i]] < built'[chain'[m]]
      <4> TAKE i, m \in DOMAIN chain'
      <4> HAVE i < m
      <4>1. i \in DOMAIN chain
        BY <3>2
      <4>2. CASE m \in DOMAIN chain
        BY <3>3, <4>1, <4>2 DEF Steady, ChainOK
      <4>3. CASE m = Len(chain) + 1
        BY <1>3, <3>2, <3>3, <4>1, <4>3
      <4> QED  BY <3>4, <4>2, <4>3
    <3> QED  BY <3>5, <3>6, <3>7 DEF ChainOK
  <2>3. CASE ~Linked(d)
    <3>1. chain' = <<d>>
      BY <1>1, <2>3
    <3>2. DOMAIN chain' = {1} /\ chain'[1] = d
      BY <3>1
    <3> QED  BY <1>3, <3>2 DEF ChainOK
  <2> QED  BY <2>2, <2>3
<1>10. PromiseOK'
  <2>1. jobs + 1 \notin promised /\ 0 \notin promised
    BY <1>3, <1>8 DEF Steady, PromiseOK
  <2>2. Due' = Due
    BY <1>1, <1>2, <1>3, <2>1 DEF Due
  <2>3. \A x : InHand(x)' <=> InHand(x)
    BY <1>1, Zenon DEF InHand
  <2>4. Coming(Due)'
    <3>1. Coming(Due) /\ dma' = dma
      BY <1>1 DEF Steady, PromiseOK
    <3>2. \A e \in Due : mem'[e].next = mem[e].next
      BY <1>4 DEF Due
    <3> QED  BY <2>2, <2>3, <3>1, <3>2 DEF Coming
  <2>5. \A i \in promised' : \E e \in Descs : built'[e] = i
    <3>1. \A i \in promised : \E e \in Descs \ {d} : built[e] = i
      BY <1>2, <2>1 DEF Steady, PromiseOK
    <3> QED  BY <1>1, <1>3, <3>1
  <2> QED  BY <1>1, <2>1, <2>4, <2>5, Zenon DEF Steady, PromiseOK
<1>11. /\ \A b \in Context \ {c} : call'[b] = call[b]
       /\ BuildingAt(c)' /\ TransferAt(c)' /\ (c = "main" => SyncOK')
  <2>1. CASE c = "main"
    <3>1. Return(c)
      BY <2>1 DEF ConstructOwn, Return
    <3>2. /\ call'[c].at \in {"idle", "leave"}
          /\ \A b \in Context \ {c} : call'[b] = call[b]
      BY <3>1, Returned
    <3> QED  BY <2>1, <3>2, NotElsewhere, Elsewhere DEF SyncOK
  <2>2. CASE c = "isr"
    <3>1. call' = [call EXCEPT ![c].at = "async"]
      BY <2>2 DEF ConstructOwn
    <3>2. /\ call'[c].at = "async" /\ call'[c].desc = d
          /\ \A b \in Context \ {c} : call'[b] = call[b]
      BY <3>1, Went DEF d
    <3>3. chain = <<>> /\ ~Polling
      BY <1>2, <2>2
    <3>4. chain' = <<d>>
      BY <1>1, <3>3 DEF Linked
    <3>5. Sound(call[c].desc)' /\ AtHead(c)' /\ ~Polling'
      BY <1>1, <1>3, <3>2, <3>3, <3>4 DEF Sound, AtHead, Polling
    <3>6. ~InHand(call[c].desc)'
      <4>1. ~InHand(d)
        BY <1>2 DEF InHand, Steady, ControllerOK
      <4> QED  BY <1>1, <3>2, <4>1, Zenon DEF InHand
    <3>7. TransferAt(c)'
      <4>1. "async" \notin Stopping \cup Pointing \cup Releasing
        BY DEF Stopping, Pointing, Releasing
      <4> QED  BY <1>2, <3>2, <3>5, <3>6, <4>1 DEF TransferAt
    <3>8. BuildingAt(c)'
      BY <3>2 DEF BuildingAt, Building
    <3> QED  BY <2>2, <3>2, <3>7, <3>8
  <2> QED  BY <2>1, <2>2 DEF Context
<1> QED  BY <1>1, <1>6, <1>7, <1>9, <1>10, <1>11, DriverStep

(* After the reset nothing is built and the controller does nothing.       *)
LEMMA ResetSteady ==
  ASSUME Basic, FreshOK, InitReset
  PROVE  Steady'
<1>1. /\ "main" \in Context /\ Active("main")
      /\ call' = [call EXCEPT !["main"].at = "init_control"]
      /\ UNCHANGED <<mem, dev, ghost>>
  BY DEF InitReset, At, Go, Context
<1>2. /\ call'["main"].at = "init_control"
      /\ \A b \in Context \ {"main"} : call'[b] = call[b]
  BY <1>1, Went
<1>3. call'["isr"] = Idle
  BY <1>1, <1>2 DEF Active, Context
<1>4. /\ dma'.control = {} /\ dma'.next = NoDesc /\ dma'.pointer = NoDesc
      /\ dma'.fetched = None /\ dma'.current = None
  <2>1. dma' = [Quiet EXCEPT !.control = {}]
    BY DEF InitReset
  <2> QED  BY <2>1, Zenon DEF Quiet
<1>5. FreshOK'
  BY <1>1 DEF FreshOK, ghost
<1>6. BuiltOK' /\ ChainOK' /\ SyncOK'
  BY <1>2, <1>5 DEF FreshOK, BuiltOK, ChainOK, SyncOK
<1>7. ControllerOK'
  BY <1>4 DEF ControllerOK, Sound
<1>8. PromiseOK'
  BY <1>5 DEF FreshOK, PromiseOK, Due, Coming
<1>9. BuildingAt("main")' /\ TransferAt("main")'
  BY <1>2, <1>4 DEF BuildingAt, TransferAt, Building, Transfer, Starting, Stopping, Pointing, Releasing
<1>10. \A b \in Context : BuildingAt(b)' /\ TransferAt(b)'
  BY <1>3, <1>9, IdleIsFine DEF Context
<1> QED  BY <1>6, <1>7, <1>8, <1>10, Zenon DEF Steady, BuildingOK, TransferOK

(* Before the reset the driver has built nothing.                          *)
LEMMA FreshStep ==
  ASSUME Basic, Fresh, FreshOK, [Next]_vars
  PROVE  IF Fresh' THEN FreshOK' ELSE Steady'
<1>1. CASE InitReset
  <2>1. ~Fresh'
    <3>1. "main" \in Context /\ call' = [call EXCEPT !["main"].at = "init_control"]
      BY <1>1 DEF InitReset, Go, Context
    <3>2. call'["main"].at = "init_control"
      BY <3>1, Went
    <3> QED  BY <3>2 DEF Fresh
  <2> QED  BY <1>1, <2>1, ResetSteady
<1>2. CASE Complete
  <2>1. /\ call' = call /\ jobs' = jobs /\ promised' \subseteq promised
        /\ chain' = Without(dma.current.desc) /\ built' = [built EXCEPT ![dma.current.desc] = 0]
    BY <1>2 DEF Complete
  <2>2. chain' = <<>>
    <3>1. chain = <<>> /\ DOMAIN chain = {}
      BY DEF FreshOK
    <3> QED  BY <2>1, <3>1 DEF Without
  <2>3. \A d \in Descs : built'[d] = 0
    <3>1. built \in [Descs -> Job]
      BY DEF Basic, TypesOK, TypeOK
    <3> QED  BY <2>1, <3>1 DEF FreshOK
  <2> QED  BY <2>1, <2>2, <2>3 DEF Fresh, FreshOK
<1>3. CASE ~InitReset /\ ~Complete
  <2>1. call["isr"].at \in {"idle", "clear", "leave"} /\ call["main"].at = "init"
    BY DEF Fresh, Basic, CallsOK, Booting
  <2>2. UNCHANGED <<jobs, chain, built, promised>>
    BY <1>3, <2>1 DEF Next, Controller, Fetch, Begin, EndChain, Repoll, InitControl, Context,
       Driver, Construct, ConstructClearNext, ConstructFill, ConstructOwn, Async, AsyncTest,
       TransferStop, TransferPoint, AsyncRun, Sync, SyncWait, SyncRun, SyncReturn, Stop, Start,
       Poll, Interrupt, Isr, IsrClear, Callback, IsrReturn, ClientConstruct, ClientTransfer,
       RegisterCallback, At, Idle, ghost, vars
  <2>3. call'["main"] = call["main"]
    <3>1. call \in [Context -> Calls] /\ "main" \in Context /\ "isr" \in Context
      BY DEF Basic, CallsOK, Context
    <3>2. call' = call \/ (\E w : call' = [call EXCEPT !["isr"] = w])
      BY <1>3, <2>1 DEF Next, Controller, Fetch, Begin, EndChain, Repoll, InitControl, Context,
         Driver, Construct, ConstructClearNext, ConstructFill, ConstructOwn, Async, AsyncTest,
         TransferStop, TransferPoint, AsyncRun, Sync, SyncWait, SyncRun, SyncReturn, Stop, Start,
         Poll, Interrupt, Isr, IsrClear, Callback, IsrReturn, ClientConstruct, ClientTransfer,
         RegisterCallback, At, Idle, ghost, vars, Go, Return
    <3> HIDE DEF Calls
    <3> QED  BY <3>1, <3>2, Zenon
  <2> QED  BY <2>2, <2>3 DEF Fresh, FreshOK
<1> QED  BY <1>1, <1>2, <1>3

LEMMA SteadyStep ==
  ASSUME Basic, ~Fresh, Steady, [Next]_vars
  PROVE  Steady'
<1>1. CASE Controller
  BY <1>1, FetchSteady, BeginSteady, CompleteSteady, EndChainSteady, RepollSteady
  DEF Controller
<1>2. CASE InitReset
  BY <1>2 DEF InitReset, At, Fresh
<1>3. CASE InitControl
  BY <1>3, InitControlSteady
<1>4. ASSUME NEW c \in Context, Driver(c)
      PROVE  Steady'
  BY <1>4, StoreSteady, OwnSteady, TestSteady, StopSteady, PointSteady, RunSteady
  DEF Driver, Construct, Async
<1>5. CASE Sync
  <2>1. "main" \in Context
    BY DEF Context
  <2> QED
    BY <1>5, <2>1, TestSteady, StopSteady, PointSteady, RunSteady, WaitSteady DEF Sync
<1>6. CASE Stop \/ Start \/ Poll
  BY <1>6, CommandSteady
<1>7. CASE Interrupt \/ Isr \/ RegisterCallback
  BY <1>7, IsrSteady
<1>8. CASE ClientConstruct \/ ClientTransfer
  BY <1>8, ClientSteady
<1>9. CASE UNCHANGED vars
  <2>1. Untouched /\ call' = call
    BY <1>9 DEF vars, Untouched, DescsSame, CoreLeft, CoreSame
  <2>2. /\ BuiltOK' /\ ChainOK' /\ ControllerOK' /\ PromiseOK'
    BY <2>1, UntouchedFramed, Frame
  <2>3. \A c \in Context : BuildingAt(c)' /\ TransferAt(c)'
    BY <2>1, UntouchedContext
  <2>4. SyncOK'
    BY <2>1, Zenon DEF Untouched, DescsSame, Steady, SyncOK
  <2> QED  BY <2>2, <2>3, <2>4, Zenon DEF Steady, BuildingOK, TransferOK
<1> QED  BY <1>1, <1>2, <1>3, <1>4, <1>5, <1>6, <1>7, <1>8, <1>9, Zenon DEF Next

(* Once out of the reset no context goes back to it.                       *)
LEMMA NeverFreshAgain ==
  ASSUME Basic, ~Fresh, [Next]_vars
  PROVE  ~Fresh'
<1> USE DEF Fresh
<1>1. call \in [Context -> Calls] /\ "main" \in Context /\ Idle.at = "idle"
      /\ [Idle EXCEPT !.at = "leave"].at = "leave"
  BY Zenon DEF Basic, CallsOK, Context, Idle
<1>2. \/ call' = call
      \/ \E c \in Context, w \in Places \ {"init"} : call' = [call EXCEPT ![c].at = w]
      \/ \E c \in Context, x \in {Idle, [Idle EXCEPT !.at = "leave"]} : call' = [call EXCEPT ![c] = x]
      \/ \E c \in Context, w \in {"clear_next", "async", "sync"}, d \in Descs,
            n \in Descs \cup {NoDesc} : call' = [call EXCEPT ![c] = [at |-> w, desc |-> d, next |-> n]]
  <2>1. CASE Controller \/ Stop \/ Start \/ Poll \/ RegisterCallback \/ UNCHANGED vars
    BY <2>1 DEF Controller, Fetch, Begin, Complete, EndChain, Repoll, Stop, Start, Poll,
       RegisterCallback, vars
  <2>2. CASE InitReset \/ InitControl
    BY <1>1, <2>2 DEF InitReset, InitControl, Go, Return, At, Places
  <2>3. ASSUME NEW c \in Context, Driver(c) \/ (c = "main" /\ Sync)
        PROVE  \/ \E w \in Places \ {"init"} : call' = [call EXCEPT ![c].at = w]
               \/ \E x \in {Idle, [Idle EXCEPT !.at = "leave"]} : call' = [call EXCEPT ![c] = x]
    <3>1. \/ Return(c) \/ call' = [call EXCEPT ![c] = Idle]
          \/ \E w \in {"fill", "own", "async", "async_stop", "async_point", "async_run", "sync_stop",
                       "sync_point", "sync_run", "sync_wait", "sync_clear", "sync_status"} :
               call' = [call EXCEPT ![c].at = w]
      BY <2>3 DEF Driver, Construct, ConstructClearNext, ConstructFill, ConstructOwn, Async,
         AsyncTest, TransferStop, TransferPoint, AsyncRun, Sync, SyncWait, SyncRun, SyncReturn, Go
    <3>2. {"fill", "own", "async", "async_stop", "async_point", "async_run", "sync_stop",
           "sync_point", "sync_run", "sync_wait", "sync_clear", "sync_status"} \subseteq Places \ {"init"}
      BY DEF Places, Building, Transfer, Starting, Stopping, Pointing, Releasing, Ending
    <3>3. Return(c) => \E x \in {Idle, [Idle EXCEPT !.at = "leave"]} : call' = [call EXCEPT ![c] = x]
      BY DEF Return
    <3> QED  BY <3>1, <3>2, <3>3
  <2>4. CASE Interrupt \/ IsrClear \/ IsrReturn
    BY <2>4 DEF Interrupt, IsrClear, IsrReturn, Go, Context, Places
  <2>5. CASE Callback
    <3>1. CASE Return("isr")
      BY <3>1 DEF Return, Context
    <3>2. CASE ~Return("isr")
      BY <2>5, <3>2 DEF Callback, Context
    <3> QED  BY <3>1, <3>2
  <2>6. CASE ClientConstruct
    BY <1>1, <2>6 DEF ClientConstruct
  <2>7. CASE ClientTransfer
    <3>1. Head(chain) \in Descs
      BY <2>7, Words DEF ClientTransfer
    <3>2. PICK routine \in {"async", "sync"} :
            call' = [call EXCEPT !["main"] =
                       [at |-> routine, desc |-> Head(chain), next |-> NoDesc]]
      BY <2>7, Zenon DEF ClientTransfer
    <3>3. routine \in {"clear_next", "async", "sync"} /\ NoDesc \in Descs \cup {NoDesc}
      OBVIOUS
    <3> QED  BY <1>1, <3>1, <3>2, <3>3, Zenon
  <2> QED  BY <1>1, <2>1, <2>2, <2>3, <2>4, <2>5, <2>6, <2>7, Zenon DEF Next, Isr
<1> HIDE DEF Calls
<1>3. CASE call' = call
  BY <1>3
<1>4. ASSUME NEW c \in Context, NEW w \in Places \ {"init"}, call' = [call EXCEPT ![c].at = w]
      PROVE  ~Fresh'
  <2>1. call'["main"].at = IF c = "main" THEN w ELSE call["main"].at
    BY <1>1, <1>4, Went
  <2> QED  BY <2>1
<1>5. ASSUME NEW c \in Context, NEW x, x.at # "init", call' = [call EXCEPT ![c] = x]
      PROVE  ~Fresh'
  <2>1. call'["main"] = IF c = "main" THEN x ELSE call["main"]
    BY <1>1, <1>5, Zenon
  <2> QED  BY <1>5, <2>1
<1>6. \A x \in {Idle, [Idle EXCEPT !.at = "leave"]} : x.at # "init"
  BY <1>1
<1>7. \A w \in {"clear_next", "async", "sync"}, d \in Descs, n \in Descs \cup {NoDesc} :
        [at |-> w, desc |-> d, next |-> n].at # "init"
  OBVIOUS
<1> QED  BY <1>2, <1>3, <1>4, <1>5, <1>6, <1>7

LEMMA SgdmaInit == Init => SgdmaInv
<1> SUFFICES ASSUME Init PROVE SgdmaInv
  OBVIOUS
<1>1. call["main"].at = "init" /\ call["isr"] = Idle /\ call \in [Context -> Calls]
  <2> DEFINE first == [Idle EXCEPT !.at = "init"]
  <2>1. first \in Calls /\ first.at = "init" /\ Idle \in Calls
    BY Zenon DEF Calls, Idle, Places
  <2> HIDE DEF first, Calls
  <2>2. call = [main |-> first, isr |-> Idle]
    BY DEF Init, first
  <2> QED  BY <2>1, <2>2 DEF Context
<1>2. dma \in Registers
  <2>1. PICK d \in Descs, running \in BOOLEAN :
      dma = IF running
         THEN [Quiet EXCEPT !.control = {"RUN"}, !.pointer = d, !.next = d,
                            !.more = TRUE]
         ELSE Quiet
    BY DEF Init
  <2>2. Quiet \in Registers
    BY Zenon DEF Quiet, Registers
  <2>3. CASE running
    <3> DEFINE bits == {"RUN"}
    <3>1. bits \in SUBSET ControlBit
      BY DEF ControlBit
    <3> HIDE DEF bits
    <3>2. dma = [Quiet EXCEPT !.control = bits, !.pointer = d, !.next = d, !.more = TRUE]
      BY <2>1, <2>3, Zenon DEF bits
    <3> QED  BY <2>2, <3>1, <3>2, Zenon DEF Registers
  <2> QED  BY <2>1, <2>2, <2>3
<1>3. TypesOK
  <2>1. 0 \in Job
    BY SgdmaAssumption DEF Job
  <2>2. mem \in Memories
    BY <2>1, Zenon DEF Init, Memories
  <2>3. dev \in [callback : BOOLEAN, chain_control : SUBSET ControlBit]
    BY Zenon DEF Init
  <2>4. built \in [Descs -> Job] /\ jobs \in Job /\ chain \in Seq(Descs)
        /\ done = {} /\ owed = {} /\ seen = {} /\ promised = {}
    BY <2>1 DEF Init
  <2> QED  BY <1>2, <2>2, <2>3, <2>4, Zenon DEF TypesOK, TypeOK, Registers, Memories
<1>4. CallsOK
  BY <1>1 DEF CallsOK, Booting, Context, Idle, Building, Transfer, Ending, Starting, Stopping,
     Pointing, Releasing
<1>5. CompletionOK
  <2>1. ~dev.callback
    BY Zenon DEF Init
  <2> QED  BY <2>1 DEF Init, CompletionOK, NoLostCompletion
<1>6. FreshOK /\ Fresh
  BY <1>1 DEF Init, FreshOK, Fresh
<1> QED  BY <1>3, <1>4, <1>5, <1>6 DEF SgdmaInv

LEMMA SgdmaStep == SgdmaInv /\ [Next]_vars => SgdmaInv'
<1> SUFFICES ASSUME SgdmaInv, [Next]_vars PROVE SgdmaInv'
  OBVIOUS
<1>1. Basic
  BY DEF SgdmaInv, Basic
<1>2. ~Fresh => Steady
  BY DEF SgdmaInv
<1>3. Fresh => FreshOK
  BY DEF SgdmaInv
<1>4. Basic'
  BY <1>1, <1>2, BasicStep DEF Steady
<1>5. CASE Fresh
  BY <1>1, <1>3, <1>4, <1>5, FreshStep, Zenon DEF SgdmaInv, Basic
<1>6. CASE ~Fresh
  BY <1>1, <1>2, <1>4, <1>6, SteadyStep, NeverFreshAgain, Zenon DEF SgdmaInv, Basic
<1> QED  BY <1>5, <1>6

LEMMA SgdmaAlways == Spec => []SgdmaInv
BY SgdmaInit, SgdmaStep, PTL DEF Spec

-----------------------------------------------------------------------------
(* The results.                                                            *)

(* The controller only ever works on completely built descriptors: the     *)
(* order of the stores in construct_descriptor_burst, the clearing of the  *)
(* next one and the busy test of a transfer are enough, however the        *)
(* controller's reads fall between them.                                   *)
THEOREM WorksOnBuilt == Spec => []OnlyBuilt
<1>1. SgdmaInv => OnlyBuilt
  <2> SUFFICES ASSUME SgdmaInv PROVE OnlyBuilt
    OBVIOUS
  <2>1. TypeOK
    BY DEF SgdmaInv, TypesOK
  <2>2. ASSUME ~Booting
        PROVE  \A f \in {dma.fetched, dma.current} \ {None} :
                 f.job # 0 /\ built[f.desc] = f.job
    BY <2>2 DEF Booting, SgdmaInv, Fresh, Steady, ControllerOK
  <2> QED  BY <2>1, <2>2 DEF OnlyBuilt
<1> QED  BY <1>1, SgdmaAlways, PTL

(* No completion is missed: alt_avalon_sgdma_irq clears the request before *)
(* it calls the callback, so a descriptor that completes in between raises *)
(* it again.                                                               *)
THEOREM CompletionsAreSeen == Spec => []NoLostCompletion
<1>1. SgdmaInv => NoLostCompletion
  BY DEF SgdmaInv, CompletionOK
<1> QED  BY <1>1, SgdmaAlways, PTL

(* A transfer that was accepted is worked on until it is done, fails or is *)
(* stopped: the controller never stops short of a descriptor of its chain. *)
THEOREM TransfersAreCarriedOut == Spec => []NoTransferForgotten
<1>1. SgdmaInv => NoTransferForgotten
  <2>1. ASSUME SgdmaInv, Fresh PROVE NoTransferForgotten
    BY <2>1 DEF SgdmaInv, FreshOK, NoTransferForgotten
  <2>2. ASSUME SgdmaInv, ~Fresh PROVE NoTransferForgotten
    BY <2>2, NothingDue DEF SgdmaInv, Basic, NoTransferForgotten
  <2> QED  BY <2>1, <2>2
<1> QED  BY <1>1, SgdmaAlways, PTL

(* alt_avalon_sgdma_do_sync_transfer returns with the chain done, or with  *)
(* an error in the status it returns.                                      *)
THEOREM SyncReturnsDone == Spec => SyncIsComplete
<1>1. SgdmaInv /\ [Next]_vars => [SyncReturn => chain = <<>> \/ "ERROR" \in dma.status]_vars
  <2> SUFFICES ASSUME SgdmaInv, SyncReturn
               PROVE  chain = <<>> \/ "ERROR" \in dma.status
    OBVIOUS
  <2>1. call["main"].at = "sync_status" /\ ~Fresh
    BY DEF SyncReturn, At, Fresh
  <2> QED  BY <2>1 DEF SgdmaInv, Steady, SyncOK
<1> QED  BY <1>1, SgdmaAlways, PTL DEF Spec, SyncIsComplete
=============================================================================
