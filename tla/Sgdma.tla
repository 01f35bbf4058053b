------------------------------- MODULE Sgdma -------------------------------
(***************************************************************************)
(* The scatter-gather DMA driver (altera_avalon_sgdma.c) between a client  *)
(* and its controller.  The client builds a chain of descriptors and has   *)
(* it carried out by alt_avalon_sgdma_do_async_transfer or _do_sync_       *)
(* transfer; the controller fetches and completes descriptors on its own   *)
(* and interrupts; the interrupt handler calls the client's callback,      *)
(* which may build and start the next transfer, as the web server's does.  *)
(*                                                                         *)
(* Every access of the driver to a register or to a descriptor that the    *)
(* controller can notice is one step, so the controller and the interrupt  *)
(* handler come between any two of them.                                   *)
(*                                                                         *)
(* Abstractions.  What a descriptor asks for (addresses, length, burst and *)
(* address modes) is one job number; 0 is whatever the memory held before. *)
(* The controller follows the generated core ethernet_sys_sgdma_0.v.  It   *)
(* reads a descriptor's eight words in one step: the burst is shorter than *)
(* the time between two stores of the tiny core.  The cores generated for  *)
(* this board never report an error; the driver looks for one, so here the *)
(* last descriptor of a chain may end in one.                              *)
(***************************************************************************)
EXTENDS Integers, Sequences

CONSTANTS
  Descs,     \* the descriptors in descriptor memory
  NoDesc,    \* no descriptor: a register or a next field never set
  MaxJobs    \* how many descriptors the client builds

ASSUME SgdmaAssumption ==
  /\ NoDesc \notin Descs
  /\ MaxJobs \in Nat

VARIABLES
  dma,     \* the controller's registers and what it has in flight
  mem,     \* the descriptors in memory
  dev,     \* the driver's struct alt_sgdma_dev: callback, chain_control
  call,    \* where each context is inside a driver routine
  jobs,    \* jobs given out so far
  chain,   \* the latest chain: its descriptors not yet completed, in order
  built,   \* job of each completely built descriptor, 0 if none
  done,    \* jobs the controller has completed
  owed,    \* of these, those completed with the interrupt enabled
  seen,    \* jobs the callback has found completed
  promised \* jobs of the accepted transfers that are still to be done

vars == <<dma, mem, dev, call, jobs, chain, built, done, owed, seen, promised>>
ghost == <<jobs, chain, built, done, owed, seen, promised>>

Job == 0 .. MaxJobs
Context == {"main", "isr"}
ControlBit == {"IE_GLOBAL", "IE_DESC_COMPLETED", "RUN", "STOP_DMA_ER",
               "DESC_POLL_EN"}
StatusBit == {"ERROR", "DESC_COMPLETED", "CHAIN_COMPLETED"}
Fetched == [desc : Descs, job : Job, next : Descs \cup {NoDesc}]
None == [desc |-> NoDesc, job |-> 0, next |-> NoDesc]

-----------------------------------------------------------------------------
(* The controller.                                                         *)

(* Its internal run signal: the RUN bit, unless it has stopped on an error *)
(* or reached the end of the chain since RUN was last written as 0.        *)
Running(d) ==
  "RUN" \in d.control /\ ~d.ended
  /\ ~("STOP_DMA_ER" \in d.control /\ "ERROR" \in d.status)

Busy(d) == d.more \/ d.fetched # None \/ d.current # None

(* A register write that makes run rise starts at the pointer register.    *)
Written(old, new) ==
  IF ~Running(old) /\ Running(new)
    THEN [new EXCEPT !.more = TRUE, !.next = new.pointer] ELSE new

(* Clearing RUN forgets the end of the chain, and with polling enabled     *)
(* also the descriptor that would be read next.                            *)
WriteControl(d, bits) ==
  Written(d, [d EXCEPT !.control = bits,
                       !.ended = d.ended /\ "RUN" \in bits,
                       !.more = d.more /\ ("RUN" \in bits
                                           \/ "DESC_POLL_EN" \notin d.control)])
ClearStatus(d) == Written(d, [d EXCEPT !.status = {}])
WritePointer(d, p) == [d EXCEPT !.pointer = p]
ClearInterrupt(d) == [WriteControl(d, d.control) EXCEPT !.irq = FALSE]

Quiet == [control |-> {}, status |-> {}, pointer |-> NoDesc, next |-> NoDesc,
          more |-> FALSE, fetched |-> None, current |-> None,
          ended |-> FALSE, irq |-> FALSE]

(* Read the next descriptor, ahead of completing the current one.  With    *)
(* polling enabled the pointer register keeps the address that was read.   *)
PointerAfter(d) == IF "DESC_POLL_EN" \in dma.control THEN d ELSE dma.pointer

Fetch ==
  /\ dma.more /\ Running(dma) /\ dma.fetched = None
  /\ LET d == dma.next IN
       dma' = IF d # NoDesc /\ mem[d].owned
         THEN [dma EXCEPT !.next = mem[d].next, !.pointer = PointerAfter(d),
                 !.fetched = [desc |-> d, job |-> mem[d].job,
                              next |-> mem[d].next]]
         ELSE [dma EXCEPT !.more = FALSE, !.pointer = PointerAfter(d)]
  /\ UNCHANGED <<mem, dev, call, ghost>>

Begin ==
  /\ dma.current = None /\ dma.fetched # None
  /\ dma' = [dma EXCEPT !.current = dma.fetched, !.fetched = None]
  /\ UNCHANGED <<mem, dev, call, ghost>>

(* What a transfer from the head of the chain would still carry out once d *)
(* is done: the rest if d is the head, and if d was reached by another way *)
(* only what comes before it.                                              *)
Without(d) ==
  IF chain # <<>> /\ Head(chain) = d THEN Tail(chain)
  ELSE IF \E k \in DOMAIN chain : chain[k] = d
    THEN SubSeq(chain, 1, (CHOOSE k \in DOMAIN chain : chain[k] = d) - 1)
  ELSE chain

(* Write back status and ownership, and interrupt if that is enabled.  The *)
(* next descriptor has been read by then.                                  *)
Complete ==
  /\ dma.current # None
  /\ ~dma.more \/ dma.fetched # None \/ ~Running(dma)
  /\ \E result \in {"ok", "error"} :
       LET d == dma.current.desc
           interrupts == {"IE_GLOBAL", "IE_DESC_COMPLETED"} \subseteq dma.control
                         /\ Running(dma)
       IN
       /\ result = "error" => dma.fetched = None /\ ~dma.more
       /\ mem' = [mem EXCEPT ![d].owned = FALSE, ![d].status = result]
       /\ dma' = [dma EXCEPT
            !.current = None,
            !.irq = dma.irq \/ interrupts,
            !.status = dma.status \cup {"DESC_COMPLETED"} \cup
                       (IF result = "error" THEN {"ERROR"} ELSE {})]
       /\ done' = done \cup {dma.current.job}
       /\ owed' = IF interrupts THEN owed \cup {dma.current.job} ELSE owed
       /\ chain' = Without(d)
       /\ built' = [built EXCEPT ![d] = 0]
       /\ promised' = IF result = "error" THEN {}
                      ELSE promised \ {dma.current.job}
  /\ UNCHANGED <<dev, call, jobs, seen>>

EndChain ==
  /\ Running(dma) /\ ~Busy(dma)
  /\ dma' = [dma EXCEPT !.ended = TRUE,
                        !.status = dma.status \cup {"CHAIN_COMPLETED"}]
  /\ UNCHANGED <<mem, dev, call, ghost>>

(* Polling: the controller starts again where its pointer register points, *)
(* at the descriptor that stopped it if it was polling by then.            *)
Repoll ==
  /\ "RUN" \in dma.control /\ "DESC_POLL_EN" \in dma.control
  /\ dma.ended /\ ~Busy(dma)
  /\ dma' = Written(dma, [dma EXCEPT !.ended = FALSE,
                                     !.status = @ \ {"CHAIN_COMPLETED"}])
  /\ UNCHANGED <<mem, dev, call, ghost>>

Controller == Fetch \/ Begin \/ Complete \/ EndChain \/ Repoll

-----------------------------------------------------------------------------
(* The driver.  call[c] says which step context c takes next.              *)

Idle == [at |-> "idle", desc |-> NoDesc, next |-> NoDesc]
Active(c) == c = "isr" \/ call["isr"] = Idle
At(c, where) == Active(c) /\ call[c].at = where
Go(c, where) == call' = [call EXCEPT ![c].at = where]
Return(c) ==
  call' = [call EXCEPT ![c] = IF c = "isr" THEN [Idle EXCEPT !.at = "leave"]
                                           ELSE Idle]

(* alt_avalon_sgdma_check_descriptor_status                                *)
CheckStatus(m) ==
  IF m.status = "error" THEN "EIO" ELSE IF m.owned THEN "EINPROGRESS" ELSE "0"

(* alt_avalon_sgdma_init: whatever the controller was doing, two writes of *)
(* SOFTWARERESET, then control and status cleared.                         *)
InitReset ==
  /\ At("main", "init") /\ Go("main", "init_control")
  /\ dma' = [Quiet EXCEPT !.control = {}]
  /\ UNCHANGED <<mem, dev, ghost>>

InitControl ==
  /\ At("main", "init_control") /\ Return("main")
  /\ dma' = ClearStatus(WriteControl(dma, {}))
  /\ UNCHANGED <<mem, dev, ghost>>

(* alt_avalon_sgdma_register_callback, with the interrupt enables that the *)
(* web server registers (0x14).  Whoever changes the callback looks at     *)
(* what has completed so far.                                              *)
RegisterCallback ==
  /\ At("main", "idle")
  /\ \E on \in BOOLEAN :
       dev' = [callback |-> on,
               chain_control |-> IF on THEN {"IE_GLOBAL", "IE_DESC_COMPLETED"}
                                 ELSE {}]
  /\ seen' = done
  /\ UNCHANGED <<dma, mem, call, jobs, chain, built, done, owed, promised>>

(* alt_avalon_sgdma_construct_descriptor_burst, which all the construction *)
(* routines call: take `next' from the hardware, fill the fields in, hand  *)
(* the descriptor over.                                                    *)
ConstructClearNext(c) ==
  /\ At(c, "clear_next") /\ Go(c, "fill")
  /\ mem' = [mem EXCEPT ![call[c].next].owned = FALSE]
  /\ UNCHANGED <<dma, dev, ghost>>

Fill(m, c) ==
  [m EXCEPT !.job = jobs + 1, !.next = call[c].next, !.status = "none"]
Own(m) == [m EXCEPT !.owned = TRUE]
StoresSwapped(m, c) == <<Own(m), Fill(m, c)>>
Stores(m, c) == <<Fill(m, c), Own(m)>>

ConstructFill(c) ==
  /\ At(c, "fill") /\ Go(c, "own")
  /\ mem' = [mem EXCEPT ![call[c].desc] = Stores(@, c)[1]]
  /\ UNCHANGED <<dma, dev, ghost>>

Linked(d) == chain # <<>> /\ mem[chain[Len(chain)]].next = d

ConstructOwn(c) ==
  LET d == call[c].desc IN
  /\ At(c, "own")
  /\ mem' = [mem EXCEPT ![d] = Stores(@, c)[2]]
  /\ jobs' = jobs + 1
  /\ built' = [built EXCEPT ![d] = jobs + 1]
  /\ chain' = IF Linked(d) THEN Append(chain, d) ELSE <<d>>
  /\ call' = IF c = "isr" THEN [call EXCEPT ![c].at = "async"]
                          ELSE [call EXCEPT ![c] = Idle]
  /\ UNCHANGED <<dma, dev, done, owed, seen, promised>>

(* alt_avalon_sgdma_do_async_transfer: give up if busy, otherwise clear    *)
(* RUN, clear the status, set the pointer, and write the control bits.     *)
AsyncTest(c) ==
  /\ At(c, "async")
  /\ IF Busy(dma) THEN Return(c) ELSE Go(c, "async_stop")
  /\ UNCHANGED <<dma, mem, dev, ghost>>

LeaveRun(d) == d
ClearRun(d) == WriteControl(d, d.control \ {"RUN"})

TransferStop(c, from, to) ==
  /\ At(c, from) /\ Go(c, to)
  /\ dma' = ClearRun(dma)
  /\ UNCHANGED <<mem, dev, ghost>>

TransferPoint(c, from, to) ==
  /\ At(c, from) /\ Go(c, to)
  /\ dma' = WritePointer(ClearStatus(dma), call[c].desc)
  /\ UNCHANGED <<mem, dev, ghost>>

AsyncControl ==
  IF dev.callback
    THEN dma.control \cup dev.chain_control \cup {"RUN", "STOP_DMA_ER"}
    ELSE (dma.control \cup {"RUN", "STOP_DMA_ER"}) \ {"IE_GLOBAL"}

(* A transfer was not refused: what its chain holds by now is to be done.  *)
Accept ==
  /\ promised' = {built[chain[i]] : i \in DOMAIN chain}
  /\ UNCHANGED <<mem, dev, jobs, chain, built, done, owed, seen>>

AsyncRun(c) ==
  /\ At(c, "async_run") /\ Return(c)
  /\ dma' = WriteControl(dma, AsyncControl)
  /\ Accept

Async(c) ==
  \/ AsyncTest(c)
  \/ TransferStop(c, "async_stop", "async_point")
  \/ TransferPoint(c, "async_point", "async_run")
  \/ AsyncRun(c)

(* alt_avalon_sgdma_do_sync_transfer: wait until the controller is idle,   *)
(* the same writes, wait again, clear RUN, read and clear the status.      *)
SyncWaitNot(from, to) ==
  /\ At("main", from) /\ Go("main", to)
  /\ UNCHANGED <<dma, mem, dev, ghost>>
SyncWait(from, to) ==
  /\ At("main", from) /\ ~Busy(dma) /\ Go("main", to)
  /\ UNCHANGED <<dma, mem, dev, ghost>>

SyncRun ==
  /\ At("main", "sync_run") /\ Go("main", "sync_wait")
  /\ dma' = WriteControl(dma, dma.control \cup {"RUN", "STOP_DMA_ER"})
  /\ Accept

SyncReturn ==
  /\ At("main", "sync_status") /\ Return("main")
  /\ dma' = ClearStatus(dma)
  /\ UNCHANGED <<mem, dev, ghost>>

Sync ==
  \/ SyncWait("sync", "sync_stop")
  \/ TransferStop("main", "sync_stop", "sync_point")
  \/ TransferPoint("main", "sync_point", "sync_run")
  \/ SyncRun
  \/ SyncWait("sync_wait", "sync_clear")
  \/ TransferStop("main", "sync_clear", "sync_status")
  \/ SyncReturn

(* alt_avalon_sgdma_stop and _start; the client waits for the descriptor   *)
(* in progress before it starts again.                                     *)
Stop ==
  /\ At("main", "idle")
  /\ dma' = ClearRun(dma)
  /\ promised' = {}
  /\ UNCHANGED <<mem, dev, call, jobs, chain, built, done, owed, seen>>

Start ==
  /\ At("main", "idle")
  /\ dma.current = None /\ dma.fetched = None
  /\ dma' = WriteControl(dma, dma.control \cup {"RUN"})
  /\ UNCHANGED <<mem, dev, call, ghost>>

(* alt_avalon_sgdma_enable_desc_poll and _disable_desc_poll                *)
Poll ==
  /\ At("main", "idle")
  /\ \E bits \in {dma.control \cup {"DESC_POLL_EN"},
                  dma.control \ {"DESC_POLL_EN"}} :
       dma' = WriteControl(dma, bits)
  /\ UNCHANGED <<mem, dev, call, ghost>>

(* alt_avalon_sgdma_irq: clear the request, then call the callback with    *)
(* interrupts disabled.                                                    *)
Interrupt ==
  /\ dma.irq /\ call["isr"] = Idle
  /\ Go("isr", "clear")
  /\ UNCHANGED <<dma, mem, dev, ghost>>

(* The controller before and after the callback is called.                 *)
ClearAfterCallback == <<dma, ClearInterrupt(dma)>>
AroundCallback == <<ClearInterrupt(dma), dma>>

IsrClear ==
  /\ At("isr", "clear")
  /\ Go("isr", IF dev.callback THEN "callback" ELSE "leave")
  /\ dma' = AroundCallback[1]
  /\ UNCHANGED <<mem, dev, ghost>>

IsrReturn ==
  /\ At("isr", "leave")
  /\ dma' = AroundCallback[2]
  /\ call' = [call EXCEPT !["isr"] = Idle]
  /\ UNCHANGED <<mem, dev, ghost>>

-----------------------------------------------------------------------------
(* The client.  It builds a chain from free descriptors, first to last, or *)
(* begins another while one is being carried out, and has the latest chain *)
(* carried out unless the controller already is at it.  It does not        *)
(* touch the controller from the callback while the main program is inside *)
(* a driver routine.  Once the controller polls, the client only appends:  *)
(* the busy test of a transfer says nothing of a controller that may pick  *)
(* up the next descriptor by itself.                                       *)
Polling == {"RUN", "DESC_POLL_EN"} \subseteq dma.control

Free(d) == built[d] = 0 /\ CheckStatus(mem[d]) # "EINPROGRESS"
MayBuild(d, n) == d # n /\ built[d] = 0 /\ built[n] = 0 /\ jobs < MaxJobs
InFlight(d) == \/ d \in {dma.current.desc, dma.fetched.desc}
               \/ dma.more /\ dma.next = d

ClientConstruct ==
  /\ At("main", "idle")
  /\ \E d \in Descs, n \in Descs :
       /\ MayBuild(d, n)
       /\ call' = [call EXCEPT !["main"] =
                     [at |-> "clear_next", desc |-> d, next |-> n]]
  /\ UNCHANGED <<dma, mem, dev, ghost>>

ClientTransfer ==
  /\ At("main", "idle") /\ chain # <<>> /\ ~Polling
  /\ ~InFlight(Head(chain))
  /\ \E routine \in {"async", "sync"} :
       call' = [call EXCEPT !["main"] =
                  [at |-> routine, desc |-> Head(chain), next |-> NoDesc]]
  /\ UNCHANGED <<dma, mem, dev, ghost>>

Callback ==
  /\ At("isr", "callback")
  /\ seen' = done
  /\ \/ Return("isr")
     \/ /\ call["main"] = Idle /\ chain = <<>> /\ ~Polling
        /\ \E d \in Descs, n \in Descs :
             /\ MayBuild(d, n) /\ Free(d)
             /\ call' = [call EXCEPT !["isr"] =
                           [at |-> "clear_next", desc |-> d, next |-> n]]
  /\ UNCHANGED <<dma, mem, dev, jobs, chain, built, done, owed, promised>>

Construct(c) == ConstructClearNext(c) \/ ConstructFill(c) \/ ConstructOwn(c)
Isr == IsrClear \/ Callback \/ IsrReturn
Driver(c) == Construct(c) \/ Async(c)

Init ==
  /\ mem \in [Descs -> [owned : BOOLEAN, job : {0}, next : {NoDesc},
                        status : {"none"}]]
  /\ \E d \in Descs, running \in BOOLEAN :
       dma = IF running
         THEN [Quiet EXCEPT !.control = {"RUN"}, !.pointer = d, !.next = d,
                            !.more = TRUE]
         ELSE Quiet
  /\ dev = [callback |-> FALSE, chain_control |-> {}]
  /\ call = [main |-> [Idle EXCEPT !.at = "init"], isr |-> Idle]
  /\ jobs = 0 /\ chain = <<>> /\ built = [d \in Descs |-> 0]
  /\ done = {} /\ owed = {} /\ seen = {} /\ promised = {}

Booting == call["main"].at \in {"init", "init_control"}

Next ==
  \/ Controller
  \/ InitReset \/ InitControl
  \/ \E c \in Context : Driver(c)
  \/ Sync \/ Stop \/ Start \/ Poll
  \/ Interrupt \/ Isr
  \/ ClientConstruct \/ ClientTransfer \/ RegisterCallback

Spec == Init /\ [][Next]_vars

-----------------------------------------------------------------------------
(* Registers, descriptors and calls have their types.                      *)
TypeOK ==
  /\ dma \in [control : SUBSET ControlBit, status : SUBSET StatusBit,
              pointer : Descs \cup {NoDesc}, next : Descs \cup {NoDesc},
              more : BOOLEAN, fetched : Fetched \cup {None},
              current : Fetched \cup {None}, ended : BOOLEAN, irq : BOOLEAN]
  /\ mem \in [Descs -> [owned : BOOLEAN, job : Job,
                        next : Descs \cup {NoDesc},
                        status : {"none", "ok", "error"}]]
  /\ jobs \in Job /\ built \in [Descs -> Job]
  /\ done \subseteq Job /\ owed \subseteq Job /\ seen \subseteq Job
  /\ promised \subseteq Job

(* The controller only ever works on descriptors that were completely      *)
(* built: never on one whose fields are still being written, nor on one    *)
(* that memory happened to mark as its own.                                *)
OnlyBuilt ==
  /\ TypeOK
  /\ Booting \/ \A f \in {dma.fetched, dma.current} \ {None} :
                  f.job # 0 /\ built[f.desc] = f.job

(* No completion is missed: a job that completed with its interrupt        *)
(* enabled and that the callback has not looked at still has the request   *)
(* pending, or the handler on its way to the callback.                     *)
NoLostCompletion ==
  dev.callback /\ ~(owed \subseteq seen)
    => dma.irq \/ call["isr"].at \in {"clear", "callback"}

(* A blocking transfer returns only when every job of the chain is done or *)
(* the status that it returns reports an error.                            *)
SyncIsComplete ==
  [][SyncReturn => chain = <<>> \/ "ERROR" \in dma.status]_vars

(* No transfer is forgotten: what the chain of an accepted transfer held   *)
(* is worked on until it is done, an error stops it or the client does.    *)
NoTransferForgotten == promised # {} => Busy(dma)
=============================================================================
