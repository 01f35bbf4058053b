------------------------------ MODULE FrameDma ------------------------------
(***************************************************************************)
(* How frames travel between the MAC and the web server: the one receive   *)
(* buffer rx_frame and the one transmit buffer tx_frame of tcp_socket.c,   *)
(* the descriptor and controller of each direction, and the receive and    *)
(* timer handlers that fill, send and re-arm them.                         *)
(*                                                                         *)
(* What the handlers decide (TcpConn) is here only whether they send a     *)
(* packet.  A buffer is two halves, each holding the number of the frame   *)
(* written there last, so that processor and DMA can meet half way.  A     *)
(* controller (the generated cores ethernet_sys_sgdma_0.v for transmission *)
(* and ethernet_sys_sgdma_1.v for reception) is the single-descriptor case *)
(* of module Sgdma: working, then ending (the descriptor is written back   *)
(* and the interrupt raised, but BUSY is still set), then idle.  These     *)
(* cores never report an error: their status words are constant zero.      *)
(***************************************************************************)
EXTENDS Integers, Sequences

CONSTANTS
  FrameMax,    \* frames that arrive
  FifoMax,     \* frames the MAC's receive FIFO holds
  TickMax,     \* timer interrupts
  IdleInTime   \* does a controller go idle before the program tests BUSY?

ASSUME FrameDmaAssumption ==
  /\ FrameMax \in Nat /\ FifoMax \in Nat \ {0} /\ TickMax \in Nat
  /\ IdleInTime \in BOOLEAN

VARIABLES
  fifo,      \* the MAC's receive FIFO: frame numbers
  arrived,   \* frames that have arrived
  rx, tx,    \* descriptor and controller of each direction
  rx_frame,  \* the receive buffer
  tx_frame,  \* the transmit buffer
  reading,   \* what the transmit DMA has read of the first half
  irq,       \* interrupt request of the receive controller
  cpu,       \* which context runs, and where it is
  ticks,     \* timer interrupts so far
  sent,      \* calls of send_packet that have returned
  wire,      \* the frames sent, halves as read
  handled    \* the frame the receive handler looked at last

frameVars == <<fifo, arrived, rx, tx, rx_frame, tx_frame, reading, irq, cpu,
          ticks, sent, wire, handled>>
frameHardware == <<fifo, arrived, rx_frame, reading, irq, wire>>

SentMax == FrameMax + TickMax
Channel == [owned : BOOLEAN, status : {"ok", "error"},
            engine : {"idle", "working", "half", "ending"}]
Place == {"construct", "start", "idle", "handle", "compose", "compose_rest",
          "send_wait", "send_construct", "send_start", "rx_wait",
          "rx_construct", "rx_start", "done"}

-----------------------------------------------------------------------------
(* The hardware.                                                           *)

(* A frame arrives; the MAC drops it when its FIFO is full.                *)
Arrive ==
  /\ arrived < FrameMax
  /\ arrived' = arrived + 1
  /\ fifo' = IF Len(fifo) < FifoMax THEN Append(fifo, arrived + 1) ELSE fifo
  /\ UNCHANGED <<rx, tx, rx_frame, tx_frame, reading, irq, cpu, ticks, sent,
                 wire, handled>>

RxFirst ==
  /\ rx.engine = "working" /\ fifo # <<>>
  /\ rx' = [rx EXCEPT !.engine = "half"]
  /\ rx_frame' = <<Head(fifo), rx_frame[2]>>
  /\ UNCHANGED <<fifo, arrived, tx, tx_frame, reading, irq, cpu, ticks, sent,
                 wire, handled>>

RxRest ==
  /\ rx.engine = "half"
  /\ rx' = [owned |-> FALSE, status |-> "ok", engine |-> "ending"]
  /\ rx_frame' = <<Head(fifo), Head(fifo)>>
  /\ fifo' = Tail(fifo)
  /\ irq' = TRUE
  /\ UNCHANGED <<arrived, tx, tx_frame, reading, cpu, ticks, sent, wire,
                 handled>>

TxFirst ==
  /\ tx.engine = "working"
  /\ tx' = [tx EXCEPT !.engine = "half"]
  /\ reading' = tx_frame[1]
  /\ UNCHANGED <<fifo, arrived, rx, rx_frame, tx_frame, irq, cpu, ticks,
                 sent, wire, handled>>

TxRest ==
  /\ tx.engine = "half"
  /\ tx' = [owned |-> FALSE, status |-> "ok", engine |-> "ending"]
  /\ wire' = Append(wire, <<reading, tx_frame[2]>>)
  /\ UNCHANGED <<fifo, arrived, rx, rx_frame, tx_frame, reading, irq, cpu,
                 ticks, sent, handled>>

GoesIdle ==
  /\ \/ rx.engine = "ending" /\ rx' = [rx EXCEPT !.engine = "idle"] /\ tx' = tx
     \/ tx.engine = "ending" /\ tx' = [tx EXCEPT !.engine = "idle"] /\ rx' = rx
  /\ UNCHANGED <<tx_frame, cpu, ticks, sent, handled, frameHardware>>

-----------------------------------------------------------------------------
(* The driver's routines, on a chain of one descriptor (module Sgdma).     *)

CheckStatus(c) ==
  IF c.status = "error" THEN "EIO" ELSE IF c.owned THEN "EINPROGRESS" ELSE "0"
Constructed(c) == [c EXCEPT !.owned = TRUE, !.status = "ok"]

(* do_async_transfer: -EBUSY changes nothing.  A descriptor that is not    *)
(* the controller's ends the chain at once.                                *)
Busy(c) == c.engine # "idle"
Started(c) ==
  IF Busy(c) THEN c
  ELSE [c EXCEPT !.engine = IF c.owned THEN "working" ELSE "ending"]
Testable(c) == IdleInTime => c.engine # "ending"

-----------------------------------------------------------------------------
(* The program.                                                            *)

Goes(at) == cpu' = [cpu EXCEPT !.at = at]
Done == [in |-> "main", at |-> "idle"]

(* sgdma_int_en, with interrupts on.                                       *)
Enable ==
  /\ cpu.in = "main"
  /\ \/ cpu.at = "construct" /\ rx' = Constructed(rx) /\ Goes("start")
     \/ cpu.at = "start" /\ rx' = Started(rx) /\ Goes("idle")
  /\ UNCHANGED <<tx, tx_frame, ticks, sent, handled, frameHardware>>

(* The receive handler looks at the frame and answers it, then re-arms.    *)
RxStepsSwapped == <<"rx_wait", "handle">>
RxSteps == <<"handle", "rx_wait">>
NextStep(at) == IF at = RxSteps[1] THEN RxSteps[2] ELSE "done"
AfterSend == IF cpu.in = "rx" THEN NextStep("handle") ELSE "done"

RxEnter ==
  /\ cpu = Done /\ irq
  /\ cpu' = [in |-> "rx", at |-> RxSteps[1]]
  /\ irq' = FALSE
  /\ UNCHANGED <<fifo, arrived, rx, tx, rx_frame, tx_frame, reading, ticks,
                 sent, wire, handled>>

TickEnter ==
  /\ cpu = Done /\ ticks < TickMax
  /\ cpu' = [in |-> "tick", at |-> "handle"]
  /\ ticks' = ticks + 1
  /\ UNCHANGED <<rx, tx, tx_frame, sent, handled, frameHardware>>

(* The handler's decision; TcpConn says when it sends.                     *)
Handle ==
  /\ cpu.at = "handle"
  /\ handled' = IF cpu.in = "rx" THEN rx_frame[2] ELSE handled
  /\ \E answer \in BOOLEAN : Goes(IF answer THEN "compose" ELSE AfterSend)
  /\ UNCHANGED <<rx, tx, tx_frame, ticks, sent, frameHardware>>

(* create_tcp_pkt, or the ARP answer, fills tx_frame from front to back.   *)
Compose ==
  /\ \/ cpu.at = "compose" /\ tx_frame' = <<sent + 1, tx_frame[2]>>
                           /\ Goes("compose_rest")
     \/ cpu.at = "compose_rest" /\ tx_frame' = <<sent + 1, sent + 1>>
                                /\ Goes("send_wait")
  /\ UNCHANGED <<rx, tx, ticks, sent, handled, frameHardware>>

(* send_packet waits for the descriptor, builds it and starts it; the      *)
(* result of starting is ignored.                                          *)
SendAlways == CheckStatus(tx) # "EIO"
SendReady == CheckStatus(tx) = "0"
SendBuiltNot == tx
SendBuilt == Constructed(tx)
SendStarted == Started(tx)

SendPacket ==
  /\ \/ cpu.at = "send_wait" /\ SendReady
        /\ Goes("send_construct") /\ UNCHANGED <<tx, sent>>
     \/ cpu.at = "send_construct" /\ tx' = SendBuilt
        /\ Goes("send_start") /\ UNCHANGED sent
     \/ cpu.at = "send_start" /\ Testable(tx) /\ tx' = SendStarted
        /\ sent' = sent + 1 /\ Goes(AfterSend)
  /\ UNCHANGED <<rx, tx_frame, ticks, handled, frameHardware>>

(* The end of the receive handler: wait for the descriptor, build it       *)
(* again, start reception again; the result is ignored too.                *)
RxBuilt == Constructed(rx)

RxRearm ==
  /\ \/ cpu.at = "rx_wait" /\ CheckStatus(rx) = "0"
        /\ Goes("rx_construct") /\ UNCHANGED rx
     \/ cpu.at = "rx_construct" /\ rx' = RxBuilt /\ Goes("rx_start")
     \/ cpu.at = "rx_start" /\ Testable(rx) /\ rx' = Started(rx)
        /\ Goes(NextStep("rx_wait"))
  /\ UNCHANGED <<tx, tx_frame, ticks, sent, handled, frameHardware>>

Leave ==
  /\ cpu.at = "done"
  /\ cpu' = Done
  /\ UNCHANGED <<rx, tx, tx_frame, ticks, sent, handled, frameHardware>>

FrameInit ==
  /\ fifo = <<>> /\ arrived = 0
  /\ rx = [owned |-> FALSE, status |-> "ok", engine |-> "idle"]
  /\ tx = [owned |-> FALSE, status |-> "ok", engine |-> "idle"]
  /\ rx_frame = <<0, 0>> /\ tx_frame = <<0, 0>> /\ reading = 0
  /\ irq = FALSE
  /\ cpu = [in |-> "main", at |-> "construct"]
  /\ ticks = 0 /\ sent = 0 /\ wire = <<>> /\ handled = 0

Engines == RxFirst \/ RxRest \/ TxFirst \/ TxRest
Handlers == Handle \/ Compose \/ SendPacket \/ RxRearm \/ Leave
FrameNext == Arrive \/ Engines \/ GoesIdle \/ Enable \/ RxEnter \/ TickEnter
        \/ Handlers

FrameFairness ==
  /\ WF_frameVars(RxFirst) /\ WF_frameVars(RxRest) /\ WF_frameVars(TxFirst)
  /\ WF_frameVars(TxRest) /\ WF_frameVars(GoesIdle)
  /\ WF_frameVars(Enable) /\ WF_frameVars(RxEnter) /\ WF_frameVars(Handlers)

FrameSpec == FrameInit /\ [][FrameNext]_frameVars /\ FrameFairness

-----------------------------------------------------------------------------
(* Channels, buffers and counters have their types.                        *)
FrameTypeOK ==
  /\ fifo \in Seq(1 .. FrameMax) /\ Len(fifo) <= FifoMax
  /\ arrived \in 0 .. FrameMax /\ handled \in 0 .. FrameMax
  /\ rx \in Channel /\ tx \in Channel
  /\ rx_frame \in (0 .. FrameMax) \X (0 .. FrameMax)
  /\ tx_frame \in (0 .. SentMax) \X (0 .. SentMax)
  /\ reading \in 0 .. SentMax /\ irq \in BOOLEAN
  /\ cpu \in [in : {"main", "rx", "tick"}, at : Place]
  /\ ticks \in 0 .. TickMax /\ sent \in 0 .. SentMax

(* No stored frame is overwritten before the handler has looked at it, and *)
(* the receive buffer belongs to the handler until it has answered the     *)
(* frame: the DMA writes nothing into it meanwhile.                        *)
HandlerOwnsFrame ==
  [][rx_frame' # rx_frame =>
       /\ rx_frame[1] = rx_frame[2] => handled = rx_frame[2]
       /\ ~(cpu.in = "rx" /\ cpu.at \in {"handle", "compose", "compose_rest"})
    ]_frameVars

(* The k-th frame on the wire is the k-th packet, except where the packet  *)
(* after it had already begun to overwrite it: never an older one, never   *)
(* one two packets later.                                                  *)
AtMostOneAhead ==
  /\ FrameTypeOK
  /\ \A k \in DOMAIN wire : \A half \in 1 .. 2 : wire[k][half] \in {k, k + 1}

(* Every packet that is sent leaves, also when the next is sent at once,   *)
(* every frame the FIFO took is handled, and none of a handler's waits     *)
(* lasts for ever.                                                         *)
NothingStays ==
  /\ \A n \in 1 .. SentMax : sent >= n ~> Len(wire) >= n
  /\ \A f \in 1 .. FrameMax :
       (\E i \in DOMAIN fifo : fifo[i] = f) ~> handled = f
  /\ cpu.in # "main" ~> cpu.in = "main"
=============================================================================
