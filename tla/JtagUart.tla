------------------------------ MODULE JtagUart ------------------------------
(***************************************************************************)
(* The JTAG UART driver (altera_avalon_jtag_uart_*.c) with its device and  *)
(* the host at the other end of the cable.                                 *)
(*                                                                         *)
(* The fast driver moves characters between two ring buffers and the       *)
(* device's FIFOs in an interrupt handler; read and write work on the      *)
(* other ends of the rings and, by design, without a critical section for  *)
(* them.  The small driver, the one this board is built with, polls the    *)
(* FIFOs.  A step is one access to a shared variable or register; the      *)
(* interrupt handler and the alarm suspend the caller, never each other.   *)
(*                                                                         *)
(* The host sends the characters 1, 2, ... and the application writes the  *)
(* characters 1, 2, ..., so that order and loss show in the contents.      *)
(***************************************************************************)
EXTENDS Integers, SequencesExt, FiniteSetsExt

CONSTANTS
  BufLen,       \* ALTERA_AVALON_JTAG_UART_BUF_LEN
  Depth,        \* size of the device's FIFOs (64)
  Almost,       \* characters or places left that raise an interrupt (8)
  IntMax,       \* INT_MAX
  Default,      \* ALTERA_AVALON_JTAG_UART_DEFAULT_TIMEOUT
  Timeouts,     \* what TIOCSTIMEOUT is called with
  RxChars,      \* characters the host sends
  TxChars,      \* characters the application writes
  MaxCount      \* most characters asked of one call

ASSUME JtagUartAssumption ==
  /\ BufLen \in Nat \ {0, 1} /\ Depth \in Nat \ {0}
  /\ Almost \in 0 .. Depth - 1 /\ IntMax \in Nat /\ IntMax > 3
  /\ Default \in 0 .. IntMax /\ Timeouts \subseteq Nat /\ RxChars \in Nat /\ TxChars \in Nat
  /\ MaxCount \in Nat

VARIABLES
  fast,             \* ALTERA_AVALON_JTAG_UART_SMALL undefined
  rfifo, tfifo,     \* characters from and to the host
  ien,              \* interrupts enabled at the device: RE, WE
  ac, pause_irq,    \* the host was active; it paused with characters here
  present,          \* is a host connected?
  sent, took,       \* characters the host has sent and taken
  sp,               \* altera_avalon_jtag_uart_state
  isr,              \* the interrupt handler
  pc, call,         \* the caller, and its call
  got, wrote        \* characters read and accepted by completed copies

device == <<fast, rfifo, tfifo, ien, ac, pause_irq>>
host == <<present, sent, took>>
caller == <<pc, call, got, wrote>>
vars == <<device, host, sp, isr, caller>>

Chars(a, b) == [k \in 1 .. b - a + 1 |-> a + k - 1]
Window(buf, out, in) ==
  [k \in 1 .. (in - out) % BufLen |-> buf[(out + k - 1) % BufLen]]
Next1(i) == (i + 1) % BufLen

-----------------------------------------------------------------------------
(* The device and the host.                                                *)

RI == "RE" \in ien /\ (pause_irq \/ Depth - Len(rfifo) <= Almost)
WI == "WE" \in ien /\ Len(tfifo) <= Almost

HostSends ==
  /\ present /\ sent < RxChars /\ Len(rfifo) < Depth
  /\ rfifo' = Append(rfifo, sent + 1) /\ sent' = sent + 1 /\ ac' = TRUE
  /\ UNCHANGED <<fast, tfifo, ien, pause_irq, present, took, sp, isr, caller>>
HostPauses ==
  /\ present /\ ac' = TRUE /\ pause_irq' = (pause_irq \/ rfifo # <<>>)
  /\ UNCHANGED <<fast, rfifo, tfifo, ien, host, sp, isr, caller>>
HostTakes ==
  /\ present /\ tfifo # <<>>
  /\ tfifo' = Tail(tfifo) /\ took' = took + 1
  /\ UNCHANGED <<fast, rfifo, ien, ac, pause_irq, present, sent, sp, isr, caller>>
HostLeaves ==
  /\ present /\ present' = FALSE
  /\ UNCHANGED <<device, sent, took, sp, isr, caller>>
Host == HostSends \/ HostPauses \/ HostTakes \/ HostLeaves

-----------------------------------------------------------------------------
(* altera_avalon_jtag_uart_irq.                                            *)

NoIsr == [at |-> "none", wi |-> FALSE, space |-> 0, more |-> FALSE]

IsrEnter ==
  /\ fast /\ isr.at = "none" /\ (RI \/ WI)
  /\ isr' = [isr EXCEPT !.at = "control"]
  /\ UNCHANGED <<device, host, sp, caller>>

IsrControl ==
  /\ isr.at = "control"
  /\ isr' = IF ~RI /\ ~WI THEN NoIsr
            ELSE [at |-> IF RI THEN "rx" ELSE "tx", wi |-> WI,
                  space |-> Depth - Len(tfifo), more |-> TRUE]
  /\ UNCHANGED <<device, host, sp, caller>>

RxFull == Next1(sp.rx_in) = sp.rx_out

(* One character of the FIFO, if there is one and there is room for it.    *)
IsrRx ==
  /\ isr.at = "rx"
  /\ IF RxFull
     THEN isr' = [isr EXCEPT !.at = "rx_end"]
          /\ UNCHANGED <<fast, rfifo, pause_irq, sp>>
     ELSE /\ pause_irq' = FALSE
          /\ IF rfifo = <<>>
             THEN isr' = [isr EXCEPT !.at = "rx_end", !.more = FALSE]
                  /\ UNCHANGED <<fast, rfifo, sp>>
             ELSE /\ sp' = [sp EXCEPT !.rx_buf[sp.rx_in] = Head(rfifo),
                                      !.rx_in = Next1(sp.rx_in)]
                  /\ rfifo' = Tail(rfifo)
                  /\ isr' = [isr EXCEPT !.more = Len(rfifo) > 1]
  /\ UNCHANGED <<fast, tfifo, ien, ac, host, caller>>

Enable(set) == sp' = [sp EXCEPT !.irq_enable = set] /\ ien' = set

(* Characters that find no room stay in the FIFO, its interrupt disabled.  *)
IsrRxEnd ==
  /\ isr.at = "rx_end"
  /\ IF isr.more THEN Enable(sp.irq_enable \ {"RE"}) ELSE UNCHANGED <<sp, ien>>
  /\ isr' = [isr EXCEPT !.at = IF isr.wi THEN "tx" ELSE "control"]
  /\ UNCHANGED <<fast, rfifo, tfifo, ac, pause_irq, host, caller>>

(* Characters of the ring, as long as there was room at the reading of the *)
(* control register; a character written to a full FIFO is lost.           *)
Room == isr.space > 0
IsrTx ==
  /\ isr.at = "tx"
  /\ IF Room /\ sp.tx_out # sp.tx_in
     THEN /\ tfifo' = IF Len(tfifo) < Depth
                      THEN Append(tfifo, sp.tx_buf[sp.tx_out]) ELSE tfifo
          /\ sp' = [sp EXCEPT !.tx_out = Next1(sp.tx_out)]
          /\ isr' = [isr EXCEPT !.space = @ - 1]
          /\ UNCHANGED ien
     ELSE /\ IF Room THEN Enable(sp.irq_enable \ {"WE"})
             ELSE UNCHANGED <<sp, ien>>
          /\ isr' = [isr EXCEPT !.at = "control"]
          /\ UNCHANGED tfifo
  /\ UNCHANGED <<fast, rfifo, ac, pause_irq, host, caller>>

Isr == IsrEnter \/ IsrControl \/ IsrRx \/ IsrRxEnd \/ IsrTx

(* altera_avalon_jtag_uart_timeout, every second, by the system clock.     *)
Timeout ==
  /\ fast /\ isr.at = "none" /\ sp.timeout # IntMax
  /\ IF ac
     THEN /\ sp' = [sp EXCEPT !.host_inactive = 0]
          /\ ien' = sp.irq_enable /\ ac' = FALSE
     ELSE /\ sp.host_inactive < IntMax - 2
          /\ sp' = [sp EXCEPT !.host_inactive = @ + 1]
          /\ UNCHANGED <<fast, ien, ac>>
  /\ UNCHANGED <<fast, rfifo, tfifo, pause_irq, host, isr, caller>>

-----------------------------------------------------------------------------
(* Calls.  A call has: its routine, the characters still wanted, those     *)
(* copied, O_NONBLOCK, the indices it read, and its result.                *)

Begun(fn, count, nonblock) ==
  [fn |-> fn, count |-> count, data |-> <<>>, nonblock |-> nonblock,
   in |-> 0, out |-> 0, n |-> 0, result |-> "none"]
Runs == isr.at = "none"
HostAway == sp.host_inactive >= sp.timeout
Goto(at) == pc' = at
Do(at) == Runs /\ pc = at
Return(r) == call' = [call EXCEPT !.result = r] /\ Goto("idle")
Result == IF call.data # <<>> THEN "some"
          ELSE IF call.nonblock THEN "EWOULDBLOCK" ELSE "EIO"

Write ==
  /\ Do("idle")
  /\ \E n \in 0 .. Min({MaxCount, TxChars - wrote}), nb \in BOOLEAN :
       call' = Begun("write", n, nb)
  /\ Goto(IF fast THEN "w_load" ELSE "w_poll")
  /\ UNCHANGED <<device, host, sp, isr, got, wrote>>

WriteSpace(in, out) ==
  IF in < out THEN out - 1 - in
  ELSE IF out > 0 THEN BufLen - in ELSE BufLen - 1 - in

(* A stable value of the out pointer gives the space.                      *)
WriteLoad ==
  /\ Do("w_load")
  /\ LET n == WriteSpace(sp.tx_in, sp.tx_out)
     IN IF call.count > 0 /\ n > 0
        THEN /\ call' = [call EXCEPT !.in = sp.tx_in, !.out = sp.tx_out,
                                     !.n = Min({n, call.count})]
             /\ Goto("w_copy")
        ELSE /\ call' = IF call.count > 0
                        THEN [call EXCEPT !.in = sp.tx_in, !.out = sp.tx_out]
                        ELSE call
             /\ Goto("w_kick")
  /\ UNCHANGED <<device, host, sp, isr, got, wrote>>

(* Two stores: the characters, then tx_in.                                 *)
StoreChars ==
  sp' = [sp EXCEPT !.tx_buf = [i \in DOMAIN sp.tx_buf |->
    IF i \in call.in .. call.in + call.n - 1
    THEN wrote + 1 + i - call.in ELSE sp.tx_buf[i]]]
StoreIn == sp' = [sp EXCEPT !.tx_in = (call.in + call.n) % BufLen]
StoresSwapped(step) == IF step = 1 THEN StoreIn ELSE StoreChars
Stores(step) == IF step = 1 THEN StoreChars ELSE StoreIn

WriteCopy ==
  /\ Do("w_copy") /\ Stores(1) /\ Goto("w_advance")
  /\ UNCHANGED <<device, host, isr, call, got, wrote>>
WriteAdvance ==
  /\ Do("w_advance") /\ Stores(2) /\ Goto("w_load")
  /\ call' = [call EXCEPT !.count = @ - call.n,
                          !.data = @ \o Chars(wrote + 1, wrote + call.n)]
  /\ wrote' = wrote + call.n
  /\ UNCHANGED <<device, host, isr, got>>

Kick == sp.irq_enable \cup {"WE"}
WriteKick ==
  /\ Do("w_kick") /\ Enable(Kick)
  /\ IF call.count > 0 /\ ~call.nonblock
     THEN Goto("w_spin") /\ UNCHANGED call ELSE Return(Result)
  /\ UNCHANGED <<fast, rfifo, tfifo, ac, pause_irq, host, isr, got, wrote>>
WriteSpin ==
  /\ Do("w_spin") /\ (call.out # sp.tx_out \/ HostAway) /\ Goto("w_test")
  /\ UNCHANGED <<device, host, sp, isr, call, got, wrote>>
WriteTest ==
  /\ Do("w_test")
  /\ IF sp.host_inactive # 0 THEN Return(Result)
     ELSE Goto("w_load") /\ UNCHANGED call
  /\ UNCHANGED <<device, host, sp, isr, got, wrote>>

-----------------------------------------------------------------------------
Read ==
  /\ Do("idle")
  /\ \E n \in 1 .. MaxCount, nb \in BOOLEAN : call' = Begun("read", n, nb)
  /\ Goto(IF fast THEN "r_load" ELSE "r_poll")
  /\ UNCHANGED <<device, host, sp, isr, got, wrote>>

ReadLoad ==
  /\ Do("r_load")
  /\ LET n == IF sp.rx_in >= sp.rx_out THEN sp.rx_in - sp.rx_out
              ELSE BufLen - sp.rx_out
     IN /\ call' = [call EXCEPT !.in = sp.rx_in, !.out = sp.rx_out,
                                !.n = Min({n, call.count})]
        /\ Goto(IF n > 0 /\ call.count > 0 THEN "r_copy"
                ELSE IF call.data # <<>> \/ call.nonblock THEN "r_enable"
                ELSE "r_spin")
  /\ UNCHANGED <<device, host, sp, isr, got, wrote>>

(* The characters are copied, then rx_out gives their places back.         *)
TakeChars ==
  /\ call' = [call EXCEPT !.count = @ - call.n, !.data = @ \o
       [k \in 1 .. call.n |-> sp.rx_buf[call.out + k - 1]]]
  /\ UNCHANGED <<sp, got>>
GiveBack ==
  /\ sp' = [sp EXCEPT !.rx_out = (call.out + call.n) % BufLen]
  /\ got' = got + call.n
  /\ UNCHANGED call
Takes(step) == IF step = 1 THEN TakeChars ELSE GiveBack

ReadCopy ==
  /\ Do("r_copy") /\ Takes(1) /\ Goto("r_advance")
  /\ UNCHANGED <<device, host, isr, wrote>>
ReadAdvance ==
  /\ Do("r_advance") /\ Takes(2) /\ Goto("r_load")
  /\ UNCHANGED <<device, host, isr, wrote>>

ReadSpin ==
  /\ Do("r_spin") /\ (call.in # sp.rx_in \/ HostAway)
  /\ Goto(IF call.in = sp.rx_in THEN "r_enable" ELSE "r_load")
  /\ UNCHANGED <<device, host, sp, isr, call, got, wrote>>

(* Room was made, so the interrupt is enabled again.                       *)
ReEnableNot == sp.irq_enable
ReEnable == IF call.data # <<>> THEN sp.irq_enable \cup {"RE"}
            ELSE sp.irq_enable
ReadEnable ==
  /\ Do("r_enable")
  /\ IF call.data # <<>> THEN Enable(ReEnable) ELSE UNCHANGED <<sp, ien>>
  /\ Return(Result)
  /\ UNCHANGED <<fast, rfifo, tfifo, ac, pause_irq, host, isr, got, wrote>>

-----------------------------------------------------------------------------
(* altera_avalon_jtag_uart_close and _ioctl, of the fast driver.           *)
Close ==
  /\ fast /\ Do("idle")
  /\ \E nb \in BOOLEAN : call' = Begun("close", 0, nb)
  /\ Goto("c_spin")
  /\ UNCHANGED <<device, host, sp, isr, got, wrote>>
CloseSpin ==
  /\ Do("c_spin")
  /\ IF sp.tx_out = sp.tx_in \/ HostAway THEN Return("closed")
     ELSE call.nonblock /\ Return("EWOULDBLOCK")
  /\ UNCHANGED <<device, host, sp, isr, got, wrote>>

SetTimeout ==
  /\ fast /\ Do("idle") /\ sp.timeout # IntMax
  /\ \E t \in Timeouts : sp' = [sp EXCEPT !.timeout =
       IF t >= 2 /\ t < IntMax THEN t ELSE IntMax - 1]
  /\ UNCHANGED <<device, host, isr, caller>>

-----------------------------------------------------------------------------
(* The small driver: write waits for space, read for a first character.    *)
WritePoll ==
  /\ pc = "w_poll"
  /\ IF call.count = 0
     THEN Return("some") /\ UNCHANGED <<fast, tfifo, wrote>>
     ELSE /\ Len(tfifo) < Depth
          /\ tfifo' = Append(tfifo, wrote + 1) /\ wrote' = wrote + 1
          /\ call' = [call EXCEPT !.count = @ - 1, !.data = Append(@, wrote + 1)]
          /\ UNCHANGED pc
  /\ UNCHANGED <<fast, rfifo, ien, ac, pause_irq, host, sp, isr, got>>

PollEnds == call.data # <<>> \/ call.nonblock
ReadPoll ==
  /\ pc = "r_poll"
  /\ IF call.count > 0 /\ rfifo # <<>>
     THEN /\ call' = [call EXCEPT !.count = @ - 1,
                                  !.data = Append(@, Head(rfifo))]
          /\ rfifo' = Tail(rfifo) /\ got' = got + 1 /\ UNCHANGED pc
     ELSE /\ call.count = 0 \/ PollEnds
          /\ Return(Result) /\ UNCHANGED <<fast, rfifo, got>>
  /\ pause_irq' = FALSE
  /\ UNCHANGED <<fast, tfifo, ien, ac, host, sp, isr, wrote>>

Caller == \/ Write \/ Read \/ Close \/ SetTimeout
Routine == WriteLoad \/ WriteCopy \/ WriteAdvance \/ WriteKick \/ WriteSpin
           \/ WriteTest \/ ReadLoad \/ ReadCopy \/ ReadAdvance \/ ReadSpin
           \/ ReadEnable \/ CloseSpin \/ WritePoll \/ ReadPoll

(* altera_avalon_jtag_uart_init; the alarm may not start.                  *)
Init ==
  /\ rfifo = <<>> /\ tfifo = <<>> /\ ac = FALSE /\ pause_irq = FALSE
  /\ fast \in BOOLEAN /\ ien = IF fast THEN {"RE"} ELSE {}
  /\ present \in BOOLEAN /\ sent = 0 /\ took = 0
  /\ \E t \in {Default, IntMax} :
       sp = [timeout |-> t, irq_enable |-> ien, host_inactive |-> 0,
             rx_in |-> 0, rx_out |-> 0, tx_in |-> 0, tx_out |-> 0,
             rx_buf |-> [i \in 0 .. BufLen - 1 |-> 0],
             tx_buf |-> [i \in 0 .. BufLen - 1 |-> 0]]
  /\ isr = NoIsr /\ pc = "idle" /\ call = Begun("none", 0, FALSE)
  /\ got = 0 /\ wrote = 0

Next == Host \/ Isr \/ Timeout \/ Caller \/ Routine
Spec == Init /\ [][Next]_vars

-----------------------------------------------------------------------------
(* FIFOs, indices, interrupt enables and calls have their types.           *)
TypeOK ==
  /\ Len(rfifo) <= Depth /\ Len(tfifo) <= Depth
  /\ ien \subseteq {"RE", "WE"} /\ ien = sp.irq_enable
  /\ {sp.rx_in, sp.rx_out, sp.tx_in, sp.tx_out} \subseteq 0 .. BufLen - 1
  /\ sp.timeout \in 0 .. IntMax /\ sp.host_inactive \in 0 .. IntMax
  /\ isr.at \in {"none", "control", "rx", "rx_end", "tx"} /\ isr.space \in Int
  /\ call.result \in {"none", "some", "EWOULDBLOCK", "EIO", "closed"}
  /\ got \in 0 .. sent /\ took \in 0 .. wrote

(* Nothing is lost, doubled or moved, although the two sides of a ring     *)
(* never exclude each other: what the host sent is in the ring and the     *)
(* FIFO, in the order in which calls return it, and what the application   *)
(* wrote is on its way to the host.                                        *)
InOrder ==
  /\ TypeOK
  /\ Window(sp.rx_buf, sp.rx_out, sp.rx_in) \o rfifo = Chars(got + 1, sent)
  /\ call.fn = "read" /\ pc = "idle" =>
       call.data = Chars(got - Len(call.data) + 1, got)
  /\ tfifo \o Window(sp.tx_buf, sp.tx_out, sp.tx_in) = Chars(took + 1, wrote)

(* No wake-up is lost: while the ring has characters to be sent the        *)
(* transmit interrupt is enabled, or a write will enable it; the receive   *)
(* interrupt is disabled only while the ring is full, or a read that has   *)
(* made room will enable it.                                               *)
Awake ==
  fast =>
    /\ sp.tx_in # sp.tx_out =>
         "WE" \in ien \/ pc \in {"w_load", "w_copy", "w_advance", "w_kick"}
    /\ "RE" \notin ien =>
         RxFull \/ (call.fn = "read" /\ pc # "idle" /\ call.data # <<>>)
=============================================================================
