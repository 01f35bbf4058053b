------------------------------ MODULE StartUp ------------------------------
(***************************************************************************)
(* The start of the program: crt0.S, alt_load, alt_main with the drivers'  *)
(* initialization, main up to its loop, timer_int_en and tse_init; and, at *)
(* the loop, the MAC driver's own software reset.  Interrupts are on from  *)
(* alt_irq_init, so handlers run between the steps.                        *)
(*                                                                         *)
(* A debugger starts the program again at any moment: the processor is as  *)
(* after a reset, but its reset request leads nowhere (ethernet_sys.v:363) *)
(* and the devices go on as they were.  A step of the program is what      *)
(* happens between two places where it matters whether an interrupt comes. *)
(***************************************************************************)
EXTENDS MacRegs, SystemMap

CONSTANTS MaxRestarts,   \* times the debugger starts the program again
          MaxSwResets    \* calls of tse_mac_SwReset

ASSUME StartUpAssumption == MaxRestarts \in Nat /\ MaxSwResets \in Nat

VARIABLES
  stage,        \* where the program is
  clean,        \* the sections that hold what a C program starts with
  pie, ienable, \* the processor's interrupt enables
  alt_irq,      \* the handler of each line
  TCP_link,     \* the global TCP points to main's structure
  sgdma_list,   \* SGDMA cores the HAL knows, by their lines
  sgdma_open,   \*   and those tse_init has opened
  callback,     \* rx_ethernet_isr is the receive core's callback
  TIMER,        \* TIMER_0: does it count, with which period?
  rx_run,       \* the receive core is started, with its interrupt enabled
  requests,     \* the lines the devices assert
  command,      \* COMMAND_CONFIG of the MAC
  configured,   \* the MAC's other registers written since power-up
  cc,           \* what tse_mac_SwReset restores
  clocked,      \* the PHY supplies the MAC's clocks
  restarts, swResets

cpuVars == <<pie, ienable, alt_irq>>
softVars == <<clean, TCP_link, sgdma_list, sgdma_open, callback>>
deviceVars == <<TIMER, rx_run, requests>>
macVars == <<command, configured, cc, clocked>>
startVars == <<stage, cpuVars, softVars, deviceVars, macVars, restarts, swResets>>

Timer == TIMER_0.irq
Tx == SGDMA_0.irq
Rx == SGDMA_1.irq
Null_isr == "none"

StartTypeOK ==
  /\ clean \subseteq {".bss", ".data"} /\ pie \in BOOLEAN /\ ienable \subseteq Lines
  /\ alt_irq \in [Lines -> {Null_isr, "alt_avalon_timer_sc_irq", "timeout_isr",
                            "alt_avalon_sgdma_irq"}]
  /\ TCP_link \in BOOLEAN /\ callback \in BOOLEAN /\ rx_run \in BOOLEAN
  /\ sgdma_list \subseteq {Tx, Rx} /\ sgdma_open \subseteq {Tx, Rx}
  /\ TIMER \in [counts : BOOLEAN, period : {"tick", "second"}]
  /\ requests \subseteq Lines /\ command \subseteq DOMAIN Bit
  /\ clocked \in BOOLEAN

(* Power-up: memory holds the program but nothing else to rely on.         *)
StartInit ==
  /\ stage = "_start" /\ clean = {} /\ pie = FALSE /\ ienable = {}
  /\ alt_irq = [i \in Lines |-> Null_isr]
  /\ TCP_link = FALSE /\ callback = FALSE /\ sgdma_list = {} /\ sgdma_open = {}
  /\ TIMER = [counts |-> FALSE, period |-> "tick"]
  /\ rx_run = FALSE /\ requests = {}
  /\ command = {} /\ configured = {} /\ cc = {} /\ clocked \in BOOLEAN
  /\ restarts = 0 /\ swResets = 0

-----------------------------------------------------------------------------
(* Interrupts come between two instructions, before the next step of the   *)
(* program: all but those a store has under way.                           *)
Takeable == IF pie THEN ienable \cap requests ELSE {}
Moves(from, to) == stage = from /\ Takeable = {} /\ stage' = to

(* alt_ic_isr_register.                                                    *)
Register_isr(line, isr) ==
  /\ alt_irq' = [alt_irq EXCEPT ![line] = isr]
  /\ ienable' = ienable \cup {line} /\ pie' = pie

Counting == [TIMER EXCEPT !.counts = TRUE]
Halted == [TIMER EXCEPT !.counts = FALSE]

-----------------------------------------------------------------------------
(* crt0.S, alt_load, alt_irq_init.                                         *)
ClearBss ==
  /\ Moves("_start", "alt_load") /\ clean' = {".bss"}
  /\ alt_irq' = [i \in Lines |-> Null_isr] /\ TCP_link' = FALSE /\ sgdma_open' = {}
  /\ UNCHANGED <<pie, ienable, sgdma_list, callback, deviceVars, macVars>>

AltLoad ==
  /\ Moves("alt_load", "alt_irq_init") /\ clean' = clean \cup {".data"}
  /\ sgdma_list' = {} /\ callback' = FALSE
  /\ UNCHANGED <<cpuVars, TCP_link, sgdma_open, deviceVars, macVars>>

AltIrqInit ==
  /\ Moves("alt_irq_init", "alt_sys_init") /\ ienable' = {} /\ pie' = TRUE
  /\ UNCHANGED <<alt_irq, softVars, deviceVars, macVars>>

(* alt_sys_init: the system clock, with the period its timer has, and the  *)
(* two SGDMA cores.                                                        *)
TimerScStart ==
  /\ Moves("alt_sys_init", "timer_sc") /\ TIMER' = Counting
  /\ UNCHANGED <<cpuVars, softVars, rx_run, requests, macVars>>

TimerScRegister ==
  /\ Moves("timer_sc", "sgdma_0") /\ Register_isr(Timer, "alt_avalon_timer_sc_irq")
  /\ UNCHANGED <<softVars, deviceVars, macVars>>

SgdmaInit(line, from, to) ==
  /\ Moves(from, to)
  /\ rx_run' = (rx_run /\ line # Rx) /\ requests' = requests \ {line}
  /\ sgdma_list' = sgdma_list \cup {line}
  /\ Register_isr(line, "alt_avalon_sgdma_irq")
  /\ UNCHANGED <<clean, TCP_link, sgdma_open, callback, TIMER, macVars>>

AltSysInit == \/ TimerScStart \/ TimerScRegister
              \/ SgdmaInit(Tx, "sgdma_0", "sgdma_1") \/ SgdmaInit(Rx, "sgdma_1", "main")

-----------------------------------------------------------------------------
(* timer_int_en, called by main: each write of a period register stops the *)
(* timer.  The first may be under way when an interrupt comes.             *)
Main ==
  /\ Moves("main", "period_l") /\ Register_isr(Timer, "timeout_isr")
  /\ UNCHANGED <<softVars, deviceVars, macVars>>

PeriodLWrites == Counting
PeriodLReloads == Halted
AfterPeriodL == PeriodLReloads
PeriodL ==
  /\ stage = "period_l" /\ stage' = "period_h" /\ TIMER' = AfterPeriodL
  /\ UNCHANGED <<cpuVars, softVars, rx_run, requests, macVars>>

PeriodH ==
  /\ Moves("period_h", "tse_init") /\ TIMER' = [AfterPeriodL EXCEPT !.period = "second"]
  /\ UNCHANGED <<cpuVars, softVars, rx_run, requests, macVars>>

-----------------------------------------------------------------------------
(* tse_init.  The MAC's registers by their words, as the code writes them. *)
FifoAndFrames ==
  {\h09, \h0E, \h0D, \h07, \h0C, \h0B, \h0A, \h08, \h03, \h04, \h05, \h17, \h06}
Running == Bits(\h0400022B)
Quiet == Bits(\h00800220)
Resetting == Bits(\h00802220)

Bind ==
  /\ Moves("tse_init", "mac_stop") /\ TCP_link' = TRUE /\ sgdma_open' = sgdma_list
  /\ configured' = configured \cup {Register(\h0F)}
  /\ command' = command \cup Quiet
  /\ UNCHANGED <<cpuVars, clean, sgdma_list, callback, deviceVars, cc, clocked>>

MacReset ==
  /\ Moves("mac_stop", "mac_reset") /\ Quiet \subseteq command
  /\ configured' = configured \cup {Register(w) : w \in FifoAndFrames}
  /\ command' = Resetting
  /\ UNCHANGED <<cpuVars, softVars, deviceVars, cc, clocked>>

MacEnable ==
  /\ Moves("mac_reset", "mac_enable") /\ command = Quiet /\ command' = Running
  /\ UNCHANGED <<cpuVars, softVars, deviceVars, configured, cc, clocked>>

(* sgdma_int_en: the callback, and the first reception.                    *)
SgdmaCallback ==
  /\ Moves("mac_enable", "sgdma_int_en") /\ Running \subseteq command /\ callback' = TRUE
  /\ UNCHANGED <<cpuVars, clean, TCP_link, sgdma_list, sgdma_open, deviceVars, macVars>>

SgdmaStart ==
  /\ Moves("sgdma_int_en", "loop") /\ rx_run' = TRUE
  /\ UNCHANGED <<cpuVars, softVars, TIMER, requests, macVars>>

MacInit == Bind \/ MacReset \/ MacEnable \/ SgdmaCallback \/ SgdmaStart

-----------------------------------------------------------------------------
(* tse_mac_SwReset, as a program with the MAC driver may call it: waits    *)
(* until the reset is over or its patience is at an end.                   *)
SwReset ==
  /\ Moves("loop", "sw_reset") /\ swResets < MaxSwResets /\ swResets' = swResets + 1
  /\ cc' = command /\ command' = {"SW_RESET", "ETH_SPEED"}
  /\ UNCHANGED <<cpuVars, softVars, deviceVars, configured, clocked, restarts>>

RestoredNot == command \ {"SW_RESET"}
RestoredCc == cc
SwRestores == RestoredCc
SwResetDone ==
  /\ Moves("sw_reset", "loop") /\ command' = SwRestores
  /\ UNCHANGED <<cpuVars, softVars, deviceVars, configured, cc, clocked>>

Program ==
  \/ /\ \/ ClearBss \/ AltLoad \/ AltIrqInit \/ AltSysInit \/ Main \/ PeriodL \/ PeriodH
        \/ MacInit \/ SwResetDone
     /\ UNCHANGED <<restarts, swResets>>
  \/ SwReset

-----------------------------------------------------------------------------
(* The handlers.  Without TCP, timeout_isr goes by what the SRAM holds at  *)
(* address 0; with it, it may have a connection or stop the timer.         *)
TimerTaken ==
  /\ Timer \in Takeable /\ requests' = requests \ {Timer}
  /\ TIMER' \in IF alt_irq[Timer] = "timeout_isr" THEN {TIMER, Halted} ELSE {TIMER}
  /\ UNCHANGED rx_run

RxTaken ==
  /\ Rx \in Takeable /\ requests' = requests \ {Rx}
  /\ TIMER' \in IF callback THEN {TIMER, Counting} ELSE {TIMER}
  /\ UNCHANGED rx_run

Take ==
  /\ TimerTaken \/ RxTaken
  /\ UNCHANGED <<stage, cpuVars, softVars, macVars, restarts, swResets>>

(* The devices.                                                            *)
TimerExpires == TIMER.counts /\ requests' = requests \cup {Timer}
FrameArrives ==
  /\ rx_run /\ clocked /\ "RX_ENA" \in command /\ requests' = requests \cup {Rx}

DeviceSteps ==
  /\ TimerExpires \/ FrameArrives
  /\ UNCHANGED <<stage, cpuVars, softVars, TIMER, rx_run, macVars, restarts, swResets>>

(* The MAC comes out of its reset only with its clocks, and with its       *)
(* transmitter and receiver off.                                           *)
ResetCompletes ==
  /\ clocked /\ "SW_RESET" \in command
  /\ command' = command \ {"SW_RESET", "TX_ENA", "RX_ENA"}
  /\ UNCHANGED <<stage, cpuVars, softVars, deviceVars, configured, cc, clocked,
                 restarts, swResets>>

Clock ==
  /\ clocked' = ~clocked
  /\ UNCHANGED <<stage, cpuVars, softVars, deviceVars, command, configured, cc,
                 restarts, swResets>>

Restart ==
  /\ restarts < MaxRestarts /\ restarts' = restarts + 1
  /\ stage' = "_start" /\ pie' = FALSE /\ ienable' = {} /\ clean' = {}
  /\ UNCHANGED <<alt_irq, TCP_link, sgdma_list, sgdma_open, callback, deviceVars,
                 macVars, swResets>>

StartNext ==
  Program \/ Take \/ DeviceSteps \/ ResetCompletes \/ Clock \/ Restart

(* A handler takes less than a tick, so that the program gets on; clocks   *)
(* that come back stay for the few cycles a reset takes.                   *)
StartFairness ==
  /\ SF_startVars(Program) /\ WF_startVars(Take) /\ SF_startVars(ResetCompletes)

StartSpec == StartInit /\ [][StartNext]_startVars /\ StartFairness

-----------------------------------------------------------------------------
(* An interrupt that can be taken has a handler, and that handler has what *)
(* it works on: alt_tick its initialized list, the SGDMA handler its       *)
(* devices, rx_ethernet_isr the connection and the core it sends with, and *)
(* timeout_isr the connection as well, but for the moment before the write *)
(* of PERIODL has stopped the system clock's ticks (tcp_socket.c:446-447): *)
(* between it and tse_init no timer interrupt may be left over.            *)
HandlersReady ==
  \A i \in Takeable :
    /\ clean = {".bss", ".data"}
    /\ CASE alt_irq[i] = "alt_avalon_timer_sc_irq" -> TRUE
         [] alt_irq[i] = "timeout_isr" -> TCP_link \/ stage \in {"period_l", "period_h"}
         [] alt_irq[i] = "alt_avalon_sgdma_irq" ->
              callback => TCP_link /\ sgdma_open = {Tx, Rx} /\ configured # {}
         [] OTHER -> FALSE

(* The server comes up, with the MAC set to what tse_init asks of it, from *)
(* whatever state a restart or a software reset finds the MAC in: if the   *)
(* PHY supplies clocks again and again (tcp_socket.c:111-136, which has no *)
(* time-out; altera_avalon_tse.c:184-208, which has).                      *)
ComesUp ==
  []<>clocked => <>[](stage = "loop" /\ command = Running /\ TIMER.period = "second")
=============================================================================
