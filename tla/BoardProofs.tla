---------------------------- MODULE BoardProofs -----------------------------
(* Proofs about the board: the start of the program, the registers of the  *)
(* MAC and its PHYs, the delay loop, the heap, the tables of the Ethernet  *)
(* driver, and the frame buffers.                                          *)
EXTENDS StartUp, FrameDma, BusySleep, Heap, TseSystem, Inductions

(***************************************************************************)
(* That no handler runs before what it works on is there, for any number   *)
(* of restarts and software resets.                                        *)
(*                                                                         *)
(* HandlersReady is not inductive: what a handler finds depends on how far *)
(* the start has come.  StartInv says stage by stage what has been done,   *)
(* and that from the write of PERIODL to tse_init no timer interrupt comes *)
(* any more: the timer is halted, and the step to tse_init waits until the *)
(* last request has been taken.                                            *)
(***************************************************************************)

(* The stages from a given one on.                                         *)
WithCallback == {"sgdma_int_en", "loop", "sw_reset"}
Bound == {"mac_stop", "mac_reset", "mac_enable"} \cup WithCallback
TimerMoved == {"period_l", "period_h", "tse_init"} \cup Bound
RxKnown == {"main"} \cup TimerMoved
TxKnown == {"sgdma_1"} \cup RxKnown
TimerKnown == {"sgdma_0"} \cup TxKnown
IrqsOn == {"alt_sys_init", "timer_sc"} \cup TimerKnown
Loaded == {"alt_irq_init"} \cup IrqsOn
Stages == {"_start", "alt_load"} \cup Loaded

(* Sections and enables.                                                   *)
Processor ==
  /\ stage \in Stages
  /\ stage \in Loaded => clean = {".bss", ".data"}
  /\ stage = "alt_load" => clean = {".bss"}
  /\ pie \in BOOLEAN /\ (pie <=> stage \in IrqsOn)
  /\ ienable \subseteq {Timer, Tx, Rx}
  /\ stage \in IrqsOn => /\ Timer \in ienable <=> stage \in TimerKnown
                         /\ Tx \in ienable <=> stage \in TxKnown
                         /\ Rx \in ienable <=> stage \in RxKnown

(* Each line has its handler once it is enabled.                           *)
Isrs == {Null_isr, "alt_avalon_timer_sc_irq", "timeout_isr", "alt_avalon_sgdma_irq"}
Table ==
  /\ alt_irq \in [Lines -> Isrs]
  /\ stage \in TimerKnown \ TimerMoved => alt_irq[Timer] = "alt_avalon_timer_sc_irq"
  /\ stage \in TimerMoved => alt_irq[Timer] = "timeout_isr"
  /\ stage \in TxKnown => alt_irq[Tx] = "alt_avalon_sgdma_irq"
  /\ stage \in RxKnown => alt_irq[Rx] = "alt_avalon_sgdma_irq"

(* What the handlers work on.                                              *)
Data ==
  /\ stage \in Loaded \ TxKnown => sgdma_list = {}
  /\ stage = "sgdma_1" => sgdma_list = {Tx}
  /\ stage \in RxKnown => sgdma_list = {Tx, Rx}
  /\ callback \in BOOLEAN /\ TCP_link \in BOOLEAN
  /\ stage \in Loaded /\ callback => stage \in WithCallback
  /\ stage \in Bound => TCP_link /\ sgdma_open = {Tx, Rx} /\ configured # {}

(* No timer interrupt between the system clock's last and the connection's *)
(* first.                                                                  *)
TimerQuiet ==
  /\ TIMER \in [counts : BOOLEAN, period : {"tick", "second"}]
  /\ stage \in {"period_h", "tse_init"} => TIMER.counts = FALSE
  /\ stage = "tse_init" => Timer \notin requests

StartInv == Processor /\ Table /\ Data /\ TimerQuiet

-----------------------------------------------------------------------------
(* The three lines differ and have an entry each in the table.             *)
LEMMA LineNumbers ==
  /\ Timer = 2 /\ Tx = 1 /\ Rx = 0
  /\ Timer \in Lines /\ Tx \in Lines /\ Rx \in Lines
<1>1. Timer = 2 /\ Tx = 1 /\ Rx = 0
  BY DEF Timer, Tx, Rx, TIMER_0, SGDMA_0, SGDMA_1, Slave
<1> QED  BY <1>1, SlavesApart

USE DEF Stages, Loaded, IrqsOn, TimerKnown, TxKnown, RxKnown, TimerMoved, Bound,
        WithCallback, Isrs, Null_isr

LEMMA StartHolds == StartInit => StartInv
<1> SUFFICES ASSUME StartInit PROVE StartInv
  OBVIOUS
<1>1. Processor
  BY DEF StartInit, Processor
<1>2. Table
  BY DEF StartInit, Table
<1>3. Data
  BY DEF StartInit, Data
<1>4. TimerQuiet
  BY DEF StartInit, TimerQuiet
<1> QED  BY <1>1, <1>2, <1>3, <1>4 DEF StartInv

-----------------------------------------------------------------------------
(* The program, from crt0 to the end of alt_sys_init.                      *)
LEMMA BootKeeps ==
  StartInv /\ (ClearBss \/ AltLoad \/ AltIrqInit) => StartInv'
<1> SUFFICES ASSUME StartInv, ClearBss \/ AltLoad \/ AltIrqInit PROVE StartInv'
  OBVIOUS
<1> USE DEF StartInv, Moves, cpuVars, softVars, deviceVars, macVars
<1>1. CASE ClearBss
  <2>1. Processor'
    BY <1>1 DEF ClearBss, Processor
  <2>2. Table'
    BY <1>1 DEF ClearBss, Processor, Table
  <2>3. Data'
    BY <1>1 DEF ClearBss, Processor, Data
  <2>4. TimerQuiet'
    BY <1>1 DEF ClearBss, TimerQuiet
  <2> QED  BY <2>1, <2>2, <2>3, <2>4
<1>2. CASE AltLoad
  <2>1. Processor'
    BY <1>2 DEF AltLoad, Processor
  <2>2. Table'
    BY <1>2 DEF AltLoad, Processor, Table
  <2>3. Data'
    BY <1>2 DEF AltLoad, Processor, Data
  <2>4. TimerQuiet'
    BY <1>2 DEF AltLoad, TimerQuiet
  <2> QED  BY <2>1, <2>2, <2>3, <2>4
<1>3. CASE AltIrqInit
  BY <1>3 DEF AltIrqInit, Processor, Table, Data, TimerQuiet
<1> QED  BY <1>1, <1>2, <1>3

LEMMA SysInitKeeps == StartInv /\ AltSysInit => StartInv'
<1> SUFFICES ASSUME StartInv, AltSysInit PROVE StartInv'
  OBVIOUS
<1> USE LineNumbers
        DEF StartInv, Moves, Register_isr, cpuVars, softVars, deviceVars, macVars
<1>1. CASE TimerScStart
  BY <1>1 DEF TimerScStart, Counting, Processor, Table, Data, TimerQuiet
<1>2. CASE TimerScRegister
  <2>1. Processor'
    BY <1>2 DEF TimerScRegister, Processor
  <2>2. Table'
    BY <1>2 DEF TimerScRegister, Processor, Table
  <2>3. Data'
    BY <1>2 DEF TimerScRegister, Processor, Data
  <2>4. TimerQuiet'
    BY <1>2 DEF TimerScRegister, TimerQuiet
  <2> QED  BY <2>1, <2>2, <2>3, <2>4
<1>3. CASE SgdmaInit(Tx, "sgdma_0", "sgdma_1")
  <2>1. Processor'
    BY <1>3 DEF SgdmaInit, Processor
  <2>2. Table'
    BY <1>3 DEF SgdmaInit, Processor, Table
  <2>3. Data'
    BY <1>3 DEF SgdmaInit, Processor, Data
  <2>4. TimerQuiet'
    BY <1>3 DEF SgdmaInit, TimerQuiet
  <2> QED  BY <2>1, <2>2, <2>3, <2>4
<1>4. CASE SgdmaInit(Rx, "sgdma_1", "main")
  BY <1>4 DEF SgdmaInit, Processor, Table, Data, TimerQuiet
<1> QED  BY <1>1, <1>2, <1>3, <1>4 DEF AltSysInit

(* main and timer_int_en: PeriodH finds no timer request, and none can     *)
(* come.                                                                   *)
LEMMA TimerIntEnKeeps == StartInv /\ (Main \/ PeriodL \/ PeriodH) => StartInv'
<1> SUFFICES ASSUME StartInv, Main \/ PeriodL \/ PeriodH PROVE StartInv'
  OBVIOUS
<1> USE LineNumbers DEF StartInv, cpuVars, softVars, deviceVars, macVars
<1>1. CASE Main
  <2>1. Processor'
    BY <1>1 DEF Main, Moves, Register_isr, Processor
  <2>2. Table'
    BY <1>1 DEF Main, Moves, Register_isr, Processor, Table
  <2>3. Data'
    BY <1>1 DEF Main, Moves, Register_isr, Processor, Data
  <2>4. TimerQuiet'
    BY <1>1 DEF Main, Moves, Register_isr, TimerQuiet
  <2> QED  BY <2>1, <2>2, <2>3, <2>4
<1>2. CASE PeriodL
  BY <1>2 DEF PeriodL, AfterPeriodL, PeriodLReloads, Halted, Processor, Table, Data,
              TimerQuiet
<1>3. CASE PeriodH
  <2>1. Timer \notin requests
    BY <1>3 DEF PeriodH, Moves, Takeable, Processor
  <2> QED
    BY <1>3, <2>1 DEF PeriodH, Moves, AfterPeriodL, PeriodLReloads, Halted, Processor,
                      Table, Data, TimerQuiet
<1> QED  BY <1>1, <1>2, <1>3

(* tse_init, sgdma_int_en and tse_mac_SwReset.                             *)
LEMMA MacInitKeeps == StartInv /\ (MacInit \/ SwReset \/ SwResetDone) => StartInv'
<1> SUFFICES ASSUME StartInv, MacInit \/ SwReset \/ SwResetDone PROVE StartInv'
  OBVIOUS
<1> USE DEF StartInv, Moves, cpuVars, softVars, deviceVars, macVars
<1>1. CASE Bind
  BY <1>1 DEF Bind, Processor, Table, Data, TimerQuiet
<1>2. CASE MacReset
  BY <1>2 DEF MacReset, Processor, Table, Data, TimerQuiet
<1>3. CASE MacEnable
  BY <1>3 DEF MacEnable, Processor, Table, Data, TimerQuiet
<1>4. CASE SgdmaCallback
  BY <1>4 DEF SgdmaCallback, Processor, Table, Data, TimerQuiet
<1>5. CASE SgdmaStart
  BY <1>5 DEF SgdmaStart, Processor, Table, Data, TimerQuiet
<1>6. CASE SwReset
  BY <1>6 DEF SwReset, Processor, Table, Data, TimerQuiet
<1>7. CASE SwResetDone
  BY <1>7 DEF SwResetDone, Processor, Table, Data, TimerQuiet
<1> QED  BY <1>1, <1>2, <1>3, <1>4, <1>5, <1>6, <1>7 DEF MacInit

-----------------------------------------------------------------------------
(* Handlers and devices: the timer, once halted, stays so until tse_init   *)
(* is past, because nothing but rx_ethernet_isr starts it.                 *)
LEMMA RestKeeps ==
  StartInv /\ (Take \/ DeviceSteps \/ ResetCompletes \/ Clock \/ Restart) => StartInv'
<1> SUFFICES ASSUME StartInv, Take \/ DeviceSteps \/ ResetCompletes \/ Clock \/ Restart
             PROVE StartInv'
  OBVIOUS
<1> USE DEF StartInv, cpuVars, softVars, deviceVars, macVars
<1>1. CASE Take
  <2>1. CASE TimerTaken
    <3>1. TIMER' \in {TIMER, Halted} /\ requests' = requests \ {Timer}
      BY <2>1 DEF TimerTaken
    <3>2. TimerQuiet'
      BY <1>1, <3>1 DEF Take, Halted, TimerQuiet
    <3> QED  BY <1>1, <3>2 DEF Take, Processor, Table, Data
  <2>2. CASE RxTaken
    <3>1. stage \in IrqsOn
      BY <2>2 DEF RxTaken, Takeable, Processor
    <3>2. \/ TIMER' = TIMER
          \/ TIMER' = Counting /\ stage \in WithCallback
      BY <2>2, <3>1 DEF RxTaken, Data
    <3>3. requests' = requests \ {Rx}
      BY <2>2 DEF RxTaken
    <3>4. TimerQuiet'
      BY <1>1, <3>2, <3>3 DEF Take, Counting, TimerQuiet
    <3> QED  BY <1>1, <3>4 DEF Take, Processor, Table, Data
  <2> QED  BY <1>1, <2>1, <2>2 DEF Take
<1>2. CASE DeviceSteps
  BY <1>2, LineNumbers
  DEF DeviceSteps, TimerExpires, FrameArrives, Processor, Table, Data, TimerQuiet
<1>3. CASE ResetCompletes
  BY <1>3 DEF ResetCompletes, Processor, Table, Data, TimerQuiet
<1>4. CASE Clock
  BY <1>4 DEF Clock, Processor, Table, Data, TimerQuiet
<1>5. CASE Restart
  <2>1. Processor'
    BY <1>5 DEF Restart, Processor
  <2>2. Table'
    BY <1>5 DEF Restart, Processor, Table
  <2>3. Data'
    BY <1>5 DEF Restart, Processor, Data
  <2>4. TimerQuiet'
    BY <1>5 DEF Restart, TimerQuiet
  <2> QED  BY <2>1, <2>2, <2>3, <2>4
<1> QED  BY <1>1, <1>2, <1>3, <1>4, <1>5

LEMMA StutterKeeps == StartInv /\ UNCHANGED startVars => StartInv'
  BY DEF StartInv, startVars, cpuVars, softVars, deviceVars, macVars, Processor, Table,
         Data, TimerQuiet

LEMMA StartKeeps == StartInv /\ [StartNext]_startVars => StartInv'
  BY BootKeeps, SysInitKeeps, TimerIntEnKeeps, MacInitKeeps, RestKeeps, StutterKeeps
  DEF StartNext, Program

(* A line that can be taken is enabled, so its stage has come.             *)
LEMMA InvReady == StartInv => HandlersReady
<1> SUFFICES ASSUME StartInv, NEW i \in Takeable
             PROVE /\ clean = {".bss", ".data"}
                   /\ CASE alt_irq[i] = "alt_avalon_timer_sc_irq" -> TRUE
                        [] alt_irq[i] = "timeout_isr" ->
                             TCP_link \/ stage \in {"period_l", "period_h"}
                        [] alt_irq[i] = "alt_avalon_sgdma_irq" ->
                             callback => /\ TCP_link /\ sgdma_open = {Tx, Rx}
                                         /\ configured # {}
                        [] OTHER -> FALSE
  BY DEF HandlersReady
<1> USE LineNumbers DEF StartInv
<1>1. pie /\ stage \in IrqsOn /\ i \in ienable /\ i \in requests
  BY DEF Takeable, Processor
<1>2. clean = {".bss", ".data"}
  BY <1>1 DEF Processor
<1>3. CASE i = Timer
  <2>1. stage \in TimerKnown /\ stage # "tse_init"
    BY <1>1, <1>3 DEF Processor, TimerQuiet
  <2> QED  BY <1>2, <1>3, <2>1 DEF Table, Data
<1>4. CASE i \in {Tx, Rx}
  <2>1. alt_irq[i] = "alt_avalon_sgdma_irq"
    BY <1>1, <1>4 DEF Processor, Table
  <2>2. callback => TCP_link /\ sgdma_open = {Tx, Rx} /\ configured # {}
    BY <1>1 DEF Data
  <2> QED  BY <1>2, <2>1, <2>2
<1> QED  BY <1>1, <1>3, <1>4 DEF Processor

-----------------------------------------------------------------------------
(* The inductive invariant: stage by stage, what the start has done.       *)
THEOREM StartInvariant == StartSpec => []StartInv
  BY StartHolds, StartKeeps, PTL DEF StartSpec

(* Every interrupt that can be taken, at any moment of the start and after *)
(* any restart, has a handler whose data are there: HandlersReady of       *)
(* alt_main, alt_sys_init, timer_int_en and tse_init.                      *)
THEOREM HandlersAlwaysReady == StartSpec => []HandlersReady
  BY StartInvariant, InvReady, PTL

-----------------------------------------------------------------------------
(* What the driver's read-modify-write routines change and what they keep, *)
(* for every value of every register.                                      *)

(* alt_tse_phy_wr_mdio_reg writes the field that is asked for, so that     *)
(* alt_tse_phy_rd_mdio_reg reads the same data back, cut to the field.     *)
THEOREM FieldReadsBack ==
  ASSUME NEW reg \in SUBSET Word, NEW data \in SUBSET Word,
         NEW lsb \in Word, NEW length \in Nat, lsb + length <= 16
  PROVE  ReadField(WriteField(reg, lsb, length, data), lsb, length)
           = {b \in data : b < length}
<1> DEFINE new == WriteField(reg, lsb, length, data)
<1>1. ASSUME NEW b \in Word, b < length
      PROVE  b + lsb \in new <=> b \in data
  <2>1. b + lsb \in Field(lsb, length) /\ (b + lsb) - lsb = b
    BY <1>1 DEF Field, Word
  <2>2. QED
    BY <2>1 DEF WriteField
<1>2. ASSUME NEW b
      PROVE  b \in ReadField(new, lsb, length) <=> b \in data /\ b < length
  BY <1>1 DEF ReadField
<1>3. QED
  BY <1>2

(* The bits around the field keep their values, and a neighbouring field   *)
(* is not disturbed.                                                       *)
THEOREM FieldLeavesRest ==
  ASSUME NEW reg \in SUBSET Word, NEW data \in SUBSET Word,
         NEW lsb \in Word, NEW length \in Nat
  PROVE  LET new == WriteField(reg, lsb, length, data)
         IN /\ new \in SUBSET Word
            /\ \A b \in Word \ Field(lsb, length) : b \in new <=> b \in reg
            /\ \A l \in Word, n \in Nat : l + n <= lsb \/ lsb + length <= l
                 => ReadField(new, l, n) = ReadField(reg, l, n)
<1> DEFINE new == WriteField(reg, lsb, length, data)
<1>1. new \in SUBSET Word
  BY DEF WriteField, Field
<1>2. \A b : b \notin Field(lsb, length) => (b \in new <=> b \in reg)
  BY DEF WriteField
<1>3. ASSUME NEW l \in Word, NEW n \in Nat, l + n <= lsb \/ lsb + length <= l
      PROVE  ReadField(new, l, n) = ReadField(reg, l, n)
  <2>1. ASSUME NEW b \in Word, b < n
        PROVE  b + l \notin Field(lsb, length)
    BY <1>3, <2>1 DEF Field, Word
  <2>2. \A b \in Word : b < n => (b + l \in new <=> b + l \in reg)
    BY <1>2, <2>1
  <2>3. QED
    BY <2>2 DEF ReadField
<1>4. QED
  BY <1>1, <1>2, <1>3

(* Speed and duplex can be set in any order and in any state: each routine *)
(* leaves what the other has set, and every other bit of COMMAND_CONFIG,   *)
(* TX_ENA and RX_ENA among them.                                           *)
THEOREM SpeedAndDuplex ==
  ASSUME NEW config \in SUBSET DOMAIN Bit,
         NEW speed \in {Speed10, Speed100, Speed1000}, NEW duplex \in {0, 1}
  PROVE  LET set == SetSpeed(SetDuplex(config, duplex), speed)
         IN /\ SpeedOf(set) = speed
            /\ "HD_ENA" \in set <=> duplex = 0
            /\ set = SetDuplex(SetSpeed(config, speed), duplex)
            /\ \A b \in DOMAIN Bit \ {"ETH_SPEED", "ENA_10", "HD_ENA"} :
                 b \in set <=> b \in config
<1>1. CASE speed = Speed1000
  BY <1>1 DEF SetSpeed, SetDuplex, SpeedOf, Speed10, Speed100, Speed1000
<1>2. CASE speed = Speed100
  BY <1>2 DEF SetSpeed, SetDuplex, SpeedOf, Speed10, Speed100, Speed1000
<1>3. CASE speed = Speed10
  BY <1>3 DEF SetSpeed, SetDuplex, SpeedOf, Speed10, Speed100, Speed1000
<1>4. QED
  BY <1>1, <1>2, <1>3

(* Whatever mode a Marvell PHY is switched to, the switch asks for the     *)
(* reset without which it does not take it, replaces the mode and keeps    *)
(* the upper bits of register 27 and the registers it does not name.       *)
THEOREM MarvellSwitches ==
  ASSUME NEW mdio \in [0 .. 31 -> SUBSET Word],
         NEW mode \in SUBSET ModeBits, NEW timing \in SUBSET Timing
  PROVE  LET new == MarvellCfg(mdio, mode, timing)
         IN /\ sw_reset \in new[CONTROL]
            /\ new[27] \cap ModeBits = mode
            /\ new[20] \cap Timing = timing
            /\ new[27] \ ModeBits = mdio[27] \ ModeBits
            /\ \A r \in (0 .. 31) \ {CONTROL, 20, 27} : new[r] = mdio[r]
<1> DEFINE new == MarvellCfg(mdio, mode, timing)
<1>1. /\ new[CONTROL] = mdio[CONTROL] \cup {sw_reset}
      /\ new[27] = (mdio[27] \ ModeBits) \cup mode
      /\ new[20] = (mdio[20] \ Timing) \cup timing
      /\ \A r \in (0 .. 31) \ {CONTROL, 20, 27} : new[r] = mdio[r]
  BY DEF MarvellCfg, Reset, CONTROL
<1>2. QED
  BY <1>1

(* Copying abilities into a register of advertisement replaces those it    *)
(* names and keeps the others.                                             *)
LEMMA OnesOfCopied ==
  ASSUME NEW bit, \A m, n \in DOMAIN bit : bit[m] = bit[n] => m = n,
         NEW names \in SUBSET DOMAIN bit, NEW from, NEW reg
  PROVE  Ones(Copied(reg, bit, names, from), bit)
           = (Ones(reg, bit) \ names) \cup (names \cap from)
<1> DEFINE new == Copied(reg, bit, names, from)
<1>1. ASSUME NEW n \in DOMAIN bit
      PROVE  bit[n] \in new <=> (bit[n] \in reg /\ n \notin names)
                                 \/ (n \in names /\ n \in from)
  BY <1>1 DEF Copied
<1>2. QED
  BY <1>1 DEF Ones

(* alt_tse_phy_set_adv_1000, _100 and _10, whatever the registers hold:    *)
(* each advertises of its own speed what the PHY can do, or nothing when   *)
(* the speed is disabled, and leaves the advertisement of the other two    *)
(* speeds, two of which share a register, as it was.                       *)
THEOREM AdvertisesOneSpeed ==
  ASSUME NEW mdio \in [0 .. 31 -> SUBSET Word], NEW enable \in BOOLEAN
  PROVE  LET of(names) == (Advertised(mdio) \ names)
                            \cup (names \cap If(enable, CapOf(mdio)))
         IN /\ Advertised(SetAdv1000(mdio, enable)) = of(Mbps1000)
            /\ Advertised(SetAdv100(mdio, enable)) = of(Mbps100)
            /\ Advertised(SetAdv10(mdio, enable)) = of(Mbps10)
<1> DEFINE can == If(enable, CapOf(mdio))
<1>1. /\ DOMAIN TCtrlBit = {"T_FULL_1000", "T_HALF_1000"}
      /\ \A m, n \in DOMAIN TCtrlBit : TCtrlBit[m] = TCtrlBit[n] => m = n
  BY DEF TCtrlBit
<1>2. /\ DOMAIN AdvBit = {"T4_100", "X_FULL_100", "X_HALF_100", "T_FULL_10",
                          "T_HALF_10"}
      /\ \A m, n \in DOMAIN AdvBit : AdvBit[m] = AdvBit[n] => m = n
  BY DEF AdvBit
<1>3. /\ Mbps1000 = DOMAIN TCtrlBit /\ Mbps100 \subseteq DOMAIN AdvBit
      /\ Mbps10 \subseteq DOMAIN AdvBit /\ DOMAIN TCtrlBit \cap DOMAIN AdvBit = {}
  BY <1>1, <1>2 DEF Mbps1000, Mbps100, Mbps10
<1>4. Ones(mdio[T_CTRL], TCtrlBit) \subseteq DOMAIN TCtrlBit
      /\ Ones(mdio[ADV], AdvBit) \subseteq DOMAIN AdvBit
  BY DEF Ones
<1>5. /\ SetAdv1000(mdio, enable)[T_CTRL]
           = Copied(mdio[T_CTRL], TCtrlBit, Mbps1000, can)
      /\ SetAdv1000(mdio, enable)[ADV] = mdio[ADV]
      /\ SetAdv100(mdio, enable)[ADV] = Copied(mdio[ADV], AdvBit, Mbps100, can)
      /\ SetAdv100(mdio, enable)[T_CTRL] = mdio[T_CTRL]
      /\ SetAdv10(mdio, enable)[ADV] = Copied(mdio[ADV], AdvBit, Mbps10, can)
      /\ SetAdv10(mdio, enable)[T_CTRL] = mdio[T_CTRL]
  BY DEF SetAdv1000, SetAdv100, SetAdv10, T_CTRL, ADV
<1>6. Ones(Copied(mdio[T_CTRL], TCtrlBit, Mbps1000, can), TCtrlBit)
        = (Ones(mdio[T_CTRL], TCtrlBit) \ Mbps1000) \cup (Mbps1000 \cap can)
  BY <1>1, <1>3, OnesOfCopied
<1>7. \A names \in {Mbps100, Mbps10} :
        Ones(Copied(mdio[ADV], AdvBit, names, can), AdvBit)
          = (Ones(mdio[ADV], AdvBit) \ names) \cup (names \cap can)
  BY <1>2, <1>3, OnesOfCopied
<1>8. Advertised(SetAdv1000(mdio, enable))
        = (Advertised(mdio) \ Mbps1000) \cup (Mbps1000 \cap can)
  BY <1>3, <1>4, <1>5, <1>6 DEF Advertised
<1>9. Advertised(SetAdv100(mdio, enable))
        = (Advertised(mdio) \ Mbps100) \cup (Mbps100 \cap can)
  BY <1>3, <1>4, <1>5, <1>7 DEF Advertised
<1>10. Advertised(SetAdv10(mdio, enable))
        = (Advertised(mdio) \ Mbps10) \cup (Mbps10 \cap can)
  BY <1>3, <1>4, <1>5, <1>7 DEF Advertised
<1>11. QED
  BY <1>8, <1>9, <1>10

-----------------------------------------------------------------------------
(* The delay has its turns, for every build and every argument.            *)

(* An outer turn takes off no more microseconds than it lasts.             *)
LEMMA MostFits ==
  ASSUME NEW largest \in Nat, NEW perUs \in Nat \ {0}, perUs <= largest
  PROVE  /\ Most(largest, perUs) \in Nat \ {0}
         /\ Most(largest, perUs) * perUs <= largest
BY DEF Most

(* usleep takes at least the turns of the microseconds it is asked for,    *)
(* however many outer turns they make.                                     *)
THEOREM EnoughTurns ==
  ASSUME NEW largest \in Nat, NEW perUs \in Nat \ {0}, perUs <= largest,
         NEW us \in Nat
  PROVE  USleep(us, largest, perUs) >= Asked(us, perUs)
<1> DEFINE most == Most(largest, perUs)
           big == BigLoops(us, largest, perUs)
           rest == us - big * most
<1>1. most \in Nat \ {0} /\ most * perUs <= largest
  BY MostFits
<1> HIDE DEF most
<1>2. big = us \div most
  BY DEF BigLoops, most
<1>3. big \in Nat /\ big * most <= us
  BY <1>1, <1>2
<1> HIDE DEF big
<1>4. rest \in Nat /\ us = big * most + rest
  BY <1>1, <1>3
<1> HIDE DEF rest
<1>5. us * perUs = big * (most * perUs) + rest * perUs
  BY <1>1, <1>3, <1>4
<1>6. big * (most * perUs) <= big * largest
  BY <1>1, <1>3
<1>7. rest * perUs \in Nat /\ us * perUs \in Nat
  BY <1>4
<1>8. UntilZero(rest * perUs, largest) >= rest * perUs
  BY <1>7 DEF UntilZero
<1>9. UntilNotPositive(us * perUs) >= us * perUs
  BY <1>7 DEF UntilNotPositive
<1>10. Turns(us, largest, perUs)
         = IF big > 0 THEN big * largest + UntilZero(rest * perUs, largest)
           ELSE UntilNotPositive(us * perUs)
  BY DEF Turns, big, rest, most
<1>11. big * largest \in Int /\ big * (most * perUs) \in Int
       /\ UntilZero(rest * perUs, largest) \in Int
       /\ UntilNotPositive(us * perUs) \in Int
  BY <1>1, <1>3, <1>7 DEF UntilZero, UntilNotPositive
<1>12. QED
  BY <1>5, <1>6, <1>7, <1>8, <1>9, <1>10, <1>11 DEF USleep, Asked

-----------------------------------------------------------------------------
(* sbrk's blocks are apart, for every heap and every request.              *)

(* Rounding up to a word goes up by less than a word, and not past a limit *)
(* that is one.                                                            *)
LEMMA UpToWordIs ==
  ASSUME NEW address \in Nat
  PROVE  /\ UpToWord(address) \in Nat /\ UpToWord(address) % 4 = 0
         /\ address <= UpToWord(address)
         /\ \A limit \in Nat : limit % 4 = 0 /\ address <= limit
                               => UpToWord(address) <= limit
BY DEF UpToWord

(* The blocks' addresses are numbers, and BlocksApart holds.               *)
HeapInv ==
  /\ blocks \subseteq [from : Nat, to : Nat]
  /\ BlocksApart

(* A block that is granted begins where all the others have ended.         *)
LEMMA GrantKeeps ==
  ASSUME HeapInv, NEW incr \in Increments, Grant(incr)
  PROVE  HeapInv'
<1> USE HeapAssumption
<1> DEFINE new == [from |-> Aligned, to |-> Aligned + incr]
<1>1. /\ incr \in Nat /\ heap_end \in Nat /\ heap_end <= HeapLimit
      /\ HeapStart <= heap_end
  BY DEF HeapInv, BlocksApart, Grant
<1>2. Aligned \in Nat /\ Aligned % 4 = 0 /\ heap_end <= Aligned
  BY <1>1, UpToWordIs DEF Aligned
<1>3. /\ heap_end' = Aligned + incr /\ blocks' = blocks \cup {new}
      /\ Aligned + incr <= HeapLimit
  BY DEF Grant, Fits
<1>4. /\ new \in [from : Nat, to : Nat] /\ new.from = Aligned
      /\ new.to = Aligned + incr
  BY <1>1, <1>2
<1> HIDE DEF new
<1>5. \A b \in blocks : /\ b.from \in Nat /\ b.to \in Nat /\ b.from % 4 = 0
                        /\ HeapStart <= b.from /\ b.from <= b.to
                        /\ b.to <= heap_end
  BY DEF HeapInv, BlocksApart
<1>6. heap_end' \in HeapStart .. HeapLimit
  BY <1>1, <1>2, <1>3
<1>7. \A b \in blocks' : /\ b.from % 4 = 0 /\ HeapStart <= b.from
                         /\ b.from <= b.to /\ b.to <= heap_end'
  BY <1>1, <1>2, <1>3, <1>4, <1>5
<1>8. \A b, c \in blocks' : b = c \/ b.to <= c.from \/ c.to <= b.from
  <2>1. \A b \in blocks : b.to <= new.from
    BY <1>1, <1>2, <1>4, <1>5
  <2>2. QED
    BY <2>1, <1>3 DEF HeapInv, BlocksApart
<1>9. blocks' \subseteq [from : Nat, to : Nat]
  BY <1>3, <1>4 DEF HeapInv
<1>10. QED
  BY <1>6, <1>7, <1>8, <1>9 DEF HeapInv, BlocksApart

(* What is left of the blocks after some memory was given back lies where  *)
(* it lay before.                                                          *)
LEMMA GiveBackKeeps ==
  ASSUME HeapInv, NEW incr \in Increments, GiveBack(incr)
  PROVE  HeapInv'
<1> USE HeapAssumption
<1> DEFINE end == Aligned + incr
<1>1. /\ heap_end \in Nat /\ incr \in Int /\ Aligned \in Nat
  BY UpToWordIs DEF HeapInv, BlocksApart, Aligned
<1>2. /\ end \in Nat /\ HeapStart <= end /\ end <= HeapLimit
      /\ heap_end' = end
      /\ blocks' = {b \in blocks : b.to <= end}
                     \cup {[from |-> b.from, to |-> end] :
                             b \in {c \in blocks : c.from < end /\ c.to > end}}
  BY <1>1 DEF GiveBack, Fits
<1> HIDE DEF end
<1>3. \A b \in blocks : /\ b.from \in Nat /\ b.to \in Nat /\ b.from % 4 = 0
                        /\ HeapStart <= b.from /\ b.from <= b.to
  BY DEF HeapInv, BlocksApart
<1>4. \A r \in blocks' : \E b \in blocks :
        /\ r \in [from : Nat, to : Nat] /\ r.from = b.from
        /\ r.to <= b.to /\ r.to <= end /\ r.from <= r.to
        /\ (r = b \/ (r.to = end /\ b.to > end))
  <2>1. TAKE r \in blocks'
  <2>2. CASE r \in blocks /\ r.to <= end
    BY <2>2, <1>3, <1>1 DEF HeapInv
  <2>3. CASE \E b \in blocks : /\ b.from < end /\ b.to > end
                               /\ r = [from |-> b.from, to |-> end]
    BY <2>3, <1>2, <1>3
  <2>4. QED
    BY <2>2, <2>3, <1>2
<1>5. \A b \in blocks' : /\ b.from % 4 = 0 /\ HeapStart <= b.from
                         /\ b.from <= b.to /\ b.to <= heap_end'
  BY <1>2, <1>3, <1>4
<1>6. ASSUME NEW r \in blocks', NEW s \in blocks'
      PROVE  r = s \/ r.to <= s.from \/ s.to <= r.from
  <2>1. PICK b \in blocks : /\ r \in [from : Nat, to : Nat] /\ r.from = b.from
                            /\ r.to <= b.to /\ (r = b \/ (r.to = end /\ b.to > end))
    BY <1>4
  <2>2. PICK c \in blocks : /\ s \in [from : Nat, to : Nat] /\ s.from = c.from
                            /\ s.to <= c.to
                            /\ (s = c \/ (s.to = end /\ c.to > end))
    BY <1>4
  <2>3. CASE b = c
    BY <2>1, <2>2, <2>3, <1>2, <1>3, <1>5
  <2>4. CASE b # c
    <3>1. b.to <= c.from \/ c.to <= b.from
      BY <2>4 DEF HeapInv, BlocksApart
    <3>2. QED
      BY <3>1, <2>1, <2>2, <1>3
  <2>5. QED
    BY <2>3, <2>4
<1>7. blocks' \subseteq [from : Nat, to : Nat]
  BY <1>4
<1>8. QED
  BY <1>2, <1>5, <1>6, <1>7 DEF HeapInv, BlocksApart

(* malloc's memory: two blocks that sbrk has granted never overlap and     *)
(* never reach past __alt_heap_limit.                                      *)
THEOREM BlocksStayApart == HeapSpec => []BlocksApart
<1>1. HeapInit => HeapInv
  BY HeapAssumption DEF HeapInit, HeapInv, BlocksApart
<1>2. HeapInv /\ [HeapNext]_heapVars => HeapInv'
  <2>1. SUFFICES ASSUME HeapInv, [HeapNext]_heapVars PROVE HeapInv'
    OBVIOUS
  <2>2. ASSUME NEW incr \in Increments, Refuse(incr)
        PROVE  HeapInv'
    <3>1. /\ heap_end' \in Nat /\ heap_end <= heap_end' /\ heap_end' <= HeapLimit
          /\ blocks' = blocks /\ heap_end \in Nat
      BY <2>1, <2>2, UpToWordIs, HeapAssumption
      DEF Refuse, Aligned, HeapInv, BlocksApart
    <3>2. QED
      BY <2>1, <3>1, HeapAssumption DEF HeapInv, BlocksApart
  <2>3. CASE UNCHANGED heapVars
    BY <2>1, <2>3 DEF heapVars, HeapInv, BlocksApart
  <2>4. QED
    BY <2>1, <2>2, <2>3, GrantKeeps, GiveBackKeeps DEF HeapNext
<1>3. HeapInv => BlocksApart
  BY DEF HeapInv
<1>4. QED
  BY <1>1, <1>2, <1>3, PTL DEF HeapSpec

-----------------------------------------------------------------------------
(* The tables of the Ethernet driver.  The groups follow one another, and  *)
(* the scan of one of them is ahead of the PHYs it has given out.  While   *)
(* memory lasts, the devices also fall into runs, a run for every MDIO     *)
(* bus, and the next group begins with a run.                              *)

Entry(d) == tse_mac_device[d]
Run(d) == SystemWidth(Entry(d))
Lo(g) == pmac_groups[g][1]
Size(g) == Len(pmac_groups[g])
Members(g) == Lo(g) .. Lo(g) + Size(g) - 1
Groups == 1 .. Len(pmac_groups)
Following == IF pmac_groups = <<>> THEN 1
             ELSE Lo(Len(pmac_groups)) + Size(Len(pmac_groups))

TablesOK ==
  /\ tse_mac_device \in Seq(Device) /\ bus \in Seq(Buses) /\ mdio_addr \in Seq(Addresses)
  /\ phyOf \in Seq(Addresses \cup {NoPhy}) /\ profileOf \in Seq({"own", "default", "none"})
  /\ Len(bus) = Len(tse_mac_device) /\ Len(mdio_addr) = Len(tse_mac_device)
  /\ Len(phyOf) = Len(tse_mac_device) /\ Len(profileOf) = Len(tse_mac_device)
  /\ \A d \in Defined : /\ Entry(d).channels >= 1 /\ Entry(d).sharers >= 1
                         /\ Entry(d).mac <= Len(tse_mac_device)

ProfilesOK ==
  /\ pphy_profiles \in Seq(Profile)
  /\ phase = "config" => /\ \A i \in DOMAIN pphy_profiles : pphy_profiles[i].own
                         /\ \A d \in Defined : profileOf[d] = "none"
  /\ phase # "config" =>
       /\ Len(pphy_profiles) >= 1
       /\ \A i \in DOMAIN pphy_profiles :
            IF i = Len(pphy_profiles)
            THEN pphy_profiles[i].model = "known" ELSE pphy_profiles[i].own
  /\ \A d \in Defined : profileOf[d] = "default" =>
       \A i \in DOMAIN pphy_profiles :
         pphy_profiles[i].own => pphy_profiles[i].model # "known"

GroupsOK ==
  /\ phase = "config" => pmac_groups = <<>>
  /\ pmac_groups \in Seq(Seq(Int))
  /\ \A g \in Groups :
       /\ Size(g) >= 1 /\ Lo(g) >= 1 /\ Lo(g) + Size(g) - 1 <= Len(tse_mac_device)
       /\ \A k \in 1 .. Size(g) : pmac_groups[g][k] = Lo(g) + k - 1
  /\ \A g, h \in Groups : g < h => Lo(g) + Size(g) <= Lo(h)

Starts(starts) ==
  /\ \A s \in starts : s + Run(s) \in starts \cup {Len(tse_mac_device) + 1}
  /\ \A s, t \in starts : s < t => s + Run(s) <= t
  /\ \A d \in Defined : d \in starts \/ Entry(d).channels > 1 \/ Entry(d).shared
  /\ \A d, e \in Defined :
       SameBus(d, e) <=> \E s \in starts : {d, e} \subseteq s .. s + Run(s) - 1
  /\ Following \in starts \cup {Len(tse_mac_device) + 1}
  /\ \A g \in Groups : Lo(g) \in starts /\ Size(g) = Run(Lo(g))
RunsOK == ~short => \E starts \in SUBSET Defined : Starts(starts)

ScanPlace == [group : Nat, address : Nat, saved : Addresses]
ScanOK ==
  /\ scan \in ScanPlace
  /\ scan.group \in 1 .. Len(pmac_groups) + 1 /\ scan.address \in 0 .. LastAddress + 1
  /\ scan.saved \in Addresses
  /\ phase \in {"config", "groups", "scan", "address", "ready"}
  /\ phase \in {"config", "groups"} => /\ scan.group = 1
                                       /\ \A d \in Defined : phyOf[d] = NoPhy
  /\ phase = "address" => scan.group \in Groups
  /\ phase = "ready" => scan.group = Len(pmac_groups) + 1

NamesOK ==
  \A d \in Defined : /\ phyOf[d] # NoPhy => Entry(d).phy = phyOf[d]
                     /\ Entry(d).named # AutoAddress => Entry(d).phy = Entry(d).named

(* Which groups, and which addresses of them, have been scanned.           *)
Ahead(g) == g > scan.group \/ (g = scan.group /\ phase # "address")
Scanned(g, a) == g < scan.group \/ (g = scan.group /\ phase = "address" /\ a < scan.address)
Served(g, a) ==
  Entry(Lo(g)).mdio /\ bus[Lo(g)][a] # "none" =>
    \/ \E d \in Members(g) : phyOf[d] = a
    \/ \A d \in Members(g) : Entry(d).phy # AutoAddress

PhysOK ==
  \A g \in Groups :
    /\ Ahead(g) => \A d \in Members(g) : phyOf[d] = NoPhy
    /\ g = scan.group /\ phase = "address" => \A d \in Members(g) : phyOf[d] < scan.address
    /\ \A d, e \in Members(g) : phyOf[d] = phyOf[e] /\ phyOf[d] # NoPhy => d = e
    /\ ~short => \A a \in Addresses : Scanned(g, a) => Served(g, a)

TseInv == TablesOK /\ ProfilesOK /\ GroupsOK /\ RunsOK /\ ScanOK /\ NamesOK /\ PhysOK

-----------------------------------------------------------------------------
(* Sequences, groups and the fields of a device.                           *)
LEMMA Lists ==
  ASSUME NEW S, NEW n \in Nat, NEW f, f = [k \in 1 .. n |-> f[k]], \A k \in 1 .. n : f[k] \in S
  PROVE  f \in Seq(S) /\ Len(f) = n
OBVIOUS

LEMMA DeviceHas ==
  ASSUME NEW e \in Device
  PROVE  /\ e.phy \in Addresses \cup {AutoAddress} /\ e.named \in Addresses \cup {AutoAddress}
         /\ e.channels \in Nat /\ e.sharers \in Nat /\ e.mac \in Nat
BY Zenon DEF Device

LEMMA WidthIs ==
  ASSUME NEW e \in Device, e.channels >= 1, e.sharers >= 1
  PROVE  SystemWidth(e) \in Nat /\ SystemWidth(e) >= 1
BY DeviceHas DEF SystemWidth

LEMMA Basics ==
  ASSUME TablesOK
  PROVE  /\ Len(tse_mac_device) \in Nat /\ Defined = 1 .. Len(tse_mac_device)
         /\ DOMAIN phyOf = Defined /\ DOMAIN profileOf = Defined
         /\ DOMAIN mdio_addr = Defined /\ DOMAIN bus = Defined
         /\ \A d \in Defined : /\ Entry(d) \in Device /\ phyOf[d] \in Addresses \cup {NoPhy}
                               /\ mdio_addr[d] \in Addresses /\ bus[d] \in Buses
                               /\ Run(d) \in Nat /\ Run(d) >= 1
<1>1. /\ Len(tse_mac_device) \in Nat /\ Defined = 1 .. Len(tse_mac_device)
      /\ DOMAIN phyOf = Defined /\ DOMAIN profileOf = Defined
      /\ DOMAIN mdio_addr = Defined /\ DOMAIN bus = Defined
  BY DEF TablesOK, Defined
<1>2. ASSUME NEW d \in Defined
      PROVE  /\ Entry(d) \in Device /\ phyOf[d] \in Addresses \cup {NoPhy}
             /\ mdio_addr[d] \in Addresses /\ bus[d] \in Buses
  BY <1>1 DEF TablesOK, Defined, Entry
<1>3. ASSUME NEW d \in Defined PROVE Run(d) \in Nat /\ Run(d) >= 1
  <2>1. Entry(d) \in Device /\ Entry(d).channels >= 1 /\ Entry(d).sharers >= 1
    BY <1>2 DEF TablesOK
  <2> QED  BY <2>1, WidthIs DEF Run
<1> QED  BY <1>1, <1>2, <1>3

LEMMA MembersAre ==
  ASSUME TablesOK, GroupsOK
  PROVE  /\ Len(pmac_groups) \in Nat /\ DOMAIN pmac_groups = Groups
         /\ \A g \in Groups :
              /\ Lo(g) \in Defined /\ Size(g) \in Nat /\ Size(g) >= 1
              /\ pmac_groups[g] # <<>> /\ Members(g) \subseteq Defined
              /\ ToSet(pmac_groups[g]) = Members(g)
<1>1. Len(pmac_groups) \in Nat /\ DOMAIN pmac_groups = Groups
  BY DEF GroupsOK, Groups
<1>2. ASSUME NEW g \in Groups
      PROVE  /\ Lo(g) \in Defined /\ Size(g) \in Nat /\ Size(g) >= 1
             /\ pmac_groups[g] # <<>> /\ Members(g) \subseteq Defined
             /\ ToSet(pmac_groups[g]) = Members(g)
  <2> DEFINE s == pmac_groups[g]
  <2>1. s \in Seq(Int)
    BY <1>1 DEF GroupsOK, Groups
  <2>2. /\ Size(g) >= 1 /\ Lo(g) >= 1 /\ Lo(g) + Size(g) - 1 <= Len(tse_mac_device)
        /\ \A k \in 1 .. Size(g) : s[k] = Lo(g) + k - 1
    BY DEF GroupsOK
  <2>3. Len(s) \in Nat /\ DOMAIN s = 1 .. Len(s) /\ Size(g) = Len(s) /\ Lo(g) = s[1]
    BY <2>1 DEF Size, Lo
  <2>4. s[1] \in Int /\ s # <<>>
    BY <2>1, <2>2, <2>3
  <2> HIDE DEF s
  <2>5. /\ Lo(g) \in Defined /\ Members(g) \subseteq Defined
    BY <2>2, <2>3, <2>4, Basics DEF Members
  <2>6. ToSet(s) = Members(g)
    <3>1. ToSet(s) \subseteq Members(g)
      BY <2>2, <2>3, <2>4 DEF ToSet, Members
    <3>2. ASSUME NEW d \in Members(g) PROVE d \in ToSet(s)
      <4> DEFINE k == d - Lo(g) + 1
      <4>1. k \in 1 .. Size(g) /\ d = Lo(g) + k - 1
        BY <2>2, <2>3, <2>4 DEF Members
      <4> HIDE DEF k
      <4>2. s[k] = d /\ k \in DOMAIN s
        BY <2>2, <2>3, <4>1
      <4> QED  BY <4>2 DEF ToSet
    <3> QED  BY <3>1, <3>2
  <2> QED  BY <2>2, <2>3, <2>4, <2>5, <2>6 DEF s
<1> QED  BY <1>1, <1>2

LEMMA FollowingIs ==
  ASSUME TablesOK, GroupsOK
  PROVE  /\ FirstOfGroup = Following /\ Following \in 1 .. Len(tse_mac_device) + 1
         /\ \A g \in Groups : Lo(g) + Size(g) <= Following
<1> DEFINE m == Len(pmac_groups)
<1>1. m \in Nat /\ Len(tse_mac_device) \in Nat /\ pmac_groups \in Seq(Seq(Int))
  BY MembersAre, Basics DEF GroupsOK
<1>2. CASE pmac_groups = <<>>
  BY <1>1, <1>2 DEF FirstOfGroup, Following, Groups
<1>3. CASE pmac_groups # <<>>
  <2>1. m \in Groups
    BY <1>1, <1>3 DEF Groups
  <2>2. /\ Size(m) >= 1 /\ Lo(m) >= 1 /\ Lo(m) + Size(m) - 1 <= Len(tse_mac_device)
        /\ pmac_groups[m][Size(m)] = Lo(m) + Size(m) - 1
        /\ Size(m) \in Nat /\ Lo(m) \in Int
    <3>1. /\ Size(m) \in Nat /\ Size(m) >= 1 /\ Lo(m) \in Defined
      BY <2>1, MembersAre
    <3>2. /\ Lo(m) >= 1 /\ Lo(m) + Size(m) - 1 <= Len(tse_mac_device)
          /\ \A k \in 1 .. Size(m) : pmac_groups[m][k] = Lo(m) + k - 1
      BY <2>1 DEF GroupsOK
    <3> QED  BY <3>1, <3>2, Basics
  <2>3. FirstOfGroup = Lo(m) + Size(m) - 1 + 1
    BY <1>3, <2>2 DEF FirstOfGroup, Last, Size
  <2>4. Following = Lo(m) + Size(m)
    BY <1>3 DEF Following
  <2>5. ASSUME NEW g \in Groups PROVE Lo(g) + Size(g) <= Lo(m) + Size(m)
    <3>1. g = m \/ Lo(g) + Size(g) <= Lo(m)
      <4>1. g = m \/ g < m
        BY <1>1 DEF Groups
      <4>2. g < m => Lo(g) + Size(g) <= Lo(m)
        BY <2>1 DEF GroupsOK
      <4> QED  BY <4>1, <4>2
    <3>2. Lo(g) \in Int /\ Size(g) \in Int
      BY MembersAre, Basics
    <3> QED  BY <2>2, <3>1, <3>2
  <2> HIDE DEF m
  <2>6. FirstOfGroup = Following
    BY <2>2, <2>3, <2>4
  <2>7. Following \in 1 .. Len(tse_mac_device) + 1
    <3>1. /\ Following \in Int /\ Following >= 1 /\ Following <= Len(tse_mac_device) + 1
          /\ Len(tse_mac_device) \in Nat
      <4>1. PICK first \in Int : first = Lo(m)
        BY <2>2
      <4>2. PICK size \in Nat : size = Size(m)
        BY <2>2
      <4>3. PICK devices \in Nat : devices = Len(tse_mac_device)
        BY <1>1
      <4>4. /\ size >= 1 /\ first >= 1 /\ first + size - 1 <= devices
            /\ Following = first + size
        BY <2>2, <2>4, <4>1, <4>2, <4>3
      <4> QED  BY <4>3, <4>4
    <3> QED  BY <3>1
  <2>8. \A g \in Groups : Lo(g) + Size(g) <= Following
    BY <2>4, <2>5
  <2> QED  BY <2>6, <2>7, <2>8
<1> QED  BY <1>2, <1>3

-----------------------------------------------------------------------------
(* What the properties say follows from the invariant.                     *)
LEMMA TseTypes == TseInv => TseTypeOK
<1> SUFFICES ASSUME TseInv PROVE TseTypeOK
  OBVIOUS
<1>1. \A d \in Defined : /\ tse_mac_device[d] \in Device
                        /\ phyOf[d] \in Addresses \cup {NoPhy}
                        /\ mdio_addr[d] \in Addresses
  BY Basics DEF TseInv, Entry
<1>2. \A g \in DOMAIN pmac_groups : /\ pmac_groups[g] # <<>>
                                   /\ ToSet(pmac_groups[g]) \subseteq Defined
  BY MembersAre DEF TseInv
<1>3. /\ scan.group \in 1 .. Len(pmac_groups) + 1 /\ scan.address \in 0 .. LastAddress + 1
      /\ phase \in {"config", "groups", "scan", "address", "ready"}
  BY DEF TseInv, ScanOK
<1> QED  BY <1>1, <1>2, <1>3 DEF TseTypeOK

LEMMA GroupsFollow == TseInv => GroupsAreBuses
<1> SUFFICES ASSUME TseInv PROVE GroupsAreBuses
  OBVIOUS
<1>1. TablesOK /\ GroupsOK /\ RunsOK
  BY DEF TseInv
<1>2. ASSUME NEW g \in Groups, NEW h \in Groups, g # h
      PROVE  Members(g) \cap Members(h) = {}
  <2>1. /\ Lo(g) \in Int /\ Size(g) \in Int /\ Lo(h) \in Int /\ Size(h) \in Int
        /\ g \in Int /\ h \in Int
    BY <1>1, MembersAre, Basics DEF Groups
  <2>2. Lo(g) + Size(g) <= Lo(h) \/ Lo(h) + Size(h) <= Lo(g)
    BY <1>1, <1>2, <2>1 DEF GroupsOK
  <2> QED  BY <2>1, <2>2 DEF Members
<1>3. ASSUME ~short, NEW g \in Groups, NEW d \in Members(g), NEW e \in Defined
      PROVE  e \in Members(g) <=> SameBus(d, e)
  <2>1. PICK starts \in SUBSET Defined : Starts(starts)
    BY <1>1, <1>3 DEF RunsOK
  <2>2. d \in Defined
    BY <1>1, <1>3, MembersAre
  <2>3. Lo(g) \in starts /\ Size(g) = Run(Lo(g))
    BY <1>3, <2>1 DEF Starts
  <2>4. Members(g) = Lo(g) .. Lo(g) + Run(Lo(g)) - 1
    BY <2>3 DEF Members
  <2>5. ASSUME e \in Members(g) PROVE SameBus(d, e)
    BY <1>3, <2>1, <2>2, <2>3, <2>4, <2>5 DEF Starts
  <2>6. ASSUME SameBus(d, e) PROVE e \in Members(g)
    <3>1. PICK s \in starts : {d, e} \subseteq s .. s + Run(s) - 1
      BY <2>1, <2>2, <2>6 DEF Starts
    <3>2. /\ s < Lo(g) => s + Run(s) <= Lo(g)
          /\ Lo(g) < s => Lo(g) + Run(Lo(g)) <= s
      BY <2>1, <2>3, <3>1 DEF Starts
    <3>3. /\ s \in Int /\ Lo(g) \in Int /\ Run(s) \in Int /\ Run(Lo(g)) \in Int
          /\ d \in Int /\ e \in Int
      BY <1>1, <2>1, <2>2, <2>3, <3>1, Basics
    <3>4. d >= Lo(g) /\ d <= Lo(g) + Run(Lo(g)) - 1
      BY <1>3, <2>4, <3>3
    <3>5. s = Lo(g)
      BY <3>1, <3>2, <3>3, <3>4
    <3> QED  BY <2>4, <3>1, <3>5
  <2> QED  BY <2>5, <2>6
<1>4. /\ DOMAIN pmac_groups = Groups
      /\ \A g \in Groups : ToSet(pmac_groups[g]) = Members(g)
  BY <1>1, MembersAre
<1>5. ASSUME NEW g \in Groups
      PROVE  LET G == ToSet(pmac_groups[g])
             IN /\ \A h \in Groups \ {g} : G \cap ToSet(pmac_groups[h]) = {}
                /\ ~short => \A d \in G, e \in Defined : e \in G <=> SameBus(d, e)
  <2>1. \A h \in Groups \ {g} : ToSet(pmac_groups[g]) \cap ToSet(pmac_groups[h]) = {}
    BY <1>2, <1>4
  <2>2. ~short => \A d \in ToSet(pmac_groups[g]), e \in Defined :
             e \in ToSet(pmac_groups[g]) <=> SameBus(d, e)
    BY <1>3, <1>4
  <2> QED  BY <2>1, <2>2
<1> QED  BY <1>4, <1>5, TseTypes DEF GroupsAreBuses

LEMMA PhysFollow == TseInv => OnePhyEach
<1> SUFFICES ASSUME TseInv PROVE OnePhyEach
  OBVIOUS
<1>1. TablesOK /\ ProfilesOK /\ GroupsOK /\ ScanOK /\ NamesOK /\ PhysOK
  BY DEF TseInv
<1>2. /\ DOMAIN pmac_groups = Groups /\ Len(pmac_groups) \in Nat
      /\ \A g \in Groups : ToSet(pmac_groups[g]) = Members(g)
  BY <1>1, MembersAre
<1>3. \A g \in DOMAIN pmac_groups : \A d, e \in ToSet(pmac_groups[g]) :
        phyOf[d] = phyOf[e] /\ phyOf[d] # NoPhy => d = e
  BY <1>1, <1>2 DEF PhysOK
<1>4. \A d \in Defined : tse_mac_device[d].named # AutoAddress
                        => phyOf[d] \in {NoPhy, tse_mac_device[d].named}
  BY <1>1 DEF NamesOK, Entry
<1>5. \A d \in Defined : profileOf[d] = "default" =>
        ~\E i \in DOMAIN pphy_profiles :
           pphy_profiles[i].own /\ pphy_profiles[i].model = "known"
  BY <1>1 DEF ProfilesOK
<1>6. ASSUME phase = "ready", ~short, NEW g \in DOMAIN pmac_groups
      PROVE  LET G == ToSet(pmac_groups[g])
                 b == pmac_groups[g][1]
             IN tse_mac_device[b].mdio
                  /\ (\E a \in Addresses : /\ bus[b][a] # "none"
                                           /\ \A d \in G : phyOf[d] # a)
                => \A d \in G : tse_mac_device[d].phy # AutoAddress
  <2>1. g < scan.group
    BY <1>1, <1>2, <1>6 DEF ScanOK, Groups
  <2>2. \A a \in Addresses : Served(g, a)
    BY <1>1, <1>2, <1>6, <2>1 DEF PhysOK, Scanned
  <2> QED  BY <1>2, <2>2 DEF Served, Entry, Lo
<1> QED  BY <1>3, <1>4, <1>5, <1>6 DEF OnePhyEach

-----------------------------------------------------------------------------
LEMMA TseInvInit == TseInit => TseInv
<1> SUFFICES ASSUME TseInit PROVE TseInv
  OBVIOUS
<1>1. /\ tse_mac_device = <<>> /\ pphy_profiles = <<>> /\ pmac_groups = <<>>
      /\ bus = <<>> /\ phyOf = <<>> /\ profileOf = <<>> /\ mdio_addr = <<>>
      /\ scan = [group |-> 1, address |-> 0, saved |-> 0] /\ phase = "config"
  BY DEF TseInit
<1>2. Defined = {} /\ Groups = {} /\ Following = 1 /\ DOMAIN pphy_profiles = {}
  BY <1>1 DEF Defined, Groups, Following
<1>3. LastAddress \in Nat
  BY TseSystemAssumption
<1>4. TablesOK
  BY <1>1, <1>2 DEF TablesOK
<1>5. ProfilesOK
  BY <1>1, <1>2 DEF ProfilesOK
<1>6. GroupsOK
  BY <1>1, <1>2 DEF GroupsOK
<1>7. RunsOK
  <2>1. Starts({})
    BY <1>1, <1>2 DEF Starts
  <2> QED  BY <2>1 DEF RunsOK
<1>8. ScanOK
  BY <1>1, <1>2, <1>3 DEF ScanOK, Addresses, ScanPlace
<1>9. NamesOK /\ PhysOK
  BY <1>2 DEF NamesOK, PhysOK
<1> QED  BY <1>4, <1>5, <1>6, <1>7, <1>8, <1>9 DEF TseInv

(* What a step leaves alone.                                               *)
LEMMA ListsStay ==
  ASSUME TseInv, UNCHANGED <<tse_mac_device, bus, phyOf, profileOf>>,
         mdio_addr' = mdio_addr
  PROVE  TablesOK' /\ NamesOK' /\ Defined' = Defined
BY DEF TseInv, TablesOK, NamesOK, Entry, Defined

LEMMA GroupsStay ==
  ASSUME TseInv, UNCHANGED <<tse_mac_device, pmac_groups, short>>
  PROVE  /\ (phase' = "config" => phase = "config") => GroupsOK'
         /\ RunsOK' /\ Groups' = Groups /\ Following' = Following
         /\ \A g : Members(g)' = Members(g) /\ Lo(g)' = Lo(g)
<1>1. Groups' = Groups /\ Following' = Following /\ Defined' = Defined
      /\ \A g : Members(g)' = Members(g) /\ Lo(g)' = Lo(g) /\ Size(g)' = Size(g)
  BY DEF Groups, Following, Members, Lo, Size, Defined
<1>2. (phase' = "config" => phase = "config") => GroupsOK'
  BY <1>1 DEF TseInv, GroupsOK
<1>3. \A starts : Starts(starts) => Starts(starts)'
  BY <1>1 DEF Starts, Run, Entry, SameBus
<1>4. RunsOK'
  BY <1>1, <1>3 DEF TseInv, RunsOK
<1> QED  BY <1>1, <1>2, <1>4

LEMMA ProfilesStay ==
  ASSUME TseInv, UNCHANGED <<tse_mac_device, pphy_profiles, profileOf>>,
         phase' = "config" <=> phase = "config"
  PROVE  ProfilesOK'
BY DEF TseInv, ProfilesOK, Defined

LEMMA TseStays == TseInv /\ UNCHANGED tseVars => TseInv'
<1> SUFFICES ASSUME TseInv, UNCHANGED tseVars PROVE TseInv'
  OBVIOUS
<1>1. UNCHANGED <<tse_mac_device, pphy_profiles, pmac_groups, bus, phyOf, profileOf,
                  mdio_addr, scan, short, phase>>
  BY DEF tseVars
<1>2. TablesOK' /\ NamesOK' /\ Defined' = Defined
  BY <1>1, ListsStay
<1>3. GroupsOK' /\ RunsOK' /\ Groups' = Groups /\ \A g : Members(g)' = Members(g) /\ Lo(g)' = Lo(g)
  BY <1>1, GroupsStay
<1>4. ProfilesOK'
  BY <1>1, ProfilesStay
<1>5. ScanOK'
  BY <1>1, <1>2, <1>3 DEF TseInv, ScanOK
<1>6. PhysOK'
  BY <1>1, <1>2, <1>3 DEF TseInv, PhysOK, Ahead, Scanned, Served, Entry
<1> QED  BY <1>2, <1>3, <1>4, <1>5, <1>6 DEF TseInv

-----------------------------------------------------------------------------
(* The calls before the driver is used.                                    *)
LEMMA ProfileIs ==
  /\ \A m \in {"known", "added"} :
       /\ [model |-> m, own |-> TRUE] \in Profile
       /\ [model |-> m, own |-> TRUE].model = m /\ [model |-> m, own |-> TRUE].own
  /\ [model |-> "known", own |-> FALSE] \in Profile
  /\ [model |-> "known", own |-> FALSE].model = "known"
  /\ ~[model |-> "known", own |-> FALSE].own
BY DEF Profile

LEMMA Appends ==
  ASSUME NEW S, NEW q \in Seq(S), NEW x \in S
  PROVE  /\ Append(q, x) \in Seq(S) /\ Len(Append(q, x)) = Len(q) + 1 /\ Len(q) \in Nat
         /\ \A k \in 1 .. Len(q) : Append(q, x)[k] = q[k]
         /\ Append(q, x)[Len(q) + 1] = x
         /\ DOMAIN Append(q, x) = 1 .. Len(q) + 1 /\ DOMAIN q = 1 .. Len(q)
OBVIOUS

LEMMA AddProfileKeeps == TseInv /\ AddProfile /\ UNCHANGED short => TseInv'
<1> SUFFICES ASSUME TseInv, AddProfile, UNCHANGED short PROVE TseInv'
  OBVIOUS
<1>1. /\ UNCHANGED <<tse_mac_device, pmac_groups, bus, phyOf, profileOf, mdio_addr, scan, phase>>
      /\ phase = "config"
  BY DEF AddProfile
<1>2. TablesOK' /\ NamesOK' /\ Defined' = Defined
  BY <1>1, ListsStay
<1>3. GroupsOK' /\ RunsOK' /\ Groups' = Groups /\ \A g : Members(g)' = Members(g) /\ Lo(g)' = Lo(g)
  BY <1>1, GroupsStay
<1>4. ProfilesOK'
  <2>1. PICK x \in Profile : x.own /\ pphy_profiles' = Append(pphy_profiles, x)
    BY ProfileIs DEF AddProfile
  <2>2. /\ pphy_profiles \in Seq(Profile) /\ \A d \in Defined : profileOf[d] = "none"
        /\ \A i \in DOMAIN pphy_profiles : pphy_profiles[i].own
    BY <1>1 DEF TseInv, ProfilesOK
  <2>3. /\ pphy_profiles' \in Seq(Profile)
        /\ DOMAIN pphy_profiles' = 1 .. Len(pphy_profiles) + 1
        /\ DOMAIN pphy_profiles = 1 .. Len(pphy_profiles) /\ Len(pphy_profiles) \in Nat
        /\ \A k \in 1 .. Len(pphy_profiles) : pphy_profiles'[k] = pphy_profiles[k]
        /\ pphy_profiles'[Len(pphy_profiles) + 1] = x
    BY <2>1, <2>2, Appends
  <2>4. ASSUME NEW i \in DOMAIN pphy_profiles' PROVE pphy_profiles'[i].own
    BY <2>1, <2>2, <2>3
  <2> QED  BY <1>1, <1>2, <2>2, <2>3, <2>4 DEF ProfilesOK
<1>5. ScanOK'
  BY <1>1, <1>2, <1>3 DEF TseInv, ScanOK
<1>6. PhysOK'
  BY <1>1, <1>2, <1>3 DEF TseInv, PhysOK, Ahead, Scanned, Served, Entry
<1> QED  BY <1>2, <1>3, <1>4, <1>5, <1>6 DEF TseInv

LEMMA PhyInitKeeps == TseInv /\ PhyInit /\ UNCHANGED short => TseInv'
<1> SUFFICES ASSUME TseInv, PhyInit, UNCHANGED short PROVE TseInv'
  OBVIOUS
<1>1. /\ UNCHANGED <<tse_mac_device, pmac_groups, bus, phyOf, profileOf, mdio_addr, scan>>
      /\ phase = "config" /\ phase' = "groups"
  BY DEF PhyInit
<1>2. TablesOK' /\ NamesOK' /\ Defined' = Defined
  BY <1>1, ListsStay
<1>3. GroupsOK' /\ RunsOK' /\ Groups' = Groups /\ \A g : Members(g)' = Members(g) /\ Lo(g)' = Lo(g)
  BY <1>1, GroupsStay
<1>4. ProfilesOK'
  <2>1. PICK x \in Profile :
          x.model = "known" /\ ~x.own /\ pphy_profiles' = Append(pphy_profiles, x)
    BY ProfileIs DEF PhyInit
  <2>2. /\ pphy_profiles \in Seq(Profile) /\ \A d \in Defined : profileOf[d] = "none"
        /\ \A i \in DOMAIN pphy_profiles : pphy_profiles[i].own
    BY <1>1 DEF TseInv, ProfilesOK
  <2>3. /\ pphy_profiles' \in Seq(Profile) /\ Len(pphy_profiles') = Len(pphy_profiles) + 1
        /\ DOMAIN pphy_profiles' = 1 .. Len(pphy_profiles) + 1
        /\ DOMAIN pphy_profiles = 1 .. Len(pphy_profiles) /\ Len(pphy_profiles) \in Nat
        /\ \A k \in 1 .. Len(pphy_profiles) : pphy_profiles'[k] = pphy_profiles[k]
        /\ pphy_profiles'[Len(pphy_profiles) + 1] = x
    BY <2>1, <2>2, Appends
  <2>4. ASSUME NEW i \in DOMAIN pphy_profiles'
        PROVE IF i = Len(pphy_profiles')
              THEN pphy_profiles'[i].model = "known" ELSE pphy_profiles'[i].own
    BY <2>1, <2>2, <2>3
  <2> QED  BY <1>1, <1>2, <2>2, <2>3, <2>4 DEF ProfilesOK
<1>5. ScanOK'
  BY <1>1, <1>2, <1>3 DEF TseInv, ScanOK
<1>6. PhysOK'
  BY <1>1, <1>2, <1>3 DEF TseInv, PhysOK, Ahead, Scanned, Served, Entry
<1> QED  BY <1>2, <1>3, <1>4, <1>5, <1>6 DEF TseInv

LEMMA EntryIs ==
  ASSUME NEW s \in Systems, NEW k \in 1 .. Len(s.phys), Len(tse_mac_device) \in Nat
  PROVE  LET e == SystemEntry(s, k)
         IN /\ e \in Device /\ e.phy = e.named /\ e.channels = Len(s.phys)
            /\ e.mac = Len(tse_mac_device) + 1
            /\ e.channels >= 1 /\ e.sharers = 1 /\ ~e.shared
<1> DEFINE a == s.phys[k]
           m == s.mdio
           c == Len(s.phys)
           first == Len(tse_mac_device) + 1
           no == FALSE
           one == 1
<1>1. /\ a \in Addresses \cup {AutoAddress} /\ m \in BOOLEAN /\ c \in Nat /\ no \in BOOLEAN
      /\ one \in Nat /\ c >= 1 /\ first \in Nat
  BY TseSystemAssumption
<1> DEFINE e == [mac |-> first, phy |-> a, named |-> a, mdio |-> m, channels |-> c, shared |-> no,
                 sharers |-> one]
<1>2. SystemEntry(s, k) = e
  BY DEF SystemEntry
<1> HIDE DEF a, m, c, no, one, first
<1>3. /\ e \in Device /\ e.mac = first /\ e.phy = a /\ e.named = a /\ e.channels = c /\ e.sharers = one
      /\ (e.shared <=> no)
  BY <1>1, Zenon DEF Device
<1> HIDE DEF e
<1>4. /\ e.channels = Len(s.phys) /\ e.sharers = 1 /\ ~e.shared
      /\ e.mac = Len(tse_mac_device) + 1
  BY <1>3 DEF c, one, no, first
<1>5. e.channels >= 1 /\ e.phy = e.named
  BY <1>1, <1>3
<1> QED  BY <1>2, <1>3, <1>4, <1>5

LEMMA Grows ==
  ASSUME NEW S, NEW p \in Seq(S), NEW l \in Seq(S)
  PROVE  /\ p \o l \in Seq(S) /\ Len(p \o l) = Len(p) + Len(l)
         /\ \A k \in 1 .. Len(p) : (p \o l)[k] = p[k]
         /\ \A k \in 1 .. Len(l) : (p \o l)[Len(p) + k] = l[k]
OBVIOUS

LEMMA Same ==
  ASSUME NEW S, NEW n \in Nat, NEW x \in S, NEW l, l = [k \in 1 .. n |-> x]
  PROVE  l \in Seq(S) /\ Len(l) = n /\ \A k \in 1 .. n : l[k] = x
OBVIOUS

LEMMA AddSysKeeps == TseInv /\ AddSys /\ UNCHANGED short => TseInv'
<1> SUFFICES ASSUME TseInv, AddSys, UNCHANGED short PROVE TseInv'
  OBVIOUS
<1>1. /\ UNCHANGED <<pphy_profiles, pmac_groups, scan, phase, short>> /\ phase = "config"
      /\ TablesOK /\ GroupsOK /\ ScanOK /\ NamesOK /\ ProfilesOK /\ RunsOK
  BY DEF AddSys, TseInv
<1>2. PICK s \in Systems, b \in Buses :
      \E n \in IF short THEN 0 .. Len(s.phys) ELSE {Len(s.phys)} :
        /\ tse_mac_device' = tse_mac_device \o [k \in 1 .. n |-> SystemEntry(s, k)]
        /\ bus' = bus \o [k \in 1 .. n |-> b]
        /\ mdio_addr' = mdio_addr \o [k \in 1 .. n |-> 0]
        /\ phyOf' = phyOf \o [k \in 1 .. n |-> NoPhy]
        /\ profileOf' = profileOf \o [k \in 1 .. n |-> "none"]
  BY DEF AddSys
<1>3. PICK n \in IF short THEN 0 .. Len(s.phys) ELSE {Len(s.phys)} :
        /\ tse_mac_device' = tse_mac_device \o [k \in 1 .. n |-> SystemEntry(s, k)]
        /\ bus' = bus \o [k \in 1 .. n |-> b]
        /\ mdio_addr' = mdio_addr \o [k \in 1 .. n |-> 0]
        /\ phyOf' = phyOf \o [k \in 1 .. n |-> NoPhy]
        /\ profileOf' = profileOf \o [k \in 1 .. n |-> "none"]
  BY <1>2
<1> DEFINE c == Len(s.phys)
           N == Len(tse_mac_device)
<1>4. c \in Nat /\ c >= 1 /\ n \in 0 .. c /\ (~short => n = c) /\ n \in Nat
  BY <1>3, TseSystemAssumption
<1>5. N \in Nat /\ Defined = 1 .. N
  BY <1>1, Basics
<1>6. pmac_groups = <<>> /\ Groups = {} /\ Groups' = {} /\ Following = 1 /\ Following' = 1
  BY <1>1 DEF GroupsOK, Groups, Following
<1>7. /\ tse_mac_device' \in Seq(Device) /\ Len(tse_mac_device') = N + n
      /\ \A d \in 1 .. N : tse_mac_device'[d] = tse_mac_device[d]
      /\ \A k \in 1 .. n : tse_mac_device'[N + k] = SystemEntry(s, k)
  <2> DEFINE l == [k \in 1 .. n |-> SystemEntry(s, k)]
  <2>1. \A k \in 1 .. n : SystemEntry(s, k) \in Device
    BY <1>4, <1>5, EntryIs
  <2>2. l \in Seq(Device) /\ Len(l) = n /\ \A k \in 1 .. n : l[k] = SystemEntry(s, k)
    BY <1>4, <2>1
  <2>3. tse_mac_device' = tse_mac_device \o l /\ tse_mac_device \in Seq(Device)
    BY <1>1, <1>3 DEF TablesOK
  <2> HIDE DEF l
  <2>4. /\ tse_mac_device \o l \in Seq(Device)
        /\ Len(tse_mac_device \o l) = Len(tse_mac_device) + Len(l)
        /\ \A k \in 1 .. Len(tse_mac_device) : (tse_mac_device \o l)[k] = tse_mac_device[k]
        /\ \A k \in 1 .. Len(l) : (tse_mac_device \o l)[Len(tse_mac_device) + k] = l[k]
    <3>1. PICK m : m = tse_mac_device /\ m \in Seq(Device)
      BY <2>3
    <3>2. m \o l \in Seq(Device) /\ Len(m \o l) = Len(m) + Len(l)
      BY <2>2, <3>1, Grows
    <3>3. /\ \A k \in 1 .. Len(m) : (m \o l)[k] = m[k]
          /\ \A k \in 1 .. Len(l) : (m \o l)[Len(m) + k] = l[k]
      BY <2>2, <3>1, Grows
    <3> QED  BY <3>1, <3>2, <3>3
  <2> QED  BY <2>2, <2>3, <2>4
<1>8. /\ bus' \in Seq(Buses) /\ Len(bus') = N + n
      /\ mdio_addr' \in Seq(Addresses) /\ Len(mdio_addr') = N + n
      /\ phyOf' \in Seq(Addresses \cup {NoPhy}) /\ Len(phyOf') = N + n
      /\ profileOf' \in Seq({"own", "default", "none"}) /\ Len(profileOf') = N + n
      /\ \A d \in 1 .. N : phyOf'[d] = phyOf[d] /\ profileOf'[d] = profileOf[d]
      /\ \A k \in 1 .. n : phyOf'[N + k] = NoPhy /\ profileOf'[N + k] = "none"
  <2>1. PICK phys : phys = Addresses \cup {NoPhy}
    OBVIOUS
  <2>2. PICK choices : choices = {"own", "default", "none"}
    OBVIOUS
  <2>3. PICK zero \in Addresses : zero = 0
    BY TseSystemAssumption DEF Addresses
  <2>4. PICK no \in phys : no = NoPhy
    BY <2>1
  <2>5. PICK none \in choices : none = "none"
    BY <2>2
  <2>6. /\ bus \in Seq(Buses) /\ mdio_addr \in Seq(Addresses) /\ Len(bus) = N
        /\ phyOf \in Seq(phys) /\ profileOf \in Seq(choices)
        /\ Len(mdio_addr) = N /\ Len(phyOf) = N /\ Len(profileOf) = N
    BY <1>1, <2>1, <2>2 DEF TablesOK
  <2>11. n \in Nat
    BY <1>4
  <2> HIDE DEF N
  <2>7. bus' \in Seq(Buses) /\ Len(bus') = N + n
    <3>1. PICK l : l = [k \in 1 .. n |-> b]
      OBVIOUS
    <3>2. l \in Seq(Buses) /\ Len(l) = n /\ \A k \in 1 .. n : l[k] = b
      BY <2>11, <3>1, Same
    <3>3. bus' = bus \o l
      BY <1>3, <3>1
    <3>4. bus \in Seq(Buses) /\ Len(bus) = N
      BY <2>6
    <3> QED  BY <3>2, <3>3, <3>4, Grows
  <2>8. mdio_addr' \in Seq(Addresses) /\ Len(mdio_addr') = N + n
    <3>1. PICK l : l = [k \in 1 .. n |-> zero]
      OBVIOUS
    <3>2. l \in Seq(Addresses) /\ Len(l) = n /\ \A k \in 1 .. n : l[k] = zero
      BY <2>11, <3>1, Same
    <3>3. mdio_addr' = mdio_addr \o l
      BY <1>3, <2>3, <3>1
    <3>4. mdio_addr \in Seq(Addresses) /\ Len(mdio_addr) = N
      BY <2>6, <2>3
    <3> QED  BY <3>2, <3>3, <3>4, Grows
  <2>9. /\ phyOf' \in Seq(phys) /\ Len(phyOf') = N + n
        /\ \A d \in 1 .. N : phyOf'[d] = phyOf[d]
        /\ \A k \in 1 .. n : phyOf'[N + k] = no
    <3>1. PICK l : l = [k \in 1 .. n |-> no]
      OBVIOUS
    <3>2. l \in Seq(phys) /\ Len(l) = n /\ \A k \in 1 .. n : l[k] = no
      BY <2>11, <3>1, Same
    <3>3. phyOf' = phyOf \o l
      BY <1>3, <2>4, <3>1
    <3>4. phyOf \in Seq(phys) /\ Len(phyOf) = N
      BY <2>6, <2>4
    <3>5. /\ phyOf \o l \in Seq(phys) /\ Len(phyOf \o l) = Len(phyOf) + Len(l)
          /\ \A k \in 1 .. Len(phyOf) : (phyOf \o l)[k] = phyOf[k]
          /\ \A k \in 1 .. Len(l) : (phyOf \o l)[Len(phyOf) + k] = l[k]
      <4>1. phyOf \in Seq(phys) /\ l \in Seq(phys) /\ Len(phyOf) \in Nat /\ Len(l) \in Nat
        BY <3>2, <3>4
      <4>2. phyOf \o l \in Seq(phys) /\ Len(phyOf \o l) = Len(phyOf) + Len(l)
        BY <4>1
      <4>3. \A k \in 1 .. Len(phyOf) : (phyOf \o l)[k] = phyOf[k]
        BY <4>1
      <4>4. \A k \in 1 .. Len(l) : (phyOf \o l)[Len(phyOf) + k] = l[k]
        BY <4>1
      <4> QED  BY <4>2, <4>3, <4>4
    <3>6. phyOf' \in Seq(phys) /\ Len(phyOf') = N + n
      BY <3>2, <3>3, <3>4, <3>5
    <3>7. \A d \in 1 .. N : phyOf'[d] = phyOf[d]
      BY <3>3, <3>4, <3>5
    <3>8. \A k \in 1 .. n : phyOf'[N + k] = no
      BY <3>2, <3>3, <3>4, <3>5
    <3> QED  BY <3>6, <3>7, <3>8
  <2>10. /\ profileOf' \in Seq(choices) /\ Len(profileOf') = N + n
         /\ \A d \in 1 .. N : profileOf'[d] = profileOf[d]
         /\ \A k \in 1 .. n : profileOf'[N + k] = none
    <3>1. PICK l : l = [k \in 1 .. n |-> none]
      OBVIOUS
    <3>2. l \in Seq(choices) /\ Len(l) = n /\ \A k \in 1 .. n : l[k] = none
      BY <2>11, <3>1, Same
    <3>3. profileOf' = profileOf \o l
      BY <1>3, <2>5, <3>1
    <3>4. profileOf \in Seq(choices) /\ Len(profileOf) = N
      BY <2>6, <2>5
    <3>5. /\ profileOf \o l \in Seq(choices) /\ Len(profileOf \o l) = Len(profileOf) + Len(l)
          /\ \A k \in 1 .. Len(profileOf) : (profileOf \o l)[k] = profileOf[k]
          /\ \A k \in 1 .. Len(l) : (profileOf \o l)[Len(profileOf) + k] = l[k]
      <4>1. profileOf \in Seq(choices) /\ l \in Seq(choices) /\ Len(profileOf) \in Nat /\ Len(l) \in Nat
        BY <3>2, <3>4
      <4>2. profileOf \o l \in Seq(choices) /\ Len(profileOf \o l) = Len(profileOf) + Len(l)
        BY <4>1
      <4>3. \A k \in 1 .. Len(profileOf) : (profileOf \o l)[k] = profileOf[k]
        BY <4>1
      <4>4. \A k \in 1 .. Len(l) : (profileOf \o l)[Len(profileOf) + k] = l[k]
        BY <4>1
      <4> QED  BY <4>2, <4>3, <4>4
    <3>6. profileOf' \in Seq(choices) /\ Len(profileOf') = N + n
      BY <3>2, <3>3, <3>4, <3>5
    <3>7. \A d \in 1 .. N : profileOf'[d] = profileOf[d]
      BY <3>3, <3>4, <3>5
    <3>8. \A k \in 1 .. n : profileOf'[N + k] = none
      BY <3>2, <3>3, <3>4, <3>5
    <3> QED  BY <3>6, <3>7, <3>8
  <2> QED  BY <2>1, <2>2, <2>4, <2>5, <2>7, <2>8, <2>9, <2>10
<1>9. \A d \in 1 .. N + n : phyOf'[d] = NoPhy /\ profileOf'[d] = "none"
  <2>1. \A d \in 1 .. N : phyOf'[d] = NoPhy /\ profileOf'[d] = "none"
    BY <1>1, <1>5, <1>8 DEF ScanOK, ProfilesOK
  <2>2. \A k \in 1 .. n : phyOf'[N + k] = NoPhy /\ profileOf'[N + k] = "none"
    BY <1>8
  <2> HIDE DEF N
  <2>3. ASSUME NEW d \in 1 .. N + n PROVE phyOf'[d] = NoPhy /\ profileOf'[d] = "none"
    <3>1. CASE d <= N
      BY <1>5, <2>1, <3>1
    <3>2. CASE d > N
      <4>1. d - N \in 1 .. n /\ d = N + (d - N)
        BY <1>4, <1>5, <3>2
      <4> QED  BY <2>2, <4>1
    <3> QED  BY <1>5, <3>1, <3>2
  <2> QED  BY <2>3
<1>10. Defined' = 1 .. N + n
  BY <1>7 DEF Defined
<1>11. ASSUME NEW d \in 1 .. N + n
       PROVE  \/ d \in Defined /\ Entry(d)' = Entry(d)
              \/ d > N /\ \E k \in 1 .. c : Entry(d)' = SystemEntry(s, k)
  <2>1. CASE d <= N
    BY <1>5, <1>7, <2>1 DEF Entry
  <2>2. CASE d > N
    <3> HIDE DEF N, c
    <3>1. d - N \in 1 .. n /\ d = N + (d - N)
      BY <1>4, <1>5, <2>2
    <3>2. d - N \in 1 .. c /\ Entry(d)' = SystemEntry(s, d - N)
      BY <1>4, <1>7, <3>1 DEF Entry
    <3> QED  BY <2>2, <3>2
  <2> QED  BY <1>5, <2>1, <2>2
<1>12. \A k \in 1 .. c : /\ SystemEntry(s, k).phy = SystemEntry(s, k).named
                         /\ SystemEntry(s, k).channels = c /\ SystemEntry(s, k).sharers = 1
                         /\ ~SystemEntry(s, k).shared /\ SystemEntry(s, k).mac = N + 1
  BY <1>5, EntryIs
<1> HIDE DEF N, c
<1>13. TablesOK'
  <2>1. ASSUME NEW d \in 1 .. N + n
        PROVE  Entry(d)'.channels >= 1 /\ Entry(d)'.sharers >= 1 /\ Entry(d)'.mac <= N + n
    <3>1. CASE d \in Defined /\ Entry(d)' = Entry(d)
      <4>1. /\ Entry(d).channels >= 1 /\ Entry(d).sharers >= 1
            /\ Entry(d).mac <= N /\ Entry(d).mac \in Nat
        BY <1>1, <3>1, Basics, DeviceHas DEF TablesOK, N
      <4> QED  BY <1>4, <1>5, <3>1, <4>1
    <3>2. CASE d > N /\ \E k \in 1 .. c : Entry(d)' = SystemEntry(s, k)
      BY <1>4, <1>5, <1>12, <3>2
    <3> QED  BY <1>11, <3>1, <3>2
  <2> QED  BY <1>7, <1>8, <1>10, <2>1 DEF TablesOK
<1>14. NamesOK'
  BY <1>1, <1>9, <1>10, <1>11, <1>12 DEF NamesOK
<1>15. ProfilesOK'
  <2>1. \A d \in Defined' : profileOf'[d] = "none"
    BY <1>9, <1>10
  <2> QED  BY <1>1, <2>1 DEF ProfilesOK
<1>16. GroupsOK' /\ PhysOK'
  BY <1>1, <1>6 DEF GroupsOK, PhysOK
<1>17. ScanOK'
  BY <1>1, <1>6, <1>9, <1>10 DEF ScanOK
<1>18. ASSUME ~short PROVE \E starts \in SUBSET (Defined') : Starts(starts)'
  <2>1. PICK starts \in SUBSET Defined : Starts(starts)
    BY <1>1, <1>18 DEF RunsOK
  <2>2. /\ \A t \in starts : t + Run(t) \in starts \cup {N + 1}
        /\ \A t, u \in starts : t < u => t + Run(t) <= u
        /\ \A d \in Defined : d \in starts \/ Entry(d).channels > 1 \/ Entry(d).shared
        /\ \A d, e \in Defined :
             SameBus(d, e) <=> \E t \in starts : {d, e} \subseteq t .. t + Run(t) - 1
        /\ 1 \in starts \cup {N + 1}
    BY <1>6, <2>1 DEF Starts, N
  <2>3. \A t \in starts : t \in 1 .. N /\ Run(t)' = Run(t) /\ Run(t) \in Nat
    BY <1>1, <1>4, <1>5, <1>7, <2>1, Basics DEF Run, Entry
  <2>14. PICK here : here = N + 1
    OBVIOUS
  <2>4. Run(here)' = c /\ n = c
    <3>1. Entry(here)' = SystemEntry(s, 1)
      <4> DEFINE one == 1
      <4>1. one \in 1 .. n
        BY <1>4, <1>18
      <4> HIDE DEF one
      <4>2. tse_mac_device'[N + one] = SystemEntry(s, one)
        BY <1>7, <4>1
      <4> QED  BY <4>2, <2>14, Zenon DEF Entry, one
    <3>2. SystemEntry(s, 1).channels = c /\ ~SystemEntry(s, 1).shared
      BY <1>4, <1>12
    <3>3. SystemWidth(SystemEntry(s, 1)) = c
      BY <1>4, <3>2 DEF SystemWidth
    <3> QED  BY <1>4, <1>18, <3>1, <3>3 DEF Run
  <2>13. here = N + 1 /\ here \in Int
    BY <1>5, <2>14
  <2>15. PICK more : more = starts \cup {here}
    OBVIOUS
  <2>5. more \in SUBSET (Defined')
    BY <1>4, <1>5, <1>10, <2>3, <2>4, <2>13, <2>15
  <2>6. \A t \in more : t + Run(t)' \in more \cup {N + n + 1}
    <3>1. \A t \in starts : t + Run(t)' \in more
      BY <2>2, <2>3, <2>13, <2>15
    <3>2. here + Run(here)' = N + n + 1
      BY <1>4, <1>5, <2>4, <2>13, <2>15
    <3> SUFFICES ASSUME NEW t \in more PROVE t + Run(t)' \in more \cup {N + n + 1}
      OBVIOUS
    <3>3. CASE t \in starts
      BY <3>1, <3>3, <2>15
    <3>4. CASE t = here
      BY <3>2, <3>4, <2>15
    <3> QED  BY <3>3, <3>4, <2>15
  <2>7. \A t, u \in more : t < u => t + Run(t)' <= u
    <3> SUFFICES ASSUME NEW t \in more, NEW u \in more, t < u PROVE t + Run(t)' <= u
      OBVIOUS
    <3>1. t \in starts
      BY <1>5, <2>3, <2>13, <2>15
    <3>2. CASE u \in starts
      BY <2>2, <2>3, <3>1, <3>2, <2>15
    <3>3. CASE u = here
      <4>1. t + Run(t) \in starts \cup {N + 1}
        BY <2>2, <3>1, <2>15
      <4> QED  BY <1>5, <2>3, <2>13, <3>1, <3>3, <4>1, <2>15
    <3> QED  BY <3>2, <3>3, <2>15
  <2>8. \A d \in Defined' : d \in more \/ Entry(d)'.channels > 1 \/ Entry(d)'.shared
    <3> SUFFICES ASSUME NEW d \in 1 .. N + n
                 PROVE d \in more \/ Entry(d)'.channels > 1 \/ Entry(d)'.shared
      BY <1>10, <2>15
    <3>1. CASE d \in Defined /\ Entry(d)' = Entry(d)
      BY <2>2, <3>1, <2>15
    <3>2. CASE d > N /\ \E k \in 1 .. c : Entry(d)' = SystemEntry(s, k)
      <4>1. Entry(d)'.channels = c
        BY <1>12, <3>2, <2>15
      <4>2. d = here \/ c > 1
        BY <1>4, <1>5, <2>4, <2>13, <3>2, <2>15
      <4> QED  BY <4>1, <4>2, <2>15
    <3> QED  BY <1>11, <3>1, <3>2, <2>15
  <2>9. \A d, e \in Defined' :
          SameBus(d, e)' <=> \E t \in more : {d, e} \subseteq t .. t + Run(t)' - 1
    <3>1. ASSUME NEW d \in 1 .. N
          PROVE  d \in Defined /\ Entry(d)' = Entry(d) /\ Entry(d).mac < N + 1
      <4>1. Entry(d).mac <= N /\ Entry(d).mac \in Nat
        BY <1>1, <1>5, <3>1, Basics, DeviceHas DEF TablesOK, N
      <4> QED  BY <1>4, <1>5, <1>7, <3>1, <4>1 DEF Entry
    <3>2. ASSUME NEW d \in N + 1 .. N + n
          PROVE  Entry(d)'.mac = N + 1 /\ ~Entry(d)'.shared
      <4>1. d \in 1 .. N + n /\ d \notin Defined
        BY <1>4, <1>5, <3>2
      <4> QED  BY <1>11, <1>12, <4>1
    <3>3. here .. here + Run(here)' - 1 = N + 1 .. N + n
      BY <1>4, <1>5, <2>4, <2>13
    <3>4. ASSUME NEW t \in starts PROVE t .. t + Run(t)' - 1 \subseteq 1 .. N
      <4>1. t + Run(t) \in starts \cup {N + 1} /\ t \in 1 .. N /\ Run(t)' = Run(t)
        BY <2>2, <2>3, <3>4
      <4>2. t + Run(t) <= N + 1
        BY <1>5, <2>3, <4>1
      <4> QED  BY <1>5, <2>3, <3>4, <4>1, <4>2
    <3> SUFFICES ASSUME NEW d \in 1 .. N + n, NEW e \in 1 .. N + n
                 PROVE  SameBus(d, e)' <=>
                          \E t \in more : {d, e} \subseteq t .. t + Run(t)' - 1
      BY <1>10
    <3>5. SameBus(d, e)' <=> \/ Entry(d)'.mac = Entry(e)'.mac
                             \/ Entry(d)'.shared /\ Entry(e)'.shared
      BY DEF SameBus, Entry
    <3>6. CASE d \in 1 .. N /\ e \in 1 .. N
      <4>1. SameBus(d, e)' <=> SameBus(d, e)
        <5>1. SameBus(d, e) <=> \/ Entry(d).mac = Entry(e).mac
                                \/ Entry(d).shared /\ Entry(e).shared
          BY DEF SameBus, Entry
        <5>2. Entry(d)' = Entry(d) /\ Entry(e)' = Entry(e)
          BY <3>1, <3>6
        <5> QED  BY <3>5, <5>1, <5>2, Zenon
      <4>2. SameBus(d, e) <=> \E t \in starts : {d, e} \subseteq t .. t + Run(t) - 1
        BY <2>2, <3>1, <3>6
      <4>3. d \notin here .. here + Run(here)' - 1
        <5>1. d \notin N + 1 .. N + n
          BY <1>4, <1>5, <3>6
        <5> QED  BY <3>3, <5>1, Zenon
      <4>4. \A t \in starts : Run(t)' = Run(t)
        BY <2>3
      <4>5. (\E t \in more : {d, e} \subseteq t .. t + Run(t)' - 1)
              <=> \E t \in starts : {d, e} \subseteq t .. t + Run(t)' - 1
        BY <2>15, <4>3
      <4> QED  BY <4>1, <4>2, <4>4, <4>5
    <3>7. CASE d \in N + 1 .. N + n /\ e \in N + 1 .. N + n
      <4>1. SameBus(d, e)'
        BY <3>2, <3>5, <3>7
      <4>2. {d, e} \subseteq here .. here + Run(here)' - 1
        BY <3>3, <3>7
      <4> QED  BY <2>15, <4>1, <4>2
    <3>8. ASSUME NEW x \in 1 .. N, NEW y \in N + 1 .. N + n
          PROVE  /\ Entry(x)'.mac # Entry(y)'.mac /\ ~Entry(y)'.shared
                 /\ \A t \in more : ~({x, y} \subseteq t .. t + Run(t)' - 1)
      <4>1. Entry(x)'.mac < N + 1 /\ Entry(y)'.mac = N + 1 /\ ~Entry(y)'.shared
        BY <3>1, <3>2, <3>8
      <4>2. y \notin 1 .. N /\ x \notin N + 1 .. N + n
        BY <1>5, <3>8
      <4>3. \A t \in more : ~({x, y} \subseteq t .. t + Run(t)' - 1)
        BY <2>15, <3>3, <3>4, <4>2
      <4> QED  BY <1>5, <4>1, <4>3
    <3>9. CASE d \in 1 .. N /\ e \in N + 1 .. N + n
      BY <3>5, <3>8, <3>9
    <3>10. CASE e \in 1 .. N /\ d \in N + 1 .. N + n
      BY <3>5, <3>8, <3>10
    <3> QED  BY <1>4, <1>5, <3>6, <3>7, <3>9, <3>10
  <2>11. /\ Following' \in more \cup {N + n + 1} /\ Groups' = {}
         /\ Len(tse_mac_device') = N + n
    BY <1>6, <1>7, <2>2, <2>13, <2>15
  <2>12. /\ Following' \in more \cup {Len(tse_mac_device') + 1}
         /\ \A t \in more : t + Run(t)' \in more \cup {Len(tse_mac_device') + 1}
    BY <2>6, <2>11
  <2>10. Starts(more)'
    <3>1. \A t \in more : (t + Run(t) \in more \cup {Len(tse_mac_device) + 1})'
      BY <2>12
    <3>2. (\A t, u \in more : t < u => t + Run(t) <= u)'
      BY <2>7
    <3>3. (\A d \in Defined : d \in more \/ Entry(d).channels > 1 \/ Entry(d).shared)'
      BY <2>8
    <3>4. (\A d, e \in Defined :
             SameBus(d, e) <=> \E t \in more : {d, e} \subseteq t .. t + Run(t) - 1)'
      BY <2>9
    <3>5. (/\ Following \in more \cup {Len(tse_mac_device) + 1}
           /\ \A g \in Groups : Lo(g) \in more /\ Size(g) = Run(Lo(g)))'
      BY <2>11, <2>12
    <3> QED  BY <3>1, <3>2, <3>3, <3>4, <3>5, Zenon DEF Starts
  <2> QED  BY <2>5, <2>10
<1>19. RunsOK'
  BY <1>1, <1>18 DEF RunsOK
<1> QED  BY <1>13, <1>14, <1>15, <1>16, <1>17, <1>19 DEF TseInv

Marked(e, n) == [e EXCEPT !.shared = TRUE, !.sharers = n]

LEMMA MarkedIs ==
  ASSUME NEW e \in Device, NEW n \in Nat
  PROVE  /\ Marked(e, n) \in Device /\ Marked(e, n).phy = e.phy /\ Marked(e, n).named = e.named
         /\ Marked(e, n).channels = e.channels /\ Marked(e, n).sharers = n /\ Marked(e, n).shared
         /\ Marked(e, n).mac = e.mac
<1> DEFINE yes == TRUE
<1>1. yes \in BOOLEAN
  OBVIOUS
<1>2. Marked(e, n) = [e EXCEPT !.shared = yes, !.sharers = n]
  BY DEF Marked
<1> HIDE DEF yes
<1>3. /\ Marked(e, n) \in Device /\ Marked(e, n).phy = e.phy /\ Marked(e, n).named = e.named
      /\ Marked(e, n).channels = e.channels /\ Marked(e, n).sharers = n
      /\ (Marked(e, n).shared <=> yes) /\ Marked(e, n).mac = e.mac
  BY <1>1, <1>2, Zenon DEF Device
<1> QED  BY <1>3 DEF yes

LEMMA EnableSharingKeeps == TseInv /\ EnableSharing /\ UNCHANGED short => TseInv'
<1> SUFFICES ASSUME TseInv, EnableSharing, UNCHANGED short PROVE TseInv'
  OBVIOUS
<1>1. /\ UNCHANGED <<pphy_profiles, pmac_groups, bus, phyOf, profileOf, mdio_addr, scan,
                     phase, short>>
      /\ phase = "config" /\ \A d \in Defined : ~Entry(d).shared
      /\ TablesOK /\ GroupsOK /\ ScanOK /\ NamesOK /\ ProfilesOK /\ RunsOK
  BY DEF EnableSharing, TseInv, Entry
<1>2. PICK first \in Defined, n \in 1 .. Len(tse_mac_device) :
        /\ first + n - 1 \in Defined
        /\ \A d \in first .. first + n - 1 : Single(d)
        /\ tse_mac_device' = [d \in Defined |->
             IF d \in first .. first + n - 1
             THEN Marked(Entry(d), n) ELSE Entry(d)]
  BY DEF EnableSharing, Entry, Marked
<1>3. PICK N \in Nat : N = Len(tse_mac_device) /\ Defined = 1 .. N
  BY <1>1, Basics
<1>4. /\ first \in 1 .. N /\ n \in 1 .. N /\ n \in Nat /\ n >= 1 /\ first \in Int
      /\ first + n - 1 \in 1 .. N
  BY <1>2, <1>3
<1>5. PICK set : set = first .. first + n - 1
  OBVIOUS
<1>6. set \subseteq Defined
  BY <1>3, <1>4, <1>5
<1>7. \A d \in Defined : /\ Entry(d) \in Device /\ Entry(d).channels >= 1
                         /\ Entry(d).sharers >= 1 /\ Run(d) \in Nat /\ Run(d) >= 1
  BY <1>1, Basics DEF TablesOK
<1>8. PICK f : f = [d \in Defined |-> IF d \in set THEN Marked(Entry(d), n) ELSE Entry(d)]
  OBVIOUS
<1>9. /\ \A d \in 1 .. N : f[d] = IF d \in set THEN Marked(Entry(d), n) ELSE Entry(d)
      /\ f = [d \in 1 .. N |-> f[d]]
  BY <1>3, <1>8
<1>10. tse_mac_device' = f
  BY <1>2, <1>5, <1>8
<1>11. ASSUME NEW d \in 1 .. N
       PROVE  /\ f[d] \in Device /\ f[d].phy = Entry(d).phy /\ f[d].named = Entry(d).named
              /\ f[d].channels = Entry(d).channels /\ f[d].sharers >= 1
              /\ f[d].mac = Entry(d).mac
              /\ d \in set => f[d].shared /\ f[d].sharers = n
              /\ d \notin set => f[d] = Entry(d)
  <2>1. CASE d \in set
    <3>1. f[d] = Marked(Entry(d), n)
      BY <1>9, <2>1
    <3>2. Entry(d) \in Device
      BY <1>3, <1>7
    <3>3. PICK m : m = Marked(Entry(d), n)
      OBVIOUS
    <3>4. n \in Nat
      BY <1>4
    <3>5. /\ m \in Device /\ m.phy = Entry(d).phy /\ m.named = Entry(d).named
          /\ m.channels = Entry(d).channels /\ m.sharers = n /\ m.shared
          /\ m.mac = Entry(d).mac
      BY <3>2, <3>3, <3>4, MarkedIs, Zenon
    <3> QED  BY <1>4, <2>1, <3>1, <3>3, <3>5
  <2>2. CASE d \notin set
    <3>1. f[d] = Entry(d)
      BY <1>9, <2>2
    <3> QED  BY <1>3, <1>7, <2>2, <3>1
  <2> QED  BY <2>1, <2>2
<1>12. f \in Seq(Device) /\ Len(f) = N /\ DOMAIN f = 1 .. N
  BY <1>9, <1>11, Lists
<1>13. Defined' = Defined /\ Len(tse_mac_device') = N /\ \A d : Entry(d)' = f[d]
  BY <1>3, <1>10, <1>12 DEF Defined, Entry
<1>14. TablesOK'
  BY <1>1, <1>3, <1>10, <1>11, <1>12, <1>13 DEF TablesOK
<1>15. NamesOK'
  BY <1>1, <1>3, <1>11, <1>13 DEF NamesOK
<1>16. ProfilesOK'
  BY <1>1, <1>13 DEF ProfilesOK
<1>17. pmac_groups = <<>> /\ Groups = {} /\ Groups' = {} /\ Following = 1 /\ Following' = 1
  BY <1>1 DEF GroupsOK, Groups, Following
<1>18. GroupsOK' /\ PhysOK'
  BY <1>1, <1>17 DEF GroupsOK, PhysOK
<1>19. ScanOK'
  BY <1>1, <1>13, <1>17 DEF ScanOK
<1>20. ASSUME ~short PROVE \E starts \in SUBSET (Defined') : Starts(starts)'
  <2>1. PICK starts \in SUBSET Defined : Starts(starts)
    BY <1>1, <1>20 DEF RunsOK
  <2>2. /\ \A t \in starts : t + Run(t) \in starts \cup {N + 1}
        /\ \A t, u \in starts : t < u => t + Run(t) <= u
        /\ \A d \in Defined : d \in starts \/ Entry(d).channels > 1
        /\ 1 \in starts \cup {N + 1}
    BY <1>1, <1>3, <1>17, <2>1 DEF Starts
  <2>3. \A d \in set : d \in starts /\ Run(d) = 1
    <3> SUFFICES ASSUME NEW d \in set PROVE d \in starts /\ Run(d) = 1
      OBVIOUS
    <3>1. Entry(d).channels = 1 /\ ~Entry(d).shared
      BY <1>1, <1>2, <1>5, <1>6 DEF Single, Entry
    <3>2. Run(d) = 1
      BY <3>1 DEF Run, SystemWidth
    <3> QED  BY <1>6, <2>2, <3>1, <3>2
  <2>4. \A t \in starts : t \in 1 .. N /\ t \in Int /\ Run(t) \in Nat /\ Run(t) >= 1
    BY <1>3, <1>7, <2>1
  <2>5. Run(first)' = n
    <3>1. first \in set /\ Entry(first).channels = 1
      BY <1>2, <1>4, <1>5 DEF Single, Entry
    <3>2. /\ Entry(first)' = f[first] /\ f[first].channels = 1
          /\ f[first].shared /\ f[first].sharers = n
      BY <1>4, <1>11, <1>13, <3>1
    <3> QED  BY <3>2 DEF Run, SystemWidth
  <2>6. \A d \in Defined : d \notin set => Run(d)' = Run(d)
    BY <1>3, <1>11, <1>13 DEF Run
  <2>7. PICK fewer : fewer = starts \ (first + 1 .. first + n - 1)
    OBVIOUS
  <2>8. /\ fewer \subseteq starts /\ first \in fewer
        /\ \A t \in fewer : t = first \/ (t \notin set /\ Run(t)' = Run(t))
    <3>1. first \in fewer
      BY <1>4, <1>5, <2>3, <2>7
    <3>2. \A t \in fewer : t = first \/ t \notin set
      BY <1>4, <1>5, <2>4, <2>7
    <3> QED  BY <2>1, <2>6, <2>7, <3>1, <3>2
  <2>9. \A t \in fewer : t + Run(t)' \in fewer \cup {N + 1}
    <3> SUFFICES ASSUME NEW t \in fewer PROVE t + Run(t)' \in fewer \cup {N + 1}
      OBVIOUS
    <3>1. CASE t = first
      <4>1. first + n - 1 \in starts /\ Run(first + n - 1) = 1
        BY <1>4, <1>5, <2>3
      <4>2. first + n - 1 + 1 \in starts \cup {N + 1}
        BY <2>2, <4>1
      <4>3. first + n \in starts \cup {N + 1}
        BY <1>4, <4>2
      <4>4. first + n \notin first + 1 .. first + n - 1
        BY <1>4
      <4> QED  BY <2>5, <2>7, <3>1, <4>3, <4>4
    <3>2. CASE t # first
      <4>1. t \in starts /\ t \notin set /\ Run(t)' = Run(t)
        BY <2>8, <3>2
      <4>2. t + Run(t) \in starts \cup {N + 1}
        BY <2>2, <4>1
      <4>3. t < first => t + Run(t) <= first
        BY <2>2, <2>8, <4>1
      <4>4. t < first \/ t > first + n - 1
        BY <1>4, <1>5, <2>4, <4>1
      <4>5. t + Run(t) \notin first + 1 .. first + n - 1
        BY <1>4, <2>4, <4>1, <4>3, <4>4
      <4> QED  BY <2>7, <4>1, <4>2, <4>5
    <3> QED  BY <3>1, <3>2
  <2>10. \A t, u \in fewer : t < u => t + Run(t)' <= u
    <3> SUFFICES ASSUME NEW t \in fewer, NEW u \in fewer, t < u PROVE t + Run(t)' <= u
      OBVIOUS
    <3>1. CASE t = first
      <4>1. u \notin first + 1 .. first + n - 1 /\ u \in Int
        BY <2>4, <2>7, <2>8
      <4> QED  BY <1>4, <2>5, <3>1, <4>1
    <3>2. CASE t # first
      BY <2>2, <2>8, <3>2
    <3> QED  BY <3>1, <3>2
  <2>11. \A d \in Defined : d \in fewer \/ Entry(d)'.channels > 1 \/ Entry(d)'.shared
    <3> SUFFICES ASSUME NEW d \in Defined
                 PROVE  d \in fewer \/ Entry(d)'.channels > 1 \/ Entry(d)'.shared
      OBVIOUS
    <3>1. CASE d \in set
      BY <1>3, <1>11, <1>13, <3>1
    <3>2. CASE d \notin set
      <4>1. Entry(d)' = Entry(d) /\ d \notin first + 1 .. first + n - 1
        BY <1>3, <1>4, <1>5, <1>11, <1>13, <3>2
      <4> QED  BY <2>2, <2>7, <4>1
    <3> QED  BY <3>1, <3>2
  <2>12. \A d, e \in Defined :
           SameBus(d, e)' <=> \E t \in fewer : {d, e} \subseteq t .. t + Run(t)' - 1
    <3> SUFFICES ASSUME NEW d \in Defined, NEW e \in Defined
                 PROVE  SameBus(d, e)' <=>
                          \E t \in fewer : {d, e} \subseteq t .. t + Run(t)' - 1
      OBVIOUS
    <3>1. \A x \in Defined : /\ Entry(x)'.shared <=> x \in set
                             /\ Entry(x)'.mac = Entry(x).mac /\ ~Entry(x).shared
      BY <1>1, <1>3, <1>11, <1>13
    <3>2. SameBus(d, e) <=> Entry(d).mac = Entry(e).mac
      BY <3>1 DEF SameBus, Entry
    <3>3. SameBus(d, e)' <=> SameBus(d, e) \/ {d, e} \subseteq set
      <4>1. SameBus(d, e)' <=> \/ Entry(d)'.mac = Entry(e)'.mac
                               \/ Entry(d)'.shared /\ Entry(e)'.shared
        BY DEF SameBus, Entry
      <4> QED  BY <3>1, <3>2, <4>1
    <3>4. SameBus(d, e) <=> \E t \in starts : {d, e} \subseteq t .. t + Run(t) - 1
      BY <2>1 DEF Starts
    <3>5. first .. first + Run(first)' - 1 = set
      BY <1>5, <2>5
    <3>6. ASSUME SameBus(d, e)'
          PROVE  \E t \in fewer : {d, e} \subseteq t .. t + Run(t)' - 1
      <4>1. CASE {d, e} \subseteq set
        BY <2>8, <3>5, <4>1
      <4>2. CASE SameBus(d, e)
        <5>1. PICK t \in starts : {d, e} \subseteq t .. t + Run(t) - 1
          BY <3>4, <4>2
        <5>2. CASE t \in set
          <6>1. d = t /\ e = t
            BY <2>3, <2>4, <5>1, <5>2
          <6> QED  BY <2>8, <3>5, <5>2, <6>1
        <5>3. CASE t \notin set
          <6>1. t \in fewer /\ t # first
            BY <1>4, <1>5, <2>4, <2>7, <5>1, <5>3
          <6>2. Run(t)' = Run(t)
            BY <2>8, <6>1
          <6> QED  BY <5>1, <6>1, <6>2
        <5> QED  BY <5>2, <5>3
      <4> QED  BY <3>3, <3>6, <4>1, <4>2
    <3>7. ASSUME NEW t \in fewer, {d, e} \subseteq t .. t + Run(t)' - 1
          PROVE  SameBus(d, e)'
      <4>1. CASE t = first
        BY <3>3, <3>5, <3>7, <4>1
      <4>2. CASE t # first
        <5>1. t \in starts /\ Run(t)' = Run(t)
          BY <2>8, <4>2
        <5> QED  BY <3>3, <3>4, <3>7, <5>1
      <4> QED  BY <4>1, <4>2
    <3> QED  BY <3>6, <3>7
  <2>13. Following' \in fewer \cup {N + 1} /\ Groups' = {}
    <3>1. 1 \notin first + 1 .. first + n - 1
      BY <1>4
    <3> QED  BY <1>17, <2>2, <2>7, <3>1
  <2>14. Starts(fewer)'
    <3>1. \A t \in fewer : (t + Run(t) \in fewer \cup {Len(tse_mac_device) + 1})'
      BY <1>13, <2>9
    <3>2. (\A t, u \in fewer : t < u => t + Run(t) <= u)'
      BY <2>10
    <3>3. (\A d \in Defined : d \in fewer \/ Entry(d).channels > 1 \/ Entry(d).shared)'
      BY <1>13, <2>11
    <3>4. (\A d, e \in Defined :
             SameBus(d, e) <=> \E t \in fewer : {d, e} \subseteq t .. t + Run(t) - 1)'
      BY <1>13, <2>12
    <3>5. (/\ Following \in fewer \cup {Len(tse_mac_device) + 1}
           /\ \A g \in Groups : Lo(g) \in fewer /\ Size(g) = Run(Lo(g)))'
      BY <1>13, <2>13
    <3> QED  BY <3>1, <3>2, <3>3, <3>4, <3>5, Zenon DEF Starts
  <2>15. fewer \in SUBSET (Defined')
    BY <1>13, <2>1, <2>7
  <2> QED  BY <2>14, <2>15
<1>21. RunsOK'
  BY <1>1, <1>20 DEF RunsOK
<1> QED  BY <1>14, <1>15, <1>16, <1>18, <1>19, <1>21 DEF TseInv

-----------------------------------------------------------------------------
(* The forming of the groups.                                              *)
LEMMA GroupInitKeeps == TseInv /\ GroupInit /\ UNCHANGED short => TseInv'
<1> SUFFICES ASSUME TseInv, GroupInit, UNCHANGED short PROVE TseInv'
  OBVIOUS
<1>1. /\ UNCHANGED <<tse_mac_device, pphy_profiles, bus, phyOf, profileOf, mdio_addr, scan, short>>
      /\ phase = "groups" /\ phase' \in {"groups", "scan"}
      /\ TablesOK /\ GroupsOK /\ ScanOK /\ NamesOK /\ ProfilesOK /\ RunsOK
  BY DEF GroupInit, TseInv
<1>2. TablesOK' /\ NamesOK' /\ ProfilesOK' /\ Defined' = Defined
  BY <1>1, ListsStay, ProfilesStay
<1>3. scan.group = 1 /\ \A d \in Defined : phyOf[d] = NoPhy
  BY <1>1 DEF ScanOK
<1>4. ASSUME GroupsOK' PROVE ScanOK' /\ PhysOK'
  <2>1. /\ Len(pmac_groups') \in Nat
        /\ \A g \in Groups' : Members(g)' \subseteq Defined
    <3>1. pmac_groups' \in Seq(Seq(Int)) /\ Len(pmac_groups') \in Nat
      BY <1>4 DEF GroupsOK
    <3> SUFFICES ASSUME NEW g \in Groups' PROVE Members(g)' \subseteq Defined
      BY <3>1
    <3>2. pmac_groups'[g] \in Seq(Int)
      BY <3>1 DEF Groups
    <3>3. /\ Size(g)' >= 1 /\ Lo(g)' >= 1 /\ Lo(g)' + Size(g)' - 1 <= Len(tse_mac_device)
          /\ \A k \in 1 .. Size(g)' : pmac_groups'[g][k] = Lo(g)' + k - 1
      BY <1>1, <1>4 DEF GroupsOK
    <3>4. Size(g)' \in Nat /\ Lo(g)' \in Int
      BY <3>2, <3>3 DEF Size, Lo
    <3> QED  BY <1>1, <3>3, <3>4, Basics DEF Members
  <2>2. ScanOK'
    BY <1>1, <1>2, <1>3, <2>1 DEF ScanOK
  <2>3. \A g \in Groups' : \A d \in Members(g)' : phyOf'[d] = NoPhy
    BY <1>1, <1>3, <2>1
  <2>4. \A g \in Groups' : \A a : ~Scanned(g, a)'
    BY <1>1, <1>3, <2>1 DEF Scanned, Groups
  <2>5. PhysOK'
    <3> SUFFICES ASSUME NEW g \in Groups'
                 PROVE  /\ \A d \in Members(g)' : phyOf'[d] = NoPhy
                        /\ phase' # "address"
                        /\ \A a \in Addresses : ~Scanned(g, a)'
      BY DEF PhysOK
    <3> QED  BY <1>1, <2>3, <2>4
  <2> QED  BY <2>2, <2>5
<1>5. CASE UNCHANGED pmac_groups
  <2>1. GroupsOK' /\ RunsOK'
    BY <1>1, <1>5, GroupsStay
  <2> QED  BY <1>2, <1>4, <2>1 DEF TseInv
<1>6. CASE pmac_groups' # pmac_groups
  <2>1. PICK first \in Defined :
          LET last == first + SystemWidth(tse_mac_device[first]) - 1
          IN /\ first = Following /\ ~Undefined(last)
             /\ pmac_groups' = Append(pmac_groups,
                  [k \in 1 .. last - first + 1 |-> first + k - 1])
    BY <1>1, <1>6, FollowingIs DEF GroupInit
  <2>2. PICK w \in Nat : w = Run(first) /\ w >= 1
    BY <1>1, Basics
  <2>3. PICK N \in Nat : N = Len(tse_mac_device) /\ Defined = 1 .. N
    BY <1>1, Basics
  <2>4. PICK q : q = [k \in 1 .. w |-> first + k - 1]
    OBVIOUS
  <2>5. /\ first \in Int /\ first >= 1 /\ first + w - 1 \in 1 .. N
        /\ pmac_groups' = Append(pmac_groups, q)
    <3>1. SystemWidth(tse_mac_device[first]) = w
      BY <2>2 DEF Run, Entry
    <3>2. first \in Int /\ first >= 1 /\ first + w - 1 - first + 1 = w
      BY <2>1, <2>2, <2>3
    <3>3. PICK last : last = first + w - 1
      OBVIOUS
    <3>4. ~Undefined(last) /\ last - first + 1 = w
          /\ pmac_groups' = Append(pmac_groups,
               [k \in 1 .. last - first + 1 |-> first + k - 1])
      BY <2>1, <3>1, <3>2, <3>3
    <3>5. pmac_groups' = Append(pmac_groups, q)
      BY <2>4, <3>4
    <3> QED  BY <2>3, <3>2, <3>3, <3>4, <3>5 DEF Undefined
  <2>6. /\ q \in Seq(Int) /\ Len(q) = w /\ q[1] = first
        /\ \A k \in 1 .. w : q[k] = first + k - 1
    BY <2>2, <2>4, <2>5
  <2>7. PICK m \in Nat : m = Len(pmac_groups)
    BY <1>1, MembersAre
  <2>8. /\ pmac_groups' \in Seq(Seq(Int)) /\ Len(pmac_groups') = m + 1
        /\ \A g \in 1 .. m : pmac_groups'[g] = pmac_groups[g]
        /\ pmac_groups'[m + 1] = q /\ pmac_groups' # <<>>
    <3>1. pmac_groups \in Seq(Seq(Int))
      BY <1>1 DEF GroupsOK
    <3>2. /\ pmac_groups' \in Seq(Seq(Int)) /\ Len(pmac_groups') = m + 1
          /\ \A g \in 1 .. m : pmac_groups'[g] = pmac_groups[g]
          /\ pmac_groups'[m + 1] = q
      BY <2>5, <2>6, <2>7, <3>1, Appends
    <3> QED  BY <2>7, <3>2
  <2>9. Groups = 1 .. m /\ Groups' = 1 .. m + 1
    BY <2>7, <2>8 DEF Groups
  <2>10. PICK new : new = m + 1
    OBVIOUS
  <2>11. /\ \A g \in Groups : Lo(g)' = Lo(g) /\ Size(g)' = Size(g)
         /\ Lo(new)' = first /\ Size(new)' = w /\ Following' = first + w
         /\ pmac_groups'[new] = q
    <3>1. \A g \in Groups : Lo(g)' = Lo(g) /\ Size(g)' = Size(g)
      BY <2>8, <2>9 DEF Lo, Size
    <3>2. Lo(new)' = first /\ Size(new)' = w
      BY <2>6, <2>8, <2>10 DEF Lo, Size
    <3>3. Following' = Lo(new)' + Size(new)'
      BY <2>8, <2>10 DEF Following
    <3> QED  BY <2>8, <2>10, <3>1, <3>2, <3>3
  <2>12. \A g \in Groups : /\ Lo(g) \in Int /\ Size(g) \in Nat /\ Lo(g) + Size(g) <= first
    BY <1>1, <2>1, <2>3, MembersAre, FollowingIs
  <2>13. ASSUME NEW g \in Groups'
         PROVE  /\ (Size(g) >= 1 /\ Lo(g) >= 1 /\ Lo(g) + Size(g) - 1 <= N)'
                /\ \A k \in 1 .. Size(g)' : pmac_groups'[g][k] = Lo(g)' + k - 1
    <3>1. CASE g \in Groups
      <4>1. /\ Size(g) >= 1 /\ Lo(g) >= 1 /\ Lo(g) + Size(g) - 1 <= N
            /\ \A k \in 1 .. Size(g) : pmac_groups[g][k] = Lo(g) + k - 1
        BY <1>1, <2>3, <3>1 DEF GroupsOK
      <4>2. pmac_groups'[g] = pmac_groups[g] /\ Lo(g)' = Lo(g) /\ Size(g)' = Size(g)
        BY <2>8, <2>9, <2>11, <3>1
      <4> QED  BY <4>1, <4>2
    <3>2. CASE g = new
      <4>1. Size(g)' = w /\ Lo(g)' = first /\ pmac_groups'[g] = q
        BY <2>11, <3>2
      <4>2. w >= 1 /\ first >= 1 /\ first + w - 1 <= N
        BY <2>2, <2>3, <2>5
      <4>3. \A k \in 1 .. w : q[k] = first + k - 1
        BY <2>6
      <4> QED  BY <4>1, <4>2, <4>3
    <3> QED  BY <2>9, <2>10, <3>1, <3>2
  <2>14. \A g, h \in Groups' : g < h => Lo(g)' + Size(g)' <= Lo(h)'
    <3> SUFFICES ASSUME NEW g \in Groups', NEW h \in Groups', g < h
                 PROVE  Lo(g)' + Size(g)' <= Lo(h)'
      OBVIOUS
    <3>1. g \in Groups
      BY <2>9, <2>10
    <3>2. CASE h \in Groups
      BY <1>1, <2>11, <3>1, <3>2 DEF GroupsOK
    <3>3. CASE h = new
      BY <2>11, <2>12, <3>1, <3>3
    <3> QED  BY <2>9, <2>10, <3>2, <3>3
  <2>15. GroupsOK'
    BY <1>1, <2>3, <2>8, <2>13, <2>14 DEF GroupsOK
  <2>16. ASSUME ~short PROVE \E starts \in SUBSET (Defined') : Starts(starts)'
    <3>1. PICK starts \in SUBSET Defined : Starts(starts)
      BY <1>1, <2>16 DEF RunsOK
    <3>2. \A d : Run(d)' = Run(d) /\ Entry(d)' = Entry(d)
      BY <1>1 DEF Run, Entry
    <3>3. first \in starts
      BY <2>1, <2>3, <3>1 DEF Starts
    <3>4. first + w \in starts \cup {N + 1}
      BY <2>2, <2>3, <3>1, <3>3 DEF Starts
    <3>5. \A g \in Groups : Lo(g) \in starts /\ Size(g) = Run(Lo(g))
      BY <3>1 DEF Starts
    <3>6. \A g \in Groups' : Lo(g)' \in starts /\ Size(g)' = Run(Lo(g)')
      BY <2>2, <2>9, <2>10, <2>11, <3>3, <3>5
    <3>7. Starts(starts)'
      <4>1. (/\ \A s \in starts : s + Run(s) \in starts \cup {Len(tse_mac_device) + 1}
             /\ \A s, t \in starts : s < t => s + Run(s) <= t)'
        BY <1>1, <3>1, <3>2 DEF Starts
      <4>2. (\A d \in Defined : d \in starts \/ Entry(d).channels > 1 \/ Entry(d).shared)'
        BY <1>2, <3>1, <3>2 DEF Starts
      <4>5. (\A d, e \in Defined :
               SameBus(d, e) <=> \E s \in starts : {d, e} \subseteq s .. s + Run(s) - 1)'
        <5>1. \A d, e : SameBus(d, e)' <=> SameBus(d, e)
          BY <1>1 DEF SameBus
        <5> QED  BY <1>2, <3>1, <3>2, <5>1 DEF Starts
      <4>3. (Following \in starts \cup {Len(tse_mac_device) + 1})'
        BY <1>1, <2>3, <2>11, <3>4
      <4>4. (\A g \in Groups : Lo(g) \in starts /\ Size(g) = Run(Lo(g)))'
        <5>1. \A g \in Groups' : Run(Lo(g)') = Run(Lo(g))'
          BY <1>1 DEF Run, Entry
        <5> QED  BY <3>6, <5>1
      <4> QED  BY <4>1, <4>2, <4>3, <4>4, <4>5, Zenon DEF Starts
    <3> QED  BY <1>2, <3>1, <3>7
  <2>17. RunsOK'
    BY <1>1, <2>16 DEF RunsOK
  <2> QED  BY <1>2, <1>4, <2>15, <2>17 DEF TseInv
<1> QED  BY <1>5, <1>6

-----------------------------------------------------------------------------
(* The scan.                                                               *)
LEMMA BusIsNamed ==
  ASSUME NEW p \in Seq(Addresses), NEW d \in DOMAIN p, NEW a \in Addresses
  PROVE  [p EXCEPT ![d] = a] \in Seq(Addresses) /\ Len([p EXCEPT ![d] = a]) = Len(p)
OBVIOUS

LEMMA BaseIs ==
  ASSUME TablesOK, GroupsOK, scan.group \in Groups
  PROVE  /\ Base = Lo(scan.group) /\ Base \in Defined /\ Base \in Members(scan.group)
         /\ ToSet(Group) = Members(scan.group)
<1>1. Base = Lo(scan.group) /\ Group = pmac_groups[scan.group]
  BY DEF Base, Group, Lo
<1>2. /\ Lo(scan.group) \in Defined /\ Size(scan.group) \in Nat /\ Size(scan.group) >= 1
      /\ ToSet(pmac_groups[scan.group]) = Members(scan.group)
  BY MembersAre
<1>3. Lo(scan.group) \in Int
  BY <1>2, Basics
<1>4. Lo(scan.group) \in Members(scan.group)
  BY <1>2, <1>3 DEF Members
<1> QED  BY <1>1, <1>2, <1>4

(* A step of the scan that gives no PHY out.                               *)
LEMMA ScanGoesOn ==
  ASSUME TseInv, UNCHANGED <<tse_mac_device, pphy_profiles, pmac_groups, bus, phyOf,
                             profileOf, short>>,
         mdio_addr' \in Seq(Addresses), Len(mdio_addr') = Len(mdio_addr),
         phase \in {"scan", "address"}, phase' \in {"scan", "address", "ready"}, ScanOK',
         \A g \in Groups :
           /\ Ahead(g)' => Ahead(g)
           /\ g = scan'.group /\ phase' = "address" =>
                \A d \in Members(g) : phyOf[d] < scan'.address
           /\ ~short => \A a \in Addresses : Scanned(g, a)' => Scanned(g, a) \/ Served(g, a)
  PROVE  TseInv'
<1>1. TablesOK' /\ NamesOK' /\ Defined' = Defined
  BY DEF TseInv, TablesOK, NamesOK, Entry, Defined
<1>2. GroupsOK' /\ RunsOK' /\ Groups' = Groups /\ \A g : Members(g)' = Members(g) /\ Lo(g)' = Lo(g)
  BY GroupsStay
<1>3. ProfilesOK'
  BY ProfilesStay
<1>4. \A g, a : Served(g, a)' = Served(g, a)
  BY <1>2 DEF Served, Entry
<1>5. PhysOK'
  <2> SUFFICES ASSUME NEW g \in Groups
               PROVE  /\ Ahead(g)' => \A d \in Members(g) : phyOf[d] = NoPhy
                      /\ g = scan'.group /\ phase' = "address" =>
                           \A d \in Members(g) : phyOf[d] < scan'.address
                      /\ \A d, e \in Members(g) : phyOf[d] = phyOf[e] /\ phyOf[d] # NoPhy => d = e
                      /\ ~short => \A a \in Addresses : Scanned(g, a)' => Served(g, a)'
    BY <1>2 DEF PhysOK
  <2> QED  BY <1>4 DEF TseInv, PhysOK
<1> QED  BY <1>1, <1>2, <1>3, <1>5 DEF TseInv

LEMMA BeginScanKeeps == TseInv /\ BeginScan /\ UNCHANGED short => TseInv'
<1> SUFFICES ASSUME TseInv, BeginScan, UNCHANGED short PROVE TseInv'
  OBVIOUS
<1>1. /\ UNCHANGED <<tse_mac_device, pphy_profiles, pmac_groups, bus, phyOf, profileOf,
                     mdio_addr, short>>
      /\ phase = "scan" /\ TablesOK /\ GroupsOK /\ ScanOK /\ PhysOK
  BY DEF BeginScan, TseInv
<1>2. scan.group \in Groups /\ Len(pmac_groups) \in Nat /\ scan.group \in Nat
  BY <1>1, MembersAre DEF BeginScan, Groups
<1>3. PICK g0 \in Nat : g0 = scan.group
  BY <1>2
<1>4. Base = Lo(g0) /\ Base \in Defined
  BY <1>1, <1>2, <1>3, BaseIs
<1>5. mdio_addr \in Seq(Addresses) /\ mdio_addr[Base] \in Addresses
  BY <1>1, <1>4, Basics DEF TablesOK
<1>6. scan \in ScanPlace
  BY <1>1 DEF ScanOK
<1>7. CASE Entry(Base).mdio
  <2>1. PICK zero \in Nat : zero = 0
    OBVIOUS
  <2>2. PICK m \in Addresses : m = mdio_addr[Base]
    BY <1>5
  <2>3. phase' = "address" /\ scan' = [scan EXCEPT !.address = zero, !.saved = m]
    BY <1>7, <2>1, <2>2 DEF BeginScan, Entry
  <2>4. scan' \in ScanPlace /\ scan'.group = g0 /\ scan'.address = zero /\ scan'.saved = m
    BY <1>3, <1>6, <2>3 DEF ScanPlace
  <2>5. ScanOK'
    BY <1>1, <1>2, <1>3, <2>1, <2>3, <2>4, TseSystemAssumption DEF ScanOK, Groups
  <2>6. \A g \in Groups :
           /\ Ahead(g)' => Ahead(g)
           /\ g = scan'.group /\ phase' = "address" =>
                \A d \in Members(g) : phyOf[d] < scan'.address
           /\ \A a \in Addresses : Scanned(g, a)' => Scanned(g, a)
    <3> SUFFICES ASSUME NEW g \in Groups
                 PROVE  /\ Ahead(g)' => Ahead(g)
                        /\ g = g0 => \A d \in Members(g) : phyOf[d] < 0
                        /\ \A a \in Addresses : Scanned(g, a)' => Scanned(g, a)
      BY <2>1, <2>4
    <3>1. Ahead(g)' => Ahead(g)
      BY <1>3, <2>3, <2>4 DEF Ahead
    <3>2. g = g0 => \A d \in Members(g) : phyOf[d] < 0
      BY <1>1, <1>3 DEF PhysOK, Ahead, NoPhy
    <3>3. \A a \in Addresses : Scanned(g, a)' => Scanned(g, a)
      BY <1>3, <2>1, <2>4 DEF Scanned, Addresses
    <3> QED  BY <3>1, <3>2, <3>3
  <2> QED  BY <1>1, <1>5, <2>3, <2>5, <2>6, ScanGoesOn
<1>8. CASE ~Entry(Base).mdio
  <2>1. PICK g1 \in Nat : g1 = g0 + 1
    OBVIOUS
  <2>2. phase' = "scan" /\ scan' = [scan EXCEPT !.group = g1]
    BY <1>1, <1>3, <1>8, <2>1 DEF BeginScan, Entry, NextGroup
  <2>3. /\ scan' \in ScanPlace /\ scan'.group = g1 /\ scan'.address = scan.address
        /\ scan'.saved = scan.saved
    BY <1>6, <2>2 DEF ScanPlace
  <2>4. ScanOK'
    BY <1>1, <1>2, <1>3, <1>6, <2>1, <2>2, <2>3 DEF ScanOK, Groups
  <2>5. \A g \in Groups :
           /\ Ahead(g)' => Ahead(g)
           /\ \A a \in Addresses : Scanned(g, a)' => Scanned(g, a) \/ Served(g, a)
    <3> SUFFICES ASSUME NEW g \in Groups
                 PROVE  /\ Ahead(g)' => Ahead(g)
                        /\ \A a \in Addresses : Scanned(g, a)' => Scanned(g, a) \/ Served(g, a)
      OBVIOUS
    <3>1. Ahead(g)' => Ahead(g)
      BY <1>3, <2>1, <2>2, <2>3 DEF Ahead, Groups
    <3>2. \A a \in Addresses : Scanned(g, a)' => Scanned(g, a) \/ g = g0
      BY <1>3, <2>1, <2>2, <2>3 DEF Scanned, Groups
    <3>3. \A a : g = g0 => Served(g, a)
      BY <1>4, <1>8 DEF Served
    <3> QED  BY <3>1, <3>2, <3>3
  <2> QED  BY <1>1, <1>5, <2>2, <2>4, <2>5, ScanGoesOn
<1> QED  BY <1>7, <1>8

LEMMA EndScanKeeps == TseInv /\ EndScan /\ UNCHANGED short => TseInv'
<1> SUFFICES ASSUME TseInv, EndScan, UNCHANGED short PROVE TseInv'
  OBVIOUS
<1>1. /\ UNCHANGED <<tse_mac_device, pphy_profiles, pmac_groups, bus, phyOf, profileOf, short>>
      /\ phase = "address" /\ phase' = "scan" /\ scan.address > LastAddress
      /\ TablesOK /\ GroupsOK /\ ScanOK /\ PhysOK
  BY DEF EndScan, TseInv
<1>2. /\ scan.group \in Groups /\ Len(pmac_groups) \in Nat /\ scan.group \in Nat
      /\ scan \in ScanPlace
  BY <1>1, MembersAre DEF ScanOK, Groups
<1>3. PICK g0 \in Nat : g0 = scan.group
  BY <1>2
<1>4. Base \in DOMAIN mdio_addr
  BY <1>1, <1>2, BaseIs, Basics
<1>5. mdio_addr' \in Seq(Addresses) /\ Len(mdio_addr') = Len(mdio_addr)
  <2>1. mdio_addr \in Seq(Addresses) /\ scan.saved \in Addresses
    BY <1>1 DEF TablesOK, ScanOK
  <2> QED  BY <1>4, <2>1, BusIsNamed DEF EndScan, Restored
<1>6. PICK g1 \in Nat : g1 = g0 + 1
  OBVIOUS
<1>7. /\ scan' \in ScanPlace /\ scan'.group = g1 /\ scan'.address = scan.address
      /\ scan'.saved = scan.saved
  <2>1. scan' = [scan EXCEPT !.group = g1]
    BY <1>3, <1>6 DEF EndScan, NextGroup
  <2> QED  BY <1>2, <2>1 DEF ScanPlace
<1>8. ScanOK'
  BY <1>1, <1>2, <1>3, <1>6, <1>7 DEF ScanOK, Groups
<1>9. ASSUME NEW g \in Groups
      PROVE  /\ Ahead(g)' => Ahead(g)
             /\ \A a \in Addresses : Scanned(g, a)' => Scanned(g, a)
  <2>1. Ahead(g)' => Ahead(g)
    BY <1>1, <1>3, <1>6, <1>7 DEF Ahead, Groups
  <2>2. \A a \in Addresses : a < scan.address
    BY <1>1, <1>2, TseSystemAssumption DEF Addresses, ScanPlace
  <2>3. \A a \in Addresses : Scanned(g, a)' => Scanned(g, a)
    BY <1>1, <1>3, <1>6, <1>7, <2>2 DEF Scanned, Groups
  <2> QED  BY <2>1, <2>3
<1> QED  BY <1>1, <1>5, <1>8, <1>9, ScanGoesOn

LEMMA ScanReadyKeeps == TseInv /\ ScanReady /\ UNCHANGED short => TseInv'
<1> SUFFICES ASSUME TseInv, ScanReady, UNCHANGED short PROVE TseInv'
  OBVIOUS
<1>1. /\ UNCHANGED <<tse_mac_device, pphy_profiles, pmac_groups, bus, phyOf, profileOf,
                     mdio_addr, scan, short>>
      /\ phase = "scan" /\ phase' = "ready" /\ TablesOK /\ GroupsOK /\ ScanOK
  BY DEF ScanReady, TseInv
<1>2. Len(pmac_groups) \in Nat /\ scan.group \notin Groups
  BY <1>1, MembersAre DEF ScanReady
<1>3. ScanOK'
  BY <1>1, <1>2 DEF ScanOK, Groups
<1>4. \A g \in Groups : /\ Ahead(g)' => Ahead(g)
                        /\ \A a \in Addresses : Scanned(g, a)' => Scanned(g, a)
  BY <1>1 DEF Ahead, Scanned
<1>5. mdio_addr' \in Seq(Addresses) /\ Len(mdio_addr') = Len(mdio_addr)
  BY <1>1 DEF TablesOK
<1> QED  BY <1>1, <1>3, <1>4, <1>5, ScanGoesOn

LEMMA FirstFitIs ==
  ASSUME NEW p \in Seq(Profile), NEW model, \E i \in DOMAIN p : p[i].model = model
  PROVE  \E i \in DOMAIN p : /\ FirstFit(p, model) = p[i] /\ p[i].model = model
                             /\ \A j \in DOMAIN p : p[j].model = model => i <= j
<1> DEFINE fit == {i \in DOMAIN p : p[i].model = model}
<1>1. fit \in SUBSET Nat /\ fit # {}
  OBVIOUS
<1>2. \E i \in fit : \A j \in fit : i <= j
  BY <1>1, LeastNat
<1>3. \E i \in DOMAIN p : p[i].model = model /\ \A j \in DOMAIN p : p[j].model = model => i <= j
  BY <1>2
<1> DEFINE i == CHOOSE i \in DOMAIN p :
                  p[i].model = model /\ \A j \in DOMAIN p : p[j].model = model => i <= j
<1>4. i \in DOMAIN p /\ p[i].model = model /\ \A j \in DOMAIN p : p[j].model = model => i <= j
  BY <1>3
<1>5. FirstFit(p, model) = p[i]
  BY DEF FirstFit
<1> HIDE DEF i
<1> QED  BY <1>4, <1>5

Given(e, a) == [e EXCEPT !.phy = a]

LEMMA GivenIs ==
  ASSUME NEW e \in Device, NEW a \in Addresses \cup {AutoAddress}
  PROVE  /\ Given(e, a) \in Device /\ Given(e, a).phy = a /\ Given(e, a).named = e.named
         /\ Given(e, a).channels = e.channels /\ Given(e, a).sharers = e.sharers
         /\ (Given(e, a).shared <=> e.shared) /\ (Given(e, a).mdio <=> e.mdio)
         /\ Given(e, a).mac = e.mac
BY Zenon DEF Given, Device

(* A profile of the application is preferred to the default one.           *)
LEMMA ProfileForIs ==
  ASSUME ProfilesOK, phase # "config", NEW model
  PROVE  /\ ProfileFor(model) \in {"own", "default", "none"}
         /\ ProfileFor(model) = "default" =>
              \A i \in DOMAIN pphy_profiles :
                pphy_profiles[i].own => pphy_profiles[i].model # "known"
<1>1. ProfileFor(model) \in {"own", "default", "none"}
  BY DEF ProfileFor
<1>2. ASSUME ProfileFor(model) = "default", NEW i \in DOMAIN pphy_profiles,
             pphy_profiles[i].own, pphy_profiles[i].model = "known"
      PROVE  FALSE
  <2>1. pphy_profiles \in Seq(Profile) /\ Len(pphy_profiles) \in Nat
        /\ DOMAIN pphy_profiles = 1 .. Len(pphy_profiles)
    BY DEF ProfilesOK
  <2>2. \A j \in DOMAIN pphy_profiles :
          IF j = Len(pphy_profiles)
          THEN pphy_profiles[j].model = "known" ELSE pphy_profiles[j].own
    BY DEF ProfilesOK
  <2>3. /\ \E j \in DOMAIN pphy_profiles : pphy_profiles[j].model = model
        /\ ~Fit(pphy_profiles, model).own
    BY <1>2 DEF ProfileFor
  <2>4. PICK f \in DOMAIN pphy_profiles :
          /\ FirstFit(pphy_profiles, model) = pphy_profiles[f]
          /\ pphy_profiles[f].model = model
          /\ \A j \in DOMAIN pphy_profiles : pphy_profiles[j].model = model => f <= j
    BY <2>1, <2>3, FirstFitIs
  <2>5. ~pphy_profiles[f].own
    BY <2>3, <2>4 DEF Fit
  <2>6. f = Len(pphy_profiles) /\ model = "known"
    BY <2>2, <2>4, <2>5
  <2>7. f <= i
    BY <1>2, <2>4, <2>6
  <2>8. i = f
    BY <2>1, <2>6, <2>7
  <2> QED  BY <1>2, <2>5, <2>8
<1> QED  BY <1>1, <1>2

(* The device an address is given to.                                      *)
LEMMA AssociateIs ==
  ASSUME TablesOK, GroupsOK, scan.group \in Groups, NEW a \in Addresses
  PROVE  /\ Associate(a) \subseteq Members(scan.group)
         /\ \A d, e \in Associate(a) : d = e
         /\ \A d \in Associate(a) : Entry(d).phy \in {a, AutoAddress}
         /\ Associate(a) = {} => \A d \in Members(scan.group) : Entry(d).phy \notin {a, AutoAddress}
<1> DEFINE named == {d \in ToSet(Group) : tse_mac_device[d].phy = a}
           auto == {d \in ToSet(Group) : tse_mac_device[d].phy = AutoAddress}
<1>1. PICK set : set = IF named # {} THEN named ELSE auto
  OBVIOUS
<1>2. Associate(a) = {d \in set : \A e \in set : d <= e}
  BY <1>1 DEF Associate, Lowest
<1>3. ToSet(Group) = Members(scan.group) /\ Members(scan.group) \subseteq Defined
  BY BaseIs, MembersAre
<1>4. set \subseteq Members(scan.group) /\ \A d \in set : Entry(d).phy \in {a, AutoAddress}
  BY <1>1, <1>3 DEF Entry
<1>5. set \in SUBSET Nat
  BY <1>3, <1>4, Basics
<1>6. set = {} => \A d \in Members(scan.group) : Entry(d).phy \notin {a, AutoAddress}
  BY <1>1, <1>3 DEF Entry
<1> HIDE DEF named, auto
<1>7. ASSUME NEW d \in Associate(a), NEW e \in Associate(a) PROVE d = e
  <2>1. d \in set /\ e \in set /\ d <= e /\ e <= d
    BY <1>2
  <2>2. d \in Nat /\ e \in Nat
    BY <1>5, <2>1
  <2> QED  BY <2>1, <2>2
<1>8. Associate(a) = {} => set = {}
  BY <1>2, <1>5, LeastNat
<1> QED  BY <1>2, <1>4, <1>6, <1>7, <1>8

LEMMA AddressGiven ==
  ASSUME TseInv, UNCHANGED <<pphy_profiles, pmac_groups, bus, short, phase>>,
         phase = "address",
         mdio_addr' \in Seq(Addresses), Len(mdio_addr') = Len(mdio_addr),
         NEW a \in Addresses, a = scan.address,
         ScanOK', scan'.group = scan.group, scan'.address = a + 1,
         NEW p \in {"own", "default", "none"},
         p = "default" => \A i \in DOMAIN pphy_profiles :
                            pphy_profiles[i].own => pphy_profiles[i].model # "known",
         NEW to \in SUBSET Members(scan.group), \A d, e \in to : d = e,
         \A d \in to : Entry(d).phy \in {a, AutoAddress},
         to = {} => \/ bus[Lo(scan.group)][a] = "none"
                    \/ \A d \in Members(scan.group) : Entry(d).phy \notin {a, AutoAddress},
         phyOf' = [d \in Defined |-> IF d \in to THEN a ELSE phyOf[d]],
         profileOf' = [d \in Defined |-> IF d \in to THEN p ELSE profileOf[d]],
         tse_mac_device' = [d \in Defined |-> IF d \in to THEN Given(Entry(d), a) ELSE Entry(d)]
  PROVE  TseInv'
<1>1. TablesOK /\ ProfilesOK /\ GroupsOK /\ RunsOK /\ ScanOK /\ NamesOK /\ PhysOK
  BY DEF TseInv
<1>2. PICK N \in Nat : N = Len(tse_mac_device) /\ Defined = 1 .. N
  BY <1>1, Basics
<1>3. PICK g0 \in Groups : g0 = scan.group
  BY <1>1 DEF ScanOK
<1>4. Members(g0) \subseteq Defined /\ to \subseteq Members(g0) /\ to \subseteq Defined
  BY <1>1, <1>3, MembersAre
<1>5. a \in Int /\ a >= 0 /\ a # AutoAddress /\ a # NoPhy /\ a \in Addresses \cup {AutoAddress}
      /\ a \in Addresses \cup {NoPhy}
  BY TseSystemAssumption DEF Addresses, AutoAddress, NoPhy
<1>6. ASSUME NEW d \in Defined
      PROVE  /\ Entry(d) \in Device /\ phyOf[d] \in Addresses \cup {NoPhy} /\ phyOf[d] \in Int
             /\ profileOf[d] \in {"own", "default", "none"}
             /\ Entry(d).channels >= 1 /\ Entry(d).sharers >= 1 /\ Entry(d).mac <= N
  <2>1. Entry(d) \in Device /\ phyOf[d] \in Addresses \cup {NoPhy}
    BY <1>1, Basics
  <2>2. phyOf[d] \in Int
    BY <2>1, TseSystemAssumption DEF Addresses, NoPhy
  <2>3. profileOf[d] \in {"own", "default", "none"}
    BY <1>1, Basics DEF TablesOK
  <2> QED  BY <1>1, <1>2, <2>1, <2>2, <2>3 DEF TablesOK
<1>7. PICK dev, phy, prof :
        /\ phy = [d \in Defined |-> IF d \in to THEN a ELSE phyOf[d]] /\ phy = phyOf'
        /\ prof = [d \in Defined |-> IF d \in to THEN p ELSE profileOf[d]] /\ prof = profileOf'
        /\ dev = [d \in Defined |-> IF d \in to THEN Given(Entry(d), a) ELSE Entry(d)]
        /\ dev = tse_mac_device'
  OBVIOUS
<1>8. ASSUME NEW d \in Defined
      PROVE  /\ d \in to => phy[d] = a /\ prof[d] = p /\ dev[d] = Given(Entry(d), a)
             /\ d \notin to => phy[d] = phyOf[d] /\ prof[d] = profileOf[d] /\ dev[d] = Entry(d)
  BY <1>7
<1>9. ASSUME NEW d \in Defined
      PROVE  /\ dev[d] \in Device /\ dev[d].named = Entry(d).named
             /\ dev[d].channels = Entry(d).channels /\ dev[d].sharers = Entry(d).sharers
             /\ (dev[d].shared <=> Entry(d).shared) /\ (dev[d].mdio <=> Entry(d).mdio)
             /\ dev[d].mac = Entry(d).mac /\ (d \in to => dev[d].phy = a)
  <2>1. CASE d \in to
    <3>1. dev[d] = Given(Entry(d), a)
      BY <1>8, <2>1
    <3>2. Entry(d) \in Device
      BY <1>6
    <3>3. PICK m : m = Given(Entry(d), a)
      OBVIOUS
    <3>4. /\ m \in Device /\ m.named = Entry(d).named
          /\ m.channels = Entry(d).channels /\ m.sharers = Entry(d).sharers
          /\ (m.shared <=> Entry(d).shared) /\ (m.mdio <=> Entry(d).mdio) /\ m.phy = a
          /\ m.mac = Entry(d).mac
      BY <1>5, <3>2, <3>3, GivenIs, Zenon
    <3> QED  BY <3>1, <3>3, <3>4
  <2>2. CASE d \notin to
    <3>1. dev[d] = Entry(d)
      BY <1>8, <2>2
    <3> QED  BY <1>6, <2>2, <3>1
  <2> QED  BY <2>1, <2>2
<1>10. dev \in Seq(Device) /\ Len(dev) = N /\ DOMAIN dev = 1 .. N
  <2>1. dev = [d \in 1 .. N |-> dev[d]] /\ \A d \in 1 .. N : dev[d] \in Device
    BY <1>2, <1>7, <1>9
  <2> QED  BY <2>1, Lists
<1>11. phy \in Seq(Addresses \cup {NoPhy}) /\ Len(phy) = N
  <2>1. phy = [d \in 1 .. N |-> phy[d]]
    BY <1>2, <1>7
  <2>2. \A d \in 1 .. N : phy[d] \in Addresses \cup {NoPhy}
    BY <1>2, <1>5, <1>6, <1>8
  <2> QED  BY <2>1, <2>2, Lists
<1>12. prof \in Seq({"own", "default", "none"}) /\ Len(prof) = N
  <2>1. prof = [d \in 1 .. N |-> prof[d]]
    BY <1>2, <1>7
  <2>2. \A d \in 1 .. N : prof[d] \in {"own", "default", "none"}
    BY <1>2, <1>6, <1>8
  <2> QED  BY <2>1, <2>2, Lists
<1>13. /\ Defined' = Defined /\ Len(tse_mac_device') = N /\ Groups' = Groups
       /\ \A d : Entry(d)' = dev[d] /\ phyOf'[d] = phy[d] /\ profileOf'[d] = prof[d]
       /\ \A g : Members(g)' = Members(g) /\ Lo(g)' = Lo(g) /\ Size(g)' = Size(g)
       /\ Following' = Following
  BY <1>2, <1>7, <1>10 DEF Defined, Groups, Entry, Members, Lo, Size, Following
<1>14. TablesOK'
  <2>1. tse_mac_device' \in Seq(Device) /\ phyOf' \in Seq(Addresses \cup {NoPhy})
        /\ profileOf' \in Seq({"own", "default", "none"})
    BY <1>7, <1>10, <1>11, <1>12
  <2>2. Len(tse_mac_device') = N /\ Len(phyOf') = N /\ Len(profileOf') = N
    BY <1>7, <1>10, <1>11, <1>12
  <2>3. \A d \in Defined' : /\ Entry(d)'.channels >= 1 /\ Entry(d)'.sharers >= 1
                            /\ Entry(d)'.mac <= N
    BY <1>6, <1>9, <1>13
  <2> QED  BY <1>1, <1>2, <2>1, <2>2, <2>3 DEF TablesOK
<1>15. ProfilesOK'
  <2>1. \A d \in Defined : prof[d] = "default" =>
          \A i \in DOMAIN pphy_profiles :
            pphy_profiles[i].own => pphy_profiles[i].model # "known"
    BY <1>1, <1>8 DEF ProfilesOK
  <2> QED  BY <1>1, <1>13, <2>1 DEF ProfilesOK
<1>16. GroupsOK'
  <2>1. /\ pmac_groups' \in Seq(Seq(Int)) /\ phase' # "config"
        /\ \A g, h \in Groups' : g < h => Lo(g)' + Size(g)' <= Lo(h)'
    BY <1>1, <1>13 DEF GroupsOK
  <2>2. \A g \in Groups' :
          /\ Size(g)' >= 1 /\ Lo(g)' >= 1 /\ Lo(g)' + Size(g)' - 1 <= Len(tse_mac_device')
          /\ \A k \in 1 .. Size(g)' : pmac_groups'[g][k] = Lo(g)' + k - 1
    <3> SUFFICES ASSUME NEW g \in Groups
                 PROVE  /\ Size(g) >= 1 /\ Lo(g) >= 1 /\ Lo(g) + Size(g) - 1 <= N
                        /\ \A k \in 1 .. Size(g) : pmac_groups[g][k] = Lo(g) + k - 1
      BY <1>13
    <3> QED  BY <1>1, <1>2 DEF GroupsOK
  <2> QED  BY <2>1, <2>2 DEF GroupsOK
<1>17. \A d \in Defined : Run(d)' = Run(d)
  BY <1>9, <1>13 DEF Run, SystemWidth
<1>18. RunsOK'
  <2> SUFFICES ASSUME ~short PROVE \E starts \in SUBSET Defined : Starts(starts)'
    BY <1>13 DEF RunsOK
  <2>1. PICK starts \in SUBSET Defined : Starts(starts)
    BY <1>1 DEF RunsOK
  <2>2. \A s \in starts : Run(s)' = Run(s)
    BY <1>17, <2>1
  <2>3. (/\ \A s \in starts : s + Run(s) \in starts \cup {Len(tse_mac_device) + 1}
         /\ \A s, t \in starts : s < t => s + Run(s) <= t)'
    BY <1>2, <1>13, <2>1, <2>2 DEF Starts
  <2>4. (\A d \in Defined : d \in starts \/ Entry(d).channels > 1 \/ Entry(d).shared)'
    BY <1>9, <1>13, <2>1 DEF Starts
  <2>5. (\A d, e \in Defined :
           SameBus(d, e) <=> \E s \in starts : {d, e} \subseteq s .. s + Run(s) - 1)'
    <3> SUFFICES ASSUME NEW d \in Defined, NEW e \in Defined
                 PROVE  SameBus(d, e)' <=>
                          \E s \in starts : {d, e} \subseteq s .. s + Run(s)' - 1
      BY <1>13
    <3>1. SameBus(d, e)' <=> \/ Entry(d)'.mac = Entry(e)'.mac
                             \/ Entry(d)'.shared /\ Entry(e)'.shared
      BY DEF SameBus, Entry
    <3>2. SameBus(d, e)' <=> SameBus(d, e)
      <4>1. SameBus(d, e) <=> \/ Entry(d).mac = Entry(e).mac
                              \/ Entry(d).shared /\ Entry(e).shared
        BY DEF SameBus, Entry
      <4>2. \A x \in {d, e} : /\ Entry(x)'.mac = Entry(x).mac
                              /\ Entry(x)'.shared <=> Entry(x).shared
        BY <1>9, <1>13
      <4> QED  BY <3>1, <4>1, <4>2
    <3>3. SameBus(d, e) <=> \E s \in starts : {d, e} \subseteq s .. s + Run(s) - 1
      BY <2>1 DEF Starts
    <3> QED  BY <2>2, <3>2, <3>3
  <2>6. (Following \in starts \cup {Len(tse_mac_device) + 1})'
    BY <1>2, <1>13, <2>1 DEF Starts
  <2>7. (\A g \in Groups : Lo(g) \in starts /\ Size(g) = Run(Lo(g)))'
    <3> SUFFICES ASSUME NEW g \in Groups
                 PROVE  Lo(g)' \in starts /\ Size(g)' = Run(Lo(g))'
      BY <1>13
    <3>1. Lo(g) \in starts /\ Size(g) = Run(Lo(g)) /\ Lo(g)' = Lo(g) /\ Size(g)' = Size(g)
      BY <1>13, <2>1 DEF Starts
    <3>2. Run(Lo(g))' = SystemWidth(dev[Lo(g)]) /\ Run(Lo(g)) = SystemWidth(Entry(Lo(g)))
      BY <1>13, <3>1 DEF Run
    <3>3. SystemWidth(dev[Lo(g)]) = SystemWidth(Entry(Lo(g)))
      BY <1>9, <2>1, <3>1 DEF SystemWidth
    <3> QED  BY <3>1, <3>2, <3>3
  <2> QED  BY <2>1, <2>3, <2>4, <2>5, <2>6, <2>7, Zenon DEF Starts
<1>19. NamesOK'
  <2> SUFFICES ASSUME NEW d \in Defined
               PROVE  /\ phy[d] # NoPhy => dev[d].phy = phy[d]
                      /\ dev[d].named # AutoAddress => dev[d].phy = dev[d].named
    BY <1>13 DEF NamesOK
  <2>1. CASE d \in to
    <3>1. dev[d].phy = a /\ phy[d] = a /\ dev[d].named = Entry(d).named
          /\ Entry(d).phy \in {a, AutoAddress}
      BY <1>8, <1>9, <2>1
    <3>2. Entry(d).named # AutoAddress => Entry(d).phy = Entry(d).named
      BY <1>1 DEF NamesOK
    <3> QED  BY <3>1, <3>2
  <2>2. CASE d \notin to
    BY <1>1, <1>8, <2>2 DEF NamesOK
  <2> QED  BY <2>1, <2>2
<1>20. ASSUME NEW g \in Groups, g # g0
       PROVE  Members(g) \cap to = {}
  <2>1. /\ Lo(g) \in Int /\ Size(g) \in Int /\ Lo(g0) \in Int /\ Size(g0) \in Int
        /\ g \in Int /\ g0 \in Int
    BY <1>1, MembersAre, Basics DEF Groups
  <2>2. Lo(g) + Size(g) <= Lo(g0) \/ Lo(g0) + Size(g0) <= Lo(g)
    BY <1>1, <1>20, <2>1 DEF GroupsOK
  <2>3. Members(g) \cap Members(g0) = {}
    BY <2>1, <2>2 DEF Members
  <2> QED  BY <1>4, <2>3
<1>21. \A g \in Groups : Members(g) \subseteq Defined /\ Lo(g) \in Members(g) /\ Lo(g) \in Defined
  <2> SUFFICES ASSUME NEW g \in Groups
               PROVE  Members(g) \subseteq Defined /\ Lo(g) \in Members(g) /\ Lo(g) \in Defined
    OBVIOUS
  <2>1. /\ Members(g) \subseteq Defined /\ Lo(g) \in Defined /\ Size(g) \in Nat /\ Size(g) >= 1
    BY <1>1, MembersAre
  <2>2. Lo(g) \in Members(g)
    BY <1>2, <2>1 DEF Members
  <2> QED  BY <2>1, <2>2
<1>22. \A d \in Members(g0) : phyOf[d] < a
  BY <1>1, <1>3 DEF PhysOK
<1>23. ASSUME NEW g \in Groups
       PROVE  /\ (Ahead(g))' => \A d \in Members(g) : phy[d] = NoPhy
              /\ g = g0 => \A d \in Members(g) : phy[d] < a + 1
              /\ \A d, e \in Members(g) : phy[d] = phy[e] /\ phy[d] # NoPhy => d = e
  <2>1. CASE g # g0
    <3>1. \A d \in Members(g) : d \notin to /\ d \in Defined /\ phy[d] = phyOf[d]
      BY <1>8, <1>20, <1>21, <2>1
    <3>2. (Ahead(g))' => Ahead(g)
      BY DEF Ahead
    <3> QED  BY <1>1, <2>1, <3>1, <3>2 DEF PhysOK
  <2>2. CASE g = g0
    <3>1. ~(Ahead(g))'
      BY <1>3, <2>2 DEF Ahead, Groups
    <3>2. \A d \in Members(g) : /\ d \in Defined /\ phyOf[d] < a /\ phyOf[d] \in Int
                                /\ d \in to => phy[d] = a
                                /\ d \notin to => phy[d] = phyOf[d]
      BY <1>6, <1>8, <1>21, <1>22, <2>2
    <3>3. \A d, e \in Members(g) : phyOf[d] = phyOf[e] /\ phyOf[d] # NoPhy => d = e
      BY <1>1 DEF PhysOK
    <3>4. \A d \in Members(g) : phy[d] < a + 1
      BY <1>5, <3>2
    <3>5. \A d, e \in Members(g) : phy[d] = phy[e] /\ phy[d] # NoPhy => d = e
      <4> SUFFICES ASSUME NEW d \in Members(g), NEW e \in Members(g), phy[d] = phy[e],
                          phy[d] # NoPhy
                   PROVE  d = e
        OBVIOUS
      <4>1. CASE d \in to /\ e \in to
        BY <4>1
      <4>2. CASE d \notin to /\ e \notin to
        BY <3>2, <3>3, <4>2
      <4>3. CASE (d \in to /\ e \notin to) \/ (d \notin to /\ e \in to)
        BY <1>5, <3>2, <4>3
      <4> QED  BY <4>1, <4>2, <4>3
    <3> QED  BY <3>1, <3>4, <3>5
  <2> QED  BY <2>1, <2>2
<1>24. ASSUME ~short, NEW g \in Groups, NEW b \in Addresses, Scanned(g, b)'
       PROVE  \/ ~Entry(Lo(g)).mdio \/ bus[Lo(g)][b] = "none"
              \/ \E d \in Members(g) : phy[d] = b
              \/ \A d \in Members(g) : dev[d].phy # AutoAddress
  <2>1. Scanned(g, b) => Served(g, b)
    BY <1>1, <1>24 DEF PhysOK
  <2>2. Scanned(g, b) \/ (g = g0 /\ b = a)
    BY <1>3, <1>5, <1>24, TseSystemAssumption DEF Scanned, Addresses
  <2>3. \A d \in Defined : Entry(d).phy # AutoAddress => dev[d].phy # AutoAddress
    BY <1>5, <1>8, <1>9
  <2>4. CASE Scanned(g, b)
    <3>1. ASSUME NEW d \in Members(g), phyOf[d] = b PROVE phy[d] = b
      <4>1. b # NoPhy /\ b # AutoAddress /\ d \in Defined
        BY <1>21, TseSystemAssumption DEF Addresses, NoPhy, AutoAddress
      <4>2. Entry(d).phy = b
        BY <1>1, <3>1, <4>1 DEF NamesOK
      <4>3. d \in to => b = a
        BY <4>1, <4>2
      <4> QED  BY <1>8, <3>1, <4>1, <4>3
    <3>2. \/ ~Entry(Lo(g)).mdio \/ bus[Lo(g)][b] = "none"
          \/ \E d \in Members(g) : phyOf[d] = b
          \/ \A d \in Members(g) : Entry(d).phy # AutoAddress
      BY <2>1, <2>4 DEF Served
    <3> QED  BY <1>21, <2>3, <3>1, <3>2
  <2>5. CASE g = g0 /\ b = a
    <3>1. CASE to = {}
      BY <1>3, <1>21, <2>3, <2>5, <3>1
    <3>2. CASE to # {}
      <4>1. PICK d \in to : TRUE
        BY <3>2
      <4> QED  BY <1>4, <1>8, <2>5, <4>1
    <3> QED  BY <3>1, <3>2
  <2> QED  BY <2>2, <2>4, <2>5
<1>25. PhysOK'
  <2> SUFFICES ASSUME NEW g \in Groups
               PROVE  (/\ Ahead(g) => \A d \in Members(g) : phyOf[d] = NoPhy
                       /\ g = scan.group /\ phase = "address" =>
                            \A d \in Members(g) : phyOf[d] < scan.address
                       /\ \A d, e \in Members(g) : phyOf[d] = phyOf[e] /\ phyOf[d] # NoPhy => d = e
                       /\ ~short => \A b \in Addresses : Scanned(g, b) => Served(g, b))'
    BY <1>13 DEF PhysOK
  <2>3. Members(g)' = Members(g) /\ \A d : phyOf'[d] = phy[d]
    BY <1>13
  <2>4. Ahead(g)' => \A d \in Members(g)' : phyOf'[d] = NoPhy
    BY <1>23, <2>3
  <2>1. g = scan'.group /\ phase' = "address" => \A d \in Members(g)' : phyOf'[d] < scan'.address
    <3> SUFFICES ASSUME g = g0, NEW d \in Members(g) PROVE phyOf'[d] < a + 1
      BY <1>3, <2>3
    <3>1. phy[d] < a + 1
      BY <1>23
    <3> QED  BY <2>3, <3>1
  <2>5. \A d, e \in Members(g)' : phyOf'[d] = phyOf'[e] /\ phyOf'[d] # NoPhy => d = e
    <3>1. \A d, e \in Members(g) : phy[d] = phy[e] /\ phy[d] # NoPhy => d = e
      BY <1>23
    <3> SUFFICES ASSUME NEW d \in Members(g)', NEW e \in Members(g)',
                        phyOf'[d] = phyOf'[e], phyOf'[d] # NoPhy
                 PROVE  d = e
      OBVIOUS
    <3>2. /\ d \in Members(g) /\ e \in Members(g)
          /\ phy[d] = phy[e] /\ phy[d] # NoPhy
      BY <2>3
    <3> QED  BY <3>1, <3>2
  <2>2. ASSUME ~short, NEW b \in Addresses, Scanned(g, b)' PROVE Served(g, b)'
    <3>1. \/ ~Entry(Lo(g)).mdio \/ bus[Lo(g)][b] = "none"
          \/ \E d \in Members(g) : phy[d] = b
          \/ \A d \in Members(g) : dev[d].phy # AutoAddress
      BY <1>24, <2>2
    <3>2. (Entry(Lo(g)).mdio)' <=> Entry(Lo(g)).mdio
      BY <1>9, <1>13, <1>21
    <3>3. (bus[Lo(g)][b])' = bus[Lo(g)][b]
      BY <1>13
    <3>4. (\E d \in Members(g) : phyOf[d] = b)' <=> \E d \in Members(g) : phy[d] = b
      BY <1>13
    <3>5. (\A d \in Members(g) : Entry(d).phy # AutoAddress)'
            <=> \A d \in Members(g) : dev[d].phy # AutoAddress
      BY <1>13
    <3> QED  BY <3>1, <3>2, <3>3, <3>4, <3>5 DEF Served
  <2>6. ~short' => \A b \in Addresses : Scanned(g, b)' => Served(g, b)'
    BY <2>2
  <2> QED  BY <2>1, <2>4, <2>5, <2>6
<1> QED  BY <1>14, <1>15, <1>16, <1>18, <1>19, <1>25 DEF TseInv

LEMMA ScanAddressKeeps == TseInv /\ ScanAddress /\ UNCHANGED short => TseInv'
<1> SUFFICES ASSUME TseInv, ScanAddress, UNCHANGED short PROVE TseInv'
  OBVIOUS
<1>1. /\ UNCHANGED <<pphy_profiles, pmac_groups, bus, short>>
      /\ phase = "address" /\ scan.address <= LastAddress
      /\ TablesOK /\ GroupsOK /\ ScanOK /\ ProfilesOK
  BY DEF ScanAddress, TseInv
<1>2. /\ scan.group \in Groups /\ Len(pmac_groups) \in Nat /\ scan.group \in Nat
      /\ scan \in ScanPlace
  BY <1>1, MembersAre DEF ScanOK, Groups
<1>3. PICK g0 \in Nat : g0 = scan.group
  BY <1>2
<1>4. /\ Base \in DOMAIN mdio_addr /\ Base = Lo(g0)
  BY <1>1, <1>2, <1>3, BaseIs, Basics
<1>5. PICK a \in Addresses : a = scan.address /\ a \in Nat
  BY <1>1, <1>2, TseSystemAssumption DEF Addresses, ScanPlace
<1>6. mdio_addr' \in Seq(Addresses) /\ Len(mdio_addr') = Len(mdio_addr)
  <2>1. mdio_addr \in Seq(Addresses) /\ mdio_addr' = [mdio_addr EXCEPT ![Base] = a]
    BY <1>1, <1>5 DEF TablesOK, ScanAddress
  <2> QED  BY <1>4, <2>1, BusIsNamed
<1>7. PICK model : model = bus[Base][a]
  OBVIOUS
<1>8. PICK fails \in IF model = "none" THEN {FALSE} ELSE Fails :
        IF fails
        THEN /\ phase' = "scan" /\ scan' = [scan EXCEPT !.group = NextGroup]
             /\ UNCHANGED <<phyOf, profileOf, tse_mac_device>>
        ELSE /\ scan' = [scan EXCEPT !.address = @ + 1] /\ UNCHANGED phase
             /\ LET to == IF model = "none" THEN {} ELSE Associate(a)
                IN /\ phyOf' = [d \in Defined |->
                        IF d \in to THEN a ELSE phyOf[d]]
                   /\ profileOf' = [d \in Defined |->
                        IF d \in to THEN ProfileFor(model) ELSE profileOf[d]]
                   /\ tse_mac_device' = [d \in Defined |->
                        IF d \in to THEN [tse_mac_device[d] EXCEPT !.phy = a]
                        ELSE tse_mac_device[d]]
  BY <1>5, <1>7 DEF ScanAddress
<1>9. CASE fails
  <2>1. short
    BY <1>8, <1>9 DEF Fails
  <2>2. PICK g1 \in Nat : g1 = g0 + 1
    OBVIOUS
  <2>3. /\ phase' = "scan" /\ scan' = [scan EXCEPT !.group = g1]
        /\ UNCHANGED <<phyOf, profileOf, tse_mac_device>>
    BY <1>3, <1>8, <1>9, <2>2 DEF NextGroup
  <2>4. /\ scan' \in ScanPlace /\ scan'.group = g1 /\ scan'.address = scan.address
        /\ scan'.saved = scan.saved
    BY <1>2, <2>3 DEF ScanPlace
  <2>5. ScanOK'
    BY <1>1, <1>2, <1>3, <2>2, <2>3, <2>4 DEF ScanOK, Groups
  <2>6. \A g \in Groups : Ahead(g)' => Ahead(g)
    BY <1>1, <1>3, <2>2, <2>3, <2>4 DEF Ahead, Groups
  <2> QED  BY <1>1, <1>6, <2>1, <2>3, <2>5, <2>6, ScanGoesOn
<1>10. CASE ~fails
  <2>1. PICK next \in Nat : next = a + 1
    BY <1>5
  <2>2. UNCHANGED phase /\ scan' = [scan EXCEPT !.address = next]
    BY <1>5, <1>8, <1>10, <2>1
  <2>3. /\ scan' \in ScanPlace /\ scan'.group = scan.group /\ scan'.address = next
        /\ scan'.saved = scan.saved
    BY <1>2, <2>2 DEF ScanPlace
  <2>4. ScanOK'
    BY <1>1, <1>2, <1>5, <2>1, <2>2, <2>3, TseSystemAssumption DEF ScanOK, Groups
  <2>5. PICK to : to = IF model = "none" THEN {} ELSE Associate(a)
    OBVIOUS
  <2>6. /\ to \in SUBSET Members(scan.group) /\ \A d, e \in to : d = e
        /\ \A d \in to : Entry(d).phy \in {a, AutoAddress}
        /\ to = {} => \/ bus[Lo(scan.group)][a] = "none"
                      \/ \A d \in Members(scan.group) : Entry(d).phy \notin {a, AutoAddress}
    BY <1>1, <1>2, <1>3, <1>4, <1>7, <2>5, AssociateIs
  <2>7. PICK p : p = ProfileFor(model)
    OBVIOUS
  <2>8. /\ p \in {"own", "default", "none"}
        /\ p = "default" => \A i \in DOMAIN pphy_profiles :
                              pphy_profiles[i].own => pphy_profiles[i].model # "known"
    BY <1>1, <2>7, ProfileForIs
  <2>9. /\ phyOf' = [d \in Defined |-> IF d \in to THEN a ELSE phyOf[d]]
        /\ profileOf' = [d \in Defined |-> IF d \in to THEN p ELSE profileOf[d]]
        /\ tse_mac_device' = [d \in Defined |-> IF d \in to THEN Given(Entry(d), a) ELSE Entry(d)]
    BY <1>8, <1>10, <2>5, <2>7 DEF Given, Entry
  <2>10. scan'.address = a + 1 /\ scan'.group = scan.group
    BY <2>1, <2>3
  <2> QED  BY <1>1, <1>5, <1>6, <2>2, <2>4, <2>6, <2>8, <2>9, <2>10, AddressGiven
<1> QED  BY <1>9, <1>10

-----------------------------------------------------------------------------
LEMMA TseInvNext == TseInv /\ [TseNext]_tseVars => TseInv'
<1>1. TseInv /\ TseNext => TseInv'
  BY AddSysKeeps, EnableSharingKeeps, AddProfileKeeps, PhyInitKeeps, GroupInitKeeps,
     BeginScanKeeps, ScanAddressKeeps, EndScanKeeps, ScanReadyKeeps DEF TseNext, Step
<1> QED  BY <1>1, TseStays

(* No device of the Ethernet driver is in two groups of                    *)
(* alt_tse_mac_group_init, and while memory lasts a group is exactly the   *)
(* devices of one MDIO bus: the channels of one MAC, or the MACs that      *)
(* share a block.                                                          *)
THEOREM GroupsAreAlwaysBuses == TseSpec => []GroupsAreBuses
<1>1. TseSpec => []TseInv
  BY TseInvInit, TseInvNext, PTL DEF TseSpec
<1> QED  BY <1>1, GroupsFollow, PTL

(* The scan of alt_tse_mac_get_phy gives a PHY to one MAC of the bus and a *)
(* MAC no PHY but the one it names, uses the default profile only where    *)
(* the application has none, and leaves no PHY over in a group that has a  *)
(* MAC which would take any.                                               *)
THEOREM OnePhyForEach == TseSpec => []OnePhyEach
<1>1. TseSpec => []TseInv
  BY TseInvInit, TseInvNext, PTL DEF TseSpec
<1> QED  BY <1>1, PhysFollow, PTL

-----------------------------------------------------------------------------
(***************************************************************************)
(* What the two single buffers are safe from, for any number of frames and *)
(* ticks, any FIFO, and whether or not the controllers go idle in time.    *)
(*                                                                         *)
(* Neither property is inductive.  For the receive buffer one needs to     *)
(* know when the controller is at work (RxOwner); for the transmit buffer, *)
(* how many packets are built, sent and on the wire (TxOwner, Packets);    *)
(* and that the packets are no more than frames and ticks (Budget), which  *)
(* rests on the frames leaving the FIFO in their order (FifoOrder).        *)
(***************************************************************************)
Works(c) == c.engine \in {"working", "half"}
Rearms == {"rx_wait", "rx_construct", "rx_start"}
Sends == {"send_wait", "send_construct", "send_start"}
Builds == {"handle", "compose", "compose_rest"} \cup Sends
FirstArm == {"construct", "start"}

(* Which context may be where.                                             *)
Contexts ==
  /\ cpu.at \in FirstArm \cup {"idle"} <=> cpu.in = "main"
  /\ cpu.at \in Rearms => cpu.in = "rx"

(* From the interrupt to the start of the next reception the receive       *)
(* controller rests; when it works, the last frame has been looked at.     *)
Resting == (cpu.in = "rx" /\ cpu.at # "done") \/ cpu.at \in FirstArm
RxOwner ==
  /\ Resting => ~irq
  /\ Resting \/ irq => ~Works(rx)
  /\ Resting /\ cpu.at # "handle" => handled = rx_frame[2]
  /\ Works(rx) => handled = rx_frame[2]

(* The descriptor is the controller's from its construction to the end of  *)
(* the frame on the wire.                                                  *)
TxOwner ==
  /\ tx.status = "ok"
  /\ Works(tx) => tx.owned
  /\ cpu.at = "send_construct" => ~tx.owned
  /\ cpu.at = "send_start" => tx.owned /\ ~Works(tx)
  /\ sent = IF tx.owned /\ cpu.at # "send_start" THEN Len(wire) + 1 ELSE Len(wire)

(* The transmit buffer holds the last packet sent, or the one after it.    *)
Packets ==
  /\ tx_frame[1] = IF cpu.at \in Sends \cup {"compose_rest"} THEN sent + 1 ELSE sent
  /\ tx_frame[2] = IF cpu.at \in Sends THEN sent + 1 ELSE sent
  /\ tx.engine = "half" => reading \in {sent, sent + 1}

Wire ==
  /\ wire \in Seq(Nat \X Nat)
  /\ \A k \in DOMAIN wire : \A half \in 1 .. 2 : wire[k][half] \in {k, k + 1}

FifoOrder ==
  /\ rx_frame[2] <= arrived
  /\ \A i \in 1 .. Len(fifo) : rx_frame[2] < fifo[i] /\ fifo[i] <= arrived
  /\ \A i, j \in 1 .. Len(fifo) : i < j => fifo[i] < fifo[j]
  /\ rx.engine = "half" => fifo # <<>> /\ rx_frame[1] = Head(fifo)

(* A packet answers a frame or a tick, each of which has one.              *)
Pending == (IF irq THEN 1 ELSE 0) + (IF cpu.at \in Builds THEN 1 ELSE 0)
Budget == sent + Pending <= rx_frame[2] + ticks

FrameInv ==
  FrameTypeOK /\ Contexts /\ RxOwner /\ TxOwner /\ Packets /\ Wire /\ FifoOrder /\ Budget

-----------------------------------------------------------------------------
USE FrameDmaAssumption DEF Works, Rearms, Sends, Builds, FirstArm, Place, Goes, Done

LEMMA FrameHolds == FrameInit => FrameInv
<1> SUFFICES ASSUME FrameInit PROVE FrameInv
  OBVIOUS
<1>1. FrameTypeOK
  <2>1. SentMax \in Nat
    BY DEF SentMax
  <2>2. fifo \in Seq(1 .. FrameMax) /\ Len(fifo) <= FifoMax
    BY DEF FrameInit
  <2>3. rx \in Channel /\ tx \in Channel /\ cpu \in [in : {"main", "rx", "tick"}, at : Place]
    BY DEF FrameInit, Channel
  <2>4. rx_frame \in (0 .. FrameMax) \X (0 .. FrameMax)
        /\ tx_frame \in (0 .. SentMax) \X (0 .. SentMax)
    BY <2>1 DEF FrameInit
  <2>5. arrived \in 0 .. FrameMax /\ handled \in 0 .. FrameMax
    BY DEF FrameInit
  <2>6. reading \in 0 .. SentMax /\ ticks \in 0 .. TickMax /\ sent \in 0 .. SentMax
    BY <2>1 DEF FrameInit
  <2>7. irq \in BOOLEAN
    BY DEF FrameInit
  <2> QED  BY <2>2, <2>3, <2>4, <2>5, <2>6, <2>7 DEF FrameTypeOK
<1>2. Contexts /\ RxOwner /\ TxOwner /\ Packets /\ Budget
  BY DEF FrameInit, Contexts, RxOwner, Resting, TxOwner, Packets, Budget, Pending
<1>3. Wire /\ FifoOrder
  BY DEF FrameInit, Wire, FifoOrder
<1> QED  BY <1>1, <1>2, <1>3 DEF FrameInv

(* Where the handlers go.                                                  *)
LEMMA Route ==
  /\ AfterSend = IF cpu.in = "rx" THEN "rx_wait" ELSE "done"
  /\ NextStep("rx_wait") = "done" /\ RxSteps[1] = "handle"
  BY DEF AfterSend, NextStep, RxSteps

(* What building a descriptor and starting a controller leave alone.       *)
LEMMA DriverKeeps ==
  ASSUME NEW c \in Channel
  PROVE  /\ Constructed(c) \in Channel /\ Constructed(c).engine = c.engine
         /\ Constructed(c).owned = TRUE /\ Constructed(c).status = "ok"
         /\ Started(c) \in Channel /\ Started(c).owned = c.owned
         /\ Started(c).status = c.status
         /\ Started(c).engine = "half" <=> c.engine = "half"
  BY DEF Channel, Constructed, Started, Busy

(* The types, but for the bound on the packets, which is Budget's.         *)
ControlTypes ==
  rx \in Channel /\ tx \in Channel /\ cpu \in [in : {"main", "rx", "tick"}, at : Place]
FrameTypes ==
  /\ fifo \in Seq(1 .. FrameMax) /\ Len(fifo) <= FifoMax
  /\ arrived \in 0 .. FrameMax /\ handled \in 0 .. FrameMax
  /\ rx_frame \in (0 .. FrameMax) \X (0 .. FrameMax) /\ irq \in BOOLEAN
PacketTypes ==
  /\ tx_frame \in (0 .. SentMax) \X (0 .. SentMax)
  /\ reading \in 0 .. SentMax /\ ticks \in 0 .. TickMax /\ sent \in 0 .. SentMax

LEMMA TypeParts == FrameTypeOK <=> ControlTypes /\ FrameTypes /\ PacketTypes
  BY DEF FrameTypeOK, ControlTypes, FrameTypes, PacketTypes

LEMMA ControlTypesKept == ControlTypes /\ [FrameNext]_frameVars => ControlTypes'
<1> SUFFICES ASSUME ControlTypes, [FrameNext]_frameVars PROVE ControlTypes'
  OBVIOUS
<1> USE DEF ControlTypes
<1>1. CASE RxFirst \/ RxRest
  <2>1. CASE RxFirst
    BY <2>1 DEF RxFirst, Channel
  <2>2. CASE RxRest
    BY <2>2 DEF RxRest, Channel
  <2> QED  BY <1>1, <2>1, <2>2
<1>2. CASE TxFirst \/ TxRest
  <2>1. CASE TxFirst
    BY <2>1 DEF TxFirst, Channel
  <2>2. CASE TxRest
    BY <2>2 DEF TxRest, Channel
  <2> QED  BY <1>2, <2>1, <2>2
<1>3. CASE GoesIdle
  BY <1>3 DEF GoesIdle, Channel
<1>4. CASE Enable
  <2>1. rx' \in {rx, Constructed(rx), Started(rx)} /\ UNCHANGED tx
    BY <1>4 DEF Enable
  <2>2. cpu' \in [in : {"main", "rx", "tick"}, at : Place]
    BY <1>4 DEF Enable
  <2>3. Constructed(rx) \in Channel /\ Started(rx) \in Channel
    BY DriverKeeps
  <2> QED  BY <2>1, <2>2, <2>3
<1>5. CASE RxEnter \/ TickEnter \/ Leave
  BY <1>5, Route DEF RxEnter, TickEnter, Leave
<1>6. CASE Handle \/ Compose
  BY <1>6, Route DEF Handle, Compose
<1>7. CASE SendPacket
  <2>1. tx' \in {tx, Constructed(tx), Started(tx)} /\ UNCHANGED rx
    BY <1>7 DEF SendPacket, SendBuilt, SendStarted
  <2>2. cpu' \in [in : {"main", "rx", "tick"}, at : Place]
    BY <1>7, Route DEF SendPacket
  <2>3. Constructed(tx) \in Channel /\ Started(tx) \in Channel
    BY DriverKeeps
  <2> QED  BY <2>1, <2>2, <2>3
<1>8. CASE RxRearm
  <2>1. rx' \in {rx, Constructed(rx), Started(rx)} /\ UNCHANGED tx
    BY <1>8 DEF RxRearm, RxBuilt
  <2>2. cpu' \in [in : {"main", "rx", "tick"}, at : Place]
    BY <1>8, Route DEF RxRearm
  <2>3. Constructed(rx) \in Channel /\ Started(rx) \in Channel
    BY DriverKeeps
  <2> QED  BY <2>1, <2>2, <2>3
<1>9. CASE Arrive \/ UNCHANGED frameVars
  BY <1>9 DEF Arrive, frameVars
<1> QED
  BY <1>1, <1>2, <1>3, <1>4, <1>5, <1>6, <1>7, <1>8, <1>9 DEF FrameNext, Engines, Handlers

LEMMA FrameTypesKept == FrameInv /\ [FrameNext]_frameVars => FrameTypes'
<1> SUFFICES ASSUME FrameInv, [FrameNext]_frameVars PROVE FrameTypes'
  OBVIOUS
<1> FrameTypes
  BY TypeParts DEF FrameInv
<1> USE DEF FrameTypes
<1>1. CASE Arrive
  <2>1. arrived' \in 1 .. FrameMax
    BY <1>1 DEF Arrive
  <2>2. fifo' \in Seq(1 .. FrameMax) /\ Len(fifo') <= FifoMax
    <3>1. CASE fifo' = fifo
      BY <3>1
    <3>2. CASE fifo' = Append(fifo, arrived + 1) /\ Len(fifo) < FifoMax
      BY <1>1, <2>1, <3>2 DEF Arrive
    <3> QED  BY <1>1, <3>1, <3>2 DEF Arrive
  <2> QED  BY <1>1, <2>1, <2>2 DEF Arrive
<1>2. CASE RxFirst \/ RxRest
  <2>1. fifo # <<>>
    BY <1>2 DEF RxFirst, RxRest, FrameInv, FifoOrder
  <2>2. Head(fifo) \in 1 .. FrameMax
    <3>1. Head(fifo) = fifo[1] /\ 1 \in 1 .. Len(fifo)
      BY <2>1
    <3> QED  BY <3>1
  <2>3. Tail(fifo) \in Seq(1 .. FrameMax) /\ Len(Tail(fifo)) <= FifoMax
    BY <2>1
  <2>4. UNCHANGED <<arrived, handled>> /\ fifo' \in {fifo, Tail(fifo)}
        /\ irq' \in {irq, TRUE}
    BY <1>2 DEF RxFirst, RxRest
  <2>5. rx_frame' \in {<<Head(fifo), rx_frame[2]>>, <<Head(fifo), Head(fifo)>>}
    BY <1>2 DEF RxFirst, RxRest
  <2>6. rx_frame' \in (0 .. FrameMax) \X (0 .. FrameMax)
    BY <2>2, <2>5
  <2> QED  BY <2>3, <2>4, <2>6
<1>3. CASE RxEnter
  BY <1>3 DEF RxEnter
<1>4. CASE Handle
  BY <1>4 DEF Handle, frameHardware
<1>5. CASE ~(Arrive \/ RxFirst \/ RxRest \/ RxEnter \/ Handle)
  <2>1. UNCHANGED <<fifo, arrived, handled, rx_frame, irq>>
    BY <1>5 DEF FrameNext, Engines, Handlers, TxFirst, TxRest, GoesIdle, Enable, TickEnter,
                Compose, SendPacket, RxRearm, Leave, frameHardware, frameVars
  <2> QED  BY <2>1
<1> QED  BY <1>1, <1>2, <1>3, <1>4, <1>5

LEMMA PacketTypesKept == FrameInv /\ [FrameNext]_frameVars => PacketTypes'
<1> SUFFICES ASSUME FrameInv, [FrameNext]_frameVars PROVE PacketTypes'
  OBVIOUS
<1> PacketTypes /\ SentMax \in Nat
  BY TypeParts DEF FrameInv, SentMax
<1> USE DEF PacketTypes
<1>1. CASE Compose \/ SendPacket
  <2>1. cpu.at \in Builds
    BY <1>1 DEF Compose, SendPacket
  <2>2. sent + Pending <= SentMax
    BY DEF FrameInv, FrameTypeOK, Budget, Pending, SentMax
  <2>3. sent + 1 \in 0 .. SentMax
    BY <2>1, <2>2 DEF Pending
  <2>4. UNCHANGED <<reading, ticks>> /\ sent' \in {sent, sent + 1}
    BY <1>1 DEF Compose, SendPacket, frameHardware
  <2>5. tx_frame' \in {tx_frame, <<sent + 1, tx_frame[2]>>, <<sent + 1, sent + 1>>}
    BY <1>1 DEF Compose, SendPacket
  <2>6. tx_frame' \in (0 .. SentMax) \X (0 .. SentMax)
    BY <2>3, <2>5
  <2> QED  BY <2>3, <2>4, <2>6
<1>2. CASE TxFirst
  BY <1>2 DEF TxFirst
<1>3. CASE TickEnter
  BY <1>3 DEF TickEnter, frameHardware
<1>4. CASE ~(Compose \/ SendPacket \/ TxFirst \/ TickEnter)
  <2>1. UNCHANGED <<tx_frame, reading, ticks, sent>>
    BY <1>4 DEF FrameNext, Engines, Handlers, Arrive, RxFirst, RxRest, TxRest, GoesIdle,
                Enable, RxEnter, Handle, RxRearm, Leave, frameHardware, frameVars
  <2> QED  BY <2>1
<1> QED  BY <1>1, <1>2, <1>3, <1>4

LEMMA TypesKept == FrameInv /\ [FrameNext]_frameVars => FrameTypeOK'
<1> SUFFICES ASSUME FrameInv, [FrameNext]_frameVars PROVE FrameTypeOK'
  OBVIOUS
<1>1. ControlTypes' /\ FrameTypes' /\ PacketTypes'
  BY TypeParts, ControlTypesKept, FrameTypesKept, PacketTypesKept DEF FrameInv
<1> QED  BY <1>1 DEF FrameTypeOK, ControlTypes, FrameTypes, PacketTypes

LEMMA ContextsKept == FrameInv /\ [FrameNext]_frameVars => Contexts'
<1> SUFFICES ASSUME FrameInv, [FrameNext]_frameVars PROVE Contexts'
  OBVIOUS
<1> ControlTypes /\ Contexts
  BY TypeParts DEF FrameInv
<1> USE DEF ControlTypes, Contexts
<1>1. CASE Arrive \/ Engines \/ GoesIdle \/ UNCHANGED frameVars
  <2>1. cpu' = cpu
    BY <1>1 DEF Arrive, Engines, RxFirst, RxRest, TxFirst, TxRest, GoesIdle, frameVars
  <2> QED  BY <2>1
<1>2. CASE Enable \/ RxEnter \/ TickEnter
  BY <1>2, Route DEF Enable, RxEnter, TickEnter
<1>3. CASE Handle \/ Compose \/ Leave
  BY <1>3, Route DEF Handle, Compose, Leave
<1>4. CASE SendPacket \/ RxRearm
  BY <1>4, Route DEF SendPacket, RxRearm
<1> QED  BY <1>1, <1>2, <1>3, <1>4 DEF FrameNext, Handlers

(* The receive side.                                                       *)
LEMMA RxOwnerKept == FrameInv /\ [FrameNext]_frameVars => RxOwner'
<1> SUFFICES ASSUME FrameInv, [FrameNext]_frameVars PROVE RxOwner'
  OBVIOUS
<1> ControlTypes /\ Contexts /\ RxOwner /\ irq \in BOOLEAN
  BY TypeParts DEF FrameInv, FrameTypes
<1> USE DEF ControlTypes, Channel, Contexts, RxOwner, Resting, frameHardware
<1>1. CASE Arrive \/ TxFirst \/ TxRest \/ UNCHANGED frameVars
  BY <1>1 DEF Arrive, TxFirst, TxRest, frameVars
<1>2. CASE RxFirst
  BY <1>2 DEF RxFirst
<1>3. CASE RxRest
  BY <1>3 DEF RxRest
<1>4. CASE GoesIdle
  BY <1>4 DEF GoesIdle
<1>5. CASE Enable
  BY <1>5 DEF Enable, Constructed, Started, Busy
<1>6. CASE RxEnter \/ TickEnter \/ Leave
  BY <1>6, Route DEF RxEnter, TickEnter, Leave
<1>7. CASE Handle
  BY <1>7, Route DEF Handle
<1>8. CASE Compose
  BY <1>8 DEF Compose
<1>9. CASE SendPacket
  BY <1>9, Route DEF SendPacket
<1>10. CASE RxRearm
  BY <1>10, Route DEF RxRearm, RxBuilt, Constructed, Started, Busy
<1> QED
  BY <1>1, <1>2, <1>3, <1>4, <1>5, <1>6, <1>7, <1>8, <1>9, <1>10
  DEF FrameNext, Engines, Handlers

(* Frames leave the FIFO as they came.                                     *)
LEMMA FifoOrderKept == FrameInv /\ [FrameNext]_frameVars => FifoOrder'
<1> SUFFICES ASSUME FrameInv, [FrameNext]_frameVars PROVE FifoOrder'
  OBVIOUS
<1>0. /\ arrived \in Nat /\ rx_frame[2] \in Nat /\ fifo \in Seq(Nat) /\ Len(fifo) \in Nat
      /\ \A i \in 1 .. Len(fifo) : fifo[i] \in Nat
  BY DEF FrameInv, FrameTypeOK
<1>f. FifoOrder
  BY DEF FrameInv
<1>1. CASE Arrive
  <2>1. arrived' = arrived + 1 /\ rx_frame' = rx_frame /\ rx' = rx
        /\ fifo' \in {fifo, Append(fifo, arrived + 1)}
    BY <1>1 DEF Arrive
  <2>2. rx_frame'[2] <= arrived'
    BY <1>0, <1>f, <2>1 DEF FifoOrder
  <2>3. CASE fifo' = fifo
    <3>1. \A i \in 1 .. Len(fifo') : rx_frame'[2] < fifo'[i] /\ fifo'[i] <= arrived'
      BY <1>0, <1>f, <2>1, <2>3 DEF FifoOrder
    <3> QED  BY <1>f, <2>1, <2>2, <2>3, <3>1 DEF FifoOrder
  <2>4. CASE fifo' = Append(fifo, arrived + 1)
    <3>1. Len(fifo') = Len(fifo) + 1 /\ fifo'[Len(fifo) + 1] = arrived + 1
          /\ \A i \in 1 .. Len(fifo) : fifo'[i] = fifo[i]
      BY <1>0, <2>4
    <3>2. \A i \in 1 .. Len(fifo') : i \in 1 .. Len(fifo) \/ i = Len(fifo) + 1
      BY <1>0, <3>1
    <3>3. ASSUME NEW i \in 1 .. Len(fifo')
          PROVE rx_frame'[2] < fifo'[i] /\ fifo'[i] <= arrived'
      <4>1. CASE i \in 1 .. Len(fifo)
        <5>1. rx_frame[2] < fifo[i] /\ fifo[i] <= arrived /\ fifo[i] \in Nat
          BY <1>0, <1>f, <4>1 DEF FifoOrder
        <5> QED  BY <1>0, <2>1, <3>1, <4>1, <5>1
      <4>2. CASE i = Len(fifo) + 1
        <5>1. fifo'[i] = arrived + 1
          BY <3>1, <4>2
        <5>2. rx_frame[2] <= arrived
          BY <1>f DEF FifoOrder
        <5> QED  BY <1>0, <2>1, <5>1, <5>2
      <4> QED  BY <3>2, <4>1, <4>2
    <3>4. ASSUME NEW i \in 1 .. Len(fifo'), NEW j \in 1 .. Len(fifo'), i < j
          PROVE fifo'[i] < fifo'[j]
      <4>1. i \in 1 .. Len(fifo)
        BY <1>0, <3>1, <3>4
      <4>2. fifo'[i] = fifo[i] /\ fifo[i] \in Nat /\ fifo[i] <= arrived
        BY <1>0, <1>f, <3>1, <4>1 DEF FifoOrder
      <4>3. CASE j \in 1 .. Len(fifo)
        <5>1. fifo[i] < fifo[j]
          BY <1>f, <3>4, <4>1, <4>3 DEF FifoOrder
        <5> QED  BY <3>1, <4>2, <4>3, <5>1
      <4>4. CASE j = Len(fifo) + 1
        BY <1>0, <3>1, <4>2, <4>4
      <4> QED  BY <3>2, <4>3, <4>4
    <3>5. fifo # <<>> => fifo' # <<>> /\ Head(fifo') = Head(fifo)
      <4> SUFFICES ASSUME fifo # <<>> PROVE fifo' # <<>> /\ Head(fifo') = Head(fifo)
        OBVIOUS
      <4>1. Head(fifo) = fifo[1] /\ 1 \in 1 .. Len(fifo)
        BY <1>0
      <4>2. fifo' \in Seq(Nat) /\ fifo' # <<>>
        BY <1>0, <2>4, <3>1
      <4> QED  BY <3>1, <4>1, <4>2
    <3>6. rx'.engine = "half" => fifo' # <<>> /\ rx_frame'[1] = Head(fifo')
      BY <1>f, <2>1, <3>5 DEF FifoOrder
    <3> QED  BY <2>2, <3>3, <3>4, <3>6 DEF FifoOrder
  <2> QED  BY <2>1, <2>3, <2>4
<1>2. CASE RxFirst
  <2>1. fifo # <<>> /\ rx_frame' = <<Head(fifo), rx_frame[2]>> /\ UNCHANGED <<fifo, arrived>>
    BY <1>2 DEF RxFirst
  <2> QED  BY <1>f, <2>1 DEF FifoOrder
<1>3. CASE RxRest
  <2>1. fifo # <<>> /\ fifo' = Tail(fifo) /\ arrived' = arrived
        /\ rx_frame' = <<Head(fifo), Head(fifo)>> /\ rx'.engine = "ending"
    <3>1. rx.engine = "half"
      BY <1>3 DEF RxRest
    <3> QED  BY <1>3, <1>f, <3>1 DEF RxRest, FifoOrder
  <2>2. Len(Tail(fifo)) = Len(fifo) - 1 /\ Head(fifo) = fifo[1] /\ 1 \in 1 .. Len(fifo)
        /\ \A i \in 1 .. Len(Tail(fifo)) : Tail(fifo)[i] = fifo[i + 1]
    BY <1>0, <2>1
  <2>3. rx_frame'[2] = fifo[1] /\ fifo[1] <= arrived
    BY <1>f, <2>1, <2>2 DEF FifoOrder
  <2>4. \A i \in 1 .. Len(fifo') :
          i + 1 \in 1 .. Len(fifo) /\ 1 < i + 1 /\ fifo'[i] = fifo[i + 1]
    BY <1>0, <2>1, <2>2
  <2>5. \A i \in 1 .. Len(fifo') : rx_frame'[2] < fifo'[i] /\ fifo'[i] <= arrived'
    BY <1>f, <2>1, <2>2, <2>3, <2>4 DEF FifoOrder
  <2>6. ASSUME NEW i \in 1 .. Len(fifo'), NEW j \in 1 .. Len(fifo'), i < j
        PROVE fifo'[i] < fifo'[j]
    <3>1. i + 1 < j + 1
      BY <2>2, <2>6
    <3> QED  BY <1>f, <2>4, <3>1 DEF FifoOrder
  <2> QED  BY <2>1, <2>3, <2>5, <2>6 DEF FifoOrder
<1>4. CASE ~(Arrive \/ RxFirst \/ RxRest)
  <2>1. UNCHANGED <<fifo, arrived, rx_frame>>
    BY <1>4 DEF FrameNext, Engines, Handlers, TxFirst, TxRest, GoesIdle, Enable, RxEnter,
                TickEnter, Handle, Compose, SendPacket, RxRearm, Leave, frameHardware,
                frameVars
  <2>2. rx'.engine = "half" => rx.engine = "half"
    BY <1>4 DEF FrameNext, Engines, Handlers, TxFirst, TxRest, GoesIdle, Enable, RxEnter,
                TickEnter, Handle, Compose, SendPacket, RxRearm, Leave, frameVars, RxBuilt,
                Constructed, Started, Busy, FrameInv, FrameTypeOK, Channel
  <2> QED  BY <1>f, <2>1, <2>2 DEF FifoOrder
<1> QED  BY <1>1, <1>2, <1>3, <1>4

(* The transmit side.                                                      *)
LEMMA TxOwnerKept == FrameInv /\ [FrameNext]_frameVars => TxOwner'
<1> SUFFICES ASSUME FrameInv, [FrameNext]_frameVars PROVE TxOwner'
  OBVIOUS
<1> ControlTypes /\ Contexts /\ TxOwner /\ wire \in Seq(Nat \X Nat) /\ sent \in Nat
  BY TypeParts DEF FrameInv, PacketTypes, Wire
<1> USE DEF ControlTypes, Channel, Contexts, TxOwner, frameHardware
<1>1. CASE Arrive \/ RxFirst \/ RxRest \/ UNCHANGED frameVars
  BY <1>1 DEF Arrive, RxFirst, RxRest, frameVars
<1>2. CASE TxFirst
  BY <1>2 DEF TxFirst
<1>3. CASE TxRest
  <2>1. Len(wire') = Len(wire) + 1
    BY <1>3 DEF TxRest
  <2> QED  BY <1>3, <2>1 DEF TxRest
<1>4. CASE GoesIdle
  BY <1>4 DEF GoesIdle
<1>5. CASE Enable \/ RxEnter \/ TickEnter \/ Leave
  <2>1. tx' = tx /\ sent' = sent /\ wire' = wire
    BY <1>5 DEF Enable, RxEnter, TickEnter, Leave
  <2>2. cpu.at \notin Sends /\ cpu'.at \notin Sends
    BY <1>5, Route DEF Enable, RxEnter, TickEnter, Leave
  <2> QED  BY <2>1, <2>2
<1>6. CASE Handle \/ Compose
  BY <1>6, Route DEF Handle, Compose
<1>7. CASE SendPacket
  BY <1>7, Route
  DEF SendPacket, SendReady, CheckStatus, SendBuilt, SendStarted, Constructed, Started, Busy
<1>8. CASE RxRearm
  BY <1>8, Route DEF RxRearm
<1> QED
  BY <1>1, <1>2, <1>3, <1>4, <1>5, <1>6, <1>7, <1>8 DEF FrameNext, Engines, Handlers

LEMMA PacketsKept == FrameInv /\ [FrameNext]_frameVars => Packets'
<1> SUFFICES ASSUME FrameInv, [FrameNext]_frameVars PROVE Packets'
  OBVIOUS
<1> /\ ControlTypes /\ Contexts /\ Packets /\ TxOwner /\ sent \in Nat
    /\ tx_frame \in Nat \X Nat
  BY TypeParts DEF FrameInv, PacketTypes, SentMax
<1> USE DEF ControlTypes, Channel, Contexts, Packets, frameHardware
<1>1. CASE Arrive \/ RxFirst \/ RxRest \/ UNCHANGED frameVars
  BY <1>1 DEF Arrive, RxFirst, RxRest, frameVars
<1>2. CASE TxFirst \/ TxRest \/ GoesIdle
  BY <1>2 DEF TxFirst, TxRest, GoesIdle
<1>3. CASE Enable \/ RxEnter \/ TickEnter \/ Leave
  BY <1>3, Route DEF Enable, RxEnter, TickEnter, Leave
<1>4. CASE Handle
  BY <1>4, Route DEF Handle
<1>5. CASE Compose
  BY <1>5 DEF Compose
<1>6. CASE SendPacket
  <2>1. tx'.engine # "half"
    BY <1>6 DEF SendPacket, SendReady, CheckStatus, SendBuilt, SendStarted, Constructed,
                Started, Busy, TxOwner
  <2> QED  BY <1>6, <2>1, Route DEF SendPacket
<1>7. CASE RxRearm
  BY <1>7, Route DEF RxRearm
<1> QED
  BY <1>1, <1>2, <1>3, <1>4, <1>5, <1>6, <1>7 DEF FrameNext, Engines, Handlers

(* A packet whose second half is read has number sent, whatever has been   *)
(* written over it since.                                                  *)
LEMMA WireKept == FrameInv /\ [FrameNext]_frameVars => Wire'
<1> SUFFICES ASSUME FrameInv, [FrameNext]_frameVars PROVE Wire'
  OBVIOUS
<1>1. CASE TxRest
  <2>1. /\ sent = Len(wire) + 1 /\ sent \in Nat /\ reading \in {sent, sent + 1}
        /\ tx_frame[2] \in {sent, sent + 1}
    BY <1>1 DEF TxRest, FrameInv, FrameTypeOK, TxOwner, Packets
  <2>2. wire' = Append(wire, <<reading, tx_frame[2]>>) /\ wire \in Seq(Nat \X Nat)
    BY <1>1 DEF TxRest, FrameInv, Wire
  <2>3. <<reading, tx_frame[2]>> \in Nat \X Nat
    BY <2>1
  <2>4. /\ wire' \in Seq(Nat \X Nat) /\ Len(wire') = Len(wire) + 1
        /\ wire'[Len(wire) + 1] = <<reading, tx_frame[2]>>
        /\ \A k \in 1 .. Len(wire) : wire'[k] = wire[k]
    BY <2>2, <2>3
  <2>5. ASSUME NEW k \in 1 .. Len(wire'), NEW half \in 1 .. 2
        PROVE wire'[k][half] \in {k, k + 1}
    <3>1. CASE k \in 1 .. Len(wire)
      <4>1. k \in DOMAIN wire
        BY <2>2, <3>1
      <4>2. wire[k][half] \in {k, k + 1}
        BY <4>1 DEF FrameInv, Wire
      <4> QED  BY <2>4, <3>1, <4>2
    <3>2. CASE k = Len(wire) + 1
      BY <2>1, <2>4, <3>2
    <3> QED  BY <2>2, <2>4, <3>1, <3>2
  <2>6. DOMAIN wire' = 1 .. Len(wire')
    BY <2>4
  <2> QED  BY <2>4, <2>5, <2>6 DEF Wire
<1>2. CASE ~TxRest
  <2>1. wire' = wire
    BY <1>2 DEF FrameNext, Engines, Handlers, Arrive, RxFirst, RxRest, TxFirst, GoesIdle,
                Enable, RxEnter, TickEnter, Handle, Compose, SendPacket, RxRearm, Leave,
                frameHardware, frameVars
  <2> QED  BY <2>1 DEF FrameInv, Wire
<1> QED  BY <1>1, <1>2

(* Each interrupt, of a frame or of the timer, allows one packet; a frame  *)
(* that is received has a higher number than the last.                     *)
LEMMA BudgetKept == FrameInv /\ [FrameNext]_frameVars => Budget'
<1> SUFFICES ASSUME FrameInv, [FrameNext]_frameVars PROVE Budget'
  OBVIOUS
<1> USE DEF Budget, Pending, frameHardware
<1> /\ sent \in Nat /\ ticks \in Nat /\ rx_frame[2] \in Nat
    /\ irq \in BOOLEAN /\ cpu \in [in : {"main", "rx", "tick"}, at : Place] /\ Budget
  BY DEF FrameInv, FrameTypeOK, SentMax
<1>1. CASE Arrive \/ RxFirst \/ UNCHANGED frameVars
  <2>1. rx_frame'[2] = rx_frame[2]
    BY <1>1 DEF Arrive, RxFirst, frameVars
  <2>2. UNCHANGED <<irq, cpu, sent, ticks>>
    BY <1>1 DEF Arrive, RxFirst, frameVars
  <2> QED  BY <2>1, <2>2
<1>2. CASE RxRest
  <2>1. ~irq /\ Head(fifo) \in Nat /\ rx_frame[2] < Head(fifo)
    <3>1. rx.engine = "half"
      BY <1>2 DEF RxRest
    <3>2. ~irq /\ fifo # <<>> /\ fifo \in Seq(1 .. FrameMax)
      BY <3>1 DEF FrameInv, FrameTypeOK, RxOwner, FifoOrder
    <3>3. Head(fifo) = fifo[1] /\ 1 \in 1 .. Len(fifo) /\ fifo[1] \in 1 .. FrameMax
      BY <3>2
    <3> QED  BY <3>2, <3>3 DEF FrameInv, FifoOrder
  <2>2. irq' /\ rx_frame'[2] = Head(fifo) /\ UNCHANGED <<cpu, sent, ticks>>
    BY <1>2 DEF RxRest
  <2> QED  BY <2>1, <2>2
<1>3. CASE TxFirst \/ TxRest \/ GoesIdle \/ Enable
  <2>1. UNCHANGED <<irq, rx_frame, sent, ticks>>
    BY <1>3 DEF TxFirst, TxRest, GoesIdle, Enable
  <2>2. cpu.at \notin Builds => cpu'.at \notin Builds
    BY <1>3 DEF TxFirst, TxRest, GoesIdle, Enable
  <2> QED  BY <2>1, <2>2
<1>4. CASE RxEnter
  BY <1>4, Route DEF RxEnter
<1>5. CASE TickEnter \/ Leave
  <2>1. CASE TickEnter
    <3>1. cpu.at \notin Builds /\ UNCHANGED <<irq, rx_frame, sent>> /\ ticks' = ticks + 1
      BY <2>1 DEF TickEnter
    <3> QED  BY <3>1
  <2>2. CASE Leave
    <3>1. cpu'.at \notin Builds /\ UNCHANGED <<irq, rx_frame, sent, ticks>>
      BY <2>2 DEF Leave
    <3> QED  BY <3>1
  <2> QED  BY <1>5, <2>1, <2>2
<1>6. CASE Handle \/ Compose
  <2>1. cpu.at \in Builds /\ UNCHANGED <<irq, rx_frame, sent, ticks>>
    BY <1>6 DEF Handle, Compose
  <2> QED  BY <2>1
<1>7. CASE SendPacket
  <2>1. cpu.at \in Builds /\ UNCHANGED <<irq, rx_frame, ticks>>
    BY <1>7 DEF SendPacket
  <2>2. \/ sent' = sent
        \/ sent' = sent + 1 /\ cpu'.at \notin Builds
    BY <1>7, Route DEF SendPacket
  <2> QED  BY <2>1, <2>2
<1>8. CASE RxRearm
  BY <1>8, Route DEF RxRearm
<1> QED
  BY <1>1, <1>2, <1>3, <1>4, <1>5, <1>6, <1>7, <1>8 DEF FrameNext, Engines, Handlers

LEMMA FrameKeeps == FrameInv /\ [FrameNext]_frameVars => FrameInv'
  BY TypesKept, ContextsKept, RxOwnerKept, TxOwnerKept, PacketsKept, WireKept,
     FifoOrderKept, BudgetKept DEF FrameInv

(* Only the receive controller writes the receive buffer, and it works     *)
(* only while the handler has no claim to it.                              *)
LEMMA WritesAreOwned ==
  FrameInv /\ [FrameNext]_frameVars =>
    (rx_frame' # rx_frame =>
       /\ rx_frame[1] = rx_frame[2] => handled = rx_frame[2]
       /\ ~(cpu.in = "rx" /\ cpu.at \in {"handle", "compose", "compose_rest"}))
<1> SUFFICES ASSUME FrameInv, [FrameNext]_frameVars, rx_frame' # rx_frame
             PROVE /\ rx_frame[1] = rx_frame[2] => handled = rx_frame[2]
                   /\ ~(cpu.in = "rx" /\ cpu.at \in {"handle", "compose", "compose_rest"})
  OBVIOUS
<1>1. RxFirst \/ RxRest
  BY DEF FrameNext, Engines, Handlers, Arrive, TxFirst, TxRest, GoesIdle, Enable, RxEnter,
         TickEnter, Handle, Compose, SendPacket, RxRearm, Leave, frameHardware, frameVars
<1>2. Works(rx)
  BY <1>1 DEF RxFirst, RxRest
<1> QED  BY <1>2 DEF FrameInv, RxOwner, Resting

-----------------------------------------------------------------------------
(* The inductive invariant of buffers, descriptors and controllers.        *)
THEOREM FrameInvariant == FrameSpec => []FrameInv
  BY FrameHolds, FrameKeeps, PTL DEF FrameSpec

(* A packet on the wire is at most overtaken by the one after it: never    *)
(* older, never two packets later (send_packet, create_tcp_pkt).           *)
THEOREM WireIsAtMostOneAhead == FrameSpec => []AtMostOneAhead
<1>1. FrameInv => AtMostOneAhead
  BY DEF FrameInv, Wire, AtMostOneAhead
<1> QED  BY <1>1, FrameInvariant, PTL

(* No frame is overwritten before it has been looked at, nor while it is   *)
(* being answered (rx_ethernet_isr, from its start to line 384).           *)
THEOREM HandlerKeepsFrame == FrameSpec => HandlerOwnsFrame
<1>1. FrameInv /\ [FrameNext]_frameVars =>
        [rx_frame' # rx_frame =>
           /\ rx_frame[1] = rx_frame[2] => handled = rx_frame[2]
           /\ ~(cpu.in = "rx" /\ cpu.at \in {"handle", "compose", "compose_rest"})
        ]_frameVars
  BY WritesAreOwned
<1> QED  BY <1>1, FrameInvariant, PTL DEF FrameSpec, HandlerOwnsFrame
=============================================================================
