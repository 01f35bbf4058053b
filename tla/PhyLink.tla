------------------------------ MODULE PhyLink ------------------------------
(***************************************************************************)
(* The link management of the Ethernet driver (altera_avalon_tse.c) for    *)
(* one group of MACs that share an MDIO bus: auto-negotiation, the common  *)
(* speed of the group, and getPHYSpeed.                                    *)
(*                                                                         *)
(* Every PHY register is reached through the bus at the address held in    *)
(* the one register MDIO_ADDR1 (addr), which the routines save, overwrite  *)
(* and put back around each other.  A routine of the driver is a frame on  *)
(* stack: where it returns to, the address it saved and its time-out       *)
(* counter.  A PHY (external) negotiates by itself, with the abilities it  *)
(* advertised when the negotiation was started, and can lose its link.     *)
(***************************************************************************)
EXTENDS Integers, Sequences, FiniteSetsExt

CONSTANTS
  Channels,         \* the MACs of the group are 1 .. Channels
  Addresses,        \* MDIO addresses of the PHYs
  Setups,           \* the MACs, PHYs and link partners there may be
  AnThreshold,      \* time-out of a negotiation, in polls
  LinkThreshold,    \* time-out of the link check
  Drops             \* times a link can be lost

Speeds == 0 .. 2            \* 10, 100 and 1000 Mbps
NoCommon == -1
Bad == 3
Default == 1
NoPhy == -1
Macs == 1 .. Channels
Kind == [an : BOOLEAN, speeds : SUBSET Speeds,
         profile : {"none", "undefined", "registers", "function"}]

ASSUME PhyLinkAssumption ==
  /\ Channels \in Nat \ {0} /\ Addresses \subseteq Nat
  /\ \A s \in Setups :
       /\ s.phyOf \in [Macs -> Addresses \cup {NoPhy}]
       /\ \A m, n \in Macs : s.phyOf[m] = s.phyOf[n]
                              => m = n \/ s.phyOf[m] = NoPhy
       /\ s.macType \in [Macs -> {"full", "10_100", "1000"}]
       /\ s.kind \in [Addresses -> Kind]
       /\ s.partner \in [Addresses -> SUBSET Speeds]
  /\ AnThreshold \in Nat /\ LinkThreshold \in Nat /\ Drops \in Nat

VARIABLES
  phyOf, macType,  \* pphy_info (by address) and mac_type of each MAC
  kind, partner,   \* the PHYs and what is at the other end of their cables
  reg,             \* registers of the PHYs
  addr,            \* MDIO_ADDR1
  mac,             \* COMMAND_CONFIG of each MAC: speed and half duplex
  gb,              \* link_capability: a gigabit ability was read
  pc, stack,       \* where the driver is, and the routines it is in
  call,            \* the call of the driver: routine, argument, MAC, result
  counted,         \* PHYs whose capability entered the common speed
  drops

hardware == <<phyOf, macType, kind, partner, drops>>
vars == <<hardware, reg, addr, mac, gb, pc, stack, call, counted>>

Pc == {"idle", "cap", "cap_read", "set", "set_read", "speed", "check",
       "checked", "read", "restart", "poll"}
Fn == {"none", "get_common", "set_common", "getPHYSpeed"}

-----------------------------------------------------------------------------
(* The PHYs.                                                               *)

Common(a) == reg[a].offer \cap partner[a]

Negotiate(a) ==
  /\ kind[a].an /\ ~reg[a].done /\ Common(a) # {}
  /\ reg' = [reg EXCEPT ![a].done = TRUE, ![a].speed = Max(Common(a))]
  /\ UNCHANGED <<hardware, addr, mac, gb, pc, stack, call, counted>>

(* The link is lost, and negotiated anew with what is advertised by then.  *)
Drop(a) ==
  /\ reg[a].done /\ drops < Drops
  /\ reg' = [reg EXCEPT ![a].done = FALSE, ![a].offer = reg[a].adv]
  /\ drops' = drops + 1
  /\ UNCHANGED <<phyOf, macType, kind, partner, addr, mac, gb, pc, stack, call,
                 counted>>

-----------------------------------------------------------------------------
(* Calls between the routines.                                             *)

Phy == phyOf[call.mac]
HasPhy(m) == phyOf[m] # NoPhy

(* rd_mdio_addr, then wr_mdio_addr: on the bus of the first MAC.           *)
Enter(at, to) ==
  /\ stack' = <<[to |-> to, saved |-> addr, n |-> 0]>> \o stack
  /\ addr' = Phy
  /\ pc' = at
RestoreNot == addr
Restore == Head(stack).saved
Leave == stack' = Tail(stack) /\ addr' = Restore /\ pc' = Head(stack).to
Wait == stack' = [stack EXCEPT ![1].n = @ + 1]
TimedOut(threshold) == Head(stack).n > threshold

Negotiated(r) == call' = [call EXCEPT !.an = r]
Result(s, e) == call' = [call EXCEPT !.speed = s, !.error = e]
NextMac(at) == call' = [call EXCEPT !.mac = @ + 1] /\ pc' = at
Finish(s, e) == Result(s, e) /\ pc' = "idle"
Begun(fn, arg, m) == [fn |-> fn, arg |-> arg, mac |-> m, entry |-> addr,
                      an |-> "complete", speed |-> NoCommon, error |-> FALSE]

-----------------------------------------------------------------------------
(* alt_tse_phy_restart_an.                                                 *)
Restarted == [reg EXCEPT ![addr].done = FALSE, ![addr].offer = reg[addr].adv]

Restart ==
  /\ pc = "restart"
  /\ IF kind[addr].an
     THEN /\ reg' = Restarted /\ pc' = "poll"
          /\ UNCHANGED <<stack, addr, call>>
     ELSE /\ Leave /\ Negotiated("not_capable") /\ UNCHANGED reg
  /\ UNCHANGED <<hardware, mac, gb, counted>>

Poll ==
  /\ pc = "poll"
  /\ \/ reg[addr].done /\ Leave /\ Negotiated("complete")
     \/ ~reg[addr].done /\ TimedOut(AnThreshold) /\ Leave
        /\ Negotiated("not_complete")
     \/ ~reg[addr].done /\ ~TimedOut(AnThreshold) /\ Wait
        /\ UNCHANGED <<addr, pc, call>>
  /\ UNCHANGED <<hardware, reg, mac, gb, counted>>

(* alt_tse_phy_set_adv_1000, _100, _10: the speeds in set are advertised   *)
(* where the PHY has them, the others never.  Each writes the PHY's own    *)
(* address and puts the old one back.                                      *)
Advertise(regs, a, set) ==
  [regs EXCEPT ![a].adv = set \cap kind[a].speeds]

-----------------------------------------------------------------------------
(* alt_tse_phy_get_common_speed: advertise everything, then add up the     *)
(* capabilities, MAC by MAC, with alt_tse_phy_get_cap.                     *)
GetCommon ==
  /\ pc = "idle"
  /\ call' = Begun("get_common", 0, 1)
  /\ reg' = [a \in Addresses |->
       IF \E m \in Macs : phyOf[m] = a
       THEN Advertise(reg, a, Speeds)[a] ELSE reg[a]]
  /\ counted' = {} /\ pc' = "cap"
  /\ UNCHANGED <<hardware, addr, mac, gb, stack>>

SpeedsOfMac(m) == CASE macType[m] = "10_100" -> {0, 1}
                    [] macType[m] = "1000" -> {2}
                    [] OTHER -> Speeds
Capable(m) == kind[phyOf[m]].speeds \cap partner[phyOf[m]] \cap SpeedsOfMac(m)
CommonSpeed ==
  LET common == {s \in Speeds : \A m \in counted : s \in Capable(m)}
  IN IF counted = {} \/ common = {} THEN NoCommon ELSE Max(common)

GetCap ==
  /\ pc = "cap"
  /\ IF call.mac > Channels
     THEN Finish(CommonSpeed, FALSE) /\ counted' = {}
          /\ UNCHANGED <<stack, addr>>
     ELSE IF HasPhy(call.mac) /\ kind[Phy].an
     THEN \* the frame of get_cap, and on it that of restart_an
          /\ stack' = <<[to |-> "cap_read", saved |-> Phy, n |-> 0],
                        [to |-> "cap", saved |-> addr, n |-> 0]>> \o stack
          /\ addr' = Phy /\ pc' = "restart" /\ UNCHANGED <<call, counted>>
     ELSE NextMac("cap") /\ UNCHANGED <<stack, addr, counted>>
  /\ UNCHANGED <<hardware, reg, mac, gb>>

CountedAlways == counted \cup {call.mac}
Counted == IF reg[addr].done THEN counted \cup {call.mac} ELSE counted

GetCapRead ==
  /\ pc = "cap_read"
  /\ gb' = [gb EXCEPT ![call.mac] = 2 \in kind[addr].speeds]
  /\ counted' = Counted
  /\ call' = [call EXCEPT !.mac = @ + 1]
  /\ Leave
  /\ UNCHANGED <<hardware, reg, mac>>

-----------------------------------------------------------------------------
(* alt_tse_phy_set_common_speed.  Its own frame keeps the saved address.   *)
SetCommon ==
  /\ pc = "idle"
  /\ \E s \in Speeds \cup {NoCommon} :
       /\ call' = Begun("set_common", s, 1)
       /\ IF s = NoCommon
          THEN UNCHANGED <<pc, stack>>
          ELSE /\ pc' = "set"
               /\ stack' = <<[to |-> "idle", saved |-> addr, n |-> 0]>>
  /\ UNCHANGED <<hardware, reg, addr, mac, gb, counted>>

(* What the profile's location of the speed gives: the speed bits; bits of *)
(* the control register, which are 0, when the profile names no location;  *)
(* anything when there is no profile (the null pointer is followed).       *)
ReadSpeeds(a, wide) ==
  CASE kind[a].profile = "registers" ->
         {IF wide THEN reg[a].speed ELSE reg[a].speed % 2}
    [] kind[a].profile = "none" -> Speeds
    [] OTHER -> {0}
ReadHalf(a) == CASE kind[a].profile = "registers" -> {FALSE}
                 [] kind[a].profile = "none" -> BOOLEAN
                 [] OTHER -> {TRUE}

Upto(s) == 0 .. s
AgreesAlways(s) == TRUE
Agrees(s) == s = call.arg

(* Refusing gigabit leaves at once, with the address put back.             *)
SetPhy ==
  /\ pc = "set" /\ call.mac <= Channels /\ HasPhy(call.mac)
  /\ IF ~gb[call.mac] /\ call.arg = 2
     THEN Leave /\ Result(NoCommon, FALSE) /\ UNCHANGED <<reg, mac>>
     ELSE IF ~kind[Phy].an
     THEN \* the speed is forced
          /\ reg' = [reg EXCEPT ![Phy].speed =
               IF gb[call.mac] THEN call.arg ELSE call.arg % 2]
          /\ addr' = Phy /\ NextMac("set") /\ UNCHANGED <<stack, mac>>
     ELSE /\ reg' = Advertise(reg, Phy, Upto(call.arg))
          /\ IF reg[Phy].done
             THEN \E s \in ReadSpeeds(Phy, gb[call.mac]) :
                    IF Agrees(s)
                    THEN addr' = Phy /\ pc' = "set_read" /\ UNCHANGED stack
                    ELSE /\ stack' = <<[to |-> "set_read", saved |-> Phy,
                                        n |-> 0]>> \o stack
                         /\ addr' = Phy /\ pc' = "restart"
             ELSE addr' = Phy /\ pc' = "set" /\ UNCHANGED stack
          /\ call' = IF reg[Phy].done THEN call
                     ELSE [call EXCEPT !.mac = @ + 1]
          /\ UNCHANGED mac
  /\ UNCHANGED <<hardware, gb, counted>>

SetNoPhy ==
  /\ pc = "set" /\ call.mac <= Channels /\ ~HasPhy(call.mac)
  /\ NextMac("set")
  /\ UNCHANGED <<hardware, reg, addr, mac, gb, stack, counted>>

(* alt_tse_mac_set_duplex                                                  *)
SetDuplex ==
  /\ pc = "set_read"
  /\ \E half \in ReadHalf(addr) : mac' = [mac EXCEPT ![call.mac].half = half]
  /\ NextMac("set")
  /\ UNCHANGED <<hardware, reg, addr, gb, stack, counted>>

(* alt_tse_mac_set_speed, of the first MAC only.                           *)
SetSpeed ==
  /\ pc = "set" /\ call.mac > Channels
  /\ mac' = [mac EXCEPT ![1].speed = call.arg]
  /\ Leave /\ Result(call.arg, FALSE)
  /\ UNCHANGED <<hardware, reg, gb, counted>>

-----------------------------------------------------------------------------
(* getPHYSpeed, of MAC m; m = 0 is one that the driver does not know, or   *)
(* whose group has no MDIO.  The result is the speed bits (3 for none) and *)
(* whether an error bit is set.  The loopback bit is always clear here.    *)

GetPhySpeed ==
  /\ pc = "idle"
  /\ \E m \in 0 .. Channels :
       LET begun == Begun("getPHYSpeed", m, m)
       IN IF m = 0 \/ (m \in Macs /\ ~HasPhy(m))
          THEN call' = [begun EXCEPT !.speed = Default, !.error = TRUE]
               /\ UNCHANGED pc
          ELSE call' = begun /\ pc' = "speed"
  /\ UNCHANGED <<hardware, reg, addr, mac, gb, stack, counted>>

(* A small MAC first limits what its PHY advertises; then the link check.  *)
Limit ==
  /\ pc = "speed"
  /\ IF macType[call.mac] # "full"
     THEN /\ reg' = [reg EXCEPT ![Phy].adv =
               IF macType[call.mac] = "10_100" THEN @ \ {2} ELSE @ \ {0, 1}]
          /\ Enter("restart", "check")
     ELSE UNCHANGED <<reg, stack, addr>> /\ pc' = "check"
  /\ UNCHANGED <<hardware, mac, gb, call, counted>>

(* alt_tse_phy_check_link                                                  *)
CheckLink ==
  /\ pc = "check"
  /\ Enter("checked", "read")
  /\ Negotiated("complete")
  /\ UNCHANGED <<hardware, reg, mac, gb, counted>>

GiveUpNot == FALSE
GiveUp == call.an = "not_complete"

(* Once the time is over every turn of the loop restarts the negotiation.  *)
CheckLoop ==
  /\ pc = "checked"
  /\ IF GiveUp \/ reg[addr].done
     THEN Leave /\ UNCHANGED call
     ELSE IF TimedOut(LinkThreshold)
     THEN /\ stack' = <<[to |-> "checked", saved |-> addr, n |-> 0]>> \o stack
          /\ pc' = "restart" /\ UNCHANGED <<addr, call>>
     ELSE Wait /\ UNCHANGED <<addr, pc, call>>
  /\ UNCHANGED <<hardware, reg, mac, gb, counted>>

AddressedNot == addr
Addressed == Phy

(* link_status_read and the speed bits: a speed, or 3, which no speed has. *)
Status(a) == IF reg[a].done THEN {reg[a].speed} ELSE {reg[a].speed, Bad}
ReadResult(a) ==
  CASE kind[a].profile \in {"none", "undefined"} -> {<<Default, TRUE>>}
    [] kind[a].profile = "registers" -> {<<s, s = Bad>> : s \in Status(a)}
    [] OTHER -> {<<s, FALSE>> : s \in Status(a)}

ReadLink ==
  /\ pc = "read"
  /\ IF GiveUp
     THEN Finish(Default, TRUE) /\ UNCHANGED addr
     ELSE /\ addr' = Addressed
          /\ \E r \in ReadResult(addr') : Finish(r[1], r[2])
  /\ UNCHANGED <<hardware, reg, mac, gb, stack, counted>>

-----------------------------------------------------------------------------
Init ==
  /\ \E s \in Setups : /\ phyOf = s.phyOf /\ macType = s.macType
                        /\ kind = s.kind /\ partner = s.partner
  /\ reg = [a \in Addresses |-> [adv |-> kind[a].speeds, done |-> FALSE,
              offer |-> kind[a].speeds, speed |-> 0]]
  /\ addr = NoPhy + 1
  /\ mac = [m \in Macs |-> [speed |-> Default, half |-> FALSE]]
  /\ gb \in [Macs -> BOOLEAN]        \* from malloc
  /\ pc = "idle" /\ stack = <<>>
  /\ call = Begun("none", 0, 1)
  /\ counted = {} /\ drops = 0

Call == GetCommon \/ SetCommon \/ GetPhySpeed
Driver == Restart \/ Poll \/ GetCap \/ GetCapRead \/ SetPhy \/ SetNoPhy
          \/ SetDuplex \/ SetSpeed \/ Limit \/ CheckLink \/ CheckLoop
          \/ ReadLink
Next == Call \/ Driver \/ \E a \in Addresses : Negotiate(a) \/ Drop(a)

Spec == Init /\ [][Next]_vars /\ WF_vars(Driver)

-----------------------------------------------------------------------------
(* Registers, frames and calls have their types.                           *)
TypeOK ==
  /\ \A a \in Addresses : /\ reg[a].adv \subseteq kind[a].speeds
                          /\ reg[a].offer \subseteq kind[a].speeds
                          /\ reg[a].speed \in Speeds /\ reg[a].done \in BOOLEAN
  /\ addr \in Addresses \cup {0} /\ gb \in [Macs -> BOOLEAN]
  /\ mac \in [Macs -> [speed : Speeds, half : BOOLEAN]]
  /\ pc \in Pc /\ Len(stack) <= 2
  /\ \A i \in DOMAIN stack : /\ stack[i].to \in Pc
                             /\ stack[i].saved \in Addresses \cup {0}
                             /\ stack[i].n \in 0 .. Max({AnThreshold,
                                                         LinkThreshold}) + 1
  /\ call.fn \in Fn /\ counted \subseteq Macs /\ drops \in 0 .. Drops

(* The routines for the common speed leave MDIO_ADDR1 as they found it, on *)
(* every path ("to be restored at the end of function").                   *)
AddressRestored ==
  [][pc # "idle" /\ pc' = "idle" /\ call.fn \in {"get_common", "set_common"}
       => addr' = call.entry]_vars

(* The common speed is one that every PHY counted, its partner and its MAC *)
(* can do, and a PHY counted had completed its negotiation in this call.   *)
CommonIsShared ==
  [][/\ \A m \in counted' \ counted : reg[phyOf[m]].done
     /\ call.fn = "get_common" /\ pc # "idle" /\ pc' = "idle" =>
          IF counted = {} THEN call'.speed = NoCommon
          ELSE call'.speed = NoCommon \/ \A m \in counted : call'.speed \in Capable(m)
    ]_vars

(* When alt_tse_phy_set_common_speed turns to the next PHY, the one it     *)
(* leaves is not linked at another speed, if it and its partner can do the *)
(* speed asked for and its capability has been read.                       *)
Able(m) == kind[phyOf[m]].profile = "registers"
           /\ call.arg \in kind[phyOf[m]].speeds \cap partner[phyOf[m]]
           /\ gb[m] = (2 \in kind[phyOf[m]].speeds)
LeftAtSpeed ==
  [][pc = "set_read" /\ pc' = "set" /\ reg[Phy].done /\ Able(call.mac)
       => reg[Phy].speed = call.arg]_vars

(* What getPHYSpeed reports without an error is the speed of the PHY of    *)
(* the MAC it was asked about, whatever address was in use before.         *)
ReportsOwnLink ==
  [][pc = "read" /\ pc' = "idle" /\ call'.speed # Bad /\ ~call'.error
       => call'.speed = reg[Phy].speed]_vars

(* Every call returns, whatever the links do, if every PHY can negotiate   *)
(* and getPHYSpeed's link check can therefore give up.                     *)
CallsReturn ==
  pc # "idle" /\ (\A a \in Addresses : kind[a].an) ~> pc = "idle"
=============================================================================
