--------------------------- MODULE PhyLinkProofs ---------------------------
(***************************************************************************)
(* Proofs about the link management of PhyLink, for any MACs, PHYs and     *)
(* link partners and any time-outs.                                        *)
(*                                                                         *)
(* The properties are about single steps; what they need of the states is  *)
(* PhyInv: at every place of the driver, which routines called which, the  *)
(* address each has saved, that the bus is at the PHY of the MAC whenever  *)
(* a register is read, and what the common speed has done to the PHY that  *)
(* is being set.                                                           *)
(***************************************************************************)
EXTENDS PhyLink, TLAPS

BusAddress == Addresses \cup {0}
Registers == [adv : SUBSET Speeds, done : BOOLEAN, offer : SUBSET Speeds,
              speed : Speeds]
Frames == [to : Pc, saved : BusAddress, n : Nat]
Calls == [fn : Fn, arg : Int, mac : Nat, entry : BusAddress,
          an : {"complete", "not_complete", "not_capable"}, speed : Int,
          error : BOOLEAN]

(* MACs, PHYs and link partners.                                           *)
HardwareOK ==
  /\ phyOf \in [Macs -> Addresses \cup {NoPhy}]
  /\ kind \in [Addresses -> Kind] /\ partner \in [Addresses -> SUBSET Speeds]

(* A PHY offers what it advertises and advertises what it can; one that    *)
(* negotiates is linked at a speed of its own.                             *)
RegistersOK ==
  /\ reg \in [Addresses -> Registers]
  /\ \A a \in Addresses :
       /\ reg[a].adv \subseteq kind[a].speeds /\ reg[a].offer \subseteq kind[a].speeds
       /\ kind[a].an => reg[a].speed \in kind[a].speeds \cup {0}

CallsOK ==
  /\ stack \in Seq(Frames) /\ addr \in BusAddress
  /\ gb \in [Macs -> BOOLEAN] /\ counted \subseteq Macs
  /\ call \in Calls

-----------------------------------------------------------------------------
(* Which routine is running, called by which.                              *)

Calling == {"restart", "poll"}
Frame(i, to, saved) == stack[i].to = to /\ stack[i].saved = saved

(* The bus is at the PHY of the MAC that the call has come to.             *)
On == call.mac \in Macs /\ HasPhy(call.mac) /\ addr = Phy

InGetCommon ==
  /\ call.mac \in Nat \ {0}
  /\ \/ pc = "cap" /\ stack = <<>> /\ addr = call.entry
     \/ pc = "cap_read" /\ On /\ Len(stack) = 1 /\ Frame(1, "cap", call.entry)
     \/ /\ pc \in Calling /\ On /\ Len(stack) = 2
        /\ Frame(1, "cap_read", Phy) /\ Frame(2, "cap", call.entry)

(* The PHY offers the speed asked for and those below, and is linked, if   *)
(* it is and they can, at that speed.                                      *)
Offering ==
  /\ reg[Phy].adv = Upto(call.arg) \cap kind[Phy].speeds
  /\ ~reg[Phy].done => reg[Phy].offer = reg[Phy].adv
  /\ reg[Phy].done /\ Able(call.mac) => reg[Phy].speed = call.arg

InSetCommon ==
  /\ call.mac \in Nat \ {0} /\ call.arg \in Speeds
  /\ \/ pc = "set" /\ Len(stack) = 1 /\ Frame(1, "idle", call.entry)
     \/ /\ pc = "set_read" /\ On /\ kind[Phy].an /\ Offering
        /\ Len(stack) = 1 /\ Frame(1, "idle", call.entry)
     \/ /\ pc \in Calling /\ On /\ kind[Phy].an /\ Len(stack) = 2
        /\ Frame(1, "set_read", Phy) /\ Frame(2, "idle", call.entry)
        /\ reg[Phy].adv = Upto(call.arg) \cap kind[Phy].speeds
        /\ pc = "poll" => Offering

InGetPhySpeed ==
  /\ call.mac \in Macs /\ HasPhy(call.mac)
  /\ \/ pc \in {"speed", "check", "read"} /\ stack = <<>>
     \/ pc = "checked" /\ addr = Phy /\ Len(stack) = 1 /\ stack[1].to = "read"
     \/ /\ pc \in Calling /\ addr = Phy
        /\ \/ Len(stack) = 1 /\ stack[1].to = "check"
           \/ /\ Len(stack) = 2 /\ Frame(1, "checked", Phy)
              /\ stack[2].to = "read"

PlaceOK ==
  \/ pc = "idle" /\ stack = <<>>
  \/ call.fn = "get_common" /\ InGetCommon
  \/ call.fn = "set_common" /\ InSetCommon
  \/ call.fn = "getPHYSpeed" /\ InGetPhySpeed

PhyInv == HardwareOK /\ RegistersOK /\ CallsOK /\ PlaceOK

-----------------------------------------------------------------------------
(* Operators.                                                              *)

(* A set of speeds has a greatest.                                         *)
LEMMA Greatest ==
  ASSUME NEW S \in SUBSET Speeds, S # {}
  PROVE  Max(S) \in S /\ \A s \in S : Max(S) >= s
<1>1. \E x \in S : \A y \in S : x >= y
  <2>1. CASE 2 \in S
    BY <2>1 DEF Speeds
  <2>2. CASE 2 \notin S /\ 1 \in S
    BY <2>2 DEF Speeds
  <2>3. CASE 2 \notin S /\ 1 \notin S
    <3>1. PICK x \in S : TRUE
      OBVIOUS
    <3>2. \A y \in S : y = 0
      BY <2>3 DEF Speeds
    <3> QED  BY <3>1, <3>2
  <2> QED  BY <2>1, <2>2, <2>3
<1> QED  BY <1>1 DEF Max

LEMMA NotEmpty ==
  ASSUME NEW s \in Seq(Frames), Len(s) \in {1, 2}
  PROVE  s # <<>>
<1>1. Len(<<>>) = 0
  OBVIOUS
<1>2. SUFFICES ASSUME s = <<>> PROVE FALSE
  OBVIOUS
<1> QED  BY <1>1, <1>2

(* A routine is entered.                                                   *)
LEMMA Pushed ==
  ASSUME NEW s \in Seq(Frames), NEW f \in Frames
  PROVE  LET t == <<f>> \o s
         IN t \in Seq(Frames) /\ Len(t) = Len(s) + 1 /\ t[1] = f
            /\ \A i \in 1 .. Len(s) : t[i + 1] = s[i]
OBVIOUS

(* A routine returns.                                                      *)
LEMMA Left ==
  ASSUME stack \in Seq(Frames), stack # <<>>, Leave
  PROVE  /\ stack' \in Seq(Frames) /\ Len(stack') = Len(stack) - 1
         /\ \A i \in 1 .. Len(stack') : stack'[i] = stack[i + 1]
         /\ pc' = stack[1].to /\ addr' = stack[1].saved /\ addr' \in BusAddress
<1>1. stack[1] \in Frames /\ Head(stack) = stack[1]
  OBVIOUS
<1> QED  BY <1>1 DEF Leave, Restore, Frames

LEMMA Waited ==
  ASSUME stack \in Seq(Frames), stack # <<>>, Wait
  PROVE  /\ stack' \in Seq(Frames) /\ Len(stack') = Len(stack)
         /\ \A i \in 1 .. Len(stack) : /\ stack'[i].to = stack[i].to
                                      /\ stack'[i].saved = stack[i].saved
<1>1. stack' = [stack EXCEPT ![1] = [stack[1] EXCEPT !.n = @ + 1]]
  BY DEF Wait
<1>2. stack[1] \in Frames
  OBVIOUS
<1>3. /\ [stack[1] EXCEPT !.n = @ + 1] \in Frames
      /\ [stack[1] EXCEPT !.n = @ + 1].to = stack[1].to
      /\ [stack[1] EXCEPT !.n = @ + 1].saved = stack[1].saved
  BY <1>2 DEF Frames
<1> QED  BY <1>1, <1>3

(* What the steps of a call change of it.                                  *)
SameCall == call' \in Calls /\ call'.fn = call.fn /\ call'.arg = call.arg
            /\ call'.mac = call.mac /\ call'.entry = call.entry

LEMMA NegotiatedIs ==
  ASSUME call \in Calls, NEW r \in {"complete", "not_complete", "not_capable"}, Negotiated(r)
  PROVE  SameCall /\ call'.an = r
BY DEF Negotiated, Calls, SameCall

LEMMA ResultIs ==
  ASSUME call \in Calls, NEW s \in Int, NEW e \in BOOLEAN, Result(s, e)
  PROVE  SameCall /\ call'.speed = s /\ (call'.error <=> e)
BY DEF Result, Calls, SameCall

LEMMA Failing ==
  ASSUME call \in Calls, Result(Default, TRUE)
  PROVE  call'.error
BY DEF Result, Calls

LEMMA NextMacIs ==
  ASSUME call \in Calls, call' = [call EXCEPT !.mac = @ + 1]
  PROVE  /\ call' \in Calls /\ call'.fn = call.fn /\ call'.arg = call.arg
         /\ call'.mac = call.mac + 1 /\ call'.entry = call.entry
BY DEF Calls

LEMMA BegunIs ==
  ASSUME addr \in BusAddress, NEW fn \in Fn, NEW arg \in Int, NEW m \in Nat
  PROVE  /\ Begun(fn, arg, m) \in Calls /\ Begun(fn, arg, m).fn = fn
         /\ Begun(fn, arg, m).arg = arg /\ Begun(fn, arg, m).mac = m
         /\ Begun(fn, arg, m).entry = addr
BY DEF Begun, Calls, NoCommon

(* What the steps of PHYs and routines change of the registers.            *)
Linked(r, a, s) == [r EXCEPT ![a].done = TRUE, ![a].speed = s]
Relinking(r, a) == [r EXCEPT ![a].done = FALSE, ![a].offer = r[a].adv]
Advertising(r, a, set) == [r EXCEPT ![a].adv = set]
Forced(r, a, s) == [r EXCEPT ![a].speed = s]

LEMMA LinkedIs ==
  ASSUME NEW r \in [Addresses -> Registers], NEW a \in Addresses, NEW s \in Speeds
  PROVE  /\ Linked(r, a, s) \in [Addresses -> Registers]
         /\ \A b \in Addresses \ {a} : Linked(r, a, s)[b] = r[b]
         /\ Linked(r, a, s)[a].adv = r[a].adv /\ Linked(r, a, s)[a].offer = r[a].offer
         /\ Linked(r, a, s)[a].done /\ Linked(r, a, s)[a].speed = s
<1>1. r[a].adv \in SUBSET Speeds
  BY Zenon DEF Registers
<1> QED  BY <1>1, Zenon DEF Registers, Linked

LEMMA RelinkingIs ==
  ASSUME NEW r \in [Addresses -> Registers], NEW a \in Addresses
  PROVE  /\ Relinking(r, a) \in [Addresses -> Registers]
         /\ \A b \in Addresses \ {a} : Relinking(r, a)[b] = r[b]
         /\ Relinking(r, a)[a].adv = r[a].adv /\ Relinking(r, a)[a].offer = r[a].adv
         /\ ~Relinking(r, a)[a].done /\ Relinking(r, a)[a].speed = r[a].speed
<1>1. r[a].adv \in SUBSET Speeds
  BY Zenon DEF Registers
<1> QED  BY <1>1, Zenon DEF Registers, Relinking

LEMMA AdvertisingIs ==
  ASSUME NEW r \in [Addresses -> Registers], NEW a \in Addresses, NEW set \in SUBSET Speeds
  PROVE  /\ Advertising(r, a, set) \in [Addresses -> Registers]
         /\ \A b \in Addresses \ {a} : Advertising(r, a, set)[b] = r[b]
         /\ Advertising(r, a, set)[a].adv = set /\ Advertising(r, a, set)[a].offer = r[a].offer
         /\ (Advertising(r, a, set)[a].done <=> r[a].done) /\ Advertising(r, a, set)[a].speed = r[a].speed
<1>1. r[a].adv \in SUBSET Speeds
  BY Zenon DEF Registers
<1> QED  BY <1>1, Zenon DEF Registers, Advertising

LEMMA ForcedIs ==
  ASSUME NEW r \in [Addresses -> Registers], NEW a \in Addresses, NEW s \in Speeds
  PROVE  /\ Forced(r, a, s) \in [Addresses -> Registers]
         /\ \A b \in Addresses \ {a} : Forced(r, a, s)[b] = r[b]
         /\ Forced(r, a, s)[a].adv = r[a].adv /\ Forced(r, a, s)[a].offer = r[a].offer
         /\ (Forced(r, a, s)[a].done <=> r[a].done) /\ Forced(r, a, s)[a].speed = s
<1>1. r[a].adv \in SUBSET Speeds
  BY Zenon DEF Registers
<1> QED  BY <1>1, Zenon DEF Registers, Forced

-----------------------------------------------------------------------------
(* The PHYs.                                                               *)

(* The place of the driver does not change, and the PHY it is setting      *)
(* stays as it is or offers what it did.                                   *)
LEMMA StillThere ==
  ASSUME PhyInv, UNCHANGED <<phyOf, kind, partner, addr, gb, pc, stack, call, counted>>,
         RegistersOK', InSetCommon => InSetCommon'
  PROVE  PhyInv'
<1>1. HardwareOK' /\ CallsOK'
  BY DEF PhyInv, HardwareOK, CallsOK
<1>2. PlaceOK'
  BY DEF PhyInv, PlaceOK, InGetCommon, InGetPhySpeed, On, HasPhy, Frame, Phy
<1> QED  BY <1>1, <1>2 DEF PhyInv

LEMMA NegotiateKeeps ==
  ASSUME NEW a \in Addresses, PhyInv, Negotiate(a)
  PROVE  PhyInv'
<1>1. /\ Common(a) \in SUBSET Speeds /\ Common(a) # {}
      /\ Common(a) \subseteq kind[a].speeds
  BY DEF PhyInv, RegistersOK, HardwareOK, Negotiate, Common, Registers
<1>2. Max(Common(a)) \in Common(a) /\ \A s \in Common(a) : Max(Common(a)) >= s
  BY <1>1, Greatest
<1>3. /\ reg' \in [Addresses -> Registers]
      /\ \A b \in Addresses \ {a} : reg'[b] = reg[b]
      /\ reg'[a].adv = reg[a].adv /\ reg'[a].offer = reg[a].offer
      /\ reg'[a].done /\ reg'[a].speed = Max(Common(a))
  <2>1. reg' = Linked(reg, a, Max(Common(a)))
    BY DEF Negotiate, Linked
  <2>2. Max(Common(a)) \in Speeds /\ Common(a) \in SUBSET Speeds
    BY <1>1, <1>2
  <2>3. reg \in [Addresses -> Registers]
    BY DEF PhyInv, RegistersOK
  <2> QED  BY <2>1, <2>2, <2>3, LinkedIs
<1>4. UNCHANGED <<phyOf, kind, partner, addr, gb, pc, stack, call, counted>>
  BY DEF Negotiate, hardware
<1>5. RegistersOK'
  BY <1>1, <1>2, <1>3, <1>4 DEF PhyInv, RegistersOK
<1>6. ASSUME InSetCommon
      PROVE  InSetCommon'
  <2>1. CASE On /\ Phy = a /\ Offering
    <3>1. Max(Common(a)) \in Upto(call.arg) /\ (Able(call.mac) => call.arg \in Common(a))
      BY <1>2, <2>1, <1>6 DEF Offering, Negotiate, Common, Able, Phy, InSetCommon, Upto, Speeds
    <3>2. Offering'
      BY <1>2, <1>3, <1>4, <2>1, <3>1, <1>6 DEF Offering, Able, Phy, Upto, InSetCommon, Speeds
    <3> QED  BY <1>3, <1>4, <1>6, <2>1, <3>2 DEF InSetCommon, On, HasPhy, Frame, Phy, Calling
  <2>2. CASE On /\ Phy # a
    <3>1. Phy \in Addresses /\ reg'[Phy] = reg[Phy]
      BY <1>3, <2>2 DEF On, HasPhy, Phy, PhyInv, HardwareOK
    <3>2. Offering => Offering'
      BY <1>4, <3>1 DEF Offering, Able, Phy
    <3> QED  BY <1>4, <1>6, <3>1, <3>2 DEF InSetCommon, On, HasPhy, Frame, Phy
  <2>3. CASE ~On \/ (Phy = a /\ ~Offering)
    BY <1>3, <1>4, <1>6, <2>3 DEF InSetCommon, On, HasPhy, Frame, Phy, Calling
  <2> QED  BY <2>1, <2>2, <2>3
<1> QED  BY <1>4, <1>5, <1>6, StillThere

LEMMA DropKeeps ==
  ASSUME NEW a \in Addresses, PhyInv, Drop(a)
  PROVE  PhyInv'
<1>1. /\ reg' \in [Addresses -> Registers]
      /\ \A b \in Addresses \ {a} : reg'[b] = reg[b]
      /\ reg'[a].adv = reg[a].adv /\ reg'[a].offer = reg[a].adv
      /\ ~reg'[a].done /\ reg'[a].speed = reg[a].speed
  <2>1. reg[a].adv \in SUBSET Speeds /\ reg[a].speed \in Speeds
    BY DEF PhyInv, RegistersOK, Registers
  <2>2. reg' = Relinking(reg, a)
    BY DEF Drop, Relinking
  <2>3. reg \in [Addresses -> Registers]
    BY DEF PhyInv, RegistersOK
  <2> QED  BY <2>1, <2>2, <2>3, RelinkingIs
<1>2. UNCHANGED <<phyOf, kind, partner, addr, gb, pc, stack, call, counted>>
  BY DEF Drop
<1>3. RegistersOK'
  BY <1>1, <1>2 DEF PhyInv, RegistersOK
<1>4. ASSUME InSetCommon
      PROVE  InSetCommon'
  <2>1. CASE Phy = a
    <3>1. Offering => Offering'
      BY <1>1, <1>2, <2>1 DEF Offering, Able, Phy
    <3> QED  BY <1>1, <1>2, <1>4, <2>1, <3>1 DEF InSetCommon, On, HasPhy, Frame, Phy
  <2>2. CASE Phy # a
    <3>1. On => reg'[Phy] = reg[Phy]
      BY <1>1, <2>2 DEF On, HasPhy, Phy, PhyInv, HardwareOK
    <3>2. On /\ Offering => Offering'
      BY <1>2, <3>1 DEF Offering, Able, Phy
    <3> QED  BY <1>2, <1>4, <3>1, <3>2 DEF InSetCommon, On, HasPhy, Frame, Phy
  <2> QED  BY <2>1, <2>2
<1> QED  BY <1>2, <1>3, <1>4, StillThere

-----------------------------------------------------------------------------
(* Restarting a negotiation and waiting for it.                            *)

LEMMA SameHardware ==
  ASSUME PhyInv, UNCHANGED <<hardware, reg>>
  PROVE  HardwareOK' /\ RegistersOK'
BY DEF PhyInv, HardwareOK, RegistersOK, hardware

LEMMA InNegotiation ==
  ASSUME PhyInv, pc \in Calling
  PROVE  /\ stack # <<>> /\ addr = Phy /\ addr \in Addresses /\ HasPhy(call.mac)
         /\ call.mac \in Macs
BY DEF PhyInv, PlaceOK, InGetCommon, InSetCommon, InGetPhySpeed, On, Phy, HasPhy,
   HardwareOK, Calling, CallsOK

(* alt_tse_phy_restart_an returns to the routine that called it.           *)
LEMMA Returned ==
  ASSUME PhyInv, pc \in Calling, Leave, UNCHANGED <<hardware, reg, gb, counted>>, SameCall,
         call.fn = "set_common" => pc = "poll"
  PROVE  PhyInv'
<1>1. /\ stack \in Seq(Frames) /\ stack # <<>>
  BY InNegotiation DEF PhyInv, CallsOK
<1>2. /\ stack' \in Seq(Frames) /\ Len(stack') = Len(stack) - 1
      /\ \A i \in 1 .. Len(stack') : stack'[i] = stack[i + 1]
      /\ pc' = stack[1].to /\ addr' = stack[1].saved /\ addr' \in BusAddress
  BY <1>1, Left
<1>3. HardwareOK' /\ RegistersOK'
  BY SameHardware
<1>4. CallsOK'
  BY <1>2 DEF PhyInv, CallsOK, SameCall
<1>5. UNCHANGED <<phyOf, kind, partner>>
  BY DEF hardware
<1>6. CASE call.fn = "get_common" /\ InGetCommon
  <2>1. /\ Len(stack) = 2 /\ On /\ Frame(1, "cap_read", Phy) /\ Frame(2, "cap", call.entry)
    BY <1>6 DEF InGetCommon, Calling
  <2>2. stack'[1] = stack[2] /\ pc' = "cap_read" /\ addr' = Phy /\ Len(stack') = 1
    BY <1>2, <2>1 DEF Frame
  <2> QED  BY <1>3, <1>4, <1>5, <1>6, <2>1, <2>2
           DEF PhyInv, PlaceOK, InGetCommon, Frame, On, HasPhy, Phy, SameCall
<1>7. CASE call.fn = "set_common" /\ InSetCommon
  <2>1. /\ Len(stack) = 2 /\ On /\ Frame(1, "set_read", Phy) /\ Frame(2, "idle", call.entry)
        /\ Offering /\ kind[Phy].an
    BY <1>7 DEF InSetCommon, Calling
  <2>2. stack'[1] = stack[2] /\ pc' = "set_read" /\ addr' = Phy /\ Len(stack') = 1
    BY <1>2, <2>1 DEF Frame
  <2>3. Offering'
    BY <1>5, <2>1 DEF Offering, Able, Phy, SameCall
  <2> QED  BY <1>3, <1>4, <1>5, <1>7, <2>1, <2>2, <2>3
           DEF PhyInv, PlaceOK, InSetCommon, Frame, On, HasPhy, Phy, SameCall
<1>8. CASE call.fn = "getPHYSpeed" /\ InGetPhySpeed
  <2>1. CASE Len(stack) = 1 /\ stack[1].to = "check"
    <3>1. stack' = <<>> /\ pc' = "check"
      BY <1>2, <2>1
    <3> QED  BY <1>3, <1>4, <1>5, <1>8, <3>1
             DEF PhyInv, PlaceOK, InGetPhySpeed, HasPhy, SameCall
  <2>2. CASE Len(stack) = 2 /\ Frame(1, "checked", Phy) /\ stack[2].to = "read"
    <3>1. stack'[1] = stack[2] /\ pc' = "checked" /\ addr' = Phy /\ Len(stack') = 1
      BY <1>2, <2>2 DEF Frame
    <3> QED  BY <1>3, <1>4, <1>5, <1>8, <2>2, <3>1
             DEF PhyInv, PlaceOK, InGetPhySpeed, HasPhy, Phy, SameCall
  <2> QED  BY <1>8, <2>1, <2>2 DEF InGetPhySpeed, Calling
<1> QED  BY <1>6, <1>7, <1>8 DEF PhyInv, PlaceOK, Calling

LEMMA RestartKeeps ==
  ASSUME PhyInv, Restart
  PROVE  PhyInv'
<1>1. pc \in Calling /\ pc = "restart"
  BY DEF Restart, Calling
<1>2. stack # <<>> /\ addr = Phy /\ addr \in Addresses
  BY <1>1, InNegotiation
<1>3. CASE kind[addr].an
  <2>1. /\ reg' = Relinking(reg, addr) /\ pc' = "poll"
        /\ UNCHANGED <<phyOf, kind, partner, gb, counted, stack, addr, call>>
    BY <1>3 DEF Restart, Restarted, Relinking, hardware
  <2>2. reg \in [Addresses -> Registers]
    BY DEF PhyInv, RegistersOK
  <2>3. /\ reg' \in [Addresses -> Registers]
        /\ \A b \in Addresses \ {addr} : reg'[b] = reg[b]
        /\ reg'[addr].adv = reg[addr].adv /\ reg'[addr].offer = reg[addr].adv
        /\ ~reg'[addr].done /\ reg'[addr].speed = reg[addr].speed
    BY <1>2, <2>1, <2>2, RelinkingIs
  <2>4. HardwareOK' /\ RegistersOK' /\ CallsOK'
    BY <1>2, <2>1, <2>3 DEF PhyInv, HardwareOK, RegistersOK, CallsOK
  <2>5. InSetCommon => InSetCommon'
    BY <1>1, <1>2, <2>1, <2>3
    DEF InSetCommon, Offering, On, HasPhy, Frame, Phy, Calling
  <2>6. (InGetCommon => InGetCommon') /\ (InGetPhySpeed => InGetPhySpeed')
    BY <1>1, <2>1 DEF InGetCommon, InGetPhySpeed, On, HasPhy, Frame, Phy, Calling
  <2> QED  BY <1>1, <2>1, <2>4, <2>5, <2>6 DEF PhyInv, PlaceOK
<1>4. CASE ~kind[addr].an
  <2>1. call.fn # "set_common" \/ ~InSetCommon
    BY <1>1, <1>2, <1>4 DEF InSetCommon, Calling
  <2>2. call \in Calls
    BY DEF PhyInv, CallsOK
  <2>3. SameCall
    BY <1>4, <2>2, NegotiatedIs DEF Restart
  <2>4. Leave /\ UNCHANGED <<hardware, reg, gb, counted>>
    BY <1>4 DEF Restart
  <2>5. call.fn # "set_common"
    BY <1>1, <2>1 DEF PhyInv, PlaceOK
  <2> QED  BY <1>1, <2>3, <2>4, <2>5, Returned
<1> QED  BY <1>3, <1>4

(* A turn of a waiting loop leaves everything but the count in place.      *)
LEMMA Waiting ==
  ASSUME PhyInv, stack # <<>>, Wait,
         UNCHANGED <<hardware, reg, gb, counted, addr, pc, call>>
  PROVE  PhyInv'
<1>1. /\ stack' \in Seq(Frames) /\ Len(stack') = Len(stack)
      /\ \A i \in 1 .. Len(stack) : /\ stack'[i].to = stack[i].to
                                   /\ stack'[i].saved = stack[i].saved
  BY Waited DEF PhyInv, CallsOK
<1>2. HardwareOK' /\ RegistersOK' /\ CallsOK' /\ UNCHANGED <<phyOf, kind, partner>>
  BY <1>1, SameHardware DEF PhyInv, CallsOK, hardware
<1>3. stack # <<>> /\ Len(stack) # 0
  BY DEF PhyInv, CallsOK
<1>4. InGetCommon => InGetCommon'
  BY <1>1, <1>2, <1>3 DEF InGetCommon, On, HasPhy, Frame, Phy
<1>5. InGetPhySpeed => InGetPhySpeed'
  BY <1>1, <1>2, <1>3 DEF InGetPhySpeed, On, HasPhy, Frame, Phy
<1>6. Offering => Offering'
  BY <1>2 DEF Offering, Able, Phy
<1>7. InSetCommon => InSetCommon'
  BY <1>1, <1>2, <1>3, <1>6 DEF InSetCommon, On, HasPhy, Frame, Phy
<1> QED  BY <1>2, <1>3, <1>4, <1>5, <1>7 DEF PhyInv, PlaceOK

LEMMA PollKeeps ==
  ASSUME PhyInv, Poll
  PROVE  PhyInv'
<1>1. pc \in Calling /\ pc = "poll" /\ UNCHANGED <<hardware, reg, gb, counted>>
  BY DEF Poll, Calling
<1>2. stack # <<>> /\ call \in Calls
  BY <1>1, InNegotiation DEF PhyInv, CallsOK
<1>3. CASE Leave /\ \E r \in {"complete", "not_complete"} : Negotiated(r)
  <2>1. SameCall
    BY <1>2, <1>3, NegotiatedIs
  <2> QED  BY <1>1, <1>3, <2>1, Returned
<1>4. CASE Wait /\ UNCHANGED <<addr, pc, call>>
  BY <1>1, <1>2, <1>4, Waiting
<1> QED  BY <1>3, <1>4 DEF Poll

-----------------------------------------------------------------------------
(* The common speed.                                                       *)

LEMMA GetCommonKeeps ==
  ASSUME PhyInv, GetCommon
  PROVE  PhyInv'
<1>1. call.fn = "get_common" => ~InGetCommon
  BY DEF GetCommon, InGetCommon, Calling
<1>2. stack = <<>> /\ pc = "idle"
  BY DEF PhyInv, PlaceOK, GetCommon, InGetCommon, InSetCommon, InGetPhySpeed, Calling
<1>3. /\ call' \in Calls /\ call'.fn = "get_common" /\ call'.mac = 1 /\ call'.entry = addr
  <2>1. addr \in BusAddress /\ "get_common" \in Fn /\ 0 \in Int /\ 1 \in Nat
    BY DEF PhyInv, CallsOK, Fn
  <2>2. call' = Begun("get_common", 0, 1)
    BY DEF GetCommon
  <2> QED  BY <2>1, <2>2, BegunIs
<1>4. UNCHANGED <<phyOf, kind, partner, addr, gb, stack>> /\ pc' = "cap" /\ counted' = {}
  BY DEF GetCommon, hardware
<1>5. RegistersOK'
  <2>1. ASSUME NEW a \in Addresses
        PROVE  /\ reg'[a] \in Registers /\ reg'[a].adv \subseteq kind[a].speeds
               /\ reg'[a].offer \subseteq kind[a].speeds
               /\ kind[a].an => reg'[a].speed \in kind[a].speeds \cup {0}
    <3> DEFINE set == Speeds \cap kind[a].speeds
    <3>1. reg'[a] = Advertising(reg, a, set)[a] \/ reg'[a] = reg[a]
      BY <2>1 DEF GetCommon, Advertise, Advertising
    <3>2. set \in SUBSET Speeds /\ reg \in [Addresses -> Registers]
      BY DEF PhyInv, RegistersOK
    <3>3. /\ Advertising(reg, a, set) \in [Addresses -> Registers]
          /\ Advertising(reg, a, set)[a].adv = set
          /\ Advertising(reg, a, set)[a].offer = reg[a].offer
          /\ Advertising(reg, a, set)[a].speed = reg[a].speed
      BY <3>2, AdvertisingIs
    <3> HIDE DEF set
    <3>4. CASE reg'[a] = reg[a]
      BY <3>2, <3>4 DEF PhyInv, RegistersOK
    <3>5. CASE reg'[a] = Advertising(reg, a, set)[a]
      <4>1. set \subseteq kind[a].speeds
        BY DEF set
      <4>2. reg'[a].offer = reg[a].offer /\ reg'[a].speed = reg[a].speed /\ reg'[a].adv = set
        BY <3>3, <3>5, Zenon
      <4>3. reg'[a] \in Registers
        BY <3>3, <3>5, Zenon
      <4> QED  BY <4>1, <4>2, <4>3 DEF PhyInv, RegistersOK
    <3> QED  BY <3>1, <3>4, <3>5
  <2>2. \E f : reg' = [a \in Addresses |-> f[a]]
    <3>1. reg' = [a \in Addresses |-> reg'[a]]
      BY DEF GetCommon
    <3> QED  BY <3>1
  <2> QED  BY <1>4, <2>1, <2>2 DEF RegistersOK
<1>6. HardwareOK' /\ CallsOK'
  BY <1>3, <1>4 DEF PhyInv, HardwareOK, CallsOK
<1>7. InGetCommon'
  BY <1>2, <1>3, <1>4 DEF InGetCommon
<1> QED  BY <1>3, <1>5, <1>6, <1>7 DEF PhyInv, PlaceOK

LEMMA GetCapKeeps ==
  ASSUME PhyInv, GetCap
  PROVE  PhyInv'
<1>1. /\ call.fn = "get_common" /\ InGetCommon /\ stack = <<>> /\ addr = call.entry
      /\ pc = "cap" /\ call.mac \in Nat \ {0}
  BY DEF PhyInv, PlaceOK, GetCap, InGetCommon, InSetCommon, InGetPhySpeed, Calling
<1>2. HardwareOK' /\ RegistersOK' /\ UNCHANGED <<phyOf, kind, partner, gb>>
  BY SameHardware DEF GetCap, hardware
<1>3. call \in Calls /\ counted \subseteq Macs /\ addr \in BusAddress /\ stack \in Seq(Frames)
      /\ gb \in [Macs -> BOOLEAN]
  BY DEF PhyInv, CallsOK
<1>4. CASE call.mac > Channels
  <2>1. /\ pc' = "idle" /\ counted' = {} /\ UNCHANGED <<stack, addr>>
        /\ Result(CommonSpeed, FALSE)
    BY <1>4 DEF GetCap, Finish
  <2>2. CommonSpeed \in Int
    <3> DEFINE common == {s \in Speeds : \A m \in counted : s \in Capable(m)}
    <3>1. common \in SUBSET Speeds
      OBVIOUS
    <3>2. CommonSpeed = IF counted = {} \/ common = {} THEN NoCommon ELSE Max(common)
      BY DEF CommonSpeed
    <3> HIDE DEF common
    <3>3. common # {} => Max(common) \in Speeds
      BY <3>1, Greatest
    <3> QED  BY <3>2, <3>3 DEF NoCommon, Speeds
  <2>3. call' \in Calls
    BY <1>3, <2>1, <2>2, ResultIs DEF SameCall
  <2> QED  BY <1>1, <1>2, <1>3, <2>1, <2>3 DEF PhyInv, CallsOK, PlaceOK
<1>5. CASE ~(call.mac > Channels) /\ HasPhy(call.mac) /\ kind[Phy].an
  <2> DEFINE f == [to |-> "cap_read", saved |-> Phy, n |-> 0]
             g == [to |-> "cap", saved |-> addr, n |-> 0]
  <2>1. /\ stack' = <<f, g>> \o stack /\ addr' = Phy /\ pc' = "restart"
        /\ UNCHANGED <<call, counted>>
    BY <1>5 DEF GetCap
  <2>2. call.mac \in Macs
    BY <1>1, <1>5, PhyLinkAssumption DEF Macs
  <2>3. Phy \in Addresses
    BY <1>5, <2>2 DEF PhyInv, HardwareOK, Phy, HasPhy
  <2>4. f \in Frames /\ g \in Frames /\ f.to = "cap_read" /\ f.saved = Phy
        /\ g.to = "cap" /\ g.saved = addr
    BY <1>3, <2>3 DEF Frames, Pc, BusAddress
  <2> HIDE DEF f, g
  <2>5. stack' = <<f, g>>
    BY <1>1, <2>1
  <2>6. stack' \in Seq(Frames) /\ Len(stack') = 2 /\ stack'[1] = f /\ stack'[2] = g
    BY <2>4, <2>5
  <2>7. CallsOK'
    BY <1>2, <1>3, <2>1, <2>3, <2>6 DEF CallsOK, BusAddress
  <2>8. InGetCommon'
    BY <1>1, <1>2, <1>5, <2>1, <2>2, <2>4, <2>6
    DEF InGetCommon, Frame, On, HasPhy, Phy, Calling
  <2> QED  BY <1>1, <1>2, <2>1, <2>7, <2>8 DEF PhyInv, PlaceOK
<1>6. CASE ~(call.mac > Channels) /\ ~(HasPhy(call.mac) /\ kind[Phy].an)
  <2>1. /\ call' = [call EXCEPT !.mac = @ + 1] /\ pc' = "cap"
        /\ UNCHANGED <<stack, addr, counted>>
    BY <1>6 DEF GetCap, NextMac
  <2>2. /\ call' \in Calls /\ call'.fn = call.fn /\ call'.mac = call.mac + 1
        /\ call'.entry = call.entry
    BY <1>3, <2>1, NextMacIs
  <2> QED  BY <1>1, <1>2, <1>3, <2>1, <2>2 DEF PhyInv, CallsOK, PlaceOK, InGetCommon
<1> QED  BY <1>4, <1>5, <1>6

LEMMA GetCapReadKeeps ==
  ASSUME PhyInv, GetCapRead
  PROVE  PhyInv'
<1>1. /\ call.fn = "get_common" /\ On /\ Len(stack) = 1 /\ Frame(1, "cap", call.entry)
      /\ call.mac \in Nat \ {0}
  BY DEF PhyInv, PlaceOK, GetCapRead, InGetCommon, InSetCommon, InGetPhySpeed, Calling
<1>2. HardwareOK' /\ RegistersOK'
  BY SameHardware DEF GetCapRead
<1>3. call \in Calls /\ counted \subseteq Macs /\ stack \in Seq(Frames) /\ stack # <<>>
      /\ gb \in [Macs -> BOOLEAN]
  <2>1. call \in Calls /\ counted \subseteq Macs /\ stack \in Seq(Frames)
        /\ gb \in [Macs -> BOOLEAN]
    BY DEF PhyInv, CallsOK
  <2>2. stack # <<>>
    <3>1. Len(stack) = 1
      BY <1>1
    <3> QED  BY <2>1, <3>1, NotEmpty
  <2> QED  BY <2>1, <2>2
<1>4. /\ stack' \in Seq(Frames) /\ Len(stack') = 0 /\ pc' = "cap" /\ addr' = call.entry
      /\ addr' \in BusAddress
  BY <1>1, <1>3, Left DEF GetCapRead, Frame
<1>5. /\ call' \in Calls /\ call'.fn = call.fn /\ call'.mac = call.mac + 1
      /\ call'.entry = call.entry
  BY <1>3, NextMacIs DEF GetCapRead
<1>6. counted' \subseteq Macs
  BY <1>1, <1>3 DEF GetCapRead, Counted, On
<1>7. gb' \in [Macs -> BOOLEAN]
  <2> DEFINE wide == 2 \in kind[addr].speeds
  <2>1. gb' = [gb EXCEPT ![call.mac] = wide]
    BY Zenon DEF GetCapRead
  <2>2. wide \in BOOLEAN
    OBVIOUS
  <2> HIDE DEF wide
  <2> QED  BY <1>3, <2>1, <2>2, Zenon
<1>8. stack' = <<>>
  BY <1>4
<1> QED  BY <1>1, <1>2, <1>4, <1>5, <1>6, <1>7, <1>8 DEF PhyInv, CallsOK, PlaceOK, InGetCommon

LEMMA SetCommonKeeps ==
  ASSUME PhyInv, SetCommon
  PROVE  PhyInv'
<1>1. stack = <<>> /\ pc = "idle"
  BY DEF PhyInv, PlaceOK, SetCommon, InGetCommon, InSetCommon, InGetPhySpeed, Calling
<1>2. HardwareOK' /\ RegistersOK' /\ UNCHANGED <<phyOf, kind, partner, addr, gb, counted>>
  BY SameHardware DEF SetCommon, hardware
<1>3. PICK s \in Speeds \cup {NoCommon} :
        /\ call' = Begun("set_common", s, 1)
        /\ IF s = NoCommon
           THEN UNCHANGED <<pc, stack>>
           ELSE /\ pc' = "set"
                /\ stack' = <<[to |-> "idle", saved |-> addr, n |-> 0]>>
  BY DEF SetCommon
<1>4. addr \in BusAddress /\ s \in Int
  BY <1>3 DEF PhyInv, CallsOK, Speeds, NoCommon
<1>5. /\ call' \in Calls /\ call'.fn = "set_common" /\ call'.mac = 1 /\ call'.entry = addr
      /\ call'.arg = s
  BY <1>3, <1>4, BegunIs DEF Fn
<1>6. CASE s = NoCommon
  BY <1>1, <1>2, <1>3, <1>5, <1>6 DEF PhyInv, CallsOK, PlaceOK
<1>7. CASE s # NoCommon
  <2> DEFINE f == [to |-> "idle", saved |-> addr, n |-> 0]
  <2>1. f \in Frames /\ f.to = "idle" /\ f.saved = addr
    BY <1>4 DEF Frames, Pc
  <2>2. stack' = <<f>> /\ pc' = "set"
    BY <1>3, <1>7
  <2> HIDE DEF f
  <2>3. stack' \in Seq(Frames) /\ Len(stack') = 1 /\ stack'[1] = f
    BY <2>1, <2>2
  <2>4. InSetCommon'
    BY <1>3, <1>5, <1>7, <2>1, <2>2, <2>3 DEF InSetCommon, Frame
  <2> QED  BY <1>2, <1>4, <1>5, <2>3, <2>4 DEF PhyInv, CallsOK, PlaceOK
<1> QED  BY <1>6, <1>7

LEMMA InSetting ==
  ASSUME PhyInv, pc \in {"set", "set_read"}
  PROVE  /\ call.fn = "set_common" /\ InSetCommon /\ Len(stack) = 1
         /\ Frame(1, "idle", call.entry) /\ call.mac \in Nat \ {0} /\ call.arg \in Speeds
         /\ stack \in Seq(Frames) /\ stack # <<>> /\ addr \in BusAddress /\ call \in Calls
<1>1. /\ call.fn = "set_common" /\ InSetCommon /\ Len(stack) = 1
      /\ Frame(1, "idle", call.entry) /\ call.mac \in Nat \ {0} /\ call.arg \in Speeds
  BY DEF PhyInv, PlaceOK, InGetCommon, InSetCommon, InGetPhySpeed, Calling
<1>2. Len(stack) = 1 /\ stack \in Seq(Frames)
  BY <1>1 DEF PhyInv, CallsOK
<1>3. stack # <<>>
  BY <1>2, NotEmpty
<1> QED  BY <1>1, <1>3 DEF PhyInv, CallsOK

(* The turn to the next MAC.                                               *)
LEMMA NextPhy ==
  ASSUME PhyInv, pc \in {"set", "set_read"}, pc' = "set", call' = [call EXCEPT !.mac = @ + 1],
         UNCHANGED <<stack, gb, counted>>, addr' \in BusAddress, HardwareOK', RegistersOK'
  PROVE  PhyInv'
<1>1. /\ call' \in Calls /\ call'.fn = call.fn /\ call'.arg = call.arg
      /\ call'.mac = call.mac + 1 /\ call'.entry = call.entry
  BY InSetting, NextMacIs
<1>2. CallsOK'
  BY <1>1 DEF PhyInv, CallsOK
<1>3. InSetCommon'
  BY <1>1, InSetting DEF InSetCommon, Frame
<1> QED  BY <1>1, <1>2, <1>3, InSetting DEF PhyInv, PlaceOK

(* The return with the address put back.                                   *)
LEMMA SetReturns ==
  ASSUME PhyInv, pc = "set", Leave, NEW s \in Int, Result(s, FALSE),
         UNCHANGED <<hardware, reg, gb, counted>>
  PROVE  PhyInv' /\ addr' = call.entry
<1>1. /\ stack' \in Seq(Frames) /\ Len(stack') = 0 /\ pc' = "idle" /\ addr' = call.entry
      /\ addr' \in BusAddress
  BY InSetting, Left DEF Frame
<1>2. call' \in Calls
  BY InSetting, ResultIs DEF SameCall
<1>3. stack' = <<>>
  BY <1>1
<1> QED  BY <1>1, <1>2, <1>3, SameHardware DEF PhyInv, CallsOK, PlaceOK

LEMMA SetPhyKeeps ==
  ASSUME PhyInv, SetPhy
  PROVE  PhyInv'
<1> DEFINE narrow == Upto(call.arg) \cap kind[Phy].speeds
<1>1. /\ pc = "set" /\ call.mac \in Macs /\ HasPhy(call.mac) /\ Phy \in Addresses
      /\ UNCHANGED <<hardware, gb, counted>> /\ UNCHANGED <<phyOf, kind, partner>>
  <2>1. call.mac \in Macs
    BY InSetting, PhyLinkAssumption DEF SetPhy, Macs
  <2> QED  BY <2>1 DEF SetPhy, PhyInv, HardwareOK, Phy, HasPhy, hardware
<1>2. HardwareOK'
  BY <1>1 DEF PhyInv, HardwareOK
<1>3. reg \in [Addresses -> Registers] /\ kind[Phy] \in Kind
  BY <1>1 DEF PhyInv, RegistersOK, HardwareOK
<1>4. CASE ~gb[call.mac] /\ call.arg = 2
  <2>1. Leave /\ Result(NoCommon, FALSE) /\ UNCHANGED reg
    BY <1>4 DEF SetPhy
  <2>2. NoCommon \in Int /\ FALSE \in BOOLEAN
    BY DEF NoCommon
  <2>3. UNCHANGED <<hardware, reg, gb, counted>>
    BY <1>1, <2>1
  <2> QED  BY <1>1, <2>1, <2>2, <2>3, SetReturns
<1>5. CASE ~(~gb[call.mac] /\ call.arg = 2) /\ ~kind[Phy].an
  <2> DEFINE s == IF gb[call.mac] THEN call.arg ELSE call.arg % 2
  <2>1. /\ reg' = Forced(reg, Phy, s) /\ addr' = Phy
        /\ call' = [call EXCEPT !.mac = @ + 1] /\ pc' = "set" /\ UNCHANGED stack
    BY <1>5 DEF SetPhy, NextMac, Forced
  <2>2. s \in Speeds
    BY InSetting, <1>1 DEF Speeds
  <2> HIDE DEF s
  <2>3. /\ reg' \in [Addresses -> Registers]
        /\ \A b \in Addresses \ {Phy} : reg'[b] = reg[b]
        /\ reg'[Phy].adv = reg[Phy].adv /\ reg'[Phy].offer = reg[Phy].offer
    BY <1>1, <1>3, <2>1, <2>2, ForcedIs
  <2>4. RegistersOK'
    BY <1>1, <1>5, <2>3 DEF PhyInv, RegistersOK
  <2> QED  BY <1>1, <1>2, <2>1, <2>4, NextPhy DEF BusAddress
<1>6. CASE ~(~gb[call.mac] /\ call.arg = 2) /\ kind[Phy].an
  <2>1. reg' = Advertising(reg, Phy, narrow)
    BY <1>6 DEF SetPhy, Advertise, Advertising
  <2>2. narrow \in SUBSET Speeds
    BY <1>3 DEF Kind
  <2>3. /\ reg' \in [Addresses -> Registers]
        /\ \A b \in Addresses \ {Phy} : reg'[b] = reg[b]
        /\ reg'[Phy].adv = narrow /\ reg'[Phy].offer = reg[Phy].offer
        /\ (reg'[Phy].done <=> reg[Phy].done) /\ reg'[Phy].speed = reg[Phy].speed
    <3> HIDE DEF narrow
    <3> QED  BY <1>1, <1>3, <2>1, <2>2, AdvertisingIs
  <2>4. RegistersOK'
    BY <1>1, <1>3, <2>3 DEF PhyInv, RegistersOK
  <2>5. CASE ~reg[Phy].done
    <3>1. addr' = Phy /\ pc' = "set" /\ UNCHANGED stack /\ call' = [call EXCEPT !.mac = @ + 1]
      BY <1>6, <2>5 DEF SetPhy
    <3> QED  BY <1>1, <1>2, <2>4, <3>1, NextPhy DEF BusAddress
  <2>6. CASE reg[Phy].done
    <3>1. PICK s \in ReadSpeeds(Phy, gb[call.mac]) :
            IF Agrees(s)
            THEN addr' = Phy /\ pc' = "set_read" /\ UNCHANGED stack
            ELSE /\ stack' = <<[to |-> "set_read", saved |-> Phy, n |-> 0]>> \o stack
                 /\ addr' = Phy /\ pc' = "restart"
      BY <1>6, <2>6 DEF SetPhy
    <3>2. call' = call
      BY <1>6, <2>6 DEF SetPhy
    <3>3. CASE Agrees(s)
      <4>1. addr' = Phy /\ pc' = "set_read" /\ UNCHANGED stack
        BY <3>1, <3>3
      <4>2. Able(call.mac) => reg[Phy].speed = call.arg
        <5>1. CASE gb[call.mac]
          BY <3>1, <3>3, <5>1 DEF Able, ReadSpeeds, Agrees, Phy
        <5>2. CASE ~gb[call.mac] /\ Able(call.mac)
          <6>1. 2 \notin kind[Phy].speeds /\ kind[Phy].profile = "registers"
            BY <5>2 DEF Able, Phy
          <6>2. reg[Phy].speed \in kind[Phy].speeds \cup {0} /\ reg[Phy].speed \in Speeds
            BY <1>1, <1>3, <1>6 DEF PhyInv, RegistersOK, Registers
          <6>3. reg[Phy].speed \in {0, 1}
            BY <6>1, <6>2 DEF Speeds
          <6>4. s = reg[Phy].speed % 2
            BY <3>1, <5>2, <6>1 DEF ReadSpeeds
          <6> QED  BY <3>3, <6>3, <6>4 DEF Agrees
        <5> QED  BY <5>1, <5>2
      <4>3. Offering'
        BY <1>1, <2>3, <2>6, <3>2, <4>2 DEF Offering, Able, Phy
      <4>4. InSetCommon'
        BY <1>1, <1>6, <3>2, <4>1, <4>3, InSetting DEF InSetCommon, On, HasPhy, Phy, Frame
      <4> QED  BY <1>1, <1>2, <2>4, <3>2, <4>1, <4>4, InSetting
               DEF PhyInv, PlaceOK, CallsOK, BusAddress
    <3>4. CASE ~Agrees(s)
      <4> DEFINE f == [to |-> "set_read", saved |-> Phy, n |-> 0]
      <4>1. stack' = <<f>> \o stack /\ addr' = Phy /\ pc' = "restart"
        BY <3>1, <3>4
      <4>2. f \in Frames /\ f.to = "set_read" /\ f.saved = Phy
        BY <1>1 DEF Frames, Pc, BusAddress
      <4> HIDE DEF f
      <4>3. /\ stack' \in Seq(Frames) /\ Len(stack') = 2 /\ stack'[1] = f
            /\ stack'[2] = stack[1]
        BY <1>1, <4>1, <4>2, InSetting, Pushed
      <4>4. InSetCommon'
        BY <1>1, <1>6, <2>3, <3>2, <4>1, <4>2, <4>3, InSetting
        DEF InSetCommon, On, HasPhy, Phy, Frame, Calling
      <4> QED  BY <1>1, <1>2, <2>4, <3>2, <4>1, <4>3, <4>4, InSetting
               DEF PhyInv, PlaceOK, CallsOK, BusAddress
    <3> QED  BY <3>3, <3>4
  <2> QED  BY <2>5, <2>6
<1> QED  BY <1>4, <1>5, <1>6

LEMMA SetEndsKeep ==
  ASSUME PhyInv, SetNoPhy \/ SetDuplex \/ SetSpeed
  PROVE  PhyInv'
<1>1. HardwareOK' /\ RegistersOK'
  BY SameHardware DEF SetNoPhy, SetDuplex, SetSpeed
<1>2. CASE SetNoPhy \/ SetDuplex
  <2>1. /\ pc \in {"set", "set_read"} /\ pc' = "set" /\ call' = [call EXCEPT !.mac = @ + 1]
        /\ UNCHANGED <<stack, gb, counted, addr>>
    BY <1>2 DEF SetNoPhy, SetDuplex, NextMac
  <2>2. addr' \in BusAddress
    BY <2>1, InSetting
  <2> QED  BY <1>1, <2>1, <2>2, NextPhy
<1>3. CASE SetSpeed
  <2>1. /\ pc = "set" /\ Leave /\ Result(call.arg, FALSE)
        /\ UNCHANGED <<hardware, reg, gb, counted>>
    BY <1>3 DEF SetSpeed
  <2>2. call.arg \in Int
    BY <2>1, InSetting DEF Speeds
  <2> QED  BY <2>1, <2>2, SetReturns
<1> QED  BY <1>2, <1>3

-----------------------------------------------------------------------------
(* getPHYSpeed.                                                            *)

GettingSpeed == {"speed", "check", "checked", "read"}

LEMMA InSpeed ==
  ASSUME PhyInv, pc \in GettingSpeed
  PROVE  /\ call.fn = "getPHYSpeed" /\ InGetPhySpeed /\ call.mac \in Macs
         /\ HasPhy(call.mac) /\ Phy \in Addresses
         /\ stack \in Seq(Frames) /\ addr \in BusAddress /\ call \in Calls
<1>1. /\ call.fn = "getPHYSpeed" /\ InGetPhySpeed /\ call.mac \in Macs /\ HasPhy(call.mac)
  BY DEF PhyInv, PlaceOK, InGetCommon, InSetCommon, InGetPhySpeed, Calling, GettingSpeed
<1>2. Phy \in Addresses
  BY <1>1 DEF PhyInv, HardwareOK, Phy, HasPhy
<1> QED  BY <1>1, <1>2 DEF PhyInv, CallsOK

LEMMA GetPhySpeedKeeps ==
  ASSUME PhyInv, GetPhySpeed
  PROVE  PhyInv'
<1>1. stack = <<>> /\ pc = "idle" /\ addr \in BusAddress
  BY DEF PhyInv, PlaceOK, GetPhySpeed, InGetCommon, InSetCommon, InGetPhySpeed, Calling, CallsOK
<1>2. HardwareOK' /\ RegistersOK' /\ UNCHANGED <<phyOf, kind, partner, addr, gb, counted, stack>>
  BY SameHardware DEF GetPhySpeed, hardware
<1>3. PICK m \in 0 .. Channels :
        LET begun == Begun("getPHYSpeed", m, m)
        IN IF m = 0 \/ (m \in Macs /\ ~HasPhy(m))
           THEN call' = [begun EXCEPT !.speed = Default, !.error = TRUE] /\ UNCHANGED pc
           ELSE call' = begun /\ pc' = "speed"
  BY DEF GetPhySpeed
<1> DEFINE begun == Begun("getPHYSpeed", m, m)
<1>4. m \in Nat /\ m \in Int
  OBVIOUS
<1>5. begun \in Calls /\ begun.fn = "getPHYSpeed" /\ begun.mac = m
  BY <1>1, <1>4, BegunIs DEF Fn
<1>6. [begun EXCEPT !.speed = Default, !.error = TRUE] \in Calls
  <2>1. Default \in Int
    BY DEF Default
  <2> HIDE DEF begun
  <2> QED  BY <1>5, <2>1 DEF Calls
<1> HIDE DEF begun
<1>7. CASE m = 0 \/ (m \in Macs /\ ~HasPhy(m))
  <2>1. call' = [begun EXCEPT !.speed = Default, !.error = TRUE] /\ pc' = pc
    BY <1>3, <1>7 DEF begun
  <2>2. call' \in Calls
    BY <1>6, <2>1, Zenon
  <2>3. CallsOK'
    BY <1>2, <2>2 DEF PhyInv, CallsOK
  <2> QED  BY <1>1, <1>2, <2>1, <2>3 DEF PhyInv, PlaceOK
<1>8. CASE ~(m = 0 \/ (m \in Macs /\ ~HasPhy(m)))
  <2>1. call' = begun /\ pc' = "speed"
    BY <1>3, <1>8 DEF begun
  <2>2. m \in Macs /\ HasPhy(m)
    BY <1>8, PhyLinkAssumption DEF Macs
  <2> QED  BY <1>1, <1>2, <1>5, <2>1, <2>2 DEF PhyInv, CallsOK, PlaceOK, InGetPhySpeed, HasPhy
<1> QED  BY <1>7, <1>8

(* A routine of the link check is entered.                                 *)
LEMMA Entered ==
  ASSUME PhyInv, NEW at \in Pc, NEW to \in Pc, pc \in GettingSpeed, Enter(at, to)
  PROVE  /\ stack' \in Seq(Frames) /\ Len(stack') = Len(stack) + 1 /\ stack'[1].to = to
         /\ \A i \in 1 .. Len(stack) : stack'[i + 1] = stack[i]
         /\ pc' = at /\ addr' = Phy /\ addr' \in BusAddress
<1> DEFINE f == [to |-> to, saved |-> addr, n |-> 0]
<1>1. f \in Frames /\ f.to = to
  BY InSpeed DEF Frames
<1>2. stack' = <<f>> \o stack /\ pc' = at /\ addr' = Phy
  BY DEF Enter
<1> HIDE DEF f
<1>3. addr' \in BusAddress
  BY <1>2, InSpeed DEF BusAddress
<1> QED  BY <1>1, <1>2, <1>3, InSpeed, Pushed

LEMMA LimitKeeps ==
  ASSUME PhyInv, Limit
  PROVE  PhyInv'
<1>1. pc \in GettingSpeed /\ pc = "speed"
  BY DEF Limit, GettingSpeed
<1>2. stack = <<>>
  BY <1>1, InSpeed DEF InGetPhySpeed, Calling
<1>3. UNCHANGED <<phyOf, kind, partner, gb, call, counted>>
  BY DEF Limit, hardware
<1>4. CASE macType[call.mac] = "full"
  <2>1. UNCHANGED <<hardware, reg, stack, addr>> /\ pc' = "check"
    BY <1>4 DEF Limit
  <2>2. HardwareOK' /\ RegistersOK'
    BY <2>1, SameHardware
  <2> QED  BY <1>1, <1>2, <1>3, <2>1, <2>2, InSpeed
           DEF PhyInv, CallsOK, PlaceOK, InGetPhySpeed, HasPhy
<1>5. CASE macType[call.mac] # "full"
  <2> DEFINE set == IF macType[call.mac] = "10_100" THEN reg[Phy].adv \ {2}
                    ELSE reg[Phy].adv \ {0, 1}
  <2>1. reg' = Advertising(reg, Phy, set) /\ Enter("restart", "check")
    BY <1>5 DEF Limit, Advertising
  <2>2. reg \in [Addresses -> Registers] /\ Phy \in Addresses
    BY <1>1, InSpeed DEF PhyInv, RegistersOK
  <2>3. set \in SUBSET Speeds /\ set \subseteq reg[Phy].adv
    BY <2>2 DEF Registers
  <2> HIDE DEF set
  <2>4. /\ reg' \in [Addresses -> Registers]
        /\ \A b \in Addresses \ {Phy} : reg'[b] = reg[b]
        /\ reg'[Phy].adv = set /\ reg'[Phy].offer = reg[Phy].offer
        /\ reg'[Phy].speed = reg[Phy].speed
    BY <2>1, <2>2, <2>3, AdvertisingIs
  <2>5. HardwareOK' /\ RegistersOK'
    BY <1>3, <2>2, <2>3, <2>4 DEF PhyInv, HardwareOK, RegistersOK
  <2>6. /\ stack' \in Seq(Frames) /\ Len(stack') = Len(stack) + 1 /\ stack'[1].to = "check"
        /\ pc' = "restart" /\ addr' = Phy /\ addr' \in BusAddress
    BY <1>1, <2>1, Entered DEF Pc
  <2>7. Len(stack') = 1
    BY <1>2, <2>6
  <2>8. InGetPhySpeed'
    BY <1>1, <1>3, <2>6, <2>7, InSpeed DEF InGetPhySpeed, HasPhy, Phy, Calling
  <2> QED  BY <1>1, <1>3, <2>5, <2>6, <2>8, InSpeed DEF PhyInv, CallsOK, PlaceOK
<1> QED  BY <1>4, <1>5

LEMMA CheckLinkKeeps ==
  ASSUME PhyInv, CheckLink
  PROVE  PhyInv'
<1>1. pc \in GettingSpeed /\ pc = "check"
  BY DEF CheckLink, GettingSpeed
<1>2. stack = <<>>
  BY <1>1, InSpeed DEF InGetPhySpeed, Calling
<1>3. HardwareOK' /\ RegistersOK' /\ UNCHANGED <<phyOf, kind, partner, gb, counted>>
  BY SameHardware DEF CheckLink, hardware
<1>4. SameCall
  BY <1>1, InSpeed, NegotiatedIs DEF CheckLink
<1>5. /\ stack' \in Seq(Frames) /\ Len(stack') = Len(stack) + 1 /\ stack'[1].to = "read"
      /\ pc' = "checked" /\ addr' = Phy /\ addr' \in BusAddress
  BY <1>1, Entered DEF CheckLink, Pc
<1>6. Len(stack') = 1
  BY <1>2, <1>5
<1>7. InGetPhySpeed'
  BY <1>1, <1>3, <1>4, <1>5, <1>6, InSpeed DEF InGetPhySpeed, HasPhy, Phy, SameCall
<1> QED  BY <1>1, <1>3, <1>4, <1>5, <1>7, InSpeed DEF PhyInv, CallsOK, PlaceOK, SameCall

LEMMA CheckLoopKeeps ==
  ASSUME PhyInv, CheckLoop
  PROVE  PhyInv'
<1>1. pc \in GettingSpeed /\ pc = "checked"
  BY DEF CheckLoop, GettingSpeed
<1>2. Len(stack) = 1 /\ stack[1].to = "read" /\ addr = Phy
  BY <1>1, InSpeed DEF InGetPhySpeed, Calling
<1>3. stack # <<>> /\ stack \in Seq(Frames)
  BY <1>1, <1>2, InSpeed, NotEmpty
<1>4. /\ HardwareOK' /\ RegistersOK' /\ UNCHANGED <<phyOf, kind, partner, gb, counted>>
      /\ UNCHANGED <<hardware, reg, gb, counted>>
  BY SameHardware DEF CheckLoop, hardware
<1>5. CASE Leave /\ UNCHANGED call
  <2>1. /\ stack' \in Seq(Frames) /\ Len(stack') = 0 /\ pc' = "read" /\ addr' \in BusAddress
    BY <1>2, <1>3, <1>5, Left
  <2>2. stack' = <<>>
    BY <2>1
  <2> QED  BY <1>1, <1>4, <1>5, <2>1, <2>2, InSpeed
           DEF PhyInv, CallsOK, PlaceOK, InGetPhySpeed, HasPhy
<1>6. CASE /\ stack' = <<[to |-> "checked", saved |-> addr, n |-> 0]>> \o stack
           /\ pc' = "restart" /\ UNCHANGED <<addr, call>>
  <2> DEFINE f == [to |-> "checked", saved |-> addr, n |-> 0]
  <2>1. f \in Frames /\ f.to = "checked" /\ f.saved = Phy
    BY <1>1, <1>2, InSpeed DEF Frames, Pc, BusAddress
  <2>2. stack' = <<f>> \o stack
    BY <1>6
  <2> HIDE DEF f
  <2>3. /\ stack' \in Seq(Frames) /\ Len(stack') = 2 /\ stack'[1] = f /\ stack'[2] = stack[1]
    BY <1>2, <1>3, <2>1, <2>2, Pushed
  <2>4. InGetPhySpeed'
    BY <1>1, <1>2, <1>4, <1>6, <2>1, <2>3, InSpeed
    DEF InGetPhySpeed, HasPhy, Phy, Calling, Frame
  <2> QED  BY <1>1, <1>4, <1>6, <2>3, <2>4, InSpeed DEF PhyInv, CallsOK, PlaceOK
<1>7. CASE Wait /\ UNCHANGED <<addr, pc, call>>
  BY <1>3, <1>4, <1>7, Waiting
<1> QED  BY <1>5, <1>6, <1>7 DEF CheckLoop

LEMMA ReadLinkKeeps ==
  ASSUME PhyInv, ReadLink
  PROVE  PhyInv'
<1>1. pc \in GettingSpeed /\ pc = "read"
  BY DEF ReadLink, GettingSpeed
<1>2. stack = <<>>
  BY <1>1, InSpeed DEF InGetPhySpeed, Calling
<1>3. HardwareOK' /\ RegistersOK' /\ UNCHANGED <<stack, gb, counted>>
  BY SameHardware DEF ReadLink
<1>4. \E s \in Int, e \in BOOLEAN : Finish(s, e)
  <2>1. CASE GiveUp
    <3>1. Finish(Default, TRUE)
      BY <2>1, Zenon DEF ReadLink
    <3>2. Default \in Int
      BY DEF Default
    <3> QED  BY <3>1, <3>2, Zenon
  <2>2. CASE ~GiveUp
    <3>1. PICK r \in ReadResult(Phy) : Finish(r[1], r[2])
      BY <2>2 DEF ReadLink, Addressed
    <3>2. r[1] \in Int /\ r[2] \in BOOLEAN
      <4>1. reg[Phy].speed \in Int
        BY <1>1, InSpeed DEF PhyInv, RegistersOK, Registers, Speeds
      <4>2. \/ r = <<Default, TRUE>>
            \/ \E s \in Status(Phy) : r = <<s, s = Bad>> \/ r = <<s, FALSE>>
        BY DEF ReadResult
      <4>3. \A s \in Status(Phy) : s \in Int
        BY <4>1 DEF Status, Bad
      <4>4. CASE r = <<Default, TRUE>>
        BY <4>4 DEF Default
      <4>5. ASSUME NEW t \in Status(Phy), r = <<t, t = Bad>> \/ r = <<t, FALSE>>
            PROVE  r[1] \in Int /\ r[2] \in BOOLEAN
        <5> DEFINE bad == t = Bad
        <5>1. bad \in BOOLEAN /\ FALSE \in BOOLEAN
          OBVIOUS
        <5>2. r = <<t, bad>> \/ r = <<t, FALSE>>
          BY <4>5
        <5> HIDE DEF bad
        <5>3. PICK b \in BOOLEAN : r = <<t, b>>
          BY <5>1, <5>2, Zenon
        <5> QED  BY <4>3, <5>3
      <4> QED  BY <4>2, <4>4, <4>5
    <3> QED  BY <3>1, <3>2
  <2> QED  BY <2>1, <2>2
<1>5. call' \in Calls /\ pc' = "idle"
  BY <1>1, <1>4, InSpeed, ResultIs DEF Finish, SameCall
<1>6. addr' \in BusAddress
  BY <1>1, InSpeed DEF ReadLink, Addressed, BusAddress
<1> QED  BY <1>2, <1>3, <1>5, <1>6 DEF PhyInv, CallsOK, PlaceOK

-----------------------------------------------------------------------------
(* The inductive invariant.                                                *)

LEMMA InitPhyInv == Init => PhyInv
<1> SUFFICES ASSUME Init PROVE PhyInv
  OBVIOUS
<1>1. PICK s \in Setups : phyOf = s.phyOf /\ kind = s.kind /\ partner = s.partner
  BY DEF Init
<1>2. HardwareOK
  BY <1>1, PhyLinkAssumption DEF HardwareOK
<1>3. RegistersOK
  <2>1. reg = [a \in Addresses |-> [adv |-> kind[a].speeds, done |-> FALSE,
                 offer |-> kind[a].speeds, speed |-> 0]]
    BY DEF Init
  <2>2. ASSUME NEW a \in Addresses
        PROVE  /\ reg[a] \in Registers /\ reg[a].adv = kind[a].speeds
               /\ reg[a].offer = kind[a].speeds /\ reg[a].speed = 0
    <3> DEFINE can == kind[a].speeds
               F == FALSE
               Z == 0
    <3>1. can \in SUBSET Speeds /\ Z \in Speeds
      BY <1>2 DEF HardwareOK, Kind, Speeds
    <3>2. F \in BOOLEAN
      OBVIOUS
    <3>3. reg[a] = [adv |-> can, done |-> F, offer |-> can, speed |-> Z]
      BY <2>1
    <3> HIDE DEF can, F, Z
    <3> DEFINE rec == [adv |-> can, done |-> F, offer |-> can, speed |-> Z]
    <3>4. rec \in Registers /\ rec.adv = can /\ rec.offer = can /\ rec.speed = Z
      BY <3>1, <3>2, Zenon DEF Registers
    <3>5. reg[a] = rec
      BY <3>3
    <3> HIDE DEF rec
    <3>6. /\ reg[a] \in Registers /\ reg[a].adv = can /\ reg[a].offer = can
          /\ reg[a].speed = Z
      BY <3>4, <3>5, Zenon
    <3> QED  BY <3>6 DEF can, Z
  <2>3. reg \in [Addresses -> Registers]
    BY <2>1, <2>2, Zenon
  <2> QED  BY <2>2, <2>3, Zenon DEF RegistersOK
<1>4. CallsOK
  <2>1. addr \in BusAddress /\ addr = 0
    BY DEF Init, NoPhy, BusAddress
  <2>2. call \in Calls
    BY <2>1, BegunIs DEF Init, Fn
  <2> QED  BY <2>1, <2>2 DEF Init, CallsOK
<1> QED  BY <1>2, <1>3, <1>4 DEF PhyInv, PlaceOK, Init

LEMMA NextPhyInv ==
  ASSUME PhyInv, [Next]_vars
  PROVE  PhyInv'
<1>1. CASE Call
  BY <1>1, GetCommonKeeps, SetCommonKeeps, GetPhySpeedKeeps DEF Call
<1>2. CASE Driver
  BY <1>2, RestartKeeps, PollKeeps, GetCapKeeps, GetCapReadKeeps, SetPhyKeeps, SetEndsKeep,
     LimitKeeps, CheckLinkKeeps, CheckLoopKeeps, ReadLinkKeeps DEF Driver
<1>3. CASE \E a \in Addresses : Negotiate(a) \/ Drop(a)
  BY <1>3, NegotiateKeeps, DropKeeps
<1>4. CASE UNCHANGED vars
  <2>1. UNCHANGED <<phyOf, kind, partner, reg, addr, gb, pc, stack, call, counted>>
    BY <1>4 DEF vars, hardware
  <2>2. RegistersOK' /\ (InSetCommon => InSetCommon')
    BY <2>1 DEF PhyInv, RegistersOK, InSetCommon, On, HasPhy, Phy, Frame, Offering, Able
  <2> QED  BY <2>1, <2>2, StillThere
<1> QED  BY <1>1, <1>2, <1>3, <1>4 DEF Next

(* At every place of the driver, who called whom, with which address to    *)
(* restore, and what the PHY being set offers.                             *)
THEOREM PhyInvariant == Spec => []PhyInv
<1>1. PhyInv /\ [Next]_vars => PhyInv'
  BY NextPhyInv
<1> QED  BY <1>1, InitPhyInv, PTL DEF Spec

-----------------------------------------------------------------------------
(* The properties of single steps.                                         *)

(* The routines for the common speed leave MDIO_ADDR1 as they found it, on *)
(* every path.                                                             *)
THEOREM AddressIsRestored == Spec => AddressRestored
<1>1. ASSUME PhyInv, [Next]_vars, pc # "idle", pc' = "idle",
             call.fn \in {"get_common", "set_common"}
      PROVE  addr' = call.entry
  <2>1. stack \in Seq(Frames) /\ (InGetCommon \/ InSetCommon)
    BY <1>1 DEF PhyInv, CallsOK, PlaceOK
  <2>2. CASE pc = "cap"
    <3>1. UNCHANGED addr
      BY <1>1, <2>2
      DEF Next, vars, Call, Driver, GetCommon, SetCommon, GetPhySpeed, Restart, Poll, GetCap,
          GetCapRead, SetPhy, SetNoPhy, SetDuplex, SetSpeed, Limit, CheckLink, CheckLoop,
          ReadLink, Negotiate, Drop, Enter, NextMac, Finish
    <3> QED  BY <2>1, <2>2, <3>1 DEF InGetCommon, InSetCommon, Calling
  <2>3. CASE pc # "cap"
    <3>1. pc # "read" /\ Len(stack) \in {1, 2}
          /\ (stack[1].to = "idle" => stack[1].saved = call.entry)
      BY <2>1, <2>3 DEF InGetCommon, InSetCommon, Calling, Frame
    <3>2. Leave
      BY <1>1, <2>3, <3>1
      DEF Next, vars, Call, Driver, GetCommon, SetCommon, GetPhySpeed, Restart, Poll, GetCap,
          GetCapRead, SetPhy, SetNoPhy, SetDuplex, SetSpeed, Limit, CheckLink, CheckLoop,
          ReadLink, Negotiate, Drop, Enter, NextMac, Finish
    <3> QED  BY <1>1, <2>1, <3>1, <3>2, NotEmpty, Left
  <2> QED  BY <2>2, <2>3
<1>2. PhyInv /\ [Next]_vars
      => [pc # "idle" /\ pc' = "idle" /\ call.fn \in {"get_common", "set_common"}
            => addr' = call.entry]_vars
  BY <1>1
<1> QED  BY <1>2, PhyInvariant, PTL DEF Spec, AddressRestored

(* When the driver turns to the next PHY, the one it leaves is not linked  *)
(* at another speed, if it can do the speed asked for.                     *)
THEOREM LeftAtItsSpeed == Spec => LeftAtSpeed
<1>1. PhyInv /\ [Next]_vars
      => [pc = "set_read" /\ pc' = "set" /\ reg[Phy].done /\ Able(call.mac)
            => reg[Phy].speed = call.arg]_vars
  <2>1. PhyInv /\ pc = "set_read" => Offering
    BY DEF PhyInv, PlaceOK, InGetCommon, InSetCommon, InGetPhySpeed, Calling
  <2> QED  BY <2>1 DEF Offering
<1> QED  BY <1>1, PhyInvariant, PTL DEF Spec, LeftAtSpeed

(* What getPHYSpeed reports without an error is the speed of the PHY of    *)
(* the MAC it was asked about.                                             *)
THEOREM ReportsTheOwnLink == Spec => ReportsOwnLink
<1>1. ASSUME PhyInv, [Next]_vars, pc = "read", pc' = "idle", call'.speed # Bad, ~call'.error
      PROVE  call'.speed = reg[Phy].speed
  <2>1. ReadLink
    BY <1>1
    DEF Next, vars, Call, Driver, GetCommon, SetCommon, GetPhySpeed, Restart, Poll, GetCap,
        GetCapRead, SetPhy, SetNoPhy, SetDuplex, SetSpeed, Limit, CheckLink, CheckLoop,
        Negotiate, Drop
  <2>2. call \in Calls /\ Phy \in Addresses
    BY <1>1, InSpeed DEF GettingSpeed
  <2>3. ~GiveUp
    <3>1. SUFFICES ASSUME GiveUp PROVE FALSE
      OBVIOUS
    <3>2. Result(Default, TRUE)
      BY <2>1, <3>1, Zenon DEF ReadLink, Finish
    <3> QED  BY <1>1, <2>2, <3>2, Failing
  <2>4. PICK r \in ReadResult(Phy) : Result(r[1], r[2])
    BY <2>1, <2>3 DEF ReadLink, Addressed, Finish
  <2>5. reg[Phy].speed \in Int
    BY <1>1, <2>2 DEF PhyInv, RegistersOK, Registers, Speeds
  <2>6. CASE r = <<Default, TRUE>>
    <3> DEFINE T == TRUE
    <3>1. r[1] = Default /\ r[2] = T
      BY <2>6
    <3> HIDE DEF T
    <3>2. Result(Default, T)
      BY <2>4, <3>1, Zenon
    <3>3. Result(Default, TRUE)
      BY <3>2, Zenon DEF T
    <3> QED  BY <1>1, <2>2, <3>3, Failing
  <2>7. ASSUME NEW s \in Status(Phy), NEW e \in BOOLEAN, r = <<s, e>>
        PROVE  call'.speed = reg[Phy].speed
    <3>1. s \in Int /\ s \in {reg[Phy].speed, Bad}
      BY <2>5 DEF Status, Bad
    <3>2. Result(s, e)
      BY <2>4, <2>7
    <3> QED  BY <1>1, <2>2, <3>1, <3>2, ResultIs
  <2>8. \/ r = <<Default, TRUE>>
        \/ \E s \in Status(Phy), e \in BOOLEAN : r = <<s, e>>
    BY DEF ReadResult
  <2> QED  BY <2>6, <2>7, <2>8
<1>2. PhyInv /\ [Next]_vars
      => [pc = "read" /\ pc' = "idle" /\ call'.speed # Bad /\ ~call'.error
            => call'.speed = reg[Phy].speed]_vars
  BY <1>1
<1> QED  BY <1>2, PhyInvariant, PTL DEF Spec, ReportsOwnLink

(* The common speed is one that every PHY counted, its partner and its MAC *)
(* can do, and a PHY counted had completed its negotiation in this call.   *)
THEOREM CommonIsAlwaysShared == Spec => CommonIsShared
<1>1. ASSUME PhyInv, [Next]_vars, NEW m \in counted' \ counted
      PROVE  reg[phyOf[m]].done
  <2>1. GetCapRead
    BY <1>1
    DEF Next, vars, Call, Driver, GetCommon, SetCommon, GetPhySpeed, Restart, Poll, GetCap,
        SetPhy, SetNoPhy, SetDuplex, SetSpeed, Limit, CheckLink, CheckLoop, ReadLink,
        Negotiate, Drop
  <2>2. addr = Phy
    BY <1>1, <2>1
    DEF GetCapRead, PhyInv, PlaceOK, InGetCommon, InSetCommon, InGetPhySpeed, Calling, On
  <2> QED  BY <1>1, <2>1, <2>2 DEF GetCapRead, Counted, Phy
<1>2. ASSUME PhyInv, [Next]_vars, call.fn = "get_common", pc # "idle", pc' = "idle"
      PROVE  IF counted = {} THEN call'.speed = NoCommon
             ELSE call'.speed = NoCommon \/ \A m \in counted : call'.speed \in Capable(m)
  <2>1. InGetCommon /\ stack \in Seq(Frames) /\ call \in Calls
    BY <1>2 DEF PhyInv, CallsOK, PlaceOK
  <2>2. CASE pc # "cap"
    <3>1. pc # "read" /\ Len(stack) \in {1, 2} /\ stack[1].to # "idle"
      BY <2>1, <1>2, <2>2 DEF InGetCommon, Calling, Frame
    <3>2. Leave
      BY <1>2, <2>2, <3>1
      DEF Next, vars, Call, Driver, GetCommon, SetCommon, GetPhySpeed, Restart, Poll, GetCap,
          GetCapRead, SetPhy, SetNoPhy, SetDuplex, SetSpeed, Limit, CheckLink, CheckLoop,
          ReadLink, Negotiate, Drop, Enter, NextMac, Finish
    <3> QED  BY <1>2, <2>1, <3>1, <3>2, NotEmpty, Left
  <2>3. CASE pc = "cap"
    <3>1. Result(CommonSpeed, FALSE)
      BY <1>2, <2>3
      DEF Next, vars, Call, Driver, GetCommon, SetCommon, GetPhySpeed, Restart, Poll, GetCap,
          GetCapRead, SetPhy, SetNoPhy, SetDuplex, SetSpeed, Limit, CheckLink, CheckLoop,
          ReadLink, Negotiate, Drop, Enter, NextMac, Finish
    <3> DEFINE common == {s \in Speeds : \A m \in counted : s \in Capable(m)}
    <3>2. CommonSpeed = IF counted = {} \/ common = {} THEN NoCommon ELSE Max(common)
      BY DEF CommonSpeed
    <3>3. common \in SUBSET Speeds /\ \A s \in common : \A m \in counted : s \in Capable(m)
      OBVIOUS
    <3> HIDE DEF common
    <3>4. common # {} => Max(common) \in common
      BY <3>3, Greatest
    <3>5. CommonSpeed \in Int
      BY <3>2, <3>3, <3>4 DEF NoCommon, Speeds
    <3>6. call'.speed = CommonSpeed
      BY <2>1, <3>1, <3>5, ResultIs
    <3> QED  BY <3>2, <3>3, <3>4, <3>6
  <2> QED  BY <2>2, <2>3
<1>3. PhyInv /\ [Next]_vars
      => [/\ \A m \in counted' \ counted : reg[phyOf[m]].done
          /\ call.fn = "get_common" /\ pc # "idle" /\ pc' = "idle" =>
               IF counted = {} THEN call'.speed = NoCommon
               ELSE call'.speed = NoCommon \/ \A m \in counted : call'.speed \in Capable(m)
         ]_vars
  BY <1>1, <1>2
<1> QED  BY <1>3, PhyInvariant, PTL DEF Spec, CommonIsShared
=============================================================================
