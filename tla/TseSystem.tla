----------------------------- MODULE TseSystem -----------------------------
(***************************************************************************)
(* The tables of the Ethernet driver (altera_avalon_tse.c): the devices    *)
(* the application registers (tse_mac_device), the groups of MACs that     *)
(* share an MDIO bus, the PHY profiles, and the scan of each bus that      *)
(* gives every PHY found to a MAC.                                         *)
(*                                                                         *)
(* What is done to a PHY once it is found (reset of the advertisement,     *)
(* negotiation) is module PhyLink.                                         *)
(***************************************************************************)
EXTENDS Integers, Sequences, FiniteSets, SequencesExt

CONSTANTS
  Systems,      \* what alt_tse_system_add_sys may be given, see Device
  Buses,        \* what may be on a bus: functions from Addresses
  LastAddress,  \* MDIO addresses are 0 .. LastAddress (31 in the code)
  MaxNets,      \* entries of tse_mac_device
  MaxProfiles   \* profiles that are added

AutoAddress == -1
NoPhy == -1
Addresses == 0 .. LastAddress
Models == {"known", "added", "unknown"}
Profile == [model : {"known", "added"}, own : BOOLEAN]

(* A device: the MDIO address, or AutoAddress, of its PHY, and the MAC it  *)
(* is a channel of, which is the place of that MAC's first channel.        *)
Device == [mac : Nat, phy : Addresses \cup {AutoAddress}, named : Addresses \cup {AutoAddress},
           mdio : BOOLEAN, channels : Nat, shared : BOOLEAN, sharers : Nat]

ASSUME TseSystemAssumption ==
  /\ \A s \in Systems : /\ s.phys \in Seq(Addresses \cup {AutoAddress}) \ {<<>>}
                        /\ s.mdio \in BOOLEAN
  /\ \A b \in Buses : b \in [Addresses -> Models \cup {"none"}]
  /\ LastAddress \in Nat /\ MaxNets \in Nat \ {0} /\ MaxProfiles \in Nat

VARIABLES
  tse_mac_device, \* the devices registered, in order
  pphy_profiles,  \* the profiles, in order
  pmac_groups,    \* each group: the indices of its devices
  bus,            \* what is on the bus of each device (external)
  phyOf, profileOf, \* the PHY of each device, and the profile it was given
  mdio_addr,      \* MDIO_ADDR1 of each device
  scan,           \* place of the scan: group, address, address to restore
  short,          \* is memory so short that malloc may fail?
  phase

tseVars == <<tse_mac_device, pphy_profiles, pmac_groups, bus, phyOf, profileOf,
          mdio_addr, scan, short, phase>>
Defined == DOMAIN tse_mac_device

Fails == IF short THEN BOOLEAN ELSE {FALSE}

-----------------------------------------------------------------------------
(* The application's calls, before the driver is used.                     *)

(* alt_tse_system_add_sys: one entry for every channel; no memory stops it *)
(* after some of them.  The test against MAXNETS only prints a message.    *)
SystemEntry(s, k) ==
  [mac |-> Len(tse_mac_device) + 1, phy |-> s.phys[k], named |-> s.phys[k], mdio |-> s.mdio,
   channels |-> Len(s.phys), shared |-> FALSE, sharers |-> 1]

AddSys ==
  /\ phase = "config"
  /\ \E s \in Systems, b \in Buses :
     \E n \in IF short THEN 0 .. Len(s.phys) ELSE {Len(s.phys)} :
       /\ Len(tse_mac_device) + Len(s.phys) <= MaxNets
       /\ tse_mac_device' = tse_mac_device \o [k \in 1 .. n |-> SystemEntry(s, k)]
       /\ bus' = bus \o [k \in 1 .. n |-> b]
       /\ mdio_addr' = mdio_addr \o [k \in 1 .. n |-> 0]
       /\ phyOf' = phyOf \o [k \in 1 .. n |-> NoPhy]
       /\ profileOf' = profileOf \o [k \in 1 .. n |-> "none"]
  /\ UNCHANGED <<pphy_profiles, pmac_groups, scan, phase>>

(* alt_tse_sys_enable_mdio_sharing, once, for devices that were registered *)
(* one after the other.  It refuses multi-channel MACs, but has then       *)
(* already marked those before: calls that name one are left out.          *)
Single(d) == tse_mac_device[d].channels = 1
EnableSharing ==
  /\ phase = "config" /\ \A d \in Defined : ~tse_mac_device[d].shared
  /\ \E first \in Defined, n \in 1 .. Len(tse_mac_device) :
       /\ first + n - 1 \in Defined
       /\ \A d \in first .. first + n - 1 : Single(d)
       /\ tse_mac_device' = [d \in Defined |->
            IF d \in first .. first + n - 1
            THEN [tse_mac_device[d] EXCEPT !.shared = TRUE, !.sharers = n]
            ELSE tse_mac_device[d]]
  /\ UNCHANGED <<pphy_profiles, pmac_groups, bus, phyOf, profileOf, mdio_addr,
                 scan, phase>>

(* alt_tse_phy_add_profile, of the application.                            *)
AddProfile ==
  /\ phase = "config" /\ Len(pphy_profiles) < MaxProfiles
  /\ \E m \in {"known", "added"} :
       pphy_profiles' = Append(pphy_profiles, [model |-> m, own |-> TRUE])
  /\ UNCHANGED <<tse_mac_device, pmac_groups, bus, phyOf, profileOf, mdio_addr,
                 scan, phase>>

-----------------------------------------------------------------------------
(* alt_tse_phy_init: the default profiles go behind the application's own, *)
(* then the groups are formed.                                             *)
PhyInit ==
  /\ phase = "config"
  /\ pphy_profiles' = Append(pphy_profiles, [model |-> "known", own |-> FALSE])
  /\ phase' = "groups"
  /\ UNCHANGED <<tse_mac_device, pmac_groups, bus, phyOf, profileOf, mdio_addr,
                 scan>>

(* alt_tse_mac_group_init, one group a step.  The next group begins behind *)
(* the last; one that has no memory or reaches past the devices defined    *)
(* ends the forming of groups.                                             *)
FirstOfGroup == IF pmac_groups = <<>> THEN 1 ELSE Last(Last(pmac_groups)) + 1
WidthOfSharers(d) == IF d.shared THEN d.sharers ELSE 1  \* mutant: no channels
SystemWidth(d) == IF d.channels > 1 THEN d.channels
            ELSE IF d.shared THEN d.sharers ELSE 1
Undefined(d) == d \notin Defined

GroupInit ==
  /\ phase = "groups"
  /\ LET first == FirstOfGroup
     IN IF first \notin Defined
        THEN phase' = "scan" /\ UNCHANGED pmac_groups
        ELSE LET last == first + SystemWidth(tse_mac_device[first]) - 1
             IN \E fails \in Fails :
                  IF fails \/ Undefined(last)
                  THEN phase' = "scan" /\ UNCHANGED pmac_groups
                  ELSE /\ pmac_groups' = Append(pmac_groups,
                            [k \in 1 .. last - first + 1 |-> first + k - 1])
                       /\ UNCHANGED phase
  /\ UNCHANGED <<tse_mac_device, pphy_profiles, bus, phyOf, profileOf,
                 mdio_addr, scan>>

-----------------------------------------------------------------------------
(* alt_tse_mac_get_phy: scan the bus of a group.                           *)
Group == pmac_groups[scan.group]
Base == Group[1]
NextGroup == scan.group + 1

BeginScan ==
  /\ phase = "scan" /\ scan.group \in DOMAIN pmac_groups
  /\ IF tse_mac_device[Base].mdio
     THEN /\ scan' = [scan EXCEPT !.address = 0, !.saved = mdio_addr[Base]]
          /\ phase' = "address"
     ELSE scan' = [scan EXCEPT !.group = NextGroup] /\ UNCHANGED phase
  /\ UNCHANGED <<tse_mac_device, pphy_profiles, pmac_groups, bus, phyOf,
                 profileOf, mdio_addr>>

(* alt_tse_mac_associate_phy: the first MAC that names the address, else   *)
(* the first whose address is still to be chosen.                          *)
Lowest(set) == {d \in set : \A e \in set : d <= e}
AssociateNamed(a) == Lowest({d \in ToSet(Group) : tse_mac_device[d].phy = a})
Associate(a) ==
  LET named == {d \in ToSet(Group) : tse_mac_device[d].phy = a}
      auto == {d \in ToSet(Group) : tse_mac_device[d].phy = AutoAddress}
  IN Lowest(IF named # {} THEN named ELSE auto)

(* The first profile that fits is used.                                    *)
LastFit(p, model) == p[CHOOSE i \in DOMAIN p :
  p[i].model = model /\ \A j \in DOMAIN p : p[j].model = model => j <= i]
FirstFit(p, model) == p[CHOOSE i \in DOMAIN p :
  p[i].model = model /\ \A j \in DOMAIN p : p[j].model = model => i <= j]
Fit(p, model) == FirstFit(p, model)
ProfileFor(model) ==
  IF \E i \in DOMAIN pphy_profiles : pphy_profiles[i].model = model
  THEN IF Fit(pphy_profiles, model).own THEN "own" ELSE "default" ELSE "none"

ScanAddress ==
  /\ phase = "address" /\ scan.address <= LastAddress
  /\ mdio_addr' = [mdio_addr EXCEPT ![Base] = scan.address]
  /\ LET a == scan.address
         model == bus[Base][a]
     IN \E fails \in IF model = "none" THEN {FALSE} ELSE Fails :
          IF fails
          THEN /\ phase' = "scan" /\ scan' = [scan EXCEPT !.group = NextGroup]
               /\ UNCHANGED <<phyOf, profileOf, tse_mac_device>>
          ELSE /\ scan' = [scan EXCEPT !.address = @ + 1] /\ UNCHANGED phase
               /\ LET to == IF model = "none" THEN {} ELSE Associate(a)
                  IN /\ phyOf' = [d \in Defined |->
                          IF d \in to THEN a ELSE phyOf[d]]
                     /\ profileOf' = [d \in Defined |->
                          IF d \in to THEN ProfileFor(model) ELSE profileOf[d]]
                     /\ tse_mac_device' = [d \in Defined |->
                          IF d \in to THEN [tse_mac_device[d] EXCEPT !.phy = a]
                          ELSE tse_mac_device[d]]
  /\ UNCHANGED <<pphy_profiles, pmac_groups, bus>>

Restored == [mdio_addr EXCEPT ![Base] = scan.saved]
EndScan ==
  /\ phase = "address" /\ scan.address > LastAddress
  /\ mdio_addr' = Restored
  /\ scan' = [scan EXCEPT !.group = NextGroup] /\ phase' = "scan"
  /\ UNCHANGED <<tse_mac_device, pphy_profiles, pmac_groups, bus, phyOf,
                 profileOf>>

ScanReady ==
  /\ phase = "scan" /\ scan.group \notin DOMAIN pmac_groups
  /\ phase' = "ready"
  /\ UNCHANGED <<tse_mac_device, pphy_profiles, pmac_groups, bus, phyOf,
                 profileOf, mdio_addr, scan>>

TseInit ==
  /\ tse_mac_device = <<>> /\ pphy_profiles = <<>> /\ pmac_groups = <<>>
  /\ bus = <<>> /\ phyOf = <<>> /\ profileOf = <<>> /\ mdio_addr = <<>>
  /\ scan = [group |-> 1, address |-> 0, saved |-> 0]
  /\ short \in BOOLEAN
  /\ phase = "config"

Step == AddSys \/ EnableSharing \/ AddProfile \/ PhyInit \/ GroupInit
        \/ BeginScan \/ ScanAddress \/ EndScan \/ ScanReady
TseNext == Step /\ UNCHANGED short
TseSpec == TseInit /\ [][TseNext]_tseVars

-----------------------------------------------------------------------------
(* Tables, groups and the scan have their types.                           *)
TseTypeOK ==
  /\ \A d \in Defined : /\ tse_mac_device[d] \in Device
                        /\ phyOf[d] \in Addresses \cup {NoPhy}
                        /\ mdio_addr[d] \in Addresses
  /\ \A g \in DOMAIN pmac_groups : /\ pmac_groups[g] # <<>>
                                   /\ ToSet(pmac_groups[g]) \subseteq Defined
  /\ scan.group \in 1 .. Len(pmac_groups) + 1
  /\ scan.address \in 0 .. LastAddress + 1
  /\ phase \in {"config", "groups", "scan", "address", "ready"}

(* Two devices are on one MDIO bus when they are channels of one MAC, or   *)
(* both are among the MACs for which sharing was enabled.                  *)
SameBus(d, e) ==
  \/ tse_mac_device[d].mac = tse_mac_device[e].mac
  \/ tse_mac_device[d].shared /\ tse_mac_device[e].shared

(* No device is in two groups, and a group is all of one MDIO bus: every   *)
(* channel of a MAC and every MAC that shares its bus, and no stranger.    *)
(* A bus split between two groups would be scanned twice and a PHY of it   *)
(* given to two MACs; a stranger in a group is given PHYs it has no wire   *)
(* to.  (When memory failed half way through the channels of a MAC, its    *)
(* group does take in strangers.)                                          *)
GroupsAreBuses ==
  /\ TseTypeOK
  /\ \A g \in DOMAIN pmac_groups :
       LET G == ToSet(pmac_groups[g])
       IN /\ \A h \in DOMAIN pmac_groups \ {g} :
               G \cap ToSet(pmac_groups[h]) = {}
          /\ ~short => \A d \in G, e \in Defined : e \in G <=> SameBus(d, e)

(* A PHY goes to one MAC; a MAC that names an address gets no other PHY;   *)
(* and a profile of the application takes precedence over the default one. *)
(* When the scan is over, a PHY without a MAC and a MAC without a PHY that *)
(* would take any are not in the same group.                               *)
OnePhyEach ==
  /\ \A g \in DOMAIN pmac_groups : \A d, e \in ToSet(pmac_groups[g]) :
       phyOf[d] = phyOf[e] /\ phyOf[d] # NoPhy => d = e
  /\ \A d \in Defined : tse_mac_device[d].named # AutoAddress
                        => phyOf[d] \in {NoPhy, tse_mac_device[d].named}
  /\ \A d \in Defined : profileOf[d] = "default" =>
       ~\E i \in DOMAIN pphy_profiles :
          pphy_profiles[i].own /\ pphy_profiles[i].model = "known"
  /\ phase = "ready" /\ ~short =>
       \A g \in DOMAIN pmac_groups :
         LET G == ToSet(pmac_groups[g])
             b == pmac_groups[g][1]
         IN tse_mac_device[b].mdio
              /\ (\E a \in Addresses : /\ bus[b][a] # "none"
                                       /\ \A d \in G : phyOf[d] # a)
            => \A d \in G : tse_mac_device[d].phy # AutoAddress
=============================================================================
