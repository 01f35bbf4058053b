------------------------------ MODULE MacRegs ------------------------------
(***************************************************************************)
(* The registers of the Ethernet MAC and of its PHYs: where they are       *)
(* (altera_eth_tse_regs.h, three times over: as byte offsets, as struct    *)
(* np_tse_mac, and as the word offsets tcp_socket.c uses), which bits the  *)
(* driver gives a meaning, and how it changes some bits and keeps the      *)
(* rest (altera_avalon_tse.c).                                             *)
(*                                                                         *)
(* A register is the set of its bits that are 1: of COMMAND_CONFIG by      *)
(* their names, of an MDIO register by their numbers.                      *)
(***************************************************************************)
EXTENDS Integers, Sequences

(* struct np_tse_mac, word by word.                                        *)
Block(name, n) == [i \in 1 .. n |-> name]
np_tse_mac ==
  <<"REV", "SCRATCH", "COMMAND_CONFIG", "MAC_0", "MAC_1", "FRM_LENGTH",
    "PAUSE_QUANT", "RX_SECTION_EMPTY", "RX_SECTION_FULL", "TX_SECTION_EMPTY",
    "TX_SECTION_FULL", "RX_ALMOST_EMPTY", "RX_ALMOST_FULL", "TX_ALMOST_EMPTY",
    "TX_ALMOST_FULL", "MDIO_ADDR0", "MDIO_ADDR1">>
  \o Block("reserved", 5) \o <<"REG_STAT", "TX_IPG_LENGTH">>
  \o Block("statistics", 33) \o Block("reserved", 1)
  \o <<"TX_CMD_STAT", "RX_CMD_STAT">> \o Block("statistics", 3)
  \o Block("reserved", 1) \o Block("hashtable", 64)
  \o Block("mdio0", 32) \o Block("mdio1", 32)
  \o Block("smac", 8) \o Block("reserved", 56)

(* The register at a word offset from the base, as in *(tse + 0x02).       *)
Register(word) == np_tse_mac[word + 1]

(* The byte offsets of the IORD, IOWR and IOADDR macros.                   *)
Offset ==
  [REV |-> \h0, SCRATCH |-> \h4, COMMAND_CONFIG |-> \h8, MAC_0 |-> \hC,
   MAC_1 |-> \h10, FRM_LENGTH |-> \h14, PAUSE_QUANT |-> \h18,
   RX_SECTION_EMPTY |-> \h1C, RX_SECTION_FULL |-> \h20,
   TX_SECTION_EMPTY |-> \h24, TX_SECTION_FULL |-> \h28,
   RX_ALMOST_EMPTY |-> \h2C, RX_ALMOST_FULL |-> \h30,
   TX_ALMOST_EMPTY |-> \h34, TX_ALMOST_FULL |-> \h38,
   MDIO_ADDR0 |-> \h3C, MDIO_ADDR1 |-> \h40, REG_STAT |-> \h58,
   TX_IPG_LENGTH |-> \h5C, TX_CMD_STAT |-> \hE8, RX_CMD_STAT |-> \hEC]
Statistics == {\h60 + 4 * i : i \in 0 .. 32}
Hash(i) == \h100 + 4 * i
Mdio(port, reg_num) == \h200 + port * \h80 + reg_num * 4
Smac(i) == \h300 + 4 * i

(* The struct and the macros name the same registers.                      *)
ASSUME OffsetsAgree ==
  /\ \A r \in DOMAIN Offset : Offset[r] % 4 = 0 /\ Register(Offset[r] \div 4) = r
  /\ \A a \in Statistics : Register(a \div 4) = "statistics"
  /\ \A i \in 0 .. 63 : Register(Hash(i) \div 4) = "hashtable"
  /\ \A r \in 0 .. 31 : /\ Register(Mdio(0, r) \div 4) = "mdio0"
                        /\ Register(Mdio(1, r) \div 4) = "mdio1"
  /\ \A i \in 0 .. 7 : Register(Smac(i) \div 4) = "smac"

-----------------------------------------------------------------------------
(* COMMAND_CONFIG; the address select and CNT_RESET, which nothing here     *)
(* touches, are left out.                                                  *)
Bit ==
  [TX_ENA |-> 0, RX_ENA |-> 1, XON_GEN |-> 2, ETH_SPEED |-> 3, PROMIS_EN |-> 4,
   PAD_EN |-> 5, CRC_FWD |-> 6, PAUSE_FWD |-> 7, PAUSE_IGNORE |-> 8,
   TX_ADDR_INS |-> 9, HD_ENA |-> 10, EXCESS_COL |-> 11, LATE_COL |-> 12,
   SW_RESET |-> 13, MHASH_SEL |-> 14, LOOPBACK |-> 15, MAGIC_ENA |-> 19,
   SLEEP |-> 20, WAKEUP |-> 21, XOFF_GEN |-> 22, CNTL_FRM_ENA |-> 23,
   NO_LENGTH_CHECK |-> 24, ENA_10 |-> 25, RX_ERR_DISC |-> 26]
Bits(word) == {b \in DOMAIN Bit : (word \div 2 ^ Bit[b]) % 2 = 1}

Speed1000 == 2
Speed100 == 1
Speed10 == 0

(* alt_tse_mac_set_speed: a speed that is none changes nothing.            *)
SetSpeed(command, speed) ==
  CASE speed = Speed1000 -> (command \cup {"ETH_SPEED"}) \ {"ENA_10"}
    [] speed = Speed100 -> command \ {"ETH_SPEED", "ENA_10"}
    [] speed = Speed10 -> (command \ {"ETH_SPEED"}) \cup {"ENA_10"}
    [] OTHER -> command

(* alt_tse_mac_set_duplex: 1 is full, 0 is half.                           *)
SetDuplex(command, duplex) ==
  CASE duplex = 0 -> command \cup {"HD_ENA"}
    [] duplex = 1 -> command \ {"HD_ENA"}
    [] OTHER -> command

(* tse_mac_setGMIImode and tse_mac_setMIImode touch ETH_SPEED only, so MII *)
(* is 10 or 100 Mbps as ENA_10 was left.                                   *)
SetGmii(command) == command \cup {"ETH_SPEED"}
SetMii(command) == command \ {"ETH_SPEED"}

(* The speed the MAC works at: ENA_10 counts only without ETH_SPEED.       *)
SpeedOf(command) ==
  IF "ETH_SPEED" \in command THEN Speed1000
  ELSE IF "ENA_10" \in command THEN Speed10 ELSE Speed100

-----------------------------------------------------------------------------
(* Fields of MDIO registers.                                               *)
Word == 0 .. 15
Field(lsb, length) == {b \in Word : lsb <= b /\ b < lsb + length}

(* alt_tse_phy_wr_mdio_reg and alt_tse_phy_rd_mdio_reg.                    *)
WriteField(reg, lsb, length, data) ==
  (reg \ Field(lsb, length)) \cup {b \in Field(lsb, length) : b - lsb \in data}
ReadField(reg, lsb, length) ==
  {b \in Word : b < length /\ b + lsb \in reg}

-----------------------------------------------------------------------------
(* The MDIO registers and the bits the driver uses, under the names of     *)
(* altera_avalon_tse.h; mdio is the whole register file of a PHY.          *)
CONTROL == 0
STATUS == 1
ADV == 4
REMADV == 5
T_CTRL == 9       \* 1000BASE-T control
T_STATUS == 10    \* 1000BASE-T status
EXT_STATUS == 15

ControlBit == [RESET |-> 15, LOOPBACK |-> 14, SPEED_LSB |-> 13, AN_ENA |-> 12,
               POWER_DOWN |-> 11, ISOLATE |-> 10, RESTART_AN |-> 9,
               DUPLEX |-> 8, SPEED_MSB |-> 6]
StatusBit == [T4_100 |-> 15, X_FULL_100 |-> 14, X_HALF_100 |-> 13,
              T_FULL_10 |-> 12, T_HALF_10 |-> 11, T2_FULL_100 |-> 10,
              T2_HALF_100 |-> 9, EXT_STATUS |-> 8, AN_COMPLETE |-> 5,
              AN_ABILITY |-> 3, LINK_STATUS |-> 2]
AdvBit == [T4_100 |-> 9, X_FULL_100 |-> 8, X_HALF_100 |-> 7, T_FULL_10 |-> 6,
           T_HALF_10 |-> 5]
TCtrlBit == [T_FULL_1000 |-> 9, T_HALF_1000 |-> 8]
TStatusBit == [T_FULL_1000 |-> 11, T_HALF_1000 |-> 10]
ExtStatusBit == [X_FULL_1000 |-> 15, X_HALF_1000 |-> 14, T_FULL_1000 |-> 13,
                 T_HALF_1000 |-> 12]

(* The same bits as altera_eth_tse_regs.h names them for the MAC's own PCS. *)
PcsControlBit == [speed1 |-> 6, speed0 |-> 13, fullduplex |-> 8,
                  an_restart |-> 9, isolate |-> 10, powerdown |-> 11,
                  an_enable |-> 12, rx_slpbk |-> 14, sw_reset |-> 15]
PcsStatusBit == [has_extcap |-> 0, rx_sync |-> 2, an_ability |-> 3,
                 rem_fault |-> 4, an_done |-> 5]

sw_reset == PcsControlBit.sw_reset
an_done == PcsStatusBit.an_done

(* The PCS is read with the bit numbers of a PHY: they have to be the same *)
(* ones, each bit with a name of its own.                                  *)
Numbers(bit) == {bit[name] : name \in DOMAIN bit}
ASSUME PcsIsPhy ==
  /\ Numbers(PcsControlBit) = Numbers(ControlBit)
  /\ PcsControlBit.an_restart = ControlBit.RESTART_AN
  /\ sw_reset = ControlBit.RESET /\ an_done = StatusBit.AN_COMPLETE
  /\ PcsStatusBit.an_ability = StatusBit.AN_ABILITY
  /\ PcsStatusBit.rx_sync = StatusBit.LINK_STATUS
  /\ \A bit \in {ControlBit, StatusBit, AdvBit, TCtrlBit, TStatusBit, ExtStatusBit} :
       \A m, n \in DOMAIN bit : bit[m] = bit[n] => m = n

(* What alt_tse_phy_get_cap finds: what the PHY and its partner can do.    *)
Ones(reg, bit) == {name \in DOMAIN bit : bit[name] \in reg}
CapOf(mdio) ==
  Ones(mdio[EXT_STATUS], ExtStatusBit)
    \cup (Ones(mdio[STATUS], StatusBit)
           \ {"EXT_STATUS", "AN_COMPLETE", "AN_ABILITY", "LINK_STATUS"})
PartnerOf(mdio) == Ones(mdio[T_STATUS], TStatusBit) \cup Ones(mdio[REMADV], AdvBit)

(* alt_tse_phy_set_adv_1000, _100 and _10: one speed is advertised as far  *)
(* as the PHY has it, or not at all.                                       *)
Copied(reg, bit, names, from) ==
  (reg \ {bit[n] : n \in names}) \cup {bit[n] : n \in names \cap from}
Mbps1000 == DOMAIN TCtrlBit
Mbps100 == {"T4_100", "X_FULL_100", "X_HALF_100"}
Mbps10 == {"T_FULL_10", "T_HALF_10"}
If(enable, names) == IF enable THEN names ELSE {}
SetAdv1000(mdio, enable) ==
  [mdio EXCEPT ![T_CTRL] = Copied(@, TCtrlBit, Mbps1000, If(enable, CapOf(mdio)))]
SetAdv100(mdio, enable) ==
  [mdio EXCEPT ![ADV] = Copied(@, AdvBit, Mbps100, If(enable, CapOf(mdio)))]
SetAdv10(mdio, enable) ==
  [mdio EXCEPT ![ADV] = Copied(@, AdvBit, Mbps10, If(enable, CapOf(mdio)))]

Advertised(mdio) == Ones(mdio[T_CTRL], TCtrlBit) \cup Ones(mdio[ADV], AdvBit)

-----------------------------------------------------------------------------
(* Which PHY it is: the OUI, model and revision in its two ID registers.   *)
PhyId(oui, model, rev) == [oui |-> oui, model |-> model, rev |-> rev]
IdOf(id1, id2) ==
  PhyId((id1 * 64) + ((id2 \div 1024) % 64), (id2 \div 16) % 64, id2 % 16)
MV88E1111 == PhyId(\h005043, \h0c, 2)
MV88E1145 == PhyId(\h005043, \h0d, 2)
DP83865 == PhyId(\h080017, \h07, 10)
DP83848C == PhyId(\h080017, \h09, 0)
PEF7071 == IdOf(\hd565, \ha401)

(* The identifiers kept for old programs, as the two register values; the  *)
(* first Marvell's is the first register alone.                            *)
NTL848PHY_ID == <<\h2000, \h5c90>>
NTLPHY_ID == <<\h2000, \h5c7a>>
MVLPHY_ID == \h0141

(* alt_tse_mac_get_phy takes an address for one with a PHY when its ID     *)
(* registers differ.                                                       *)
Found(id1, id2) == id1 # id2

(* Old and new identifiers mean the same PHYs; no two profiles match the   *)
(* same PHY (the driver compares OUI and model only); and every PHY with a *)
(* profile is found on the bus, whatever its revision.                     *)
ASSUME IdsAgree ==
  /\ IdOf(NTL848PHY_ID[1], NTL848PHY_ID[2]) = DP83848C
  /\ IdOf(NTLPHY_ID[1], NTLPHY_ID[2]) = DP83865
  /\ MV88E1111.oui \div 64 = MVLPHY_ID
  /\ LET known == {MV88E1111, MV88E1145, DP83865, DP83848C, PEF7071}
     IN /\ \A p, q \in known : p.oui = q.oui /\ p.model = q.model => p = q
        /\ \A p \in known, rev \in Word :
             LET id1 == p.oui \div 64
                 id2 == ((p.oui % 64) * 1024) + (p.model * 16) + rev
             IN /\ Found(id1, id2)
                /\ IdOf(id1, id2) = PhyId(p.oui, p.model, rev)

-----------------------------------------------------------------------------
(* Configuration of particular PHYs.                                       *)

Reset(mdio) == [mdio EXCEPT ![CONTROL] = @ \cup {sw_reset}]

(* marvell_phy_cfg: auto crossover, where there is no link yet.            *)
MarvellPhyCfg(mdio) ==
  IF an_done \in mdio[STATUS] THEN mdio
  ELSE Reset([mdio EXCEPT ![16] = {3, 4, 5, 6}])

(* marvell_cfg_gmii, _sgmii and _rgmii: the mode, RGMII's timing control,  *)
(* and the reset that lets the PHY take them.                              *)
ModeBits == 0 .. 3
Timing == {1, 7}
MarvellCfg(mdio, mode, timing) ==
  Reset([mdio EXCEPT ![27] = (@ \ ModeBits) \cup mode,
                     ![20] = (@ \ Timing) \cup timing])
MarvellCfgGmii(mdio) == MarvellCfg(mdio, {0, 1, 2, 3}, {})
MarvellCfgSgmii(mdio) == MarvellCfg(mdio, {2}, {})
MarvellCfgRgmii(mdio) == MarvellCfg(mdio, {0, 1, 3}, Timing)

Pef7071Config(mdio) == [mdio EXCEPT ![20] = (@ \ {14, 15}) \cup {8}]

(* The link as getPHYSpeed reports it.                                     *)
Link(speeds, full) == [speeds |-> speeds, full |-> full]
Dp83848LinkStatus(mdio) ==
  Link(IF 1 \in mdio[16] THEN {Speed10} ELSE {Speed100}, 2 \in mdio[16])
Pef7071LinkStatus(mdio) ==
  Link({s \in {Speed10, Speed100, Speed1000} :
          s = (IF 0 \in mdio[24] THEN 1 ELSE 0) + (IF 1 \in mdio[24] THEN 2 ELSE 0)},
       3 \in mdio[24])

(* alt_tse_phy_cfg_pcs: IF_MODE of the MAC's own PCS, in SGMII or not.     *)
CfgPcs(if_mode, ena, sgmii) ==
  IF ~ena THEN if_mode
  ELSE IF sgmii THEN if_mode \cup {0, 1} ELSE if_mode \ {0, 1}
=============================================================================
