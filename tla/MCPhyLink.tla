----------------------------- MODULE MCPhyLink -----------------------------
(* Two MACs.  The setups bring together PHYs of different abilities and    *)
(* profiles, MACs of every type, a MAC without a PHY and a PHY that cannot *)
(* negotiate.                                                              *)
EXTENDS PhyLink, TLC

Gigabit == [an |-> TRUE, speeds |-> {0, 1, 2}, profile |-> "registers"]
Fast == [an |-> TRUE, speeds |-> {0, 1}, profile |-> "registers"]
ByFunction == [an |-> TRUE, speeds |-> {0, 1}, profile |-> "function"]
Unknown == [an |-> TRUE, speeds |-> {0, 1}, profile |-> "none"]
Fixed == [an |-> FALSE, speeds |-> {0, 1, 2}, profile |-> "registers"]

MCAddresses == {0, 1}
Setup(of, types, k0, k1, p0, p1) ==
  [phyOf |-> of, macType |-> types, kind |-> (0 :> k0 @@ 1 :> k1),
   partner |-> (0 :> p0 @@ 1 :> p1)]
MCSetups ==
  {Setup(<<1, 0>>, <<"full", "10_100">>, Gigabit, Gigabit, {0, 1, 2}, {0, 1}),
   Setup(<<1, 0>>, <<"full", "1000">>, Gigabit, Fast, {0, 1, 2}, {0, 1}),
   Setup(<<0, NoPhy>>, <<"full", "full">>, Unknown, Fast, {0, 1}, {0, 1}),
   Setup(<<1, 0>>, <<"10_100", "full">>, ByFunction, Fixed, {0, 1}, {0, 1, 2})}
=============================================================================
