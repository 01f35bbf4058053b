---------------------------- MODULE MCWallClock ----------------------------
(* A word of 64, three ticks a second of ten units: a tick is three units, *)
(* and the product of settimeofday leaves the word after 21 ticks.         *)
EXTENDS WallClock

MCTimes == {Time(s, u) : s \in 0 .. 1, u \in {0, 7}}
=============================================================================
