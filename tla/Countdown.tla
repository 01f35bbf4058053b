----------------------------- MODULE Countdown -----------------------------
(***************************************************************************)
(* What the alarm facility promises: an alarm set to n ticks runs its      *)
(* callback on the n-th tick from then and on no other, and the next tick  *)
(* comes only when every callback that was due has been made.              *)
(***************************************************************************)
EXTENDS Integers

CONSTANTS Alarms, Longest   \* the alarms; the longest time one can be set to

VARIABLE left   \* ticks left to each alarm, -1 for one that is not set

Settings == {-1} \cup 1 .. Longest

CountdownInit == left = [a \in Alarms |-> -1]

Elapse ==
  /\ \A a \in Alarms : left[a] # 0
  /\ left' = [a \in Alarms |-> IF left[a] = -1 THEN -1 ELSE left[a] - 1]

(* The program, or a callback, sets an alarm or stops it.                  *)
Set(a) ==
  /\ left[a] = -1
  /\ \E n \in Settings : left' = [left EXCEPT ![a] = n]
Stop(a) == left' = [left EXCEPT ![a] = -1]

(* The callback of an alarm that is due says when it is due again.         *)
Fire(a) ==
  /\ left[a] = 0
  /\ \E n \in Settings : left' = [left EXCEPT ![a] = n]

CountdownNext == Elapse \/ \E a \in Alarms : Set(a) \/ Stop(a) \/ Fire(a)

CountdownSpec == CountdownInit /\ [][CountdownNext]_left
=============================================================================
