----------------------------- MODULE AlarmClock -----------------------------
(***************************************************************************)
(* The alarm facility of the system clock: alt_tick.c, alt_alarm_start.c,  *)
(* alt_alarm.h and the system clock half of the interval timer driver.     *)
(*                                                                         *)
(* The tick count and the times of the alarms are unsigned words that      *)
(* wrap; a flag tells that an alarm's time lies beyond the next wrap.  A   *)
(* tick walks the list of the alarms with the next one read before the     *)
(* callback of the current one is made.  The list is kept as the set of    *)
(* its elements and, during a tick, the set of those the walk has still to *)
(* reach: an alarm goes in at the head, so a callback's is not among them. *)
(*                                                                         *)
(* The program's calls run with interrupts disabled, a tick is a sequence  *)
(* of steps that only its callbacks come between.  An alarm is started     *)
(* only while it is not registered (a second entry would tie the list into *)
(* a knot), and a callback does not stop the alarm that is next in the     *)
(* list: the element taken out points to itself, and the walk, which       *)
(* stands on it, would never end.  Nor does it stop its own alarm; to      *)
(* return 0 does the same.                                                 *)
(***************************************************************************)
EXTENDS Integers

CONSTANTS Alarms,     \* the alarm structures of the program
          NoAlarm,    \* the head of the list
          TickWords,  \* 2^32: the tick count wraps here
          Delays      \* what alarms are started with and callbacks return

ASSUME AlarmAssumption ==
  /\ NoAlarm \notin Alarms
  /\ TickWords \in Nat /\ TickWords > 2 /\ Delays \subseteq 1 .. TickWords - 2

VARIABLES nticks,     \* _alt_nticks
          time,       \* time of each alarm
          rollover,   \* rollover of each alarm
          registered, \* the elements of alt_alarm_list
          cursor,     \* alt_tick: the alarm to look at
          ahead,      \*   and those after it
          ticking     \* the timer's interrupt handler is running

alarmVars == <<nticks, time, rollover, registered, cursor, ahead, ticking>>

Ticks == 0 .. TickWords - 1
Later(t, n) == IF t + n < TickWords THEN t + n ELSE t + n - TickWords

AlarmTypeOK ==
  /\ nticks \in Ticks /\ time \in [Alarms -> Ticks]
  /\ rollover \in [Alarms -> BOOLEAN]
  /\ registered \in SUBSET Alarms /\ ahead \in SUBSET registered
  /\ cursor \in registered \cup {NoAlarm} /\ ticking \in BOOLEAN

AlarmInit ==
  /\ nticks = 0
  /\ time = [a \in Alarms |-> 0] /\ rollover = [a \in Alarms |-> FALSE]
  /\ registered = {} /\ cursor = NoAlarm /\ ahead = {} /\ ticking = FALSE

-----------------------------------------------------------------------------
(* alt_alarm_start and alt_alarm_stop, called by the program: an alarm's   *)
(* time counts from the tick after this one.                               *)
TimeToStart(n) == Later(nticks, n + 1)

AlarmStart(a) ==
  /\ ~ticking /\ a \notin registered
  /\ \E n \in Delays \cup {0} :
       /\ time' = [time EXCEPT ![a] = TimeToStart(n)]
       /\ rollover' = [rollover EXCEPT ![a] = TimeToStart(n) < nticks]
  /\ registered' = registered \cup {a}
  /\ UNCHANGED <<nticks, cursor, ahead, ticking>>

AlarmStop(a) ==
  /\ ~ticking /\ registered' = registered \ {a}
  /\ UNCHANGED <<nticks, time, rollover, cursor, ahead, ticking>>

-----------------------------------------------------------------------------
(* alt_avalon_timer_sc_irq and alt_tick.                                   *)

(* The walk goes on with one of the alarms left, as long as there are any. *)
GoOn(next, left) ==
  /\ IF left = {} THEN next = NoAlarm ELSE next \in left
  /\ cursor' = next /\ ahead' = left \ {next}

TickBegin ==
  /\ ~ticking
  /\ nticks' = Later(nticks, 1)
  /\ \E next \in Alarms \cup {NoAlarm} : GoOn(next, registered)
  /\ ticking' = TRUE
  /\ UNCHANGED <<time, rollover, registered>>

(* The flag is cleared when the count has wrapped.                         *)
RolloverKept == rollover[cursor]
RolloverCleared == rollover[cursor] /\ nticks # 0
RollsOver == RolloverCleared
Expired == time[cursor] <= nticks /\ ~RollsOver

TickSkip ==
  /\ cursor # NoAlarm /\ ~Expired
  /\ rollover' = [rollover EXCEPT ![cursor] = RollsOver]
  /\ \E next \in Alarms \cup {NoAlarm} : GoOn(next, ahead)
  /\ UNCHANGED <<nticks, time, registered, ticking>>

(* The callback returns the ticks to its next call, or 0 to take its alarm *)
(* out of the list.                                                        *)
Returns(n) ==
  LET again == Later(time[cursor], n)
  IN /\ time' = [time EXCEPT ![cursor] = IF n = 0 THEN @ ELSE again]
     /\ rollover' = [rollover EXCEPT ![cursor] = n # 0 /\ again < nticks]
     /\ registered' = IF n = 0 THEN registered \ {cursor} ELSE registered

TickCallback ==
  /\ cursor # NoAlarm /\ Expired
  /\ \E n \in Delays \cup {0} : Returns(n)
  /\ \E next \in Alarms \cup {NoAlarm} : GoOn(next, ahead)
  /\ UNCHANGED <<nticks, ticking>>

(* A callback that starts an alarm, or stops one, first: not the one that  *)
(* is read as next, nor its own.                                           *)
TickStarts(a) ==
  /\ cursor # NoAlarm /\ Expired /\ a \notin registered
  /\ \E n \in Delays \cup {0} :
       /\ time' = [time EXCEPT ![a] = TimeToStart(n)]
       /\ rollover' = [rollover EXCEPT ![a] = TimeToStart(n) < nticks]
  /\ registered' = registered \cup {a}
  /\ UNCHANGED <<nticks, cursor, ahead, ticking>>

TickStops(a) ==
  /\ cursor # NoAlarm /\ Expired /\ a # cursor
  /\ a \in ahead => ahead # {a}
  /\ registered' = registered \ {a} /\ ahead' = ahead \ {a}
  /\ UNCHANGED <<nticks, time, rollover, cursor, ticking>>

TickEnd ==
  /\ ticking /\ cursor = NoAlarm /\ ticking' = FALSE
  /\ UNCHANGED <<nticks, time, rollover, registered, cursor, ahead>>

AlarmNext ==
  \/ \E a \in Alarms : AlarmStart(a) \/ AlarmStop(a) \/ TickStarts(a) \/ TickStops(a)
  \/ TickBegin \/ TickSkip \/ TickCallback \/ TickEnd

AlarmSpec == AlarmInit /\ [][AlarmNext]_alarmVars

-----------------------------------------------------------------------------
(* The ticks left to an alarm, by the count and its time alone.            *)
Left(a) ==
  IF a \notin registered THEN -1
  ELSE IF time[a] >= nticks THEN time[a] - nticks
  ELSE time[a] + TickWords - nticks

Abstract == INSTANCE Countdown
  WITH Longest <- TickWords - 1, left <- [a \in Alarms |-> Left(a)]

(* Every callback is made on its tick: the alarm facility implements the   *)
(* countdown, across the wrap of the tick count, while callbacks start     *)
(* alarms and stop others than the one the walk has read as next           *)
(* (alt_tick.c:100-141, alt_alarm_start.c:82-98).                          *)
IsCountdown == Abstract!CountdownSpec
=============================================================================
