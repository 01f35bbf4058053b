----------------------------- MODULE WallClock -----------------------------
(***************************************************************************)
(* The time of day the HAL derives from the system clock: settimeofday     *)
(* keeps, in alt_resettime, the difference between the time it is given    *)
(* and the time the ticks make; gettimeofday adds it again.                *)
(*                                                                         *)
(* The tick count is a word that wraps.  A tick is Us \div Rate            *)
(* microseconds, cut to an integer, as in the code.                        *)
(***************************************************************************)
EXTENDS Integers

CONSTANTS Words,    \* 2^32
          Us,       \* ALT_US: a million
          Rate,     \* ticks per second: 33333 on this board
          Times     \* what settimeofday is given

VARIABLES nticks,         \* _alt_nticks
          _alt_tick_rate, \* 0 until the system clock is initialized
          alt_resettime,
          lastSet         \* the time set last, and the tick it was set at

clockVars == <<nticks, _alt_tick_rate, alt_resettime, lastSet>>

Time(sec, usec) == [tv_sec |-> sec, tv_usec |-> usec]

ClockInit ==
  /\ nticks = 0 /\ _alt_tick_rate = 0 /\ alt_resettime = Time(0, 0) /\ lastSet = {}

(* alt_sysclk_init, and a tick; before it there are none.                  *)
SysclkInit ==
  /\ _alt_tick_rate = 0 /\ _alt_tick_rate' = Rate
  /\ UNCHANGED <<nticks, alt_resettime, lastSet>>

ClockTick ==
  /\ _alt_tick_rate # 0 /\ nticks' = (nticks + 1) % Words
  /\ UNCHANGED <<_alt_tick_rate, alt_resettime, lastSet>>

(* settimeofday computes the microseconds in 32 bits.                      *)
MicrosWhenSet == ((nticks * (Us \div _alt_tick_rate)) % Words) % Us

SetTimeOfDay(t) ==
  /\ _alt_tick_rate # 0
  /\ alt_resettime' = Time(t.tv_sec - nticks \div _alt_tick_rate,
                           t.tv_usec - MicrosWhenSet)
  /\ lastSet' = {[time |-> t, tick |-> nticks]}
  /\ UNCHANGED <<nticks, _alt_tick_rate>>

(* gettimeofday computes them in 64, and brings them into range: one       *)
(* second borrowed or carried is enough.                                   *)
MicrosWhenGot == (nticks * (Us \div _alt_tick_rate)) % Us

InRange(t) ==
  IF t.tv_usec < 0
  THEN IF t.tv_sec <= 0 THEN Time(0, 0) ELSE Time(t.tv_sec - 1, t.tv_usec + Us)
  ELSE IF t.tv_usec >= Us THEN Time(t.tv_sec + 1, t.tv_usec - Us) ELSE t

GetTimeOfDay ==
  InRange(Time(alt_resettime.tv_sec + nticks \div _alt_tick_rate,
               alt_resettime.tv_usec + MicrosWhenGot))

ClockNext == SysclkInit \/ ClockTick \/ \E t \in Times : SetTimeOfDay(t)
ClockSpec == ClockInit /\ [][ClockNext]_clockVars

-----------------------------------------------------------------------------
(* An immediate call to gettimeofday returns the time that has been set    *)
(* (alt_settod.c:61-63).                                                   *)
SetThenGet ==
  \A s \in lastSet : s.tick = nticks => GetTimeOfDay = s.time
=============================================================================
