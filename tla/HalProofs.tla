----------------------------- MODULE HalProofs ------------------------------
(* Proofs about the hardware abstraction layer: the alarms of the system   *)
(* clock, the interrupt layer, the file layer, the console's driver and    *)
(* the display's.                                                          *)
EXTENDS AlarmClock, Interrupts, Files, JtagUart, Lcd, Inductions

(* The alarm facility implements the countdown, for every word width.      *)

Unseen == ahead \cup ({cursor} \ {NoAlarm})

(* What the flag of a registered alarm means, before and after the walk of *)
(* a tick has reached it.                                                  *)
FlagOf(a) ==
  IF a \notin Unseen THEN time[a] # nticks /\ (rollover[a] <=> time[a] < nticks)
  ELSE IF nticks = 0 THEN rollover[a]
  ELSE rollover[a] <=> time[a] < nticks

AlarmInv ==
  /\ AlarmTypeOK
  /\ cursor \notin ahead
  /\ cursor = NoAlarm => ahead = {}
  /\ ~ticking => cursor = NoAlarm
  /\ \A a \in registered : FlagOf(a)

LEMMA LaterType == ASSUME NEW t \in Ticks, NEW n \in 0 .. TickWords - 1
                   PROVE Later(t, n) \in Ticks
  BY AlarmAssumption DEF Later, Ticks

LEMMA AlarmInvInit == AlarmInit => AlarmInv
<1> SUFFICES ASSUME AlarmInit PROVE AlarmInv
  OBVIOUS
<1>1. 0 \in Ticks
  BY AlarmAssumption DEF Ticks
<1>2. AlarmTypeOK
  BY <1>1 DEF AlarmInit, AlarmTypeOK
<1> QED BY <1>2 DEF AlarmInit, AlarmInv

LEMMA GoOnKeeps ==
  ASSUME NEW next, NEW left \in SUBSET Alarms, GoOn(next, left)
  PROVE /\ cursor' \in left \cup {NoAlarm} /\ ahead' \subseteq left
        /\ cursor' \notin ahead' /\ (cursor' = NoAlarm => ahead' = {})
        /\ Unseen' = left
  BY AlarmAssumption DEF GoOn, Unseen

LEMMA AlarmInvNext == AlarmInv /\ [AlarmNext]_alarmVars => AlarmInv'
<1> SUFFICES ASSUME AlarmInv, [AlarmNext]_alarmVars PROVE AlarmInv'
  OBVIOUS
<1> USE AlarmAssumption
<1>0. /\ AlarmTypeOK /\ cursor \notin ahead /\ (cursor = NoAlarm => ahead = {})
      /\ (~ticking => cursor = NoAlarm) /\ \A a \in registered : FlagOf(a)
  BY DEF AlarmInv
<1>1. ASSUME NEW a \in Alarms, AlarmStart(a) PROVE AlarmInv'
  <2>1. PICK n \in Delays \cup {0} :
          /\ time' = [time EXCEPT ![a] = TimeToStart(n)]
          /\ rollover' = [rollover EXCEPT ![a] = TimeToStart(n) < nticks]
    BY <1>1 DEF AlarmStart
  <2>2. TimeToStart(n) \in Ticks /\ TimeToStart(n) # nticks
    BY <1>0 DEF AlarmTypeOK, TimeToStart, Later, Ticks
  <2>3. AlarmTypeOK'
    BY <1>0, <1>1, <2>1, <2>2 DEF AlarmTypeOK, AlarmStart
  <2>4. ASSUME NEW b \in registered' PROVE FlagOf(b)'
    <3>1. CASE b = a
      BY <1>0, <1>1, <2>1, <2>2, <3>1 DEF AlarmTypeOK, AlarmStart, FlagOf, Unseen
    <3>2. CASE b # a
      BY <1>0, <1>1, <2>1, <3>2 DEF AlarmTypeOK, AlarmStart, FlagOf, Unseen
    <3> QED BY <3>1, <3>2
  <2> QED BY <1>0, <1>1, <2>3, <2>4 DEF AlarmInv, AlarmStart
<1>2. ASSUME NEW a \in Alarms, AlarmStop(a) PROVE AlarmInv'
  BY <1>0, <1>2 DEF AlarmInv, AlarmTypeOK, FlagOf, Unseen, AlarmStop
<1>3. ASSUME NEW a \in Alarms, TickStarts(a) PROVE AlarmInv'
  <2>1. PICK n \in Delays \cup {0} :
          /\ time' = [time EXCEPT ![a] = TimeToStart(n)]
          /\ rollover' = [rollover EXCEPT ![a] = TimeToStart(n) < nticks]
    BY <1>3 DEF TickStarts
  <2>2. TimeToStart(n) \in Ticks /\ TimeToStart(n) # nticks
    BY <1>0 DEF AlarmTypeOK, TimeToStart, Later, Ticks
  <2>3. AlarmTypeOK'
    BY <1>0, <1>3, <2>1, <2>2 DEF AlarmTypeOK, TickStarts
  <2>4. ASSUME NEW b \in registered' PROVE FlagOf(b)'
    <3>1. CASE b = a
      BY <1>0, <1>3, <2>1, <2>2, <3>1 DEF AlarmTypeOK, TickStarts, FlagOf, Unseen
    <3>2. CASE b # a
      BY <1>0, <1>3, <2>1, <3>2 DEF AlarmTypeOK, TickStarts, FlagOf, Unseen
    <3> QED BY <3>1, <3>2
  <2> QED BY <1>0, <1>3, <2>3, <2>4 DEF AlarmInv, TickStarts
<1>4. ASSUME NEW a \in Alarms, TickStops(a) PROVE AlarmInv'
  BY <1>0, <1>4 DEF AlarmInv, AlarmTypeOK, FlagOf, Unseen, TickStops
<1>5. CASE TickBegin
  <2>1. PICK next \in Alarms \cup {NoAlarm} : GoOn(next, registered)
    BY <1>5 DEF TickBegin
  <2>2. /\ cursor' \in registered \cup {NoAlarm} /\ ahead' \subseteq registered
        /\ cursor' \notin ahead' /\ (cursor' = NoAlarm => ahead' = {})
        /\ Unseen' = registered
    BY <1>0, <2>1, GoOnKeeps DEF AlarmTypeOK
  <2>3. ASSUME NEW a \in registered' PROVE FlagOf(a)'
    BY <1>0, <1>5, <2>2, <2>3 DEF AlarmTypeOK, FlagOf, Unseen, TickBegin, Later, Ticks
  <2> QED BY <1>0, <1>5, <2>2, <2>3 DEF AlarmInv, AlarmTypeOK, TickBegin, Later, Ticks
<1>6. CASE TickSkip
  <2>1. PICK next \in Alarms \cup {NoAlarm} : GoOn(next, ahead)
    BY <1>6 DEF TickSkip
  <2>2. /\ cursor' \in ahead \cup {NoAlarm} /\ ahead' \subseteq ahead
        /\ cursor' \notin ahead' /\ (cursor' = NoAlarm => ahead' = {})
        /\ Unseen' = ahead
    BY <1>0, <2>1, GoOnKeeps DEF AlarmTypeOK
  <2>3. ASSUME NEW a \in registered' PROVE FlagOf(a)'
    <3>0. a \in registered /\ FlagOf(a) /\ nticks' = nticks /\ time' = time
      BY <1>0, <1>6, <2>3 DEF TickSkip
    <3>1. CASE a = cursor
      <4>1. a \in Unseen /\ a \notin Unseen'
        BY <1>0, <1>6, <2>2, <3>1 DEF Unseen, TickSkip
      <4>2. rollover'[a] <=> rollover[a] /\ nticks # 0
        BY <1>0, <1>6, <3>0, <3>1 DEF AlarmTypeOK, TickSkip, RollsOver, RolloverCleared
      <4>3. time[a] \in Ticks /\ nticks \in Ticks /\ rollover[a] \in BOOLEAN
        BY <1>0, <3>0 DEF AlarmTypeOK
      <4>4. ~(time[a] <= nticks /\ ~(rollover[a] /\ nticks # 0))
        BY <1>6, <3>1 DEF TickSkip, Expired, RollsOver, RolloverCleared
      <4>5. time[a] # nticks /\ (rollover'[a] <=> time[a] < nticks)
        BY <3>0, <4>1, <4>2, <4>3, <4>4 DEF FlagOf, Ticks
      <4> QED BY <3>0, <4>1, <4>5 DEF FlagOf
    <3>2. CASE a # cursor
      <4>1. rollover'[a] = rollover[a]
        BY <1>0, <1>6, <3>0, <3>2 DEF AlarmTypeOK, TickSkip
      <4>2. a \in Unseen <=> a \in Unseen'
        BY <1>0, <2>2, <3>2 DEF Unseen
      <4> QED BY <3>0, <4>1, <4>2 DEF FlagOf
    <3> QED BY <3>1, <3>2
  <2> QED BY <1>0, <1>6, <2>2, <2>3 DEF AlarmInv, AlarmTypeOK, TickSkip, RollsOver, RolloverCleared
<1>7. CASE TickCallback
  <2>1. PICK next \in Alarms \cup {NoAlarm} : GoOn(next, ahead)
    BY <1>7 DEF TickCallback
  <2>2. /\ cursor' \in ahead \cup {NoAlarm} /\ ahead' \subseteq ahead
        /\ cursor' \notin ahead' /\ (cursor' = NoAlarm => ahead' = {})
        /\ Unseen' = ahead
    BY <1>0, <2>1, GoOnKeeps DEF AlarmTypeOK
  <2>3. PICK n \in Delays \cup {0} : Returns(n)
    BY <1>7 DEF TickCallback
  <2>4. ASSUME NEW a \in registered' PROVE FlagOf(a)'
    <3>0. a \in registered /\ FlagOf(a) /\ nticks' = nticks
      BY <1>0, <1>7, <2>3, <2>4 DEF TickCallback, Returns
    <3>1. CASE a = cursor
      <4>1. a \in Unseen /\ a \notin Unseen'
        BY <1>0, <1>7, <2>2, <3>1 DEF Unseen, TickCallback
      <4>2. n # 0
        BY <2>3, <2>4, <3>1 DEF Returns
      <4>3. time[a] \in Ticks /\ nticks \in Ticks /\ rollover[a] \in BOOLEAN
        BY <1>0, <3>0 DEF AlarmTypeOK
      <4>4. time[a] <= nticks /\ ~(rollover[a] /\ nticks # 0)
        BY <1>7, <3>1 DEF TickCallback, Expired, RollsOver, RolloverCleared
      <4>5. time[a] = nticks
        BY <3>0, <4>1, <4>3, <4>4 DEF FlagOf, Ticks
      <4>6. time'[a] = Later(time[a], n) /\ rollover'[a] = (time'[a] < nticks)
        BY <1>0, <2>3, <3>0, <3>1, <4>2 DEF AlarmTypeOK, Returns
      <4>7. time'[a] # nticks
        BY <4>2, <4>3, <4>5, <4>6 DEF Later, Ticks
      <4> QED BY <3>0, <4>1, <4>6, <4>7 DEF FlagOf
    <3>2. CASE a # cursor
      <4>1. rollover'[a] = rollover[a] /\ time'[a] = time[a]
        BY <1>0, <1>7, <2>3, <3>0, <3>2 DEF AlarmTypeOK, Returns
      <4>2. a \in Unseen <=> a \in Unseen'
        BY <1>0, <2>2, <3>2 DEF Unseen
      <4> QED BY <3>0, <4>1, <4>2 DEF FlagOf
    <3> QED BY <3>1, <3>2
  <2> QED BY <1>0, <1>7, <2>2, <2>3, <2>4 DEF AlarmInv, AlarmTypeOK, TickCallback, Returns, Later, Ticks
<1>8. CASE TickEnd
  BY <1>0, <1>8 DEF AlarmInv, AlarmTypeOK, FlagOf, Unseen, TickEnd
<1>9. CASE UNCHANGED alarmVars
  BY <1>0, <1>9 DEF AlarmInv, AlarmTypeOK, FlagOf, Unseen, alarmVars
<1> QED BY <1>1, <1>2, <1>3, <1>4, <1>5, <1>6, <1>7, <1>8, <1>9 DEF AlarmNext
-----------------------------------------------------------------------------
(* Each step is a step of the countdown or leaves what is left alone.      *)

Lefts == [a \in Alarms |-> Left(a)]

LEMMA NoneDue == ASSUME AlarmInv, ~ticking, NEW a \in Alarms PROVE Left(a) # 0
  BY AlarmAssumption DEF AlarmInv, AlarmTypeOK, FlagOf, Unseen, Left, Ticks

LEMMA DueIsExpired ==
  ASSUME AlarmInv, cursor # NoAlarm, Expired PROVE cursor \in Alarms /\ Left(cursor) = 0
  BY AlarmAssumption DEF AlarmInv, AlarmTypeOK, FlagOf, Unseen, Left, Ticks, Expired,
     RollsOver, RolloverCleared

LEMMA StartLeft ==
  ASSUME AlarmTypeOK, NEW n \in Delays \cup {0}, NEW t, t = TimeToStart(n)
  PROVE (IF t >= nticks THEN t - nticks ELSE t + TickWords - nticks) = n + 1
  BY AlarmAssumption DEF AlarmTypeOK, TimeToStart, Later, Ticks

LEMMA OneLeft ==
  ASSUME NEW a \in Alarms, \A b \in Alarms \ {a} : Left(b)' = Left(b)
  PROVE Lefts' = [Lefts EXCEPT ![a] = Left(a)']
  BY DEF Lefts

LEMMA AlarmStep ==
  AlarmInv /\ [AlarmNext]_alarmVars => [Abstract!CountdownNext]_Lefts
<1> SUFFICES ASSUME AlarmInv, [AlarmNext]_alarmVars
             PROVE Abstract!CountdownNext \/ UNCHANGED Lefts
  OBVIOUS
<1> USE AlarmAssumption
<1>0. AlarmTypeOK
  BY DEF AlarmInv
<1>1. ASSUME NEW a \in Alarms, AlarmStart(a) \/ TickStarts(a) PROVE Abstract!Set(a)
  <2>1. PICK n \in Delays \cup {0} : time' = [time EXCEPT ![a] = TimeToStart(n)]
    BY <1>1 DEF AlarmStart, TickStarts
  <2>2. a \notin registered /\ registered' = registered \cup {a} /\ nticks' = nticks
    BY <1>1 DEF AlarmStart, TickStarts
  <2>3. Left(a) = -1
    BY <2>2 DEF Left
  <2>4. Left(a)' = n + 1
    BY <1>0, <2>1, <2>2, StartLeft DEF Left, AlarmTypeOK
  <2>5. \A b \in Alarms \ {a} : Left(b)' = Left(b)
    BY <1>0, <2>1, <2>2 DEF Left, AlarmTypeOK
  <2>6. n + 1 \in Abstract!Settings
    BY DEF Abstract!Settings
  <2> QED BY <2>3, <2>4, <2>5, <2>6, OneLeft DEF Abstract!Set, Lefts
<1>2. ASSUME NEW a \in Alarms, AlarmStop(a) \/ TickStops(a) PROVE Abstract!Stop(a)
  <2>1. registered' = registered \ {a} /\ nticks' = nticks /\ time' = time
    BY <1>2 DEF AlarmStop, TickStops
  <2>2. Left(a)' = -1 /\ \A b \in Alarms \ {a} : Left(b)' = Left(b)
    BY <2>1 DEF Left
  <2> QED BY <2>2, OneLeft DEF Abstract!Stop, Lefts
<1>3. CASE TickBegin
  <2>1. registered' = registered /\ time' = time /\ nticks' = Later(nticks, 1) /\ ~ticking
    BY <1>3 DEF TickBegin
  <2>2. ASSUME NEW a \in Alarms
        PROVE Left(a) # 0 /\ Left(a)' = IF Left(a) = -1 THEN -1 ELSE Left(a) - 1
    BY <1>0, <2>1, NoneDue DEF AlarmTypeOK, Left, Later, Ticks
  <2> QED BY <2>2 DEF Abstract!CountdownNext, Abstract!Elapse, Lefts
<1>4. CASE TickSkip \/ TickEnd \/ UNCHANGED alarmVars
  <2>1. registered' = registered /\ nticks' = nticks /\ time' = time
    BY <1>4 DEF TickSkip, TickEnd, alarmVars
  <2> QED BY <2>1 DEF Lefts, Left
<1>5. CASE TickCallback
  <2>1. cursor \in Alarms /\ Left(cursor) = 0
    BY <1>5, DueIsExpired DEF TickCallback
  <2>2. PICK n \in Delays \cup {0} : Returns(n)
    BY <1>5 DEF TickCallback
  <2>3. nticks' = nticks /\ cursor \in registered
    BY <1>0, <1>5 DEF TickCallback, AlarmTypeOK
  <2>4. time[cursor] = nticks
    BY <1>0, <2>1, <2>3 DEF Left, AlarmTypeOK, Ticks
  <2>5. CASE n = 0
    <3>1. Lefts' = [Lefts EXCEPT ![cursor] = -1]
      BY <2>1, <2>2, <2>3, <2>5, <1>0 DEF Lefts, Left, Returns, AlarmTypeOK
    <3> QED BY <2>1, <3>1 DEF Abstract!CountdownNext, Abstract!Fire, Abstract!Settings, Lefts
  <2>6. CASE n # 0
    <3>1. registered' = registered /\ time' = [time EXCEPT ![cursor] = Later(nticks, n)]
      BY <2>2, <2>4, <2>6 DEF Returns
    <3>2. Lefts' = [Lefts EXCEPT ![cursor] = n]
      <4>1. ASSUME NEW b \in Alarms PROVE Left(b)' = IF b = cursor THEN n ELSE Left(b)
        BY <1>0, <2>1, <2>3, <2>6, <3>1 DEF Left, Later, AlarmTypeOK, Ticks
      <4> QED BY <2>1, <4>1 DEF Lefts
    <3>3. n \in Abstract!Settings
      BY <2>6 DEF Abstract!Settings
    <3> QED BY <2>1, <3>2, <3>3 DEF Abstract!CountdownNext, Abstract!Fire, Lefts
  <2> QED BY <2>5, <2>6
<1> QED BY <1>1, <1>2, <1>3, <1>4, <1>5 DEF AlarmNext, Abstract!CountdownNext

(* The tick counter, the alarms' times and the list keep their types, and  *)
(* a flag tells on which side of the wrap an alarm's time lies             *)
(* (alt_tick.c:109-137, alt_alarm_start.c:89-96).                          *)
THEOREM AlarmInvariant == AlarmSpec => []AlarmInv
  BY AlarmInvInit, AlarmInvNext, PTL DEF AlarmSpec

(* For any word width, alarms and delays, as long as no callback stops the *)
(* alarm read as next: the alarm facility implements the countdown         *)
(* (alt_tick.c:87-148).                                                    *)
THEOREM AlarmsAreOnTime == AlarmSpec => IsCountdown
<1>1. AlarmInit => Abstract!CountdownInit
  BY DEF AlarmInit, Abstract!CountdownInit, Left
<1> QED BY <1>1, AlarmStep, AlarmInvariant, PTL
        DEF AlarmSpec, IsCountdown, Abstract!CountdownSpec, Lefts

-----------------------------------------------------------------------------
(* What holds of the interrupt layer for every number of lines and every    *)
(* set of handlers, however deep the exceptions nest.                       *)

Top == Len(contexts)
Calling == {"handler", "context", "off", "load", "store", "ienable", "on", "restore"}

(* The lines the mask lets through below context k: all below the program   *)
(* and the handler on top of it, the more urgent ones below the next.       *)
Under(k) == IF k <= 2 THEN Lines ELSE MoreUrgent(contexts[k-1].line)

(* Where a context may stand: k is its place on the stack.                  *)
PlaceOK(k, c) ==
  /\ k = 1 => c.line = Nobody /\ c.at \notin {"test", "pending"}
  /\ k > 1 => c.estatus
  /\ c.at \in {"test", "pending"} => c.line = Nobody /\ c.old = Nobody
  /\ (k > 1 /\ c.at \notin {"test", "pending"}) => c.line \in Lines
  /\ c.line # Nobody => c.entry.handler \in Handlers /\ c.entry.context = c.entry.handler
  /\ c.old # Nobody => k > 1 /\ c.old = Under(k)

(* The call a context is making.                                            *)
CallOK(k, c) ==
  /\ c.at \in Calling => k <= 2 /\ c.old = Nobody
  /\ c.at \in {"handler", "context", "restore"} => c.new # Nobody
  /\ c.new # Nobody => /\ c.at \in Calling
                       /\ c.new.context = c.new.handler
                       /\ c.enable <=> c.new.handler # Nobody
                       /\ k > 1 => c.enable
                       /\ c.status <=> k = 1
  /\ c.at \in {"load", "store", "ienable", "on"} => (c.inner <=> (k = 1 /\ c.new = Nobody))

(* The entry a call enables a line for is in the table.                     *)
EnablesOK(c) ==
  /\ c.at = "context" => table[c.id].handler = c.new.handler
  /\ (c.at \in {"off", "load", "store"} /\ c.enable) => table[c.id].handler \in Handlers

(* A context that may be interrupted.                                       *)
MayNest(k, c) ==
  c.at \in {"run", "off"} /\ c.new = Nobody /\ (k = 1 \/ c.old # Nobody)

IrqTypeOK ==
  /\ pie \in BOOLEAN
  /\ ienable \subseteq Lines /\ asserted \subseteq Lines
  /\ active \subseteq Lines /\ mask \subseteq Lines /\ asked \subseteq Lines
  /\ table \in [Lines -> Entry]
  /\ contexts \in Seq(Context) /\ contexts # <<>>

StackOK ==
  /\ \A k \in 1 .. Top : PlaceOK(k, contexts[k]) /\ CallOK(k, contexts[k])
  /\ \A k \in 1 .. Top - 1 : MayNest(k, contexts[k])
  /\ MoreUrgentOnTop

(* The registers, which only the context on top uses.                       *)
RegistersOK ==
  /\ pie <=> MayNest(Top, Here)
  /\ mask = IF Here.old # Nobody THEN MoreUrgent(Here.line) ELSE Under(Top)
  /\ Here.at # "ienable" => ienable = active \cap mask
  /\ asked = IF Here.at = "store" THEN Here.value ELSE active
  /\ Here.at = "store" => Here.value = With(active)

(* The program takes the handler of line l away.                            *)
Removing(l) == Here.new # Nobody /\ ~Here.enable /\ Here.id = l

TableOK ==
  /\ \A k \in 1 .. Top : EnablesOK(contexts[k])
  /\ \A l \in Lines : table[l].context = table[l].handler \/ (Here.at = "context" /\ Here.id = l)
  /\ \A l \in active : \/ table[l].handler \in Handlers
                       \/ Removing(l) /\ Here.at \in {"context", "off", "load", "store"}
  /\ \A l \in ienable : \/ table[l].handler \in Handlers
                        \/ Removing(l) /\ Here.at \in {"context", "off", "load", "store", "ienable"}

IrqInv == IrqTypeOK /\ StackOK /\ RegistersOK /\ TableOK

-----------------------------------------------------------------------------
LEMMA HereIsTop ==
  ASSUME contexts \in Seq(Context), contexts # <<>>
  PROVE Top \in Nat /\ Top > 0 /\ Here = contexts[Top] /\ Here \in Context
  BY DEF Here, Last, Top

(* A context that goes on leaves those below it alone.                      *)
LEMMA Goes ==
  ASSUME contexts \in Seq(Context), contexts # <<>>, NEW c \in Context, Becomes(c)
  PROVE /\ contexts' \in Seq(Context) /\ contexts' # <<>>
        /\ Top' = Top /\ Here' = c /\ contexts'[Top] = c
        /\ \A k \in 1 .. Top - 1 : contexts'[k] = contexts[k]
        /\ \A k \in 1 .. Top : Under(k)' = Under(k)
<1>1. contexts' = [contexts EXCEPT ![Top] = c] /\ Top \in Nat /\ Top > 0
  BY HereIsTop DEF Becomes, Top
<1>2. contexts' \in Seq(Context) /\ Len(contexts') = Top /\ Top' = Top
  BY <1>1 DEF Top
<1>3. \A k \in 1 .. Top : contexts'[k] = IF k = Top THEN c ELSE contexts[k]
  BY <1>1 DEF Top
<1>4. contexts' # <<>> /\ Here' = c
  BY <1>1, <1>2, <1>3 DEF Here, Last
<1>5. ASSUME NEW k \in 1 .. Top PROVE Under(k)' = Under(k)
  <2>1. CASE k <= 2
    BY <2>1 DEF Under
  <2>2. CASE k > 2
    <3>1. k - 1 \in 1 .. Top /\ k - 1 # Top
      BY <1>1, <2>2
    <3>2. contexts'[k-1] = contexts[k-1]
      BY <1>3, <3>1
    <3> QED BY <2>2, <3>2 DEF Under
  <2>3. k <= 2 \/ k > 2
    BY <1>1
  <2> QED BY <2>1, <2>2, <2>3
<1> QED BY <1>1, <1>2, <1>3, <1>4, <1>5

LEMMA Stays ==
  ASSUME contexts' = contexts
  PROVE Top' = Top /\ Here' = Here /\ \A k \in 1 .. Top : Under(k)' = Under(k)
  BY DEF Top, Here, Under

(* What is left to show when the context on top goes on and handles what it *)
(* handled: it, the registers and the table.                                *)
LEMMA OnTop ==
  ASSUME IrqInv, NEW c \in Context, Becomes(c), c.line = Here.line,
         PlaceOK(Top, c), CallOK(Top, c)
  PROVE /\ StackOK'
        /\ contexts' \in Seq(Context) /\ contexts' # <<>>
        /\ Top' = Top /\ Here' = c /\ Under(Top)' = Under(Top)
        /\ (table' = table /\ EnablesOK(c)) => \A k \in 1 .. Top : EnablesOK(contexts[k])'
<1>1. contexts \in Seq(Context) /\ contexts # <<>> /\ Top \in Nat /\ Top > 0 /\ Here = contexts[Top]
  BY HereIsTop DEF IrqInv, IrqTypeOK
<1>2. /\ contexts' \in Seq(Context) /\ contexts' # <<>>
      /\ Top' = Top /\ Here' = c /\ contexts'[Top] = c
      /\ \A k \in 1 .. Top - 1 : contexts'[k] = contexts[k]
      /\ \A k \in 1 .. Top : Under(k)' = Under(k)
  BY <1>1, Goes
<1>3. ASSUME NEW k \in 1 .. Top PROVE (PlaceOK(k, contexts[k]) /\ CallOK(k, contexts[k]))'
  <2>1. CASE k = Top
    BY <1>2, <2>1 DEF PlaceOK, CallOK
  <2>2. CASE k # Top
    BY <1>1, <1>2, <2>2 DEF PlaceOK, CallOK, IrqInv, StackOK
  <2> QED BY <2>1, <2>2
<1>4. \A k \in 1 .. Top - 1 : MayNest(k, contexts[k])'
  BY <1>1, <1>2 DEF MayNest, IrqInv, StackOK
<1>5. \A k \in 1 .. Top : contexts'[k].line = contexts[k].line
  BY <1>1, <1>2
<1>6. MoreUrgentOnTop'
  <2>1. DOMAIN contexts' = 1 .. Top /\ DOMAIN contexts = 1 .. Top
    BY <1>1, <1>2 DEF Top
  <2> QED BY <1>5, <2>1 DEF MoreUrgentOnTop, IrqInv, StackOK
<1>7. StackOK'
  BY <1>2, <1>3, <1>4, <1>6 DEF StackOK
<1>8. ASSUME table' = table, EnablesOK(c), NEW k \in 1 .. Top PROVE EnablesOK(contexts[k])'
  <2>1. CASE k = Top
    BY <1>2, <1>8, <2>1 DEF EnablesOK
  <2>2. CASE k # Top
    BY <1>1, <1>2, <1>8, <2>2 DEF EnablesOK, IrqInv, TableOK
  <2> QED BY <2>1, <2>2
<1> QED BY <1>1, <1>2, <1>7, <1>8

LEMMA TopIs ==
  ASSUME IrqInv
  PROVE /\ IrqTypeOK /\ StackOK /\ RegistersOK /\ TableOK
        /\ Here = contexts[Top] /\ Here \in Context /\ Top \in Nat /\ Top > 0
        /\ PlaceOK(Top, Here) /\ CallOK(Top, Here) /\ EnablesOK(Here)
  BY HereIsTop DEF IrqInv, IrqTypeOK, StackOK, TableOK

(* A routine is called by the program or by the handler on top of it, with  *)
(* no mask in the way.                                                      *)
LEMMA WhoMayCall ==
  ASSUME IrqInv, MayCall
  PROVE /\ Top <= 2 /\ Here.old = Nobody /\ Here.new = Nobody
        /\ Here.line = Nobody <=> Top = 1
        /\ pie <=> Top = 1
<1>1. /\ Here = contexts[Top] /\ Here \in Context /\ Top \in Nat /\ Top > 0
      /\ At("run") /\ mask = Lines
  BY HereIsTop DEF IrqInv, IrqTypeOK, MayCall
<1>2. PlaceOK(Top, Here) /\ CallOK(Top, Here)
  BY <1>1 DEF IrqInv, StackOK
<1>3. Here.new = Nobody /\ (pie <=> Top = 1 \/ Here.old # Nobody)
  BY <1>1, <1>2 DEF CallOK, At, IrqInv, RegistersOK, MayNest, Calling
<1>4. Here.line = Nobody <=> Top = 1
  BY <1>1, <1>2, InterruptsAssumption DEF PlaceOK, At
<1>5. Here.old = Nobody
  BY <1>1, <1>2, <1>4, InterruptsAssumption
     DEF PlaceOK, At, IrqInv, RegistersOK, MoreUrgent, Lines
<1>6. ASSUME Top > 2 PROVE FALSE
  <2>1. mask = MoreUrgent(contexts[Top-1].line)
    BY <1>1, <1>5, <1>6 DEF IrqInv, RegistersOK, Under
  <2>2. Top - 1 \in 1 .. Top /\ Top - 1 \in 1 .. Top - 1 /\ Top - 1 > 1
    BY <1>1, <1>6
  <2>3. contexts[Top-1].line \in Lines
    BY <2>2 DEF IrqInv, StackOK, PlaceOK, MayNest
  <2> QED BY <1>1, <2>1, <2>3 DEF MoreUrgent, Lines
<1> QED BY <1>1, <1>3, <1>4, <1>5, <1>6

LEMMA RegisterKeeps ==
  ASSUME IrqInv, NEW l \in Lines, NEW h \in Handlers \cup {Nobody}, Register(l, h)
  PROVE IrqInv'
<1> DEFINE c == [Here EXCEPT !.at = "handler", !.id = l, !.enable = h # Nobody,
                   !.new = [handler |-> h, context |-> h], !.status = pie]
<1>1. /\ IrqTypeOK /\ StackOK /\ RegistersOK /\ TableOK
      /\ Here \in Context /\ Top \in Nat /\ Top > 0 /\ PlaceOK(Top, Here)
  BY TopIs
<1>2. /\ Top <= 2 /\ Here.old = Nobody /\ Here.new = Nobody /\ Here.at = "run"
      /\ Here.line = Nobody <=> Top = 1
      /\ pie <=> Top = 1
  BY WhoMayCall DEF Register, MayCall, At
<1>3. [handler |-> h, context |-> h] \in Entry
  BY DEF Entry
<1>4. /\ c \in Context /\ c.at = "handler" /\ c.id = l /\ (c.enable <=> h # Nobody)
      /\ c.new = [handler |-> h, context |-> h] /\ c.status = pie
      /\ c.line = Here.line /\ c.entry = Here.entry /\ c.estatus = Here.estatus
      /\ c.old = Here.old
  <2>1. pie \in BOOLEAN /\ (h # Nobody) \in BOOLEAN
    BY <1>1 DEF IrqTypeOK
  <2>2. c \in Context
    BY <1>1, <1>3, <2>1 DEF Context
  <2>3. c.at = "handler" /\ c.id = l
    BY <1>1 DEF Context
  <2>4. c.enable <=> h # Nobody
    BY <1>1 DEF Context
  <2>5. c.new = [handler |-> h, context |-> h] /\ c.status = pie
    BY <1>1 DEF Context
  <2>6. /\ c.line = Here.line /\ c.entry = Here.entry /\ c.estatus = Here.estatus
      /\ c.old = Here.old
    BY <1>1 DEF Context
  <2> QED BY <2>2, <2>3, <2>4, <2>5, <2>6
<1>5. Becomes(c)
  BY DEF Register
<1> HIDE DEF c
<1>7. PlaceOK(Top, c)
  BY <1>1, <1>2, <1>4 DEF PlaceOK
<1>8. CallOK(Top, c)
  <2>1. c.new.handler = h /\ c.new.context = h
    BY <1>4
  <2>2. c.status <=> Top = 1
    BY <1>2, <1>4
  <2>3. Top > 1 => c.enable
    BY <1>1, <1>2, <1>4 DEF Register
  <2>4. c.new # Nobody
    BY <1>3, <1>4, InterruptsAssumption
  <2> QED BY <1>1, <1>2, <1>4, <2>1, <2>2, <2>3, <2>4 DEF CallOK, Calling
<1>9. /\ StackOK' /\ contexts' \in Seq(Context) /\ contexts' # <<>>
      /\ Top' = Top /\ Here' = c /\ Under(Top)' = Under(Top)
      /\ (table' = table /\ EnablesOK(c)) => \A k \in 1 .. Top : EnablesOK(contexts[k])'
  BY <1>4, <1>5, <1>7, <1>8, OnTop
<1>10. IrqTypeOK'
  BY <1>1, <1>9 DEF IrqTypeOK, Register, DisableAll, TurnOff
<1>11. RegistersOK'
  BY <1>1, <1>2, <1>4, <1>9 DEF RegistersOK, Register, DisableAll, TurnOff, MayNest
<1>12. TableOK'
  <2>1. EnablesOK(c) /\ table' = table /\ active' = active /\ ienable' = ienable
    BY <1>4 DEF EnablesOK, Register
  <2>2. \A m \in Lines : table[m].context = table[m].handler
    BY <1>1, <1>2 DEF TableOK
  <2>3. \A m \in active \cup ienable : table[m].handler \in Handlers
    BY <1>1, <1>2 DEF TableOK
  <2> QED BY <1>9, <2>1, <2>2, <2>3 DEF TableOK
<1> QED BY <1>9, <1>10, <1>11, <1>12 DEF IrqInv

(* A call goes on to its next step.                                         *)
Rest(c, d) ==
  /\ c.line = d.line /\ c.entry = d.entry /\ c.estatus = d.estatus /\ c.old = d.old
  /\ c.id = d.id /\ c.enable = d.enable /\ c.new = d.new /\ c.status = d.status

LEMMA Moved ==
  ASSUME NEW d \in Context, NEW at \in Calling
  PROVE LET c == [d EXCEPT !.at = at]
        IN c \in Context /\ c.at = at /\ Rest(c, d) /\ c.inner = d.inner /\ c.value = d.value
<1> DEFINE c == [d EXCEPT !.at = at]
<1>1. c \in Context
  BY DEF Context, Calling
<1>2. c.at = at /\ Rest(c, d) /\ c.inner = d.inner /\ c.value = d.value
  BY DEF Context, Rest
<1> QED BY <1>1, <1>2

LEMMA CallGoesOn ==
  ASSUME IrqInv, NEW c \in Context, Rest(c, Here), Becomes(c),
         Here.at \in Calling, c.at \in Calling,
         c.at \in {"handler", "context", "restore"} => c.new # Nobody,
         c.at \in {"load", "store", "ienable", "on"} => (c.inner <=> (Top = 1 /\ c.new = Nobody))
  PROVE /\ StackOK' /\ contexts' \in Seq(Context) /\ contexts' # <<>>
        /\ Top' = Top /\ Here' = c /\ Under(Top)' = Under(Top)
        /\ (table' = table /\ EnablesOK(c)) => \A k \in 1 .. Top : EnablesOK(contexts[k])'
<1>1. Here \in Context /\ Top \in Nat /\ Top > 0 /\ PlaceOK(Top, Here) /\ CallOK(Top, Here)
  BY TopIs
<1>2. PlaceOK(Top, c)
  BY <1>1 DEF PlaceOK, Rest, Calling
<1>3. CallOK(Top, c)
  BY <1>1 DEF CallOK, Rest
<1> QED BY <1>2, <1>3, OnTop DEF Rest

LEMMA StoreHandlerKeeps == ASSUME IrqInv, StoreHandler PROVE IrqInv'
<1> DEFINE c == [Here EXCEPT !.at = "context"]
<1>1. /\ IrqTypeOK /\ StackOK /\ RegistersOK /\ TableOK /\ Here.at = "handler"
      /\ Here \in Context /\ Top \in Nat /\ Top > 0 /\ PlaceOK(Top, Here) /\ CallOK(Top, Here)
  BY TopIs DEF StoreHandler, At
<1>2. c \in Context /\ c.at = "context" /\ Rest(c, Here) /\ Becomes(c)
  BY <1>1, Moved DEF Calling, StoreHandler, Moves
<1> HIDE DEF c
<1>3. /\ StackOK' /\ contexts' \in Seq(Context) /\ contexts' # <<>>
      /\ Top' = Top /\ Here' = c /\ Under(Top)' = Under(Top)
  BY <1>1, <1>2, CallGoesOn DEF Calling, CallOK, Rest
<1>4. Here.new \in Entry /\ Here.id \in Lines
  BY <1>1 DEF CallOK, Context
<1>5. /\ table' \in [Lines -> Entry]
      /\ \A l \in Lines : table'[l] = IF l = Here.id
                                      THEN [table[l] EXCEPT !.handler = Here.new.handler]
                                      ELSE table[l]
  BY <1>1, <1>4 DEF StoreHandler, IrqTypeOK, Entry
<1>6. /\ \A l \in Lines : table'[l].handler = IF l = Here.id THEN Here.new.handler
                                                             ELSE table[l].handler
      /\ \A l \in Lines : table'[l].context = table[l].context
  BY <1>1, <1>4, <1>5 DEF IrqTypeOK, Entry
<1>7. IrqTypeOK'
  BY <1>1, <1>3, <1>5 DEF IrqTypeOK, StoreHandler
<1>8. RegistersOK'
  BY <1>1, <1>2, <1>3 DEF RegistersOK, StoreHandler, MayNest, Rest
<1>9. TableOK'
  <2>1. contexts'[Top] = c /\ \A k \in 1 .. Top - 1 : contexts'[k] = contexts[k]
    BY <1>1, <1>2, Goes DEF IrqTypeOK
  <2>2. Here.enable <=> Here.new.handler \in Handlers
    BY <1>1, <1>4, InterruptsAssumption DEF CallOK, Entry
  <2>3. ASSUME NEW k \in 1 .. Top PROVE EnablesOK(contexts[k])'
    <3>1. CASE k = Top
      BY <1>2, <1>4, <1>6, <2>1, <3>1 DEF EnablesOK, Rest
    <3>2. CASE k # Top
      <4>1. Here.new.handler \in Handlers
        BY <1>1, <2>2, <3>2 DEF CallOK
      <4>2. /\ contexts'[k] = contexts[k] /\ EnablesOK(contexts[k])
            /\ MayNest(k, contexts[k]) /\ contexts[k] \in Context
        BY <1>1, <2>1, <3>2 DEF TableOK, StackOK, IrqTypeOK, Top
      <4>3. contexts[k].id \in Lines
        BY <4>2 DEF Context
      <4> QED BY <1>6, <4>1, <4>2, <4>3 DEF EnablesOK, MayNest
    <3> QED BY <3>1, <3>2
  <2>4. /\ Here'.at = "context" /\ Here'.id = Here.id /\ Here'.new = Here.new
        /\ Here'.enable = Here.enable
    BY <1>2, <1>3 DEF Rest
  <2>5. \A l \in Lines : table[l].context = table[l].handler
    BY <1>1 DEF TableOK
  <2>6. \A l \in active \cup ienable : table[l].handler \in Handlers
    BY <1>1 DEF TableOK
  <2>7. Here.new # Nobody /\ active \subseteq Lines /\ ienable \subseteq Lines
    BY <1>1 DEF CallOK, IrqTypeOK
  <2>8. active' = active /\ ienable' = ienable
    BY DEF StoreHandler
  <2>9. ASSUME NEW l \in active \cup ienable
        PROVE table'[l].handler \in Handlers \/ Removing(l)'
    BY <1>6, <2>2, <2>4, <2>6, <2>7 DEF Removing
  <2>10. \A l \in Lines : table'[l].context = table'[l].handler \/ Here'.id = l
    BY <1>6, <2>4, <2>5
  <2> QED BY <1>3, <2>3, <2>4, <2>8, <2>9, <2>10 DEF TableOK
<1> QED BY <1>3, <1>7, <1>8, <1>9 DEF IrqInv

LEMMA StoreContextKeeps == ASSUME IrqInv, StoreContext PROVE IrqInv'
<1> DEFINE c == [Here EXCEPT !.at = "off"]
<1>1. /\ IrqTypeOK /\ StackOK /\ RegistersOK /\ TableOK /\ Here.at = "context"
      /\ Here \in Context /\ Top \in Nat /\ Top > 0 /\ PlaceOK(Top, Here) /\ CallOK(Top, Here)
      /\ EnablesOK(Here)
  BY TopIs DEF StoreContext, At
<1>2. c \in Context /\ c.at = "off" /\ Rest(c, Here) /\ Becomes(c)
  BY <1>1, Moved DEF Calling, StoreContext, Moves
<1> HIDE DEF c
<1>3. /\ StackOK' /\ contexts' \in Seq(Context) /\ contexts' # <<>>
      /\ Top' = Top /\ Here' = c /\ Under(Top)' = Under(Top)
  BY <1>1, <1>2, CallGoesOn DEF Calling, CallOK, Rest
<1>4. Here.new \in Entry /\ Here.id \in Lines /\ Here.new # Nobody
  BY <1>1 DEF CallOK, Context
<1>5. /\ table' \in [Lines -> Entry]
      /\ \A l \in Lines : table'[l] = IF l = Here.id
                                      THEN [table[l] EXCEPT !.context = Here.new.context]
                                      ELSE table[l]
  BY <1>1, <1>4 DEF StoreContext, IrqTypeOK, Entry
<1>6. /\ \A l \in Lines : table'[l].context = IF l = Here.id THEN Here.new.context
                                                             ELSE table[l].context
      /\ \A l \in Lines : table'[l].handler = table[l].handler
  BY <1>1, <1>4, <1>5 DEF IrqTypeOK, Entry
<1>7. IrqTypeOK'
  BY <1>1, <1>3, <1>5 DEF IrqTypeOK, StoreContext
<1>8. RegistersOK'
  BY <1>1, <1>2, <1>3, <1>4 DEF RegistersOK, StoreContext, MayNest, Rest
<1>9. TableOK'
  <2>1. contexts'[Top] = c /\ \A k \in 1 .. Top - 1 : contexts'[k] = contexts[k]
    BY <1>1, <1>2, Goes DEF IrqTypeOK
  <2>2. Here.enable <=> Here.new.handler \in Handlers
    BY <1>1, <1>4, InterruptsAssumption DEF CallOK, Entry
  <2>3. table[Here.id].handler = Here.new.handler
    BY <1>1 DEF EnablesOK
  <2>4. ASSUME NEW k \in 1 .. Top PROVE EnablesOK(contexts[k])'
    <3>1. CASE k = Top
      BY <1>2, <1>4, <1>6, <2>1, <2>2, <2>3, <3>1 DEF EnablesOK, Rest
    <3>2. CASE k # Top
      <4>1. /\ contexts'[k] = contexts[k] /\ EnablesOK(contexts[k])
            /\ contexts[k] \in Context
        BY <1>1, <2>1, <3>2 DEF TableOK, IrqTypeOK, Top
      <4>2. contexts[k].id \in Lines
        BY <4>1 DEF Context
      <4> QED BY <1>6, <4>1, <4>2 DEF EnablesOK
    <3> QED BY <3>1, <3>2
  <2>5. /\ Here'.at = "off" /\ Here'.id = Here.id /\ Here'.new = Here.new
        /\ Here'.enable = Here.enable
    BY <1>2, <1>3 DEF Rest
  <2>6. \A l \in Lines : table'[l].context = table'[l].handler
    BY <1>1, <1>4, <1>6, <2>3 DEF TableOK, CallOK
  <2>7. \A l \in active \cup ienable : table[l].handler \in Handlers \/ Removing(l)
    BY <1>1 DEF TableOK
  <2>8. active' = active /\ ienable' = ienable /\ active \subseteq Lines /\ ienable \subseteq Lines
    BY <1>1 DEF StoreContext, IrqTypeOK
  <2>9. \A l \in active \cup ienable : table'[l].handler \in Handlers \/ Removing(l)'
    BY <1>6, <2>5, <2>7, <2>8 DEF Removing
  <2> QED BY <1>3, <2>4, <2>5, <2>6, <2>8, <2>9 DEF TableOK
<1> QED BY <1>3, <1>7, <1>8, <1>9 DEF IrqInv

LEMMA EnableOrDisableKeeps ==
  ASSUME IrqInv, NEW l \in Lines, NEW enable \in BOOLEAN, EnableOrDisable(l, enable)
  PROVE IrqInv'
<1> DEFINE c == [Here EXCEPT !.at = "off", !.id = l, !.enable = enable, !.new = Nobody]
<1>1. /\ IrqTypeOK /\ StackOK /\ RegistersOK /\ TableOK
      /\ Here \in Context /\ Top \in Nat /\ Top > 0 /\ PlaceOK(Top, Here)
  BY TopIs
<1>2. /\ Top <= 2 /\ Here.old = Nobody /\ Here.new = Nobody /\ Here.at = "run"
      /\ Here.line = Nobody <=> Top = 1
      /\ pie <=> Top = 1
  BY WhoMayCall DEF EnableOrDisable, MayCall, At
<1>3. c \in Context
  BY <1>1 DEF Context
<1>4. /\ c.at = "off" /\ c.id = l /\ c.enable = enable /\ c.new = Nobody
      /\ c.line = Here.line /\ c.entry = Here.entry /\ c.estatus = Here.estatus
      /\ c.old = Here.old
  BY <1>1 DEF Context
<1>5. Becomes(c)
  BY DEF EnableOrDisable
<1> HIDE DEF c
<1>6. PlaceOK(Top, c)
  BY <1>1, <1>2, <1>4 DEF PlaceOK
<1>7. CallOK(Top, c)
  BY <1>2, <1>4 DEF CallOK
<1>8. /\ StackOK' /\ contexts' \in Seq(Context) /\ contexts' # <<>>
      /\ Top' = Top /\ Here' = c /\ Under(Top)' = Under(Top)
      /\ (table' = table /\ EnablesOK(c)) => \A k \in 1 .. Top : EnablesOK(contexts[k])'
  BY <1>3, <1>4, <1>5, <1>6, <1>7, OnTop
<1>9. IrqTypeOK'
  BY <1>1, <1>8 DEF IrqTypeOK, EnableOrDisable
<1>10. RegistersOK'
  BY <1>1, <1>2, <1>4, <1>8 DEF RegistersOK, EnableOrDisable, MayNest
<1>11. TableOK'
  <2>1. table' = table /\ active' = active /\ ienable' = ienable
    BY DEF EnableOrDisable
  <2>2. EnablesOK(c)
    <3>1. table[l] \in Entry
      BY <1>1 DEF IrqTypeOK
    <3>2. enable => table[l].handler \in Handlers
      BY <3>1 DEF Entry, EnableOrDisable
    <3> QED BY <1>4, <3>2 DEF EnablesOK
  <2>3. \A m \in Lines : table[m].context = table[m].handler
    BY <1>1, <1>2 DEF TableOK
  <2>4. \A m \in active \cup ienable : table[m].handler \in Handlers
    BY <1>1, <1>2 DEF TableOK
  <2> QED BY <1>8, <2>1, <2>2, <2>3, <2>4 DEF TableOK
<1> QED BY <1>8, <1>9, <1>10, <1>11 DEF IrqInv

(* The steps of alt_irq_enable and alt_irq_disable: they leave the table    *)
(* alone.                                                                   *)
LEMMA CallEnds ==
  ASSUME IrqInv, NEW c \in Context, Becomes(c), c = Returned, Here.at \in {"on", "restore"}
  PROVE /\ StackOK' /\ contexts' \in Seq(Context) /\ contexts' # <<>>
        /\ Top' = Top /\ Here' = c /\ Under(Top)' = Under(Top)
        /\ c.at = "run" /\ c.new = Nobody /\ c.old = Nobody
        /\ table' = table => \A k \in 1 .. Top : EnablesOK(contexts[k])'
<1>1. /\ Here \in Context /\ Top \in Nat /\ Top > 0 /\ PlaceOK(Top, Here) /\ CallOK(Top, Here)
  BY TopIs
<1>2. /\ c.at = "run" /\ c.new = Nobody /\ c.old = Nobody /\ c.line = Here.line
      /\ c.entry = Here.entry /\ c.estatus = Here.estatus
  BY DEF Returned, Fresh
<1>3. PlaceOK(Top, c) /\ CallOK(Top, c) /\ EnablesOK(c)
  BY <1>1, <1>2 DEF PlaceOK, CallOK, EnablesOK, Calling
<1> QED BY <1>2, <1>3, OnTop

LEMMA FreshIs ==
  ASSUME NEW at \in {"run", "test", "pending"}
  PROVE /\ Fresh(at) \in Context /\ Fresh(at).at = at /\ Fresh(at).line = Nobody
        /\ Fresh(at).old = Nobody /\ Fresh(at).new = Nobody
<1>1. 0 \in Lines
  BY InterruptsAssumption DEF Lines
<1>2. Void \in Entry
  BY DEF Void, Entry
<1>3. /\ Nobody \in Lines \cup {Nobody} /\ Nobody \in (SUBSET Lines) \cup {Nobody}
      /\ Nobody \in Entry \cup {Nobody} /\ {} \in SUBSET Lines
  OBVIOUS
<1>4. Fresh(at) \in Context
  BY <1>1, <1>2, <1>3, Zenon DEF Fresh, Context
<1> QED BY <1>4 DEF Fresh

LEMMA ReturnedIs == ASSUME IrqInv PROVE Returned \in Context
<1>1. /\ Here \in Context
  BY TopIs
<1>2. Fresh("run") \in Context
  BY FreshIs
<1>3. Here.line \in Lines \cup {Nobody} /\ Here.entry \in Entry /\ Here.estatus \in BOOLEAN
  BY <1>1 DEF Context
<1> QED BY <1>2, <1>3 DEF Returned, Context

LEMMA OffKeeps == ASSUME IrqInv, Off PROVE IrqInv'
<1> DEFINE c == [Here EXCEPT !.at = "load", !.inner = pie]
<1>1. /\ IrqTypeOK /\ StackOK /\ RegistersOK /\ TableOK /\ Here.at = "off"
      /\ Here \in Context /\ Top \in Nat /\ Top > 0 /\ PlaceOK(Top, Here) /\ CallOK(Top, Here)
      /\ EnablesOK(Here)
  BY TopIs DEF Off, At
<1>2. c \in Context /\ c.at = "load" /\ c.inner = pie
  BY <1>1 DEF Context, IrqTypeOK
<1>3. Rest(c, Here) /\ Becomes(c)
  BY <1>1 DEF Context, Rest, Off
<1> HIDE DEF c
<1>4. pie <=> Top = 1 /\ Here.new = Nobody
  BY <1>1 DEF RegistersOK, MayNest, CallOK, Calling
<1>5. /\ StackOK' /\ contexts' \in Seq(Context) /\ contexts' # <<>>
      /\ Top' = Top /\ Here' = c /\ Under(Top)' = Under(Top)
      /\ (table' = table /\ EnablesOK(c)) => \A k \in 1 .. Top : EnablesOK(contexts[k])'
  <2>1. c.inner <=> (Top = 1 /\ c.new = Nobody)
    BY <1>2, <1>3, <1>4 DEF Rest
  <2> QED BY <1>1, <1>2, <1>3, <2>1, CallGoesOn DEF Calling
<1>6. IrqTypeOK'
  BY <1>1, <1>5 DEF IrqTypeOK, Off, DisableAll, TurnOff
<1>7. RegistersOK'
  BY <1>1, <1>2, <1>3, <1>5 DEF RegistersOK, Off, MayNest, Rest, DisableAll, TurnOff
<1>8. TableOK'
  BY <1>1, <1>2, <1>3, <1>5 DEF TableOK, EnablesOK, Off, Rest, Removing
<1> QED BY <1>5, <1>6, <1>7, <1>8 DEF IrqInv

LEMMA LoadActiveKeeps == ASSUME IrqInv, LoadActive PROVE IrqInv'
<1> DEFINE c == [Here EXCEPT !.at = "store", !.value = With(active)]
<1>1. /\ IrqTypeOK /\ StackOK /\ RegistersOK /\ TableOK /\ Here.at = "load"
      /\ Here \in Context /\ Top \in Nat /\ Top > 0 /\ PlaceOK(Top, Here) /\ CallOK(Top, Here)
      /\ EnablesOK(Here)
  BY TopIs DEF LoadActive, At
<1>2. With(active) \subseteq Lines
  BY <1>1 DEF With, IrqTypeOK, Context
<1>3. c \in Context /\ c.at = "store" /\ c.value = With(active) /\ c.inner = Here.inner
  BY <1>1, <1>2 DEF Context
<1>4. Rest(c, Here) /\ Becomes(c)
  BY <1>1 DEF Context, Rest, LoadActive
<1> HIDE DEF c
<1>5. /\ StackOK' /\ contexts' \in Seq(Context) /\ contexts' # <<>>
      /\ Top' = Top /\ Here' = c /\ Under(Top)' = Under(Top)
      /\ (table' = table /\ EnablesOK(c)) => \A k \in 1 .. Top : EnablesOK(contexts[k])'
  <2>1. c.inner <=> (Top = 1 /\ c.new = Nobody)
    BY <1>1, <1>3, <1>4 DEF CallOK, Rest
  <2> QED BY <1>1, <1>3, <1>4, <2>1, CallGoesOn DEF Calling
<1>6. asked' = With(active) /\ With(active)' = With(active)
  BY <1>1, <1>4, <1>5 DEF RegistersOK, LoadActive, With, Rest
<1>7. IrqTypeOK'
  BY <1>1, <1>2, <1>5, <1>6 DEF IrqTypeOK, LoadActive
<1>8. RegistersOK'
  BY <1>1, <1>3, <1>4, <1>5, <1>6 DEF RegistersOK, LoadActive, MayNest, Rest
<1>9. TableOK'
  BY <1>1, <1>3, <1>4, <1>5 DEF TableOK, EnablesOK, LoadActive, Rest, Removing
<1> QED BY <1>5, <1>7, <1>8, <1>9 DEF IrqInv

LEMMA StoreActiveKeeps == ASSUME IrqInv, StoreActive PROVE IrqInv'
<1> DEFINE c == [Here EXCEPT !.at = "ienable"]
<1>1. /\ IrqTypeOK /\ StackOK /\ RegistersOK /\ TableOK /\ Here.at = "store"
      /\ Here \in Context /\ Top \in Nat /\ Top > 0 /\ PlaceOK(Top, Here) /\ CallOK(Top, Here)
      /\ EnablesOK(Here)
  BY TopIs DEF StoreActive, At
<1>2. c \in Context /\ c.at = "ienable" /\ Rest(c, Here) /\ Becomes(c) /\ c.inner = Here.inner
  BY <1>1, Moved DEF Calling, StoreActive, Moves
<1> HIDE DEF c
<1>3. /\ StackOK' /\ contexts' \in Seq(Context) /\ contexts' # <<>>
      /\ Top' = Top /\ Here' = c /\ Under(Top)' = Under(Top)
      /\ (table' = table /\ EnablesOK(c)) => \A k \in 1 .. Top : EnablesOK(contexts[k])'
  <2>1. c.inner <=> (Top = 1 /\ c.new = Nobody)
    BY <1>1, <1>2 DEF CallOK, Rest
  <2> QED BY <1>1, <1>2, <2>1, CallGoesOn DEF Calling
<1>4. active' = Here.value /\ Here.value = With(active) /\ asked = Here.value
  BY <1>1 DEF RegistersOK, StoreActive
<1>5. IrqTypeOK'
  BY <1>1, <1>3, <1>4 DEF IrqTypeOK, StoreActive
<1>6. RegistersOK'
  BY <1>1, <1>2, <1>3, <1>4 DEF RegistersOK, StoreActive, MayNest, Rest
<1>7. TableOK'
  <2>1. EnablesOK(c) /\ table' = table /\ ienable' = ienable
    BY <1>2 DEF EnablesOK, StoreActive
  <2>2. \A l \in Lines : table[l].context = table[l].handler
    BY <1>1 DEF TableOK
  <2>3. ASSUME NEW l \in active' PROVE table[l].handler \in Handlers
    BY <1>1, <1>4 DEF TableOK, Removing, With, EnablesOK
  <2>4. \A l \in ienable : table[l].handler \in Handlers \/ Removing(l)'
    BY <1>1, <1>2, <1>3 DEF TableOK, Removing, Rest
  <2> QED BY <1>2, <1>3, <2>1, <2>2, <2>3, <2>4 DEF TableOK
<1> QED BY <1>3, <1>5, <1>6, <1>7 DEF IrqInv

LEMMA WriteIenableKeeps == ASSUME IrqInv, WriteIenable PROVE IrqInv'
<1> DEFINE c == [Here EXCEPT !.at = "on"]
<1>1. /\ IrqTypeOK /\ StackOK /\ RegistersOK /\ TableOK /\ Here.at = "ienable"
      /\ Here \in Context /\ Top \in Nat /\ Top > 0 /\ PlaceOK(Top, Here) /\ CallOK(Top, Here)
      /\ EnablesOK(Here)
  BY TopIs DEF WriteIenable, At
<1>2. c \in Context /\ c.at = "on" /\ Rest(c, Here) /\ Becomes(c) /\ c.inner = Here.inner
  BY <1>1, Moved DEF Calling, WriteIenable, Moves
<1> HIDE DEF c
<1>3. /\ StackOK' /\ contexts' \in Seq(Context) /\ contexts' # <<>>
      /\ Top' = Top /\ Here' = c /\ Under(Top)' = Under(Top)
      /\ (table' = table /\ EnablesOK(c)) => \A k \in 1 .. Top : EnablesOK(contexts[k])'
  <2>1. c.inner <=> (Top = 1 /\ c.new = Nobody)
    BY <1>1, <1>2 DEF CallOK, Rest
  <2> QED BY <1>1, <1>2, <2>1, CallGoesOn DEF Calling
<1>4. mask = Lines
  BY <1>1 DEF RegistersOK, CallOK, Under, Calling
<1>5. IrqTypeOK'
  BY <1>1, <1>3 DEF IrqTypeOK, WriteIenable
<1>6. RegistersOK'
  BY <1>1, <1>2, <1>3, <1>4 DEF RegistersOK, WriteIenable, MayNest, Rest, IrqTypeOK
<1>7. TableOK'
  BY <1>1, <1>2, <1>3 DEF TableOK, EnablesOK, WriteIenable, Rest, Removing
<1> QED BY <1>3, <1>5, <1>6, <1>7 DEF IrqInv

LEMMA OnKeeps == ASSUME IrqInv, On PROVE IrqInv'
<1>1. /\ IrqTypeOK /\ StackOK /\ RegistersOK /\ TableOK /\ Here.at = "on"
      /\ Here \in Context /\ Top \in Nat /\ Top > 0 /\ PlaceOK(Top, Here) /\ CallOK(Top, Here)
  BY TopIs DEF On, At
<1>2. pie' = Here.inner /\ (Here.inner <=> (Top = 1 /\ Here.new = Nobody)) /\ Here.inner \in BOOLEAN
  BY <1>1 DEF On, CallOK, Context
<1>3. \A l \in active \cup ienable : table[l].handler \in Handlers
  BY <1>1 DEF TableOK
<1>4. \A l \in Lines : table[l].context = table[l].handler
  BY <1>1 DEF TableOK
<1>5. CASE Here.new = Nobody
  <2>1. Returned \in Context /\ Becomes(Returned)
    BY <1>5, ReturnedIs DEF On
  <2>2. /\ StackOK' /\ contexts' \in Seq(Context) /\ contexts' # <<>>
        /\ Top' = Top /\ Here' = Returned /\ Under(Top)' = Under(Top)
        /\ Returned.at = "run" /\ Returned.new = Nobody /\ Returned.old = Nobody
        /\ \A k \in 1 .. Top : EnablesOK(contexts[k])'
    BY <1>1, <2>1, CallEnds DEF On
  <2>3. IrqTypeOK'
    BY <1>1, <1>2, <2>2 DEF IrqTypeOK, On
  <2>4. RegistersOK'
    BY <1>1, <1>2, <1>5, <2>2 DEF RegistersOK, On, MayNest, CallOK, Calling
  <2>5. TableOK'
    BY <1>3, <1>4, <2>2 DEF TableOK, On
  <2> QED BY <2>2, <2>3, <2>4, <2>5 DEF IrqInv
<1>6. CASE Here.new # Nobody
  <2> DEFINE c == [Here EXCEPT !.at = "restore"]
  <2>1. c \in Context /\ c.at = "restore" /\ Rest(c, Here) /\ Becomes(c)
    BY <1>1, <1>6, Moved DEF Calling, On, Moves
  <2> HIDE DEF c
  <2>2. /\ StackOK' /\ contexts' \in Seq(Context) /\ contexts' # <<>>
        /\ Top' = Top /\ Here' = c /\ Under(Top)' = Under(Top)
        /\ (table' = table /\ EnablesOK(c)) => \A k \in 1 .. Top : EnablesOK(contexts[k])'
    BY <1>1, <1>6, <2>1, CallGoesOn DEF Calling, Rest
  <2>3. IrqTypeOK'
    BY <1>1, <1>2, <2>2 DEF IrqTypeOK, On
  <2>4. RegistersOK'
    BY <1>1, <1>2, <1>6, <2>1, <2>2 DEF RegistersOK, On, MayNest, Rest
  <2>5. TableOK'
    BY <1>3, <1>4, <2>1, <2>2 DEF TableOK, On, EnablesOK
  <2> QED BY <2>2, <2>3, <2>4, <2>5 DEF IrqInv
<1> QED BY <1>5, <1>6

LEMMA RestoreKeeps == ASSUME IrqInv, Restore PROVE IrqInv'
<1>1. /\ IrqTypeOK /\ StackOK /\ RegistersOK /\ TableOK /\ Here.at = "restore"
      /\ Here \in Context /\ Top \in Nat /\ Top > 0 /\ PlaceOK(Top, Here) /\ CallOK(Top, Here)
  BY TopIs DEF Restore, At
<1>2. /\ pie' = Here.status /\ Here.status \in BOOLEAN /\ (Here.status <=> Top = 1)
      /\ Here.old = Nobody
  BY <1>1 DEF Restore, CallOK, Context, Calling
<1>3. \A l \in active \cup ienable : table[l].handler \in Handlers
  BY <1>1 DEF TableOK
<1>4. \A l \in Lines : table[l].context = table[l].handler
  BY <1>1 DEF TableOK
<1>5. Returned \in Context /\ Becomes(Returned)
  BY ReturnedIs DEF Restore
<1>6. /\ StackOK' /\ contexts' \in Seq(Context) /\ contexts' # <<>>
      /\ Top' = Top /\ Here' = Returned /\ Under(Top)' = Under(Top)
      /\ Returned.at = "run" /\ Returned.new = Nobody /\ Returned.old = Nobody
      /\ \A k \in 1 .. Top : EnablesOK(contexts[k])'
  BY <1>1, <1>5, CallEnds DEF Restore
<1>7. IrqTypeOK'
  BY <1>1, <1>2, <1>6 DEF IrqTypeOK, Restore
<1>8. RegistersOK'
  BY <1>1, <1>2, <1>6 DEF RegistersOK, Restore, MayNest
<1>9. TableOK'
  BY <1>3, <1>4, <1>6 DEF TableOK, Restore
<1> QED BY <1>6, <1>7, <1>8, <1>9 DEF IrqInv

-----------------------------------------------------------------------------
(* The devices, and the handlers.                                           *)
LEMMA DevicesKeep ==
  ASSUME IrqInv, (\E l \in Lines : Raise(l)) \/ Clear \/ UNCHANGED irqVars
  PROVE IrqInv'
<1>1. /\ contexts' = contexts /\ pie' = pie /\ ienable' = ienable /\ active' = active
      /\ mask' = mask /\ table' = table /\ asked' = asked /\ asserted' \subseteq Lines
  BY DEF Raise, Clear, irqVars, IrqInv, IrqTypeOK
<1>2. IrqTypeOK'
  BY <1>1 DEF IrqTypeOK, IrqInv
<1>3. Top' = Top /\ Here' = Here /\ \A k \in 1 .. Top : Under(k)' = Under(k)
  BY <1>1, Stays
<1>4. StackOK'
  BY <1>1, <1>3 DEF IrqInv, StackOK, PlaceOK, CallOK, MayNest, MoreUrgentOnTop
<1>5. Top \in 1 .. Top
  BY TopIs
<1>6. RegistersOK'
  BY <1>1, <1>3, <1>5 DEF IrqInv, RegistersOK, MayNest, With
<1>7. TableOK'
  BY <1>1, <1>3 DEF IrqInv, TableOK, EnablesOK, Removing
<1> QED BY <1>2, <1>4, <1>6, <1>7 DEF IrqInv

LEMMA InterruptibleKeeps == ASSUME IrqInv, Interruptible PROVE IrqInv'
<1> DEFINE c == [Here EXCEPT !.old = mask]
<1>1. /\ IrqTypeOK /\ StackOK /\ RegistersOK /\ TableOK /\ Here.at = "run"
      /\ Here.line # Nobody /\ Here.old = Nobody
      /\ Here \in Context /\ Top \in Nat /\ Top > 0 /\ PlaceOK(Top, Here) /\ CallOK(Top, Here)
      /\ EnablesOK(Here)
  BY TopIs DEF Interruptible, InHandler, At
<1>2. /\ c \in Context /\ c.at = "run" /\ c.old = mask /\ c.line = Here.line
      /\ c.entry = Here.entry /\ c.estatus = Here.estatus /\ c.new = Here.new
  BY <1>1 DEF Context, IrqTypeOK
<1>3. Becomes(c)
  BY DEF Interruptible
<1> HIDE DEF c
<1>4. Top > 1 /\ Here.line \in Lines /\ mask = Under(Top) /\ c.old # Nobody /\ Here.new = Nobody
  <2>1. mask \in SUBSET Lines
    BY <1>1 DEF IrqTypeOK
  <2>2. c.old # Nobody
    BY <1>2, <2>1, InterruptsAssumption
  <2>3. Here.line \in Lines /\ Here.new = Nobody
    BY <1>1 DEF Context, CallOK, Calling
  <2>4. Top > 1
    BY <1>1 DEF PlaceOK
  <2> QED BY <1>1, <2>2, <2>3, <2>4 DEF RegistersOK
<1>5. PlaceOK(Top, c) /\ CallOK(Top, c) /\ EnablesOK(c)
  BY <1>1, <1>2, <1>4 DEF PlaceOK, CallOK, EnablesOK, Calling
<1>6. /\ StackOK' /\ contexts' \in Seq(Context) /\ contexts' # <<>>
      /\ Top' = Top /\ Here' = c /\ Under(Top)' = Under(Top)
      /\ (table' = table /\ EnablesOK(c)) => \A k \in 1 .. Top : EnablesOK(contexts[k])'
  BY <1>2, <1>3, <1>5, OnTop
<1>7. /\ mask' = MoreUrgent(Here.line) /\ ienable' = active \cap mask' /\ pie' = TRUE
      /\ mask' \subseteq Lines /\ table' = table /\ active' = active /\ asked' = asked
      /\ asserted' = asserted
  BY DEF Interruptible, PriorityMask, MoreUrgent
<1>8. IrqTypeOK'
  BY <1>1, <1>6, <1>7 DEF IrqTypeOK
<1>9. RegistersOK'
  BY <1>1, <1>2, <1>4, <1>6, <1>7 DEF RegistersOK, MayNest
<1>10. TableOK'
  BY <1>1, <1>2, <1>5, <1>6, <1>7 DEF TableOK
<1> QED BY <1>6, <1>8, <1>9, <1>10 DEF IrqInv

LEMMA NonInterruptibleKeeps == ASSUME IrqInv, NonInterruptible PROVE IrqInv'
<1> DEFINE c == [Here EXCEPT !.old = Nobody]
<1>1. /\ IrqTypeOK /\ StackOK /\ RegistersOK /\ TableOK /\ Here.at = "run"
      /\ Here.line # Nobody /\ Here.old # Nobody
      /\ Here \in Context /\ Top \in Nat /\ Top > 0 /\ PlaceOK(Top, Here) /\ CallOK(Top, Here)
      /\ EnablesOK(Here)
  BY TopIs DEF NonInterruptible, InHandler, At
<1>2. /\ c \in Context /\ c.at = "run" /\ c.old = Nobody /\ c.line = Here.line
      /\ c.entry = Here.entry /\ c.estatus = Here.estatus /\ c.new = Here.new
  BY <1>1 DEF Context
<1>3. Becomes(c)
  BY DEF NonInterruptible
<1> HIDE DEF c
<1>4. Top > 1 /\ Here.old = Under(Top) /\ Here.old \subseteq Lines /\ Here.new = Nobody
  BY <1>1 DEF PlaceOK, CallOK, Context
<1>5. PlaceOK(Top, c) /\ CallOK(Top, c) /\ EnablesOK(c)
  BY <1>1, <1>2, <1>4 DEF PlaceOK, CallOK, EnablesOK, Calling
<1>6. /\ StackOK' /\ contexts' \in Seq(Context) /\ contexts' # <<>>
      /\ Top' = Top /\ Here' = c /\ Under(Top)' = Under(Top)
      /\ (table' = table /\ EnablesOK(c)) => \A k \in 1 .. Top : EnablesOK(contexts[k])'
  BY <1>2, <1>3, <1>5, OnTop
<1>7. /\ mask' = Under(Top) /\ ienable' = active \cap mask' /\ pie' = FALSE
      /\ mask' \subseteq Lines /\ table' = table /\ active' = active /\ asked' = asked
      /\ asserted' = asserted
  BY <1>4 DEF NonInterruptible
<1>8. IrqTypeOK'
  BY <1>1, <1>6, <1>7 DEF IrqTypeOK
<1>9. RegistersOK'
  BY <1>1, <1>2, <1>4, <1>6, <1>7 DEF RegistersOK, MayNest
<1>10. TableOK'
  BY <1>1, <1>2, <1>5, <1>6, <1>7 DEF TableOK
<1> QED BY <1>6, <1>8, <1>9, <1>10 DEF IrqInv

LEMMA HandlerReturnsKeeps == ASSUME IrqInv, HandlerReturns PROVE IrqInv'
<1> DEFINE c == [Fresh("pending") EXCEPT !.estatus = Here.estatus]
<1>1. /\ IrqTypeOK /\ StackOK /\ RegistersOK /\ TableOK /\ Here.at = "run"
      /\ Here.line # Nobody /\ Here.old = Nobody /\ Here = contexts[Top]
      /\ Here \in Context /\ Top \in Nat /\ Top > 0 /\ PlaceOK(Top, Here) /\ CallOK(Top, Here)
  BY TopIs DEF HandlerReturns, InHandler, At
<1>2. /\ c \in Context /\ c.at = "pending" /\ c.old = Nobody /\ c.line = Nobody
      /\ c.estatus = Here.estatus /\ c.new = Nobody
  BY <1>1, FreshIs DEF Context
<1>3. Becomes(c)
  BY DEF HandlerReturns
<1> HIDE DEF c
<1>4. /\ contexts' \in Seq(Context) /\ contexts' # <<>>
      /\ Top' = Top /\ Here' = c /\ contexts'[Top] = c
      /\ \A k \in 1 .. Top - 1 : contexts'[k] = contexts[k]
      /\ \A k \in 1 .. Top : Under(k)' = Under(k)
  BY <1>1, <1>2, <1>3, Goes DEF IrqTypeOK
<1>5. PlaceOK(Top, c) /\ CallOK(Top, c) /\ EnablesOK(c) /\ ~MayNest(Top, c) /\ ~MayNest(Top, Here)
  BY <1>1, <1>2 DEF PlaceOK, CallOK, EnablesOK, MayNest, Calling
<1>6. StackOK'
  <2>1. ASSUME NEW k \in 1 .. Top PROVE (PlaceOK(k, contexts[k]) /\ CallOK(k, contexts[k]))'
    <3>1. CASE k = Top
      BY <1>4, <1>5, <3>1 DEF PlaceOK, CallOK
    <3>2. CASE k # Top
      BY <1>1, <1>4, <3>2 DEF PlaceOK, CallOK, StackOK
    <3> QED BY <3>1, <3>2
  <2>2. \A k \in 1 .. Top - 1 : MayNest(k, contexts[k])'
    BY <1>1, <1>4 DEF MayNest, StackOK
  <2>3. DOMAIN contexts' = 1 .. Top /\ DOMAIN contexts = 1 .. Top
    BY <1>1, <1>4 DEF Top, IrqTypeOK
  <2>4. \A k \in 1 .. Top : contexts'[k].line = IF k = Top THEN Nobody ELSE contexts[k].line
    BY <1>1, <1>2, <1>4
  <2>5. MoreUrgentOnTop'
    BY <1>1, <2>3, <2>4 DEF MoreUrgentOnTop, StackOK
  <2> QED BY <1>4, <2>1, <2>2, <2>5 DEF StackOK
<1>7. IrqTypeOK'
  BY <1>1, <1>4 DEF IrqTypeOK, HandlerReturns
<1>8. RegistersOK'
  <2>1. Top \in 1 .. Top
    BY <1>1
  <2>2. MayNest(Top, Here)' <=> MayNest(Top, c)
    BY <1>4 DEF MayNest
  <2> QED BY <1>1, <1>2, <1>4, <1>5, <2>1, <2>2 DEF RegistersOK, HandlerReturns
<1>9. TableOK'
  <2>1. ASSUME NEW k \in 1 .. Top PROVE EnablesOK(contexts[k])'
    <3>1. CASE k = Top
      BY <1>2, <1>4, <3>1 DEF EnablesOK
    <3>2. CASE k # Top
      BY <1>1, <1>4, <3>2 DEF EnablesOK, TableOK, HandlerReturns
    <3> QED BY <3>1, <3>2
  <2>2. \A l \in active \cup ienable : table[l].handler \in Handlers
    BY <1>1 DEF TableOK
  <2>3. \A l \in Lines : table[l].context = table[l].handler
    BY <1>1 DEF TableOK
  <2> QED BY <1>4, <2>1, <2>2, <2>3 DEF TableOK, HandlerReturns
<1> QED BY <1>6, <1>7, <1>8, <1>9 DEF IrqInv

LEMMA DispatchKeeps == ASSUME IrqInv, Dispatch PROVE IrqInv'
<1> DEFINE i == Min(Pending)
           c == [Here EXCEPT !.at = "run", !.line = i, !.entry = table[i]]
<1>1. /\ IrqTypeOK /\ StackOK /\ RegistersOK /\ TableOK /\ Here.at \in {"test", "pending"}
      /\ Here.line = Nobody /\ Here.old = Nobody /\ Here = contexts[Top]
      /\ Here \in Context /\ Top \in Nat /\ Top > 1 /\ PlaceOK(Top, Here) /\ CallOK(Top, Here)
      /\ Here.new = Nobody /\ Pending # {}
  BY TopIs DEF Dispatch, At, IsIrq, PlaceOK, CallOK, Calling
<1>2. i \in Pending
  <2>1. Pending \subseteq Nat
    BY <1>1 DEF Pending, IrqTypeOK, Lines
  <2>2. PICK x \in Pending : \A y \in Pending : x =< y
    BY <1>1, <2>1, LeastNat
  <2> QED BY <2>2 DEF Min
<1>3. /\ i \in Lines /\ i \in active /\ i \in mask /\ table[i].handler \in Handlers
      /\ table[i].context = table[i].handler /\ table[i] \in Entry
  BY <1>1, <1>2 DEF Pending, IrqTypeOK, RegistersOK, TableOK
<1>4. mask = Under(Top)
  BY <1>1 DEF RegistersOK
<1>5. /\ c \in Context /\ c.at = "run" /\ c.old = Nobody /\ c.line = i
      /\ c.estatus = Here.estatus /\ c.new = Nobody /\ c.entry = table[i]
  BY <1>1, <1>3 DEF Context
<1>6. Becomes(c)
  BY DEF Dispatch
<1> HIDE DEF c, i
<1>7. /\ contexts' \in Seq(Context) /\ contexts' # <<>>
      /\ Top' = Top /\ Here' = c /\ contexts'[Top] = c
      /\ \A k \in 1 .. Top - 1 : contexts'[k] = contexts[k]
      /\ \A k \in 1 .. Top : Under(k)' = Under(k)
  BY <1>1, <1>5, <1>6, Goes DEF IrqTypeOK
<1>8. /\ PlaceOK(Top, c) /\ CallOK(Top, c) /\ EnablesOK(c) /\ ~MayNest(Top, c) /\ ~MayNest(Top, Here)
  BY <1>1, <1>3, <1>5 DEF PlaceOK, CallOK, EnablesOK, MayNest, Calling
<1>9. StackOK'
  <2>1. ASSUME NEW k \in 1 .. Top PROVE (PlaceOK(k, contexts[k]) /\ CallOK(k, contexts[k]))'
    <3>1. CASE k = Top
      BY <1>7, <1>8, <3>1 DEF PlaceOK, CallOK
    <3>2. CASE k # Top
      BY <1>1, <1>7, <3>2 DEF PlaceOK, CallOK, StackOK
    <3> QED BY <3>1, <3>2
  <2>2. \A k \in 1 .. Top - 1 : MayNest(k, contexts[k])'
    BY <1>1, <1>7 DEF MayNest, StackOK
  <2>3. DOMAIN contexts' = 1 .. Top /\ DOMAIN contexts = 1 .. Top
    BY <1>1, <1>7 DEF Top, IrqTypeOK
  <2>4. /\ contexts'[Top].line = i
        /\ \A k \in 1 .. Top : k # Top => contexts'[k].line = contexts[k].line
    BY <1>1, <1>5, <1>7
  <2>5. ASSUME NEW j \in 1 .. Top, j < Top, contexts[j].line # Nobody PROVE i < contexts[j].line
    <3>1. j # 1
      BY <1>1, <2>5, InterruptsAssumption DEF StackOK, PlaceOK
    <3>2. Top > 2 /\ Top - 1 \in 1 .. Top /\ Top - 1 \in 1 .. Top - 1 /\ Top - 1 > 1
      BY <1>1, <2>5, <3>1
    <3>3. contexts[Top-1].line \in Lines
      BY <3>2, <1>1 DEF StackOK, PlaceOK, MayNest
    <3>4. i < contexts[Top-1].line
      BY <1>1, <1>3, <1>4, <3>2 DEF Under, MoreUrgent
    <3>5. CASE j = Top - 1
      BY <3>4, <3>5
    <3>6. CASE j # Top - 1
      <4>1. j < Top - 1
        BY <1>1, <2>5, <3>6
      <4>2. contexts[Top-1].line < contexts[j].line
        BY <1>1, <2>3, <2>5, <3>2, <3>3, <4>1, InterruptsAssumption DEF StackOK, MoreUrgentOnTop
      <4>3. contexts[j].line \in Lines
        <5>1. contexts[j] \in Context
          BY <1>1 DEF IrqTypeOK, Top
        <5> QED BY <2>5, <5>1 DEF Context
      <4> QED BY <1>3, <3>3, <3>4, <4>2, <4>3 DEF Lines
    <3> QED BY <3>5, <3>6
  <2>6. MoreUrgentOnTop'
    <3> SUFFICES ASSUME NEW j \in 1 .. Top, NEW k \in 1 .. Top, j < k,
                        contexts'[j].line # Nobody, contexts'[k].line # Nobody
                 PROVE contexts'[k].line < contexts'[j].line
      BY <2>3 DEF MoreUrgentOnTop
    <3>1. j # Top /\ j < Top
      BY <1>1
    <3>2. contexts'[j].line = contexts[j].line
      BY <2>4, <3>1
    <3>3. CASE k = Top
      BY <2>4, <2>5, <3>1, <3>2, <3>3
    <3>4. CASE k # Top
      BY <1>1, <2>3, <2>4, <3>2, <3>4 DEF StackOK, MoreUrgentOnTop
    <3> QED BY <3>3, <3>4
  <2> QED BY <1>7, <2>1, <2>2, <2>6 DEF StackOK
<1>10. IrqTypeOK'
  BY <1>1, <1>7 DEF IrqTypeOK, Dispatch
<1>11. RegistersOK'
  <2>1. Top \in 1 .. Top
    BY <1>1
  <2>2. MayNest(Top, Here)' <=> MayNest(Top, c)
    BY <1>7 DEF MayNest
  <2> QED BY <1>1, <1>5, <1>7, <1>8, <2>1, <2>2 DEF RegistersOK, Dispatch
<1>12. TableOK'
  <2>1. ASSUME NEW k \in 1 .. Top PROVE EnablesOK(contexts[k])'
    <3>1. CASE k = Top
      BY <1>5, <1>7, <3>1 DEF EnablesOK
    <3>2. CASE k # Top
      BY <1>1, <1>7, <3>2 DEF EnablesOK, TableOK, Dispatch
    <3> QED BY <3>1, <3>2
  <2>2. \A l \in active \cup ienable : table[l].handler \in Handlers
    BY <1>1 DEF TableOK
  <2>3. \A l \in Lines : table[l].context = table[l].handler
    BY <1>1 DEF TableOK
  <2> QED BY <1>7, <2>1, <2>2, <2>3 DEF TableOK, Dispatch
<1> QED BY <1>9, <1>10, <1>11, <1>12 DEF IrqInv

(* An exception and the return from it: everything below stays.             *)
LEMMA ExceptionKeeps == ASSUME IrqInv, Exception PROVE IrqInv'
<1> DEFINE c == [Fresh("test") EXCEPT !.estatus = pie]
<1>1. /\ IrqTypeOK /\ StackOK /\ RegistersOK /\ TableOK /\ Here = contexts[Top]
      /\ Here \in Context /\ Top \in Nat /\ Top > 0 /\ PlaceOK(Top, Here) /\ CallOK(Top, Here)
      /\ pie = TRUE /\ MayNest(Top, Here)
  BY TopIs DEF Exception, RegistersOK, IrqTypeOK
<1>2. /\ c \in Context /\ c.at = "test" /\ c.old = Nobody /\ c.line = Nobody
      /\ c.estatus = TRUE /\ c.new = Nobody
  BY <1>1, FreshIs DEF Context
<1>3. /\ contexts' = Append(contexts, c) /\ pie' = FALSE /\ ienable' = ienable
      /\ asserted' = asserted /\ active' = active /\ mask' = mask /\ table' = table
      /\ asked' = asked
  BY DEF Exception
<1> HIDE DEF c
<1>4. /\ contexts' \in Seq(Context) /\ contexts' # <<>> /\ Top' = Top + 1
      /\ contexts'[Top+1] = c /\ \A k \in 1 .. Top : contexts'[k] = contexts[k]
  BY <1>1, <1>2, <1>3 DEF Top, IrqTypeOK
<1>5. Here' = c
  BY <1>4, HereIsTop DEF Here, Last, Top
<1>6. ASSUME NEW k \in 1 .. Top PROVE Under(k)' = Under(k)
  <2>1. CASE k <= 2
    BY <2>1 DEF Under
  <2>2. CASE k > 2
    <3>1. k - 1 \in 1 .. Top
      BY <1>1, <2>2
    <3> QED BY <1>4, <2>2, <3>1 DEF Under
  <2>3. k <= 2 \/ k > 2
    BY <1>1
  <2> QED BY <2>1, <2>2, <2>3
<1>7. mask = Under(Top)'
  <2>1. CASE Top = 1
    BY <1>1, <1>4, <2>1 DEF RegistersOK, PlaceOK, Under
  <2>2. CASE Top # 1
    <3>1. mask = MoreUrgent(Here.line)
      BY <1>1, <2>2 DEF RegistersOK, MayNest
    <3>2. Top + 1 > 2 /\ (Top + 1) - 1 = Top /\ Top \in 1 .. Top
      BY <1>1, <2>2
    <3> QED BY <1>1, <1>4, <3>1, <3>2 DEF Under
  <2> QED BY <2>1, <2>2
<1>8. StackOK'
  <2>1. ASSUME NEW k \in 1 .. Top + 1
        PROVE (PlaceOK(k, contexts[k]) /\ CallOK(k, contexts[k]))'
    <3>1. CASE k = Top + 1
      BY <1>1, <1>2, <1>4, <3>1 DEF PlaceOK, CallOK, Calling
    <3>2. CASE k # Top + 1
      <4>1. k \in 1 .. Top
        BY <1>1, <3>2
      <4> QED BY <1>1, <1>4, <1>6, <4>1 DEF PlaceOK, CallOK, StackOK
    <3> QED BY <3>1, <3>2
  <2>2. ASSUME NEW k \in 1 .. Top PROVE MayNest(k, contexts[k])'
    <3>1. MayNest(k, contexts[k])
      BY <1>1 DEF StackOK
    <3> QED BY <1>4, <3>1 DEF MayNest
  <2>3. DOMAIN contexts' = 1 .. Top + 1 /\ DOMAIN contexts = 1 .. Top
    BY <1>1, <1>4 DEF Top, IrqTypeOK
  <2>4. \A k \in 1 .. Top + 1 : contexts'[k].line # Nobody
                               => k \in 1 .. Top /\ contexts'[k].line = contexts[k].line
    BY <1>1, <1>2, <1>4
  <2>5. MoreUrgentOnTop'
    BY <1>1, <2>3, <2>4 DEF MoreUrgentOnTop, StackOK
  <2>6. (Top + 1) - 1 = Top
    BY <1>1
  <2> QED BY <1>4, <2>1, <2>2, <2>5, <2>6 DEF StackOK
<1>9. IrqTypeOK'
  BY <1>1, <1>3, <1>4 DEF IrqTypeOK
<1>10. RegistersOK'
  BY <1>1, <1>2, <1>3, <1>4, <1>5, <1>7 DEF RegistersOK, MayNest
<1>11. TableOK'
  <2>1. ASSUME NEW k \in 1 .. Top + 1 PROVE EnablesOK(contexts[k])'
    <3>1. CASE k = Top + 1
      BY <1>2, <1>4, <3>1 DEF EnablesOK
    <3>2. CASE k # Top + 1
      <4>1. k \in 1 .. Top
        BY <1>1, <3>2
      <4> QED BY <1>1, <1>3, <1>4, <4>1 DEF EnablesOK, TableOK
    <3> QED BY <3>1, <3>2
  <2>2. \A l \in active \cup ienable : table[l].handler \in Handlers
    BY <1>1 DEF TableOK, MayNest, Removing
  <2>3. \A l \in Lines : table[l].context = table[l].handler
    BY <1>1 DEF TableOK, MayNest
  <2> QED BY <1>3, <1>4, <1>5, <2>1, <2>2, <2>3 DEF TableOK
<1> QED BY <1>8, <1>9, <1>10, <1>11 DEF IrqInv

LEMMA EretKeeps == ASSUME IrqInv, Eret PROVE IrqInv'
<1>1. /\ IrqTypeOK /\ StackOK /\ RegistersOK /\ TableOK /\ Here = contexts[Top]
      /\ Here \in Context /\ Top \in Nat /\ Top > 1
      /\ Here.at = "pending" /\ Here.old = Nobody /\ Here.new = Nobody /\ Here.estatus = TRUE
  <2>1. /\ IrqTypeOK /\ StackOK /\ RegistersOK /\ TableOK /\ Here = contexts[Top]
        /\ Here \in Context /\ Top \in Nat /\ Top > 0
        /\ PlaceOK(Top, Here) /\ CallOK(Top, Here) /\ Here.at = "pending"
    BY TopIs DEF Eret, At
  <2>2. Top > 1 /\ Here.old = Nobody /\ Here.estatus
    BY <2>1 DEF PlaceOK
  <2>3. Here.new = Nobody
    BY <2>1 DEF CallOK, Calling
  <2>4. Here.estatus \in BOOLEAN
    BY <2>1 DEF Context
  <2> QED BY <2>1, <2>2, <2>3, <2>4
<1>2. /\ contexts' = Front(contexts) /\ pie' = TRUE /\ ienable' = ienable
      /\ asserted' = asserted /\ active' = active /\ mask' = mask /\ table' = table
      /\ asked' = asked
  BY <1>1 DEF Eret
<1>3. /\ contexts' \in Seq(Context) /\ Len(contexts') = Top - 1
      /\ \A k \in 1 .. Top - 1 : contexts'[k] = contexts[k]
  BY <1>1, <1>2 DEF Front, Top, IrqTypeOK
<1>4. contexts' # <<>> /\ Top' = Top - 1 /\ Here' = contexts[Top-1]
  BY <1>1, <1>3 DEF Here, Last, Top
<1>5. ASSUME NEW k \in 1 .. Top - 1 PROVE Under(k)' = Under(k)
  <2>1. CASE k <= 2
    BY <2>1 DEF Under
  <2>2. CASE k > 2
    <3>1. k - 1 \in 1 .. Top - 1
      BY <1>1, <2>2
    <3> QED BY <1>3, <2>2, <3>1 DEF Under
  <2>3. k <= 2 \/ k > 2
    BY <1>1
  <2> QED BY <2>1, <2>2, <2>3
<1>6. /\ Top - 1 \in 1 .. Top - 1 /\ Top - 1 \in 1 .. Top
      /\ MayNest(Top - 1, Here') /\ PlaceOK(Top - 1, Here')
  BY <1>1, <1>4 DEF StackOK
<1>7. mask = IF Here'.old # Nobody THEN MoreUrgent(Here'.line) ELSE Under(Top)'
  <2>1. mask = Under(Top)
    BY <1>1 DEF RegistersOK
  <2>2. CASE Top = 2
    <3>1. Here'.old = Nobody
      BY <1>6, <2>2 DEF PlaceOK
    <3> QED BY <1>4, <2>1, <2>2, <3>1 DEF Under
  <2>3. CASE Top # 2
    <3>1. Here'.old # Nobody
      BY <1>1, <1>6, <2>3 DEF MayNest
    <3> QED BY <1>1, <1>4, <2>1, <2>3, <3>1 DEF Under
  <2> QED BY <2>2, <2>3
<1>8. StackOK'
  <2>1. ASSUME NEW k \in 1 .. Top - 1
        PROVE (PlaceOK(k, contexts[k]) /\ CallOK(k, contexts[k]))'
    <3>1. k \in 1 .. Top
      BY <1>1
    <3> QED BY <1>1, <1>3, <1>5, <3>1 DEF PlaceOK, CallOK, StackOK
  <2>2. ASSUME NEW k \in 1 .. (Top - 1) - 1 PROVE MayNest(k, contexts[k])'
    <3>1. k \in 1 .. Top - 1
      BY <1>1
    <3> QED BY <1>1, <1>3, <3>1 DEF MayNest, StackOK
  <2>3. DOMAIN contexts' = 1 .. Top - 1 /\ DOMAIN contexts = 1 .. Top
    BY <1>1, <1>3 DEF Top, IrqTypeOK
  <2>4. MoreUrgentOnTop'
    BY <1>1, <1>3, <2>3 DEF MoreUrgentOnTop, StackOK
  <2> QED BY <1>4, <2>1, <2>2, <2>4 DEF StackOK
<1>9. IrqTypeOK'
  BY <1>1, <1>2, <1>3, <1>4 DEF IrqTypeOK
<1>10. RegistersOK'
  BY <1>1, <1>2, <1>4, <1>6, <1>7 DEF RegistersOK, MayNest
<1>11. TableOK'
  <2>1. ASSUME NEW k \in 1 .. Top - 1 PROVE EnablesOK(contexts[k])'
    <3>1. k \in 1 .. Top
      BY <1>1
    <3> QED BY <1>1, <1>2, <1>3, <3>1 DEF EnablesOK, TableOK
  <2>2. \A l \in active \cup ienable : table[l].handler \in Handlers
    BY <1>1 DEF TableOK
  <2>3. \A l \in Lines : table[l].context = table[l].handler
    BY <1>1 DEF TableOK
  <2> QED BY <1>2, <1>4, <2>1, <2>2, <2>3 DEF TableOK
<1> QED BY <1>8, <1>9, <1>10, <1>11 DEF IrqInv

-----------------------------------------------------------------------------
LEMMA IrqInvInit == IrqInit => IrqInv
<1> SUFFICES ASSUME IrqInit PROVE IrqInv
  OBVIOUS
<1>1. /\ Fresh("run") \in Context /\ Fresh("run").at = "run" /\ Fresh("run").line = Nobody
      /\ Fresh("run").old = Nobody /\ Fresh("run").new = Nobody
  BY FreshIs
<1>2. /\ contexts \in Seq(Context) /\ contexts # <<>> /\ Top = 1 /\ contexts[1] = Fresh("run")
      /\ Here = Fresh("run")
  BY <1>1 DEF IrqInit, Top, Here, Last
<1>3. Void \in Entry /\ Void.handler = Void.context
  BY DEF Void, Entry
<1>4. IrqTypeOK
  BY <1>2, <1>3 DEF IrqInit, IrqTypeOK
<1>5. PlaceOK(1, Fresh("run")) /\ CallOK(1, Fresh("run")) /\ EnablesOK(Fresh("run"))
      /\ MayNest(1, Fresh("run"))
  BY <1>1 DEF PlaceOK, CallOK, EnablesOK, MayNest, Calling
<1>6. StackOK
  <2>1. \A k \in 1 .. Top : k = 1
    BY <1>2
  <2>2. \A k \in 1 .. Top - 1 : FALSE
    BY <1>2
  <2>3. DOMAIN contexts = 1 .. Top
    BY <1>2 DEF Top
  <2>4. MoreUrgentOnTop
    BY <2>1, <2>3 DEF MoreUrgentOnTop
  <2> QED BY <1>2, <1>5, <2>1, <2>2, <2>4 DEF StackOK
<1>7. RegistersOK
  BY <1>1, <1>2, <1>5 DEF RegistersOK, IrqInit, Under
<1>8. TableOK
  BY <1>2, <1>3, <1>5 DEF TableOK, IrqInit
<1> QED BY <1>4, <1>6, <1>7, <1>8 DEF IrqInv

LEMMA IrqInvNext == IrqInv /\ [IrqNext]_irqVars => IrqInv'
<1> SUFFICES ASSUME IrqInv, [IrqNext]_irqVars PROVE IrqInv'
  OBVIOUS
<1>1. CASE (\E l \in Lines : Raise(l)) \/ Clear \/ UNCHANGED irqVars
  BY <1>1, DevicesKeep
<1>2. CASE Exception
  BY <1>2, ExceptionKeeps
<1>3. CASE Dispatch
  BY <1>3, DispatchKeeps
<1>4. CASE Eret
  BY <1>4, EretKeeps
<1>5. CASE Interruptible
  BY <1>5, InterruptibleKeeps
<1>6. CASE NonInterruptible
  BY <1>6, NonInterruptibleKeeps
<1>7. CASE HandlerReturns
  BY <1>7, HandlerReturnsKeeps
<1>8. CASE Routines
  BY <1>8, RegisterKeeps, EnableOrDisableKeeps, StoreHandlerKeeps, StoreContextKeeps, OffKeeps,
     LoadActiveKeeps, StoreActiveKeeps, WriteIenableKeeps, OnKeeps, RestoreKeeps DEF Routines
<1> QED BY <1>1, <1>2, <1>3, <1>4, <1>5, <1>6, <1>7, <1>8 DEF IrqNext

LEMMA IrqAlways == IrqSpec => []IrqInv
  BY IrqInvInit, IrqInvNext, PTL DEF IrqSpec

(* A handler called is one that a call of the registration put into the     *)
(* table, with the context of the same call (alt_iic_isr_register.c:84-97,  *)
(* alt_irq_handler.c:144).                                                  *)
THEOREM HandlersAreRegistered == IrqSpec => []CallsRegistered
<1>1. IrqInv => CallsRegistered
  BY DEF IrqInv, IrqTypeOK, StackOK, PlaceOK, CallsRegistered, Top
<1> QED BY <1>1, IrqAlways, PTL

(* No enable or disable is lost, and every mask has been put back, when the *)
(* program runs (alt_legacy_irq.h:68-99, 118-152).                          *)
THEOREM EnablesAreKept == IrqSpec => []EnablesKept
<1>1. ASSUME IrqInv, Len(contexts) = 1, At("run") PROVE pie /\ active = asked /\ ienable = asked
  <2>1. /\ Here.at = "run" /\ Top = 1 /\ PlaceOK(1, Here) /\ CallOK(1, Here)
        /\ RegistersOK /\ active \subseteq Lines
    BY <1>1, TopIs DEF Top, At, IrqTypeOK
  <2>2. Here.new = Nobody /\ Here.old = Nobody
    BY <2>1 DEF PlaceOK, CallOK, Calling
  <2> QED BY <2>1, <2>2 DEF RegistersOK, MayNest, Under
<1>2. IrqInv => EnablesKept
  BY <1>1 DEF EnablesKept
<1> QED BY <1>2, IrqAlways, PTL

(* However deep the handlers nest, each is on top of less urgent ones       *)
(* (alt_legacy_irq.h:101-131).                                              *)
THEOREM NestingIsByUrgency == IrqSpec => []MoreUrgentOnTop
<1>1. IrqInv => MoreUrgentOnTop
  BY DEF IrqInv, StackOK
<1> QED BY <1>1, IrqAlways, PTL

-----------------------------------------------------------------------------
(* The file layer.  That the table is true, and that a lock keeps other    *)
(* opens out, is not inductive: open finds what it gives a descriptor in   *)
(* the lists of the devices, and looks for a lock up to the highest        *)
(* descriptor ever used only.  FilesInv says what of the lists and of that *)
(* bound the two rest on.                                                  *)

Access == {"RDONLY", "WRONLY", "RDWR"}
Entries == [dev : Drivers \cup {NoDriver}, mode : Access, options : SUBSET Options,
            excl : BOOLEAN, isDev : BOOLEAN]

ListsOK ==
  /\ alt_dev_list \in Seq(Devices) /\ alt_fs_list \in Seq(FileSystems)
  /\ ToSet(alt_dev_list) \cap ToSet(alt_fs_list) = {}

OpenedOK ==
  /\ DOMAIN opened \subseteq Descriptors
  /\ redirected \in 0 .. 3 /\ (redirected < 3 => DOMAIN opened = {})
  /\ alt_max_fd \in Int
  /\ \A f \in DOMAIN opened :
       /\ opened[f] \in [dev : Drivers, mode : Modes]
       /\ alt_fd_list[f].dev = opened[f].dev /\ alt_fd_list[f].mode = opened[f].mode
       /\ f <= alt_max_fd

EntriesOK ==
  /\ alt_fd_list \in [Descriptors -> Entries]
  /\ \A f \in Descriptors :
       /\ alt_fd_list[f].dev # NoDriver <=> f \in Held
       /\ alt_fd_list[f].excl => alt_fd_list[f].isDev
       /\ alt_fd_list[f].isDev => alt_fd_list[f].dev \in ToSet(alt_dev_list)

FilesInv == ListsOK /\ OpenedOK /\ EntriesOK

(* What the searches find.                                                 *)
LEMMA LeastIs ==
  ASSUME NEW S \in SUBSET Nat, S # {}
  PROVE  Min(S) \in S /\ \A y \in S : Min(S) =< y
BY LeastNat DEF Min

LEMMA FirstIs ==
  ASSUME NEW T, NEW list \in Seq(T), NEW wanted, First(list, wanted) # NoDriver
  PROVE  First(list, wanted) \in ToSet(list)
<1> DEFINE hits == {i \in DOMAIN list : list[i] \in wanted}
<1>1. First(list, wanted) = IF hits = {} THEN NoDriver ELSE list[Min(hits)]
  BY DEF First
<1>2. hits \in SUBSET Nat /\ hits \subseteq DOMAIN list
  OBVIOUS
<1> HIDE DEF hits
<1>3. hits # {} /\ First(list, wanted) = list[Min(hits)]
  BY <1>1
<1>4. Min(hits) \in DOMAIN list
  BY <1>2, <1>3, LeastIs
<1> QED  BY <1>3, <1>4 DEF ToSet

LEMMA AttemptIs ==
  ASSUME FilesInv, NEW name, AttemptOf(name).dev # NoDriver
  PROVE  /\ AttemptOf(name).dev \in Drivers /\ AttemptOf(name).isFs \in BOOLEAN
         /\ AttemptOf(name).isFs => AttemptOf(name).dev \in ToSet(alt_fs_list)
         /\ ~AttemptOf(name).isFs => AttemptOf(name).dev \in ToSet(alt_dev_list)
<1>1. ToSet(alt_dev_list) \subseteq Drivers /\ ToSet(alt_fs_list) \subseteq Drivers
  BY DEF FilesInv, ListsOK, ToSet, Drivers
<1>2. CASE FindDev(name) # NoDriver
  <2>1. AttemptOf(name).dev = FindDev(name) /\ ~AttemptOf(name).isFs /\ AttemptOf(name).isFs \in BOOLEAN
    BY <1>2 DEF AttemptOf
  <2>2. FindDev(name) \in ToSet(alt_dev_list)
    BY <1>2, FirstIs DEF FindDev, FilesInv, ListsOK
  <2> QED  BY <1>1, <2>1, <2>2
<1>3. CASE FindDev(name) = NoDriver
  <2>1. AttemptOf(name).dev = FindFile(name) /\ AttemptOf(name).isFs /\ AttemptOf(name).isFs \in BOOLEAN
    BY <1>3 DEF AttemptOf
  <2>2. FindFile(name) \in ToSet(alt_fs_list)
    BY <2>1, FirstIs DEF FindFile, FilesInv, ListsOK
  <2> QED  BY <1>1, <2>1, <2>2
<1> QED  BY <1>2, <1>3

LEMMA FreeIs ==
  ASSUME FilesInv, Free # {}
  PROVE  /\ Min(Free) \in Descriptors /\ Min(Free) > 2 /\ Min(Free) \notin Held
         /\ alt_fd_list[Min(Free)].dev = NoDriver
<1>1. Free \in SUBSET Nat
  BY FilesAssumption DEF Free, Descriptors
<1>2. Min(Free) \in Free
  BY <1>1, LeastIs
<1>3. Min(Free) \in Descriptors /\ alt_fd_list[Min(Free)].dev = NoDriver
  BY <1>2 DEF Free
<1>4. Min(Free) \notin Held
  BY <1>3 DEF FilesInv, EntriesOK
<1> QED  BY <1>3, <1>4, FilesAssumption DEF Held, Std, Descriptors

(* The entries of the table.                                               *)
LEMMA UnusedIs ==
  /\ Unused \in Entries /\ Unused.dev = NoDriver /\ ~Unused.excl /\ ~Unused.isDev
<1> DEFINE F == FALSE
           set == {}
           m == "RDONLY"
<1>1. F \in BOOLEAN /\ ~F /\ set \in SUBSET Options /\ m \in Access
      /\ NoDriver \in Drivers \cup {NoDriver}
  BY DEF Access
<1>2. Unused = [dev |-> NoDriver, mode |-> m, options |-> set, excl |-> F, isDev |-> F]
  BY DEF Unused
<1> HIDE DEF F, set, m
<1> QED  BY <1>1, <1>2, Zenon DEF Entries

LEMMA NewFdIs ==
  ASSUME NEW d \in Drivers, NEW isFs \in BOOLEAN, NEW mode \in Access,
         NEW options \in SUBSET Options
  PROVE  LET new == NewFd(d, isFs, mode, options)
         IN /\ new \in Entries /\ new.dev = d /\ new.mode = mode /\ ~new.excl
            /\ new.isDev <=> ~isFs
<1> DEFINE dev == ~isFs
<1>1. dev \in BOOLEAN /\ d \in Drivers \cup {NoDriver}
  OBVIOUS
<1>2. NewFd(d, isFs, mode, options)
        = [Unused EXCEPT !.dev = d, !.mode = mode, !.options = options, !.isDev = dev]
  BY DEF NewFd
<1> HIDE DEF dev
<1>3. LET new == NewFd(d, isFs, mode, options)
      IN /\ new \in Entries /\ new.dev = d /\ new.mode = mode /\ ~new.excl
         /\ new.isDev <=> dev
  BY <1>1, <1>2, UnusedIs, Zenon DEF Entries
<1> QED  BY <1>3, Zenon DEF dev

LEMMA EntryChanges ==
  ASSUME NEW r \in Entries, NEW options \in SUBSET Options, NEW b \in BOOLEAN
  PROVE  /\ LET q == [r EXCEPT !.options = options]
            IN /\ q \in Entries /\ q.dev = r.dev /\ q.mode = r.mode
               /\ (q.excl <=> r.excl) /\ (q.isDev <=> r.isDev)
         /\ LET q == [r EXCEPT !.excl = b]
            IN /\ q \in Entries /\ q.dev = r.dev /\ q.mode = r.mode
               /\ (q.excl <=> b) /\ (q.isDev <=> r.isDev)
BY Zenon DEF Entries

(* How a call is answered depends on the device and the mode.              *)
LEMMA AnswersAgree ==
  ASSUME NEW r, NEW q, r.dev = q.dev, r.mode = q.mode
  PROVE  Answers(r) = Answers(q)
BY DEF Answers, ReadFd, WriteFd, Lseek, Fstat, Isatty, Ioctl, GetFl, Calls

LEMMA FieldsAre ==
  ASSUME NEW r, NEW x, NEW y, r = [list |-> x, max |-> y]
  PROVE  r.list = x /\ r.max = y
OBVIOUS

Taken(f, new) == [alt_fd_list EXCEPT ![f] = new]

(* What open makes of the table, and what it has then looked at.           *)
Failed(name, mode, options) == Opened(name, mode, options, FALSE)

LEMMA FailedIs ==
  ASSUME FilesInv, NEW name, NEW mode \in Access, NEW options \in SUBSET Options
  PROVE  LET after == Failed(name, mode, options)
         IN /\ after.max \in Int /\ after.max >= alt_max_fd
            /\ after.list \in [Descriptors -> Entries]
            /\ \A g \in Descriptors :
                 \/ after.list[g] = alt_fd_list[g]
                 \/ alt_fd_list[g].dev = NoDriver /\ g \notin Held /\ after.list[g] = Unused
<1> DEFINE a == AttemptOf(name)
           f == Min(Free)
           new == NewFd(a.dev, a.isFs, mode, options)
<1>0. alt_max_fd \in Int /\ alt_fd_list \in [Descriptors -> Entries]
  BY DEF FilesInv, OpenedOK, EntriesOK
<1>1. CASE a.dev = NoDriver \/ Free = {}
  <2>1. Failed(name, mode, options) = [list |-> alt_fd_list, max |-> alt_max_fd]
    BY <1>1 DEF Failed, Opened
  <2> QED  BY <1>0, <2>1
<1>2. CASE a.dev # NoDriver /\ Free # {}
  <2>1. f \in Descriptors /\ f > 2 /\ f \notin Held /\ alt_fd_list[f].dev = NoDriver
    BY <1>2, FreeIs
  <2>2. Failed(name, mode, options)
          = [list |-> Release([alt_fd_list EXCEPT ![f] = new], f), max |-> Raised(f)]
    BY <1>2 DEF Failed, Opened, OnFailure
  <2> DEFINE list == [alt_fd_list EXCEPT ![f] = new]
  <2>3. Release(list, f) = [list EXCEPT ![f] = Unused]
    BY <2>1 DEF Release
  <2>4. Raised(f) \in Int /\ Raised(f) >= alt_max_fd
    BY <1>0, <2>1, FilesAssumption DEF Raised, Descriptors
  <2> HIDE DEF new, f
  <2>5. /\ Release(list, f) \in [Descriptors -> Entries]
        /\ \A g \in Descriptors : Release(list, f)[g] = IF g = f THEN Unused ELSE alt_fd_list[g]
    <3>1. Release(list, f) = [g \in Descriptors |-> IF g = f THEN Unused ELSE alt_fd_list[g]]
      BY <1>0, <2>1, <2>3
    <3> QED  BY <1>0, <3>1, UnusedIs
  <2> DEFINE after == Failed(name, mode, options)
  <2>6. after.list = Release(list, f) /\ after.max = Raised(f)
    BY <2>2, FieldsAre, Zenon
  <2> HIDE DEF list, after
  <2>7. \A g \in Descriptors :
          \/ after.list[g] = alt_fd_list[g]
          \/ alt_fd_list[g].dev = NoDriver /\ g \notin Held /\ after.list[g] = Unused
    BY <2>1, <2>5, <2>6
  <2>8. after.list \in [Descriptors -> Entries] /\ after.max \in Int /\ after.max >= alt_max_fd
    BY <2>4, <2>5, <2>6
  <2> QED  BY <2>7, <2>8, Zenon DEF after
<1> QED  BY <1>1, <1>2

LEMMA SucceededIs ==
  ASSUME FilesInv, NEW name, NEW mode \in Access, NEW options \in SUBSET Options,
         NEW ok \in Succeeds(name), ok
  PROVE  LET a == AttemptOf(name)
             f == Min(Free)
             after == Opened(name, mode, options, ok)
         IN /\ a.dev # NoDriver /\ Free # {}
            /\ ~a.isFs => ~FileLocked(alt_fd_list, Raised(f), a.dev)
            /\ after.max = Raised(f) /\ Raised(f) \in Int
            /\ Raised(f) >= alt_max_fd /\ Raised(f) >= f
            /\ after.list = Taken(f, NewFd(a.dev, a.isFs, mode, options))
<1> DEFINE a == AttemptOf(name)
           f == Min(Free)
<1>1. a.dev # NoDriver /\ Free # {} /\ (~a.isFs => ~FileLocked(alt_fd_list, Raised(f), a.dev))
  BY DEF Succeeds
<1>2. Opened(name, mode, options, ok)
        = [list |-> Taken(f, NewFd(a.dev, a.isFs, mode, options)),
           max |-> Raised(f)]
  BY <1>1 DEF Opened, Taken
<1>3. f \in Int /\ alt_max_fd \in Int
  BY <1>1, FreeIs, FilesAssumption DEF FilesInv, OpenedOK, Descriptors
<1>4. Raised(f) \in Int /\ Raised(f) >= alt_max_fd /\ Raised(f) >= f
  BY <1>3 DEF Raised
<1> DEFINE after == Opened(name, mode, options, ok)
           taken == Taken(f, NewFd(a.dev, a.isFs, mode, options))
           max == Raised(f)
<1>5. after = [list |-> taken, max |-> max]
  BY <1>2, Zenon
<1> HIDE DEF a, f, after, taken, max
<1>7. after.list = taken /\ after.max = max
  BY <1>5
<1>6. /\ a.dev # NoDriver /\ Free # {} /\ (~a.isFs => ~FileLocked(alt_fd_list, Raised(f), a.dev))
      /\ after.max = Raised(f) /\ Raised(f) \in Int /\ Raised(f) >= alt_max_fd /\ Raised(f) >= f
      /\ after.list = Taken(f, NewFd(a.dev, a.isFs, mode, options))
  BY <1>1, <1>4, <1>7, Zenon DEF taken, max
<1> QED  BY <1>6, Zenon DEF a, f, after

-----------------------------------------------------------------------------
(* Entry e is right for descriptor g, when held are in use.                *)
Fits(e, g, held, devices) ==
  /\ e.dev # NoDriver <=> g \in held
  /\ e.excl => e.isDev
  /\ e.isDev => e.dev \in devices

LEMMA EntriesKept ==
  ASSUME FilesInv, alt_fd_list' \in [Descriptors -> Entries],
         ToSet(alt_dev_list) \subseteq ToSet(alt_dev_list'),
         \A g \in Descriptors :
           \/ alt_fd_list'[g] = alt_fd_list[g] /\ (g \in Held' <=> g \in Held)
           \/ Fits(alt_fd_list'[g], g, Held', ToSet(alt_dev_list'))
  PROVE  EntriesOK'
<1>1. ASSUME NEW g \in Descriptors
      PROVE  Fits(alt_fd_list'[g], g, Held', ToSet(alt_dev_list'))
  BY DEF FilesInv, EntriesOK, Fits
<1> QED  BY <1>1 DEF EntriesOK, Fits

LEMMA FilesInvInit == FilesInit => FilesInv
<1> SUFFICES ASSUME FilesInit PROVE FilesInv
  OBVIOUS
<1> USE FilesAssumption DEF FilesInit
<1>1. ListsOK
  BY DEF ListsOK, ToSet
<1>2. DOMAIN opened = {} /\ Held = Std
  BY DEF Held
<1>3. OpenedOK
  BY <1>2 DEF OpenedOK
<1>4. Null \in ToSet(alt_dev_list) /\ Null \in Drivers \cup {NoDriver} /\ Null # NoDriver
  BY DEF ToSet, Drivers
<1>5. LET q == [Unused EXCEPT !.dev = Null]
      IN q \in Entries /\ q.dev = Null /\ ~q.excl /\ ~q.isDev
  BY <1>4, UnusedIs, Zenon DEF Entries
<1> DEFINE std == [Unused EXCEPT !.dev = Null]
<1>6. \A f \in Descriptors : alt_fd_list[f] = IF f \in Std THEN std ELSE Unused
  OBVIOUS
<1>7. alt_fd_list = [f \in Descriptors |-> IF f \in Std THEN std ELSE Unused]
  OBVIOUS
<1> HIDE DEF std
<1>8. alt_fd_list \in [Descriptors -> Entries]
  BY <1>5, <1>7, UnusedIs DEF std
<1>9. EntriesOK
  BY <1>2, <1>4, <1>5, <1>6, <1>8, UnusedIs DEF EntriesOK, std
<1> QED  BY <1>1, <1>3, <1>9 DEF FilesInv

LEMMA RegisteredInv ==
  ASSUME FilesInv, NEW d, (d \in Devices /\ DevReg(d)) \/ (d \in FileSystems /\ FsReg(d))
  PROVE  FilesInv'
<1> USE DEF DevReg, FsReg
<1>1. ToSet(alt_dev_list) = Range(alt_dev_list) /\ ToSet(alt_fs_list) = Range(alt_fs_list)
  BY DEF ToSet, Range
<1>2. alt_dev_list \in Seq(Devices) /\ alt_fs_list \in Seq(FileSystems)
  BY DEF FilesInv, ListsOK
<1>3. /\ \A T : \A s \in Seq(T) : \A x \in T :
            <<x>> \o s \in Seq(T) /\ ToSet(<<x>> \o s) = {x} \cup ToSet(s)
  <2> SUFFICES ASSUME NEW T, NEW s \in Seq(T), NEW x \in T
               PROVE <<x>> \o s \in Seq(T) /\ ToSet(<<x>> \o s) = {x} \cup ToSet(s)
    OBVIOUS
  <2>1. /\ Len(<<x>> \o s) = Len(s) + 1 /\ (<<x>> \o s)[1] = x
        /\ \A i \in 1 .. Len(s) : (<<x>> \o s)[i + 1] = s[i]
        /\ \A i \in 2 .. Len(s) + 1 : (<<x>> \o s)[i] = s[i - 1]
    OBVIOUS
  <2>2. ToSet(<<x>> \o s) \subseteq {x} \cup ToSet(s)
    BY <2>1 DEF ToSet
  <2>3. x \in ToSet(<<x>> \o s)
    BY <2>1 DEF ToSet
  <2>4. ASSUME NEW i \in 1 .. Len(s) PROVE s[i] \in ToSet(<<x>> \o s)
    <3> DEFINE t == <<x>> \o s
               j == i + 1
    <3>1. j \in DOMAIN t /\ t[j] = s[i]
      BY <2>1
    <3> HIDE DEF t, j
    <3>2. s[i] \in ToSet(t)
      BY <3>1, Zenon DEF ToSet
    <3> QED  BY <3>2 DEF t
  <2>5. ToSet(s) \subseteq ToSet(<<x>> \o s)
    <3> SUFFICES ASSUME NEW y \in ToSet(s) PROVE y \in ToSet(<<x>> \o s)
      OBVIOUS
    <3>1. PICK i \in DOMAIN s : y = s[i]
      BY Zenon DEF ToSet
    <3>2. i \in 1 .. Len(s)
      OBVIOUS
    <3> QED  BY <2>4, <3>1, <3>2, Zenon
  <2>6. <<x>> \o s \in Seq(T)
    OBVIOUS
  <2> QED  BY <2>2, <2>3, <2>5, <2>6
<1>4. /\ ListsOK' /\ ToSet(alt_dev_list) \subseteq ToSet(alt_dev_list')
      /\ UNCHANGED <<alt_fd_list, alt_max_fd, redirected, opened>>
  <2>0. d \notin ToSet(alt_dev_list) /\ d \notin ToSet(alt_fs_list)
    BY <1>1 DEF Registered
  <2>1. CASE d \in Devices /\ DevReg(d)
    <3>1. ToSet(alt_dev_list') = {d} \cup ToSet(alt_dev_list) /\ alt_dev_list' \in Seq(Devices)
      BY <1>2, <1>3, <2>1
    <3> QED  BY <1>2, <2>0, <2>1, <3>1 DEF ListsOK, FilesInv
  <2>2. CASE d \in FileSystems /\ FsReg(d)
    <3>1. ToSet(alt_fs_list') = {d} \cup ToSet(alt_fs_list) /\ alt_fs_list' \in Seq(FileSystems)
      BY <1>2, <1>3, <2>2
    <3> QED  BY <1>2, <2>0, <2>2, <3>1 DEF ListsOK, FilesInv
  <2> QED  BY <2>1, <2>2
<1>5. OpenedOK'
  BY <1>4 DEF FilesInv, OpenedOK
<1>6. EntriesOK'
  BY <1>4, EntriesKept DEF FilesInv, EntriesOK, Held
<1> QED  BY <1>4, <1>5, <1>6 DEF FilesInv
LEMMA HeldIs == Held' = DOMAIN opened' \cup Std
BY DEF Held

LEMMA RedirectInv == FilesInv /\ Redirect => FilesInv'
<1> SUFFICES ASSUME FilesInv, Redirect PROVE FilesInv'
  OBVIOUS
<1> DEFINE std == <<1, 0, 2>>[redirected + 1]
           mode == IF std = 0 THEN "RDONLY" ELSE "WRONLY"
           none == {}
           name == StdStreams[std]
           a == AttemptOf(name)
           f == Min(Free)
           new == NewFd(a.dev, a.isFs, mode, none)
<1>0. redirected \in 0 .. 2 /\ redirected' = redirected + 1 /\ DOMAIN opened = {}
      /\ UNCHANGED <<alt_dev_list, alt_fs_list, opened>>
  BY DEF FilesInv, OpenedOK, Redirect
<1>1. std \in Std /\ mode \in Access /\ none \in SUBSET Options
  BY <1>0 DEF Std, Access
<1>2. PICK ok \in Succeeds(name) :
        LET after == Opened(name, mode, none, ok)
        IN /\ alt_fd_list' = IF ok
                THEN Release([after.list EXCEPT ![std] = after.list[f]], f)
                ELSE after.list
           /\ alt_max_fd' = after.max
  BY DEF Redirect
<1>3. Held' = Held /\ ListsOK' /\ std \in Held /\ alt_fd_list \in [Descriptors -> Entries]
  BY <1>0, <1>1, HeldIs DEF Held, ListsOK, FilesInv, EntriesOK
<1> HIDE DEF std, mode, none
<1>4. CASE ~ok
  <2> DEFINE after == Failed(name, mode, none)
  <2>0. Opened(name, mode, none, ok) = after
    BY <1>4 DEF Failed, Opened
  <2>1. alt_fd_list' = after.list /\ alt_max_fd' = after.max
    BY <1>2, <1>4, <2>0
  <2>2. /\ after.max \in Int /\ after.max >= alt_max_fd
        /\ after.list \in [Descriptors -> Entries]
        /\ \A g \in Descriptors :
             \/ after.list[g] = alt_fd_list[g]
             \/ alt_fd_list[g].dev = NoDriver /\ g \notin Held /\ after.list[g] = Unused
    BY <1>1, FailedIs
  <2> HIDE DEF after
  <2>3. ASSUME NEW g \in Descriptors
        PROVE  \/ alt_fd_list'[g] = alt_fd_list[g] /\ (g \in Held' <=> g \in Held)
               \/ Fits(alt_fd_list'[g], g, Held', ToSet(alt_dev_list'))
    BY <1>3, <2>1, <2>2, UnusedIs DEF Fits
  <2>4. EntriesOK'
    BY <1>0, <2>1, <2>2, <2>3, EntriesKept
  <2>5. OpenedOK'
    BY <1>0, <2>1, <2>2 DEF OpenedOK
  <2> QED  BY <1>3, <2>4, <2>5 DEF FilesInv
<1>5. CASE ok
  <2> DEFINE after == Opened(name, mode, none, ok)
  <2>1. alt_fd_list' = Release([after.list EXCEPT ![std] = after.list[f]], f)
        /\ alt_max_fd' = after.max
    BY <1>2, <1>5
  <2>2. /\ a.dev # NoDriver /\ Free # {} /\ after.max \in Int
        /\ after.list = Taken(f, new)
    BY <1>1, <1>5, SucceededIs
  <2>3. f \in Descriptors /\ f > 2 /\ f \notin Held /\ f # std
    BY <1>3, <2>2, FreeIs
  <2>4. /\ a.dev \in Drivers /\ a.isFs \in BOOLEAN
        /\ ~a.isFs => a.dev \in ToSet(alt_dev_list)
    BY <2>2, AttemptIs
  <2>5. new \in Entries /\ new.dev = a.dev /\ ~new.excl /\ (new.isDev <=> ~a.isFs)
    BY <1>1, <2>4, NewFdIs
  <2> HIDE DEF after, new, f
  <2>6. std \in Descriptors
    BY <1>1, FilesAssumption DEF Std, Descriptors
  <2>7. alt_fd_list' = [g \in Descriptors |->
                          IF g = f THEN Unused ELSE IF g = std THEN new ELSE alt_fd_list[g]]
    <3>1. after.list[f] = new
      BY <1>3, <2>2, <2>3 DEF Taken
    <3>2. [after.list EXCEPT ![std] = after.list[f]]
            = [g \in Descriptors |-> IF g = std \/ g = f THEN new ELSE alt_fd_list[g]]
      BY <1>3, <2>2, <2>3, <2>6, <3>1 DEF Taken
    <3> QED  BY <2>1, <2>3, <2>6, <3>2 DEF Release
  <2>8. alt_fd_list' \in [Descriptors -> Entries]
    BY <1>3, <2>5, <2>7, UnusedIs
  <2>9. ASSUME NEW g \in Descriptors
        PROVE  \/ alt_fd_list'[g] = alt_fd_list[g] /\ (g \in Held' <=> g \in Held)
               \/ Fits(alt_fd_list'[g], g, Held', ToSet(alt_dev_list'))
    <3>1. CASE g = f
      BY <1>3, <2>3, <2>7, <3>1, UnusedIs DEF Fits
    <3>2. CASE g = std
      BY <1>0, <1>3, <2>2, <2>3, <2>4, <2>5, <2>6, <2>7, <3>2 DEF Fits
    <3>3. CASE g # f /\ g # std
      BY <1>3, <2>7, <3>3
    <3> QED  BY <3>1, <3>2, <3>3
  <2>10. EntriesOK'
    BY <1>0, <2>8, <2>9, EntriesKept
  <2>11. OpenedOK'
    BY <1>0, <2>1, <2>2 DEF OpenedOK
  <2> QED  BY <1>3, <2>10, <2>11 DEF FilesInv
<1> QED  BY <1>4, <1>5

(* A successful open, in full.                                             *)
TookIt(name, mode, options) ==
  LET a == AttemptOf(name)
      f == Min(Free)
  IN /\ f \in Descriptors /\ f \notin Held
     /\ a.dev \in Drivers /\ a.isFs \in BOOLEAN
     /\ a.isFs => a.dev \in ToSet(alt_fs_list)
     /\ ~a.isFs => a.dev \in ToSet(alt_dev_list)
     /\ ~a.isFs => ~FileLocked(alt_fd_list, alt_max_fd', a.dev)
     /\ alt_max_fd' \in Int /\ alt_max_fd' >= alt_max_fd /\ alt_max_fd' >= f
     /\ alt_fd_list' = Taken(f, NewFd(a.dev, a.isFs, mode, options))
     /\ opened' = Holding(f, [dev |-> a.dev, mode |-> mode])

LEMMA OpenIs ==
  ASSUME FilesInv, NEW name, NEW mode \in Modes, NEW options \in SUBSET Options,
         Open(name, mode, options)
  PROVE  /\ redirected = 3 /\ UNCHANGED <<alt_dev_list, alt_fs_list, redirected>>
         /\ \/ TookIt(name, mode, options)
            \/ /\ opened' = opened
               /\ alt_max_fd' \in Int /\ alt_max_fd' >= alt_max_fd
               /\ alt_fd_list' \in [Descriptors -> Entries]
               /\ \A g \in Descriptors :
                    \/ alt_fd_list'[g] = alt_fd_list[g]
                    \/ alt_fd_list[g].dev = NoDriver /\ g \notin Held
                         /\ alt_fd_list'[g] = Unused
<1>1. mode \in Access
  BY FilesAssumption DEF Access
<1>2. PICK ok \in Succeeds(name) :
        LET after == Opened(name, mode, options, ok)
        IN /\ redirected = 3
           /\ alt_fd_list' = after.list /\ alt_max_fd' = after.max
           /\ opened' = IF ~ok THEN opened
                        ELSE Holding(Min(Free), [dev |-> AttemptOf(name).dev, mode |-> mode])
           /\ UNCHANGED <<alt_dev_list, alt_fs_list, redirected>>
  BY DEF Open
<1>3. CASE ~ok
  <2> DEFINE after == Failed(name, mode, options)
  <2>0. Opened(name, mode, options, ok) = after
    BY <1>3 DEF Failed, Opened
  <2>1. /\ after.max \in Int /\ after.max >= alt_max_fd
        /\ after.list \in [Descriptors -> Entries]
        /\ \A g \in Descriptors :
             \/ after.list[g] = alt_fd_list[g]
             \/ alt_fd_list[g].dev = NoDriver /\ g \notin Held /\ after.list[g] = Unused
    BY <1>1, FailedIs
  <2>2. alt_fd_list' = after.list /\ alt_max_fd' = after.max /\ opened' = opened
    BY <1>2, <1>3, <2>0
  <2> HIDE DEF after
  <2> QED  BY <1>2, <2>1, <2>2
<1>4. CASE ok
  <2> DEFINE after == Opened(name, mode, options, ok)
             a == AttemptOf(name)
             f == Min(Free)
  <2>1. /\ a.dev # NoDriver /\ Free # {}
        /\ ~a.isFs => ~FileLocked(alt_fd_list, Raised(f), a.dev)
        /\ after.max = Raised(f) /\ Raised(f) \in Int
        /\ Raised(f) >= alt_max_fd /\ Raised(f) >= f
        /\ after.list = Taken(f, NewFd(a.dev, a.isFs, mode, options))
    BY <1>1, <1>4, SucceededIs
  <2>2. /\ alt_fd_list' = after.list /\ alt_max_fd' = after.max
        /\ opened' = Holding(f, [dev |-> a.dev, mode |-> mode])
    BY <1>2, <1>4
  <2>3. f \in Descriptors /\ f \notin Held
    BY <2>1, FreeIs
  <2>4. /\ a.dev \in Drivers /\ a.isFs \in BOOLEAN
        /\ a.isFs => a.dev \in ToSet(alt_fs_list)
        /\ ~a.isFs => a.dev \in ToSet(alt_dev_list)
    BY <2>1, AttemptIs
  <2> HIDE DEF after, a, f
  <2>5. TookIt(name, mode, options)
    BY <2>1, <2>2, <2>3, <2>4 DEF TookIt, a, f
  <2> QED  BY <1>2, <2>5
<1> QED  BY <1>3, <1>4
LEMMA OpenInv ==
  ASSUME FilesInv, NEW name, NEW mode \in Modes, NEW options \in SUBSET Options,
         Open(name, mode, options)
  PROVE  FilesInv'
<1>0. redirected = 3 /\ UNCHANGED <<alt_dev_list, alt_fs_list, redirected>>
  BY OpenIs
<1>1. ListsOK' /\ alt_fd_list \in [Descriptors -> Entries] /\ alt_max_fd \in Int
  BY <1>0 DEF ListsOK, FilesInv, EntriesOK, OpenedOK
<1>2. CASE opened' # opened
  <2> DEFINE a == AttemptOf(name)
             f == Min(Free)
             new == NewFd(a.dev, a.isFs, mode, options)
             what == [dev |-> a.dev, mode |-> mode]
  <2>0. TookIt(name, mode, options)
    BY <1>2, OpenIs
  <2>1. /\ f \in Descriptors /\ f \notin Held /\ a.dev \in Drivers /\ a.isFs \in BOOLEAN
        /\ ~a.isFs => a.dev \in ToSet(alt_dev_list)
        /\ alt_max_fd' \in Int /\ alt_max_fd' >= alt_max_fd /\ alt_max_fd' >= f
        /\ alt_fd_list' = Taken(f, new) /\ opened' = Holding(f, what)
    BY <2>0 DEF TookIt
  <2>2. new \in Entries /\ new.dev = a.dev /\ new.mode = mode /\ ~new.excl
        /\ (new.isDev <=> ~a.isFs)
    BY <2>1, NewFdIs, FilesAssumption DEF Access
  <2>3. what \in [dev : Drivers, mode : Modes] /\ what.dev = a.dev /\ what.mode = mode
    BY <2>1
  <2>4. a.dev # NoDriver
    BY <2>1, FilesAssumption
  <2> HIDE DEF a, f, new, what
  <2>5. /\ DOMAIN opened' = DOMAIN opened \cup {f}
        /\ \A g \in DOMAIN opened' : opened'[g] = IF g = f THEN what ELSE opened[g]
    BY <2>1 DEF Holding
  <2>6. /\ alt_fd_list' \in [Descriptors -> Entries]
        /\ \A g \in Descriptors : alt_fd_list'[g] = IF g = f THEN new ELSE alt_fd_list[g]
    BY <1>1, <2>1, <2>2 DEF Taken
  <2>7. ASSUME NEW g \in Descriptors
        PROVE  \/ alt_fd_list'[g] = alt_fd_list[g] /\ (g \in Held' <=> g \in Held)
               \/ Fits(alt_fd_list'[g], g, Held', ToSet(alt_dev_list'))
    <3>1. CASE g = f
      BY <1>0, <2>1, <2>2, <2>4, <2>5, <2>6, <3>1, HeldIs DEF Fits
    <3>2. CASE g # f
      BY <2>5, <2>6, <3>2, HeldIs DEF Held
    <3> QED  BY <3>1, <3>2
  <2>8. EntriesOK'
    BY <1>0, <2>6, <2>7, EntriesKept
  <2>9. ASSUME NEW g \in DOMAIN opened'
        PROVE  /\ opened'[g] \in [dev : Drivers, mode : Modes]
               /\ alt_fd_list'[g].dev = opened'[g].dev
               /\ alt_fd_list'[g].mode = opened'[g].mode
               /\ g <= alt_max_fd' /\ g \in Descriptors
    <3>1. CASE g = f
      BY <2>1, <2>2, <2>3, <2>5, <2>6, <3>1
    <3>2. CASE g # f
      <4>1. g \in DOMAIN opened /\ g \in Descriptors /\ g \in Int
        BY <2>5, <3>2, FilesAssumption DEF FilesInv, OpenedOK, Descriptors
      <4> QED  BY <1>1, <2>1, <2>5, <2>6, <3>2, <4>1 DEF FilesInv, OpenedOK
    <3> QED  BY <3>1, <3>2
  <2>10. OpenedOK'
    BY <1>0, <2>1, <2>9 DEF OpenedOK
  <2> QED  BY <1>1, <2>8, <2>10 DEF FilesInv
<1>3. CASE TookIt(name, mode, options) /\ opened' = opened
  <2> DEFINE f == Min(Free)
             what == [dev |-> AttemptOf(name).dev, mode |-> mode]
  <2>1. f \notin Held /\ opened' = Holding(f, what)
    BY <1>3 DEF TookIt
  <2> HIDE DEF f, what
  <2> QED  BY <1>3, <2>1 DEF Holding, Held
<1>4. CASE ~TookIt(name, mode, options)
  <2>1. /\ opened' = opened
        /\ alt_max_fd' \in Int /\ alt_max_fd' >= alt_max_fd
        /\ alt_fd_list' \in [Descriptors -> Entries]
        /\ \A g \in Descriptors :
             \/ alt_fd_list'[g] = alt_fd_list[g]
             \/ alt_fd_list[g].dev = NoDriver /\ g \notin Held
                  /\ alt_fd_list'[g] = Unused
    BY <1>4, OpenIs
  <2>2. Held' = Held
    BY <2>1, HeldIs DEF Held
  <2>3. ASSUME NEW g \in Descriptors
        PROVE  \/ alt_fd_list'[g] = alt_fd_list[g] /\ (g \in Held' <=> g \in Held)
               \/ Fits(alt_fd_list'[g], g, Held', ToSet(alt_dev_list'))
    BY <2>1, <2>2, UnusedIs DEF Fits
  <2>4. EntriesOK'
    BY <1>0, <2>1, <2>3, EntriesKept
  <2>5. ASSUME NEW g \in DOMAIN opened
        PROVE  alt_fd_list'[g] = alt_fd_list[g] /\ g <= alt_max_fd' /\ g \in Descriptors
    <3>1. g \in Held /\ g \in Descriptors /\ g \in Int /\ g <= alt_max_fd
      BY FilesAssumption DEF Held, FilesInv, OpenedOK, Descriptors
    <3> QED  BY <1>1, <2>1, <3>1
  <2>6. OpenedOK'
    BY <1>0, <2>1, <2>5 DEF FilesInv, OpenedOK
  <2> QED  BY <1>1, <2>4, <2>6 DEF FilesInv
<1> QED  BY <1>2, <1>3, <1>4

LEMMA CloseInv ==
  ASSUME FilesInv, NEW f \in Descriptors, CloseFile(f)
  PROVE  FilesInv'
<1>1. /\ redirected = 3 /\ f \in Held /\ alt_fd_list' = Release(alt_fd_list, f)
      /\ opened' = [g \in DOMAIN opened \ {f} |-> opened[g]]
      /\ UNCHANGED <<alt_dev_list, alt_fs_list, alt_max_fd, redirected>>
  BY DEF CloseFile
<1>2. ListsOK' /\ alt_fd_list \in [Descriptors -> Entries]
  BY <1>1 DEF ListsOK, FilesInv, EntriesOK
<1>3. /\ alt_fd_list' \in [Descriptors -> Entries]
      /\ \A g \in Descriptors :
           alt_fd_list'[g] = IF g = f /\ f > 2 THEN Unused ELSE alt_fd_list[g]
  BY <1>1, <1>2, UnusedIs DEF Release
<1>4. /\ DOMAIN opened' = DOMAIN opened \ {f}
      /\ \A g \in DOMAIN opened' : opened'[g] = opened[g]
  BY <1>1
<1>5. f \in Std <=> ~(f > 2)
  BY FilesAssumption DEF Std, Descriptors
<1>6. ASSUME NEW g \in Descriptors
      PROVE  \/ alt_fd_list'[g] = alt_fd_list[g] /\ (g \in Held' <=> g \in Held)
             \/ Fits(alt_fd_list'[g], g, Held', ToSet(alt_dev_list'))
  BY <1>3, <1>4, <1>5, UnusedIs, HeldIs DEF Fits, Held
<1>7. EntriesOK'
  BY <1>1, <1>3, <1>6, EntriesKept
<1>8. ASSUME NEW g \in DOMAIN opened'
      PROVE g \in DOMAIN opened /\ g \in Descriptors /\ alt_fd_list'[g] = alt_fd_list[g]
  BY <1>3, <1>4 DEF FilesInv, OpenedOK
<1>9. OpenedOK'
  BY <1>1, <1>4, <1>8 DEF FilesInv, OpenedOK
<1> QED  BY <1>2, <1>7, <1>9 DEF FilesInv

(* ioctl and fcntl, which leave the device and the mode.                   *)
LEMMA ChangesInv ==
  ASSUME FilesInv, NEW f \in Descriptors, NEW e \in Entries, Changes(f, e),
         e.dev = alt_fd_list[f].dev, e.mode = alt_fd_list[f].mode,
         e.excl => e.isDev, e.isDev <=> alt_fd_list[f].isDev
  PROVE  FilesInv' /\ opened' = opened
<1>1. /\ redirected = 3 /\ f \in Held
      /\ UNCHANGED <<alt_dev_list, alt_fs_list, alt_max_fd, redirected, opened>>
  BY DEF Changes
<1>2. ListsOK' /\ Held' = Held /\ alt_fd_list \in [Descriptors -> Entries]
  BY <1>1, HeldIs DEF ListsOK, Held, FilesInv, EntriesOK
<1>3. /\ alt_fd_list' \in [Descriptors -> Entries]
      /\ \A g \in Descriptors : alt_fd_list'[g] = IF g = f THEN e ELSE alt_fd_list[g]
  BY <1>2 DEF Changes
<1>4. ASSUME NEW g \in Descriptors
      PROVE  \/ alt_fd_list'[g] = alt_fd_list[g] /\ (g \in Held' <=> g \in Held)
             \/ Fits(alt_fd_list'[g], g, Held', ToSet(alt_dev_list'))
  BY <1>1, <1>2, <1>3 DEF Fits, FilesInv, EntriesOK
<1>5. EntriesOK'
  BY <1>1, <1>3, <1>4, EntriesKept
<1>6. \A g \in DOMAIN opened : g \in Descriptors
        /\ alt_fd_list'[g].dev = alt_fd_list[g].dev /\ alt_fd_list'[g].mode = alt_fd_list[g].mode
  BY <1>3 DEF FilesInv, OpenedOK
<1>7. OpenedOK'
  BY <1>1, <1>6 DEF FilesInv, OpenedOK
<1> QED  BY <1>1, <1>2, <1>5, <1>7 DEF FilesInv

LEMMA LockInv ==
  ASSUME FilesInv, NEW f \in Descriptors, Lock(f) \/ Unlock(f)
  PROVE  FilesInv' /\ opened' = opened
<1> DEFINE locked == TRUE
           unlocked == FALSE
<1>1. alt_fd_list[f] \in Entries /\ locked \in BOOLEAN /\ unlocked \in BOOLEAN
      /\ alt_fd_list[f].isDev /\ locked /\ ~unlocked
  BY DEF FilesInv, EntriesOK, Lock, Unlock
<1>2. PICK b \in BOOLEAN : Changes(f, [alt_fd_list[f] EXCEPT !.excl = b])
  <2>1. CASE Lock(f)
    <3>1. Changes(f, [alt_fd_list[f] EXCEPT !.excl = locked])
      BY <2>1 DEF Lock
    <3> HIDE DEF locked
    <3> QED  BY <1>1, <3>1, Zenon
  <2>2. CASE Unlock(f)
    <3>1. Changes(f, [alt_fd_list[f] EXCEPT !.excl = unlocked])
      BY <2>2 DEF Unlock
    <3> HIDE DEF unlocked
    <3> QED  BY <1>1, <3>1, Zenon
  <2> QED  BY <2>1, <2>2
<1> DEFINE e == [alt_fd_list[f] EXCEPT !.excl = b]
           none == {}
<1>3. none \in SUBSET Options
  OBVIOUS
<1>4. /\ e \in Entries /\ e.dev = alt_fd_list[f].dev /\ e.mode = alt_fd_list[f].mode
      /\ (e.excl <=> b) /\ (e.isDev <=> alt_fd_list[f].isDev)
  BY <1>1, <1>3, EntryChanges, ZenonT(40)
<1>5. Changes(f, e)
  BY <1>2
<1> HIDE DEF e
<1> QED  BY <1>1, <1>4, <1>5, ChangesInv

LEMMA FcntlInv ==
  ASSUME FilesInv, NEW f \in Descriptors, NEW mode \in Modes, NEW options \in SUBSET Options,
         Fcntl(f, mode, options)
  PROVE  FilesInv' /\ opened' = opened
<1> DEFINE e == [alt_fd_list[f] EXCEPT !.options = options]
           no == FALSE
<1>1. /\ alt_fd_list[f] \in Entries /\ no \in BOOLEAN
      /\ alt_fd_list[f].excl => alt_fd_list[f].isDev
  BY DEF FilesInv, EntriesOK
<1>2. Changes(f, e)
  BY Zenon DEF Fcntl, SetFl, SetFlags
<1> HIDE DEF no
<1>3. /\ e \in Entries /\ e.dev = alt_fd_list[f].dev /\ e.mode = alt_fd_list[f].mode
      /\ (e.isDev <=> alt_fd_list[f].isDev) /\ (e.excl <=> alt_fd_list[f].excl)
  BY <1>1, EntryChanges, Zenon
<1> HIDE DEF e
<1> QED  BY <1>1, <1>2, <1>3, ChangesInv

LEMMA FilesInvNext == FilesInv /\ [FilesNext]_fileVars => FilesInv'
<1> SUFFICES ASSUME FilesInv, [FilesNext]_fileVars PROVE FilesInv'
  OBVIOUS
<1>1. ASSUME NEW d \in Devices, DevReg(d) PROVE FilesInv'
  BY <1>1, RegisteredInv
<1>2. ASSUME NEW d \in FileSystems, FsReg(d) PROVE FilesInv'
  BY <1>2, RegisteredInv
<1>3. CASE Redirect
  BY <1>3, RedirectInv
<1>4. ASSUME NEW name, NEW mode \in Modes, NEW options \in SUBSET Options,
             Open(name, mode, options)
      PROVE  FilesInv'
  BY <1>4, OpenInv
<1>5. ASSUME NEW f \in Descriptors, CloseFile(f) PROVE FilesInv'
  BY <1>5, CloseInv
<1>6. ASSUME NEW f \in Descriptors, Lock(f) \/ Unlock(f) PROVE FilesInv'
  BY <1>6, LockInv
<1>7. ASSUME NEW f \in Descriptors, NEW mode \in Modes, NEW options \in SUBSET Options,
             Fcntl(f, mode, options)
      PROVE  FilesInv'
  BY <1>7, FcntlInv
<1>8. CASE UNCHANGED fileVars
  BY <1>8 DEF fileVars, FilesInv, ListsOK, OpenedOK, EntriesOK, Held
<1> QED  BY <1>1, <1>2, <1>3, <1>4, <1>5, <1>6, <1>7, <1>8, Zenon DEF FilesNext

LEMMA TableFollows == FilesInv => TableIsTrue
<1> SUFFICES ASSUME FilesInv, NEW f \in Descriptors
             PROVE  /\ alt_fd_list[f].dev # NoDriver <=> f \in Held
                    /\ f \in DOMAIN opened
                         => /\ alt_fd_list[f].dev = opened[f].dev
                            /\ Answers(alt_fd_list[f])
                                 = Answers([Unused EXCEPT !.dev = opened[f].dev,
                                                          !.mode = opened[f].mode])
  BY DEF TableIsTrue
<1>1. alt_fd_list[f].dev # NoDriver <=> f \in Held
  BY DEF FilesInv, EntriesOK
<1>2. CASE f \in DOMAIN opened
  <2> DEFINE padded == [Unused EXCEPT !.dev = opened[f].dev, !.mode = opened[f].mode]
  <2>1. /\ alt_fd_list[f].dev = opened[f].dev /\ alt_fd_list[f].mode = opened[f].mode
    BY <1>2 DEF FilesInv, OpenedOK
  <2>2. padded.dev = opened[f].dev /\ padded.mode = opened[f].mode
    BY Zenon DEF Unused
  <2> HIDE DEF padded
  <2>3. Answers(alt_fd_list[f]) = Answers(padded)
    BY <2>1, <2>2, AnswersAgree
  <2> QED  BY <1>1, <2>1, <2>3 DEF padded
<1> QED  BY <1>1, <1>2

(* A descriptor has a device exactly while the program holds it, and every *)
(* call on it is answered as by the device, with the rights to it, that    *)
(* open was padded for; for every number of descriptors, devices and file   *)
(* systems, and whatever drivers fail.                                     *)
THEOREM TableIsAlwaysTrue == FilesSpec => []TableIsTrue
<1>1. FilesInit => FilesInv
  BY FilesInvInit
<1>2. FilesInv /\ [FilesNext]_fileVars => FilesInv'
  BY FilesInvNext
<1>3. FilesInv => TableIsTrue
  BY TableFollows
<1> QED  BY <1>1, <1>2, <1>3, PTL DEF FilesSpec

(* No open of a device succeeds while a descriptor holds it locked: the    *)
(* lock is looked for up to the highest descriptor ever used, and every    *)
(* one in use is below it.                                                 *)
THEOREM LockKeepsOthersOut == FilesSpec => LockKeepsOut
<1> DEFINE A == \A f \in Descriptors, g \in DOMAIN opened :
                  (f \in DOMAIN opened' \ DOMAIN opened /\ alt_fd_list[g].excl)
                    => opened'[f].dev # alt_fd_list[g].dev
<1>1. FilesInit => FilesInv
  BY FilesInvInit
<1>2. FilesInv /\ [FilesNext]_fileVars => FilesInv'
  BY FilesInvNext
<1>3. FilesInv /\ [FilesNext]_fileVars => [A]_fileVars
  <2> SUFFICES ASSUME FilesInv, FilesNext, NEW f \in Descriptors, NEW g \in DOMAIN opened,
                      f \in DOMAIN opened' \ DOMAIN opened, alt_fd_list[g].excl
               PROVE  opened'[f].dev # alt_fd_list[g].dev
    OBVIOUS
  <2>1. ASSUME NEW d, DevReg(d) \/ FsReg(d) PROVE FALSE
    BY <2>1 DEF DevReg, FsReg
  <2>2. ASSUME Redirect PROVE FALSE
    BY <2>2 DEF Redirect
  <2>3. ASSUME NEW h \in Descriptors, CloseFile(h) PROVE FALSE
    BY <2>3 DEF CloseFile
  <2>4. ASSUME NEW h \in Descriptors, Lock(h) \/ Unlock(h) PROVE FALSE
    BY <2>4, LockInv
  <2>5. ASSUME NEW h \in Descriptors, NEW mode \in Modes, NEW options \in SUBSET Options,
               Fcntl(h, mode, options)
        PROVE  FALSE
    BY <2>5, FcntlInv
  <2>6. PICK name \in FileNames, mode \in Modes, options \in SUBSET Options :
          Open(name, mode, options)
    BY <2>1, <2>2, <2>3, <2>4, <2>5, Zenon DEF FilesNext
  <2>7. TookIt(name, mode, options)
    BY <2>6, OpenIs
  <2> DEFINE a == AttemptOf(name)
             what == [dev |-> a.dev, mode |-> mode]
  <2>8. /\ a.isFs \in BOOLEAN /\ alt_max_fd' \in Int /\ alt_max_fd' >= alt_max_fd
        /\ a.isFs => a.dev \in ToSet(alt_fs_list)
        /\ ~a.isFs => ~FileLocked(alt_fd_list, alt_max_fd', a.dev)
        /\ opened' = Holding(Min(Free), what)
    BY <2>7 DEF TookIt
  <2>9. what.dev = a.dev
    OBVIOUS
  <2> HIDE DEF a, what
  <2>10. opened'[f].dev = a.dev
    BY <2>8, <2>9 DEF Holding
  <2>11. /\ g \in Descriptors /\ g \in Int /\ g <= alt_max_fd /\ alt_max_fd \in Int
         /\ alt_fd_list[g].dev \in ToSet(alt_dev_list)
    BY FilesAssumption DEF FilesInv, OpenedOK, EntriesOK, Descriptors
  <2>12. CASE a.isFs
    BY <2>8, <2>10, <2>11, <2>12 DEF FilesInv, ListsOK
  <2>13. CASE ~a.isFs
    BY <2>8, <2>10, <2>11, <2>13 DEF FileLocked, LockedUpTo
  <2> QED  BY <2>8, <2>12, <2>13
<1> QED  BY <1>1, <1>2, <1>3, PTL DEF FilesSpec, LockKeepsOut

-----------------------------------------------------------------------------
(* The JTAG UART.  Interrupt handler and caller each hold one end of a     *)
(* ring, so that the invariant follows the characters of a ring and of the *)
(* FIFO behind it at every access: which places the call in progress may   *)
(* still fill or give back, and what the handler has read of the device.   *)

Idx == 0 .. BufLen - 1

(* How many characters a ring holds, and the place of the k-th of them.    *)
Kept(out, in) == IF in >= out THEN in - out ELSE in - out + BufLen
Slot(out, k) == IF out + k - 1 < BufLen THEN out + k - 1 ELSE out + k - 1 - BufLen

RxKept == Kept(sp.rx_out, sp.rx_in)
TxKept == Kept(sp.tx_out, sp.tx_in)

RxOK ==
  /\ sent = got + RxKept + Len(rfifo)
  /\ \A k \in 1 .. RxKept : sp.rx_buf[Slot(sp.rx_out, k)] = got + k
  /\ \A k \in 1 .. Len(rfifo) : rfifo[k] = got + RxKept + k

TxOK ==
  /\ wrote = took + Len(tfifo) + TxKept
  /\ \A k \in 1 .. Len(tfifo) : tfifo[k] = took + k
  /\ \A k \in 1 .. TxKept : sp.tx_buf[Slot(sp.tx_out, k)] = took + Len(tfifo) + k

Writing == {"w_load", "w_copy", "w_advance", "w_kick", "w_spin", "w_test", "w_poll"}
Reading == {"r_load", "r_copy", "r_advance", "r_spin", "r_enable", "r_poll"}
Results == {"none", "some", "EWOULDBLOCK", "EIO", "closed"}

Ring == [timeout : 0 .. IntMax, irq_enable : SUBSET {"RE", "WE"},
         host_inactive : 0 .. IntMax, rx_in : Idx, rx_out : Idx, tx_in : Idx,
         tx_out : Idx, rx_buf : [Idx -> Int], tx_buf : [Idx -> Int]]
Handler == [at : {"none", "control", "rx", "rx_end", "tx"}, wi : BOOLEAN,
            space : Int, more : BOOLEAN]
Call == [fn : {"none", "read", "write", "close"}, count : Int, data : Seq(Int),
         nonblock : BOOLEAN, in : Idx, out : Idx, n : Int, result : Results]

JtagTypeOK ==
  /\ sp \in Ring /\ isr \in Handler /\ call \in Call
  /\ ien = sp.irq_enable
  /\ rfifo \in Seq(Int) /\ Len(rfifo) <= Depth
  /\ tfifo \in Seq(Int) /\ Len(tfifo) <= Depth
  /\ sent \in Nat /\ took \in Nat /\ got \in Nat /\ wrote \in Nat
  /\ pc \in {"idle", "c_spin"} \cup Writing \cup Reading

(* The characters a read has copied, the last of them being last.          *)
DataIs(data, last) == \A k \in 1 .. Len(data) : data[k] = last - Len(data) + k

CallsOK ==
  /\ ~fast => /\ pc \in {"idle", "w_poll", "r_poll"} /\ isr.at = "none"
              /\ sp.rx_in = sp.rx_out /\ sp.tx_in = sp.tx_out
  /\ fast => pc \notin {"w_poll", "r_poll"}
  /\ pc \in Writing => call.fn = "write"
  /\ pc \in Reading => call.fn = "read"
  /\ pc = "c_spin" => call.fn = "close"
  /\ pc \in {"w_copy", "w_advance"} =>
       /\ call.in = sp.tx_in /\ call.n >= 1 /\ call.in + call.n <= BufLen
       /\ TxKept + call.n < BufLen
  /\ pc = "w_advance" =>
       \A j \in 1 .. call.n : sp.tx_buf[call.in + j - 1] = wrote + j
  /\ pc \in {"r_copy", "r_advance"} =>
       /\ call.out = sp.rx_out /\ call.n >= 1 /\ call.out + call.n <= BufLen
       /\ call.n <= RxKept
  /\ call.fn = "read" =>
       DataIs(call.data, IF pc = "r_advance" THEN got + call.n ELSE got)
  /\ pc = "r_advance" => Len(call.data) > 0

HandlerOK ==
  /\ isr.at \in {"rx", "rx_end", "tx"} => isr.space + Len(tfifo) <= Depth
  /\ isr.at = "rx_end" /\ isr.more => RxFull

JtagInv == JtagTypeOK /\ RxOK /\ TxOK /\ CallsOK /\ HandlerOK /\ Awake

-----------------------------------------------------------------------------
(* The arithmetic of the rings.                                            *)
LEMMA NextIs ==
  ASSUME NEW i \in Idx
  PROVE  Next1(i) = (IF i + 1 < BufLen THEN i + 1 ELSE 0) /\ Next1(i) \in Idx
<1>1. CASE i + 1 < BufLen
  BY <1>1, JtagUartAssumption DEF Next1, Idx
<1>2. CASE i + 1 = BufLen
  BY <1>2, JtagUartAssumption DEF Next1, Idx
<1> QED  BY <1>1, <1>2, JtagUartAssumption DEF Idx

LEMMA KeptIs ==
  ASSUME NEW in \in Idx, NEW out \in Idx
  PROVE  /\ Kept(out, in) \in 0 .. BufLen - 1
         /\ Kept(out, in) = 0 <=> in = out
         /\ Next1(in) = out <=> Kept(out, in) = BufLen - 1
BY NextIs, JtagUartAssumption DEF Kept, Idx

LEMMA PlaceIs ==
  ASSUME NEW out \in Idx, NEW k \in 1 .. BufLen
  PROVE  /\ Slot(out, k) \in Idx
         /\ \A j \in 1 .. BufLen : Slot(out, k) = Slot(out, j) => k = j
BY JtagUartAssumption DEF Slot, Idx

(* The end of a ring that is filled moves on by n places.                  *)
LEMMA InMoves ==
  ASSUME NEW in \in Idx, NEW out \in Idx, NEW n \in Int, n >= 1, in + n <= BufLen,
         Kept(out, in) + n < BufLen
  PROVE  LET next == (in + n) % BufLen
         IN /\ next \in Idx /\ Kept(out, next) = Kept(out, in) + n
            /\ \A j \in 1 .. n : Slot(out, Kept(out, in) + j) = in + j - 1
<1> DEFINE next == (in + n) % BufLen
<1>1. next = IF in + n < BufLen THEN in + n ELSE 0
  <2>1. CASE in + n < BufLen
    BY <2>1, JtagUartAssumption DEF Idx
  <2>2. CASE in + n = BufLen
    BY <2>2, JtagUartAssumption DEF Idx
  <2> QED  BY <2>1, <2>2, JtagUartAssumption DEF Idx
<1> HIDE DEF next
<1>2. next \in Idx /\ Kept(out, next) = Kept(out, in) + n
  BY <1>1, JtagUartAssumption DEF Kept, Idx
<1>3. \A j \in 1 .. n : Slot(out, Kept(out, in) + j) = in + j - 1
  BY JtagUartAssumption DEF Kept, Slot, Idx
<1> QED  BY <1>2, <1>3 DEF next

(* The end that is emptied does.                                           *)
LEMMA OutMoves ==
  ASSUME NEW in \in Idx, NEW out \in Idx, NEW n \in Int, n >= 1, out + n <= BufLen,
         n <= Kept(out, in)
  PROVE  LET next == (out + n) % BufLen
         IN /\ next \in Idx /\ Kept(next, in) = Kept(out, in) - n
            /\ \A k \in 1 .. Kept(out, in) - n : Slot(next, k) = Slot(out, k + n)
            /\ \A j \in 1 .. n : Slot(out, j) = out + j - 1
<1> DEFINE next == (out + n) % BufLen
<1>1. next = IF out + n < BufLen THEN out + n ELSE 0
  <2>1. CASE out + n < BufLen
    BY <2>1, JtagUartAssumption DEF Idx
  <2>2. CASE out + n = BufLen
    BY <2>2, JtagUartAssumption DEF Idx
  <2> QED  BY <2>1, <2>2, JtagUartAssumption DEF Idx
<1> HIDE DEF next
<1>2. next \in Idx /\ Kept(next, in) = Kept(out, in) - n
  BY <1>1, JtagUartAssumption DEF Kept, Idx
<1>3. \A k \in 1 .. Kept(out, in) - n : Slot(next, k) = Slot(out, k + n)
  BY <1>1, JtagUartAssumption DEF Kept, Slot, Idx
<1>4. \A j \in 1 .. n : Slot(out, j) = out + j - 1
  BY JtagUartAssumption DEF Slot, Idx
<1> QED  BY <1>2, <1>3, <1>4 DEF next

LEMMA OneMoves ==
  ASSUME NEW in \in Idx, NEW out \in Idx
  PROVE  /\ Kept(out, in) + 1 < BufLen => /\ Kept(out, Next1(in)) = Kept(out, in) + 1
                                          /\ Slot(out, Kept(out, in) + 1) = in
         /\ Kept(out, in) > 0 =>
              /\ Kept(Next1(out), in) = Kept(out, in) - 1 /\ Slot(out, 1) = out
              /\ \A k \in 1 .. Kept(out, in) - 1 : Slot(Next1(out), k) = Slot(out, k + 1)
BY NextIs, JtagUartAssumption DEF Kept, Slot, Idx

(* What a caller finds at one reading of the two indices it may fill, or   *)
(* empty, without coming to the end of the buffer.                         *)
LEMMA SpaceFits ==
  ASSUME NEW in \in Idx, NEW out \in Idx
  PROVE  LET n == WriteSpace(in, out)
         IN n \in Int /\ in + n <= BufLen /\ Kept(out, in) + n < BufLen
BY JtagUartAssumption DEF WriteSpace, Kept, Idx

LEMMA CharsFit ==
  ASSUME NEW in \in Idx, NEW out \in Idx
  PROVE  LET n == IF in >= out THEN in - out ELSE BufLen - out
         IN n \in Int /\ out + n <= BufLen /\ n <= Kept(out, in)
BY JtagUartAssumption DEF Kept, Idx

LEMMA MinIs ==
  ASSUME NEW a \in Int, NEW b \in Int
  PROVE  Min({a, b}) = IF a <= b THEN a ELSE b
<1> DEFINE m == IF a <= b THEN a ELSE b
<1>1. m \in {a, b} /\ \A y \in {a, b} : m <= y
  OBVIOUS
<1>2. Min({a, b}) \in {a, b} /\ \A y \in {a, b} : Min({a, b}) <= y
  BY <1>1 DEF Min
<1> QED  BY <1>2

(* Records that change in some of their fields.                            *)
LEMMA HandlerGoes ==
  ASSUME NEW h \in Handler, NEW at \in {"none", "control", "rx", "rx_end", "tx"}
  PROVE  LET q == [h EXCEPT !.at = at]
         IN /\ q \in Handler /\ q.at = at /\ q.space = h.space
            /\ (q.more <=> h.more) /\ (q.wi <=> h.wi)
BY Zenon DEF Handler

Ended(h, at) == [h EXCEPT !.at = at, !.more = FALSE]
Started(at, w, n, b) == [at |-> at, wi |-> w, space |-> n, more |-> b]

LEMMA HandlerEnds ==
  ASSUME NEW h \in Handler, NEW at \in {"none", "control", "rx", "rx_end", "tx"}
  PROVE  /\ Ended(h, at) \in Handler /\ Ended(h, at).at = at
         /\ Ended(h, at).space = h.space /\ ~Ended(h, at).more
<1> DEFINE no == FALSE
<1>1. no \in BOOLEAN /\ ~no
  OBVIOUS
<1> HIDE DEF no
<1>2. LET q == [h EXCEPT !.at = at, !.more = no]
      IN q \in Handler /\ q.at = at /\ q.space = h.space /\ (q.more <=> no)
  BY <1>1, Zenon DEF Handler
<1>3. Ended(h, at) = [h EXCEPT !.at = at, !.more = no]
  BY DEF Ended, no
<1> QED  BY <1>1, <1>2, <1>3, Zenon

LEMMA HandlerSees ==
  ASSUME NEW h \in Handler, NEW b \in BOOLEAN
  PROVE  LET q == [h EXCEPT !.more = b]
         IN q \in Handler /\ q.at = h.at /\ q.space = h.space /\ (q.more <=> b)
BY Zenon DEF Handler

LEMMA HandlerCounts ==
  ASSUME NEW h \in Handler, NEW n \in Int
  PROVE  LET q == [h EXCEPT !.space = n]
         IN q \in Handler /\ q.at = h.at /\ q.space = n /\ (q.more <=> h.more)
BY Zenon DEF Handler

LEMMA HandlerNew ==
  ASSUME NEW b \in BOOLEAN, NEW w \in BOOLEAN, NEW n \in Int,
         NEW at \in {"none", "control", "rx", "rx_end", "tx"}
  PROVE  /\ Started(at, w, n, b) \in Handler /\ Started(at, w, n, b).at = at
         /\ Started(at, w, n, b).space = n
BY Zenon DEF Handler, Started

LEMMA CallSees ==
  ASSUME NEW c \in Call, NEW i \in Idx, NEW o \in Idx
  PROVE  LET q == [c EXCEPT !.in = i, !.out = o]
         IN q \in Call /\ q.fn = c.fn /\ q.data = c.data
BY Zenon DEF Call

Loaded(c, i, o, n) == [c EXCEPT !.in = i, !.out = o, !.n = n]
Advanced(c, m, d) == [c EXCEPT !.count = m, !.data = d]

LEMMA CallLoads ==
  ASSUME NEW c \in Call, NEW i \in Idx, NEW o \in Idx, NEW n \in Int
  PROVE  /\ Loaded(c, i, o, n) \in Call /\ Loaded(c, i, o, n).fn = c.fn
         /\ Loaded(c, i, o, n).data = c.data /\ Loaded(c, i, o, n).in = i
         /\ Loaded(c, i, o, n).out = o /\ Loaded(c, i, o, n).n = n
BY Zenon DEF Call, Loaded

LEMMA CallMoves ==
  ASSUME NEW c \in Call, NEW m \in Int, NEW d \in Seq(Int)
  PROVE  /\ Advanced(c, m, d) \in Call /\ Advanced(c, m, d).fn = c.fn
         /\ Advanced(c, m, d).data = d /\ Advanced(c, m, d).in = c.in
         /\ Advanced(c, m, d).out = c.out /\ Advanced(c, m, d).n = c.n
BY Zenon DEF Call, Advanced

LEMMA CallBegun ==
  ASSUME NEW fn \in {"none", "read", "write", "close"}, NEW count \in Int,
         NEW nb \in BOOLEAN
  PROVE  LET q == Begun(fn, count, nb)
         IN q \in Call /\ q.fn = fn /\ q.count = count /\ q.data = <<>>
<1> DEFINE none == <<>>
           zero == 0
           r == "none"
<1>1. none \in Seq(Int) /\ zero \in Idx /\ zero \in Int /\ r \in Results
  BY JtagUartAssumption DEF Idx, Results
<1> DEFINE q == [fn |-> fn, count |-> count, data |-> none, nonblock |-> nb, in |-> zero,
                 out |-> zero, n |-> zero, result |-> r]
<1>2. Begun(fn, count, nb) = q
  BY DEF Begun
<1> HIDE DEF none, zero, r
<1>3. q \in Call /\ q.fn = fn /\ q.count = count /\ q.data = none
  BY <1>1, Zenon DEF Call
<1> HIDE DEF q
<1> QED  BY <1>2, <1>3, Zenon DEF none

-----------------------------------------------------------------------------
(* What a step leaves alone.                                               *)
RxStays == /\ sp'.rx_in = sp.rx_in /\ sp'.rx_out = sp.rx_out /\ sp'.rx_buf = sp.rx_buf
           /\ rfifo' = rfifo /\ sent' = sent /\ got' = got
TxStays == /\ sp'.tx_in = sp.tx_in /\ sp'.tx_out = sp.tx_out /\ sp'.tx_buf = sp.tx_buf
           /\ tfifo' = tfifo /\ took' = took /\ wrote' = wrote

LEMMA RxKeeps ==
  ASSUME RxOK, RxStays
  PROVE  RxOK' /\ RxKept' = RxKept /\ (RxFull' <=> RxFull)
BY DEF RxOK, RxStays, RxKept, RxFull

LEMMA TxKeeps == ASSUME TxOK, TxStays PROVE TxOK' /\ TxKept' = TxKept
BY DEF TxOK, TxStays, TxKept

LEMMA Ranges ==
  ASSUME JtagInv
  PROVE  /\ sp.rx_in \in Idx /\ sp.rx_out \in Idx /\ sp.tx_in \in Idx /\ sp.tx_out \in Idx
         /\ RxKept \in 0 .. BufLen - 1 /\ TxKept \in 0 .. BufLen - 1
         /\ RxKept = 0 <=> sp.rx_in = sp.rx_out
         /\ TxKept = 0 <=> sp.tx_in = sp.tx_out
         /\ RxFull <=> RxKept = BufLen - 1
         /\ sp.rx_buf \in [Idx -> Int] /\ sp.tx_buf \in [Idx -> Int]
BY KeptIs DEF JtagInv, JtagTypeOK, Ring, RxKept, TxKept, RxFull

LEMMA CallIs ==
  ASSUME JtagInv
  PROVE  /\ call.n \in Int /\ call.count \in Int /\ call.in \in Idx /\ call.out \in Idx
         /\ call.data \in Seq(Int) /\ call \in Call /\ isr \in Handler /\ isr.space \in Int
<1>1. call \in Call /\ isr \in Handler
  BY DEF JtagInv, JtagTypeOK
<1> QED  BY <1>1, Zenon DEF Call, Handler

(* Host, handler and alarm move only the far ends of the rings.            *)
LEMMA CallerWaits ==
  ASSUME JtagInv, fast' = fast, pc' = pc, call' = call, got' = got, wrote' = wrote,
         ~fast => isr'.at = "none" /\ sp'.rx_in = sp.rx_in /\ sp'.tx_out = sp.tx_out,
         sp'.rx_out = sp.rx_out, sp'.tx_in = sp.tx_in, sp'.tx_buf = sp.tx_buf,
         TxKept' <= TxKept, RxKept' >= RxKept, TxKept' \in Int, RxKept' \in Int
  PROVE  CallsOK'
<1>1. TxKept \in Int /\ RxKept \in Int /\ call.n \in Int
  BY Ranges, CallIs
<1>2. CallsOK /\ BufLen \in Int
  BY JtagUartAssumption DEF JtagInv
<1> HIDE DEF TxKept, RxKept
<1>3. /\ ~fast' => /\ pc' \in {"idle", "w_poll", "r_poll"} /\ isr'.at = "none"
                   /\ sp'.rx_in = sp'.rx_out /\ sp'.tx_in = sp'.tx_out
      /\ fast' => pc' \notin {"w_poll", "r_poll"}
      /\ pc' \in Writing => call'.fn = "write"
      /\ pc' \in Reading => call'.fn = "read"
      /\ pc' = "c_spin" => call'.fn = "close"
  BY <1>2 DEF CallsOK
<1>4. pc' \in {"w_copy", "w_advance"} =>
       /\ call'.in = sp'.tx_in /\ call'.n >= 1 /\ call'.in + call'.n <= BufLen
       /\ TxKept' + call'.n < BufLen
  BY <1>1, <1>2 DEF CallsOK
<1>5. pc' = "w_advance" =>
       \A j \in 1 .. call'.n : sp'.tx_buf[call'.in + j - 1] = wrote' + j
  BY <1>2 DEF CallsOK
<1>6. pc' \in {"r_copy", "r_advance"} =>
       /\ call'.out = sp'.rx_out /\ call'.n >= 1 /\ call'.out + call'.n <= BufLen
       /\ call'.n <= RxKept'
  BY <1>1, <1>2 DEF CallsOK
<1>7. /\ call'.fn = "read" =>
           DataIs(call'.data, IF pc' = "r_advance" THEN got' + call'.n ELSE got')
      /\ pc' = "r_advance" => Len(call'.data) > 0
  BY <1>2 DEF CallsOK
<1> QED  BY <1>3, <1>4, <1>5, <1>6, <1>7 DEF CallsOK

LEMMA Appended ==
  ASSUME NEW q \in Seq(Int), NEW c \in Int
  PROVE  /\ Append(q, c) \in Seq(Int) /\ Len(Append(q, c)) = Len(q) + 1
         /\ \A k \in 1 .. Len(q) : Append(q, c)[k] = q[k]
         /\ Append(q, c)[Len(q) + 1] = c
OBVIOUS

LEMMA TailIs ==
  ASSUME NEW q \in Seq(Int), q # <<>>
  PROVE  /\ Tail(q) \in Seq(Int) /\ Len(q) \in Nat /\ Len(q) >= 1 /\ Len(Tail(q)) = Len(q) - 1
         /\ \A k \in 1 .. Len(q) - 1 : Tail(q)[k] = q[k + 1]
         /\ Head(q) = q[1] /\ q[1] \in Int
OBVIOUS

-----------------------------------------------------------------------------
(* The host.                                                               *)
LEMMA HostSendsKeeps == JtagInv /\ HostSends => JtagInv'
<1> SUFFICES ASSUME JtagInv, HostSends PROVE JtagInv'
  OBVIOUS
<1> USE DEF HostSends
<1>1. /\ UNCHANGED <<fast, tfifo, ien, took, sp, isr, pc, call, got, wrote>>
      /\ rfifo' = Append(rfifo, sent + 1) /\ sent' = sent + 1 /\ Len(rfifo) < Depth
  BY DEF caller
<1>2. rfifo \in Seq(Int) /\ sent \in Nat /\ got \in Nat /\ Depth \in Nat /\ Len(rfifo) \in Nat
  BY JtagUartAssumption DEF JtagInv, JtagTypeOK
<1>3. /\ rfifo' \in Seq(Int) /\ Len(rfifo') = Len(rfifo) + 1
      /\ \A k \in 1 .. Len(rfifo) : rfifo'[k] = rfifo[k]
      /\ rfifo'[Len(rfifo) + 1] = sent + 1
  BY <1>1, <1>2, Appended
<1>4. TxStays /\ RxKept' = RxKept /\ TxKept' = TxKept /\ RxFull' = RxFull
  BY <1>1 DEF TxStays, RxKept, TxKept, RxFull
<1>5. TxOK'
  BY <1>4, TxKeeps DEF JtagInv
<1>6. RxKept \in Int /\ TxKept \in Int
  BY Ranges
<1> HIDE DEF HostSends
<1>7. RxOK'
  <2>1. sent' = got' + RxKept' + Len(rfifo')
    BY <1>1, <1>2, <1>3, <1>4, <1>6 DEF JtagInv, RxOK
  <2>2. \A k \in 1 .. RxKept' : sp'.rx_buf[Slot(sp'.rx_out, k)] = got' + k
    BY <1>1, <1>4 DEF JtagInv, RxOK
  <2>3. \A k \in 1 .. Len(rfifo') : rfifo'[k] = got' + RxKept' + k
    BY <1>1, <1>2, <1>3, <1>4, <1>6 DEF JtagInv, RxOK
  <2> QED  BY <2>1, <2>2, <2>3 DEF RxOK
<1>8. CallsOK'
  BY <1>1, <1>4, <1>6, CallerWaits DEF JtagInv, CallsOK
<1>9. JtagTypeOK'
  BY <1>1, <1>2, <1>3 DEF JtagInv, JtagTypeOK
<1>10. HandlerOK' /\ Awake'
  BY <1>1, <1>4 DEF JtagInv, HandlerOK, Awake
<1> QED  BY <1>5, <1>7, <1>8, <1>9, <1>10 DEF JtagInv

LEMMA HostTakesKeeps == JtagInv /\ HostTakes => JtagInv'
<1> SUFFICES ASSUME JtagInv, HostTakes PROVE JtagInv'
  OBVIOUS
<1>1. /\ UNCHANGED <<fast, rfifo, ien, sent, sp, isr, pc, call, got, wrote>>
      /\ tfifo # <<>> /\ tfifo' = Tail(tfifo) /\ took' = took + 1
  BY DEF caller, HostTakes
<1>2. tfifo \in Seq(Int) /\ took \in Nat /\ wrote \in Nat /\ Depth \in Nat
      /\ Len(tfifo) <= Depth
  BY JtagUartAssumption DEF JtagInv, JtagTypeOK
<1>3. /\ tfifo' \in Seq(Int) /\ Len(tfifo) \in Nat /\ Len(tfifo') = Len(tfifo) - 1
      /\ Len(tfifo) >= 1
      /\ \A k \in 1 .. Len(tfifo) - 1 : tfifo'[k] = tfifo[k + 1]
  BY <1>1, <1>2, TailIs
<1>4. RxStays /\ RxKept' = RxKept /\ TxKept' = TxKept /\ RxFull' = RxFull
  BY <1>1 DEF RxStays, RxKept, TxKept, RxFull
<1>5. RxOK'
  BY <1>4, RxKeeps DEF JtagInv
<1>6. RxKept \in Int /\ TxKept \in Int
  BY Ranges
<1>7. TxOK'
  <2>1. wrote' = took' + Len(tfifo') + TxKept'
    BY <1>1, <1>2, <1>3, <1>4, <1>6 DEF JtagInv, TxOK
  <2>2. \A k \in 1 .. Len(tfifo') : tfifo'[k] = took' + k
    BY <1>1, <1>2, <1>3 DEF JtagInv, TxOK
  <2>3. took' + Len(tfifo') = took + Len(tfifo)
    BY <1>1, <1>2, <1>3
  <2>4. \A k \in 1 .. TxKept' : sp'.tx_buf[Slot(sp'.tx_out, k)] = took' + Len(tfifo') + k
    BY <1>1, <1>4, <2>3 DEF JtagInv, TxOK
  <2> QED  BY <2>1, <2>2, <2>4 DEF TxOK
<1>8. CallsOK'
  BY <1>1, <1>4, <1>6, CallerWaits DEF JtagInv, CallsOK
<1>9. JtagTypeOK'
  BY <1>1, <1>2, <1>3 DEF JtagInv, JtagTypeOK
<1>10. isr.space \in Int
  BY CallIs
<1>11. HandlerOK' /\ Awake'
  BY <1>1, <1>2, <1>3, <1>4, <1>10 DEF JtagInv, HandlerOK, Awake
<1> QED  BY <1>5, <1>7, <1>8, <1>9, <1>11 DEF JtagInv

(* Steps that change neither ring nor call.                                *)
LEMMA RingsStay ==
  ASSUME JtagInv, UNCHANGED <<fast, rfifo, tfifo, sent, took, pc, call, got, wrote>>,
         sp'.rx_in = sp.rx_in, sp'.rx_out = sp.rx_out, sp'.rx_buf = sp.rx_buf,
         sp'.tx_in = sp.tx_in, sp'.tx_out = sp.tx_out, sp'.tx_buf = sp.tx_buf,
         ~fast => isr'.at = "none"
  PROVE  /\ RxOK' /\ TxOK' /\ CallsOK' /\ RxKept' = RxKept /\ TxKept' = TxKept
         /\ RxFull' <=> RxFull
<1>1. RxStays /\ TxStays
  BY DEF RxStays, TxStays
<1>2. /\ RxOK' /\ TxOK' /\ RxKept' = RxKept /\ TxKept' = TxKept /\ (RxFull' <=> RxFull)
  BY <1>1, RxKeeps, TxKeeps DEF JtagInv
<1>3. RxKept \in Int /\ TxKept \in Int
  BY Ranges
<1>4. CallsOK'
  BY <1>2, <1>3, CallerWaits
<1> QED  BY <1>2, <1>4

LEMMA IdleKeeps ==
  JtagInv /\ (HostPauses \/ HostLeaves \/ UNCHANGED vars) => JtagInv'
<1> SUFFICES ASSUME JtagInv, HostPauses \/ HostLeaves \/ UNCHANGED vars PROVE JtagInv'
  OBVIOUS
<1>1. UNCHANGED <<fast, rfifo, tfifo, ien, sent, took, sp, isr, pc, call, got, wrote>>
  BY DEF HostPauses, HostLeaves, vars, device, host, caller
<1>2. /\ RxOK' /\ TxOK' /\ CallsOK' /\ RxKept' = RxKept /\ TxKept' = TxKept
      /\ RxFull' <=> RxFull
  BY <1>1, RingsStay DEF JtagInv, CallsOK
<1>3. JtagTypeOK' /\ HandlerOK' /\ Awake'
  BY <1>1, <1>2 DEF JtagInv, JtagTypeOK, HandlerOK, Awake
<1> QED  BY <1>2, <1>3 DEF JtagInv

-----------------------------------------------------------------------------
(* The interrupt handler.                                                  *)
LEMMA EnableIs ==
  ASSUME JtagInv, NEW set \in SUBSET {"RE", "WE"}, Enable(set)
  PROVE  /\ sp' \in Ring /\ ien' = set /\ ien' = sp'.irq_enable
         /\ sp'.rx_in = sp.rx_in /\ sp'.rx_out = sp.rx_out /\ sp'.rx_buf = sp.rx_buf
         /\ sp'.tx_in = sp.tx_in /\ sp'.tx_out = sp.tx_out /\ sp'.tx_buf = sp.tx_buf
         /\ sp'.host_inactive = sp.host_inactive /\ sp'.timeout = sp.timeout
BY DEF Enable, Ring, JtagInv, JtagTypeOK

LEMMA IsrEnterKeeps == JtagInv /\ IsrEnter => JtagInv'
<1> SUFFICES ASSUME JtagInv, IsrEnter PROVE JtagInv'
  OBVIOUS
<1>1. /\ UNCHANGED <<fast, rfifo, tfifo, ien, sent, took, sp, pc, call, got, wrote>>
      /\ fast /\ isr' = [isr EXCEPT !.at = "control"]
  BY DEF IsrEnter, device, host, caller
<1>2. isr' \in Handler /\ isr'.at = "control"
  <2> DEFINE at == "control"
  <2>1. at \in {"none", "control", "rx", "rx_end", "tx"} /\ isr \in Handler
    BY CallIs
  <2>2. isr' = [isr EXCEPT !.at = at]
    BY <1>1
  <2> HIDE DEF at
  <2>3. isr' \in Handler /\ isr'.at = at
    BY <2>1, <2>2, HandlerGoes, Zenon
  <2> QED  BY <2>3 DEF at
<1>3. /\ RxOK' /\ TxOK' /\ CallsOK' /\ RxKept' = RxKept /\ TxKept' = TxKept
      /\ RxFull' <=> RxFull
  BY <1>1, RingsStay
<1>4. JtagTypeOK' /\ HandlerOK' /\ Awake'
  BY <1>1, <1>2, <1>3 DEF JtagInv, JtagTypeOK, HandlerOK, Awake
<1> QED  BY <1>3, <1>4 DEF JtagInv

LEMMA IsrControlKeeps == JtagInv /\ IsrControl => JtagInv'
<1> SUFFICES ASSUME JtagInv, IsrControl PROVE JtagInv'
  OBVIOUS
<1>1. /\ UNCHANGED <<fast, rfifo, tfifo, ien, sent, took, sp, pc, call, got, wrote>>
      /\ isr.at = "control"
      /\ isr' = IF ~RI /\ ~WI THEN NoIsr
                ELSE [at |-> IF RI THEN "rx" ELSE "tx", wi |-> WI,
                      space |-> Depth - Len(tfifo), more |-> TRUE]
  BY DEF IsrControl, device, host, caller
<1>2. /\ isr' \in Handler /\ isr'.at \in {"none", "rx", "tx"}
      /\ isr'.at # "none" => isr'.space = Depth - Len(tfifo)
  <2>0. Depth - Len(tfifo) \in Int
    BY JtagUartAssumption DEF JtagInv, JtagTypeOK
  <2> DEFINE n == Depth - Len(tfifo)
             yes == TRUE
             no == FALSE
             zero == 0
             none == "none"
             w == WI
             at == IF RI THEN "rx" ELSE "tx"
  <2>1. yes \in BOOLEAN /\ no \in BOOLEAN /\ w \in BOOLEAN /\ zero \in Int /\ n \in Int
        /\ at \in {"none", "control", "rx", "rx_end", "tx"}
        /\ none \in {"none", "control", "rx", "rx_end", "tx"}
        /\ at \in {"rx", "tx"} /\ none = "none"
    BY <2>0 DEF WI
  <2>2. isr' = Started(none, no, zero, no) \/ isr' = Started(at, w, n, yes)
    BY <1>1 DEF NoIsr, Started
  <2> HIDE DEF n, yes, no, zero, none, w, at
  <2>3. CASE isr' = Started(none, no, zero, no)
    <3>1. isr' \in Handler /\ isr'.at = none
      BY <2>1, <2>3, HandlerNew
    <3> QED  BY <2>1, <3>1
  <2>4. CASE isr' = Started(at, w, n, yes)
    <3>1. isr' \in Handler /\ isr'.at = at /\ isr'.space = n
      BY <2>1, <2>4, HandlerNew
    <3> QED  BY <2>1, <3>1 DEF n
  <2> QED  BY <2>2, <2>3, <2>4
<1>3. /\ RxOK' /\ TxOK' /\ CallsOK' /\ RxKept' = RxKept /\ TxKept' = TxKept
      /\ RxFull' <=> RxFull
  BY <1>1, RingsStay DEF JtagInv, CallsOK
<1>4. Len(tfifo) \in Nat /\ Depth \in Nat
  BY JtagUartAssumption DEF JtagInv, JtagTypeOK
<1>5. JtagTypeOK' /\ HandlerOK' /\ Awake'
  BY <1>1, <1>2, <1>3, <1>4 DEF JtagInv, JtagTypeOK, HandlerOK, Awake
<1> QED  BY <1>3, <1>5 DEF JtagInv

(* A character goes from the FIFO into the ring.                           *)
LEMMA IsrRxKeeps == JtagInv /\ IsrRx => JtagInv'
<1> SUFFICES ASSUME JtagInv, IsrRx PROVE JtagInv'
  OBVIOUS
<1>1. /\ UNCHANGED <<fast, tfifo, ien, sent, took, pc, call, got, wrote>>
      /\ isr.at = "rx" /\ fast
  BY DEF IsrRx, host, caller, JtagInv, CallsOK
<1> DEFINE at == "rx_end"
           some == Len(rfifo) > 1
<1>2. at \in {"none", "control", "rx", "rx_end", "tx"} /\ isr \in Handler
      /\ some \in BOOLEAN
  BY CallIs
<1>3. \/ RxFull /\ isr' = [isr EXCEPT !.at = at] /\ UNCHANGED <<rfifo, sp>>
      \/ ~RxFull /\ isr' = Ended(isr, at) /\ UNCHANGED <<rfifo, sp>>
      \/ /\ ~RxFull /\ rfifo # <<>> /\ isr' = [isr EXCEPT !.more = some]
         /\ sp' = [sp EXCEPT !.rx_buf[sp.rx_in] = Head(rfifo), !.rx_in = Next1(sp.rx_in)]
         /\ rfifo' = Tail(rfifo)
  BY DEF IsrRx, Ended
<1>4. CASE UNCHANGED <<rfifo, sp>>
  <2> HIDE DEF some
  <2>1. /\ isr' \in Handler /\ isr'.space = isr.space
        /\ isr'.at = at /\ (isr'.more => RxFull)
    <3>1. CASE RxFull /\ isr' = [isr EXCEPT !.at = at]
      <4> HIDE DEF at
      <4> QED  BY <1>2, <3>1, HandlerGoes, Zenon
    <3>2. CASE isr' = Ended(isr, at)
      <4> HIDE DEF at
      <4>1. isr' \in Handler /\ isr'.at = at /\ isr'.space = isr.space /\ ~isr'.more
        <5>1. /\ Ended(isr, at) \in Handler /\ Ended(isr, at).at = at
              /\ Ended(isr, at).space = isr.space /\ ~Ended(isr, at).more
          BY <1>2, HandlerEnds
        <5> QED  BY <3>2, <5>1, Zenon
      <4> QED  BY <4>1, Zenon
    <3>3. CASE /\ ~RxFull /\ rfifo # <<>> /\ rfifo' = Tail(rfifo)
      BY <1>4, <3>3, TailIs DEF JtagInv, JtagTypeOK
    <3> QED  BY <1>3, <3>1, <3>2, <3>3
  <2>2. /\ RxOK' /\ TxOK' /\ CallsOK' /\ RxKept' = RxKept /\ TxKept' = TxKept
        /\ RxFull' <=> RxFull
    BY <1>1, <1>4, RingsStay
  <2>3. JtagTypeOK' /\ HandlerOK' /\ Awake'
    BY <1>1, <1>4, <2>1, <2>2 DEF JtagInv, JtagTypeOK, HandlerOK, Awake
  <2> QED  BY <2>2, <2>3 DEF JtagInv
<1>5. CASE /\ ~RxFull /\ rfifo # <<>> /\ isr' = [isr EXCEPT !.more = some]
           /\ sp' = [sp EXCEPT !.rx_buf[sp.rx_in] = Head(rfifo),
                               !.rx_in = Next1(sp.rx_in)]
           /\ rfifo' = Tail(rfifo)
  <2> HIDE DEF at, some
  <2>1. isr' \in Handler /\ isr'.at = "rx" /\ isr'.space = isr.space
    <3>1. isr' \in Handler /\ isr'.at = isr.at /\ isr'.space = isr.space
      BY <1>2, <1>5, HandlerSees, Zenon
    <3> QED  BY <1>1, <3>1
  <2>2. /\ rfifo' \in Seq(Int) /\ Len(rfifo) \in Nat /\ Len(rfifo') = Len(rfifo) - 1
        /\ Len(rfifo) >= 1 /\ Len(rfifo) <= Depth
        /\ \A k \in 1 .. Len(rfifo) - 1 : rfifo'[k] = rfifo[k + 1]
        /\ Head(rfifo) = rfifo[1] /\ rfifo[1] \in Int
    BY <1>5, TailIs DEF JtagInv, JtagTypeOK
  <2>3. /\ sp.rx_in \in Idx /\ sp.rx_out \in Idx /\ RxKept \in 0 .. BufLen - 2
        /\ TxKept \in Int /\ BufLen \in Nat
    <3>1. ~RxFull
      BY <1>5
    <3>2. /\ sp.rx_in \in Idx /\ sp.rx_out \in Idx /\ RxKept \in 0 .. BufLen - 1
          /\ TxKept \in 0 .. BufLen - 1 /\ (RxFull <=> RxKept = BufLen - 1)
      BY Ranges
    <3>3. BufLen \in Nat /\ BufLen > 1
      BY JtagUartAssumption
    <3> QED  BY <3>1, <3>2, <3>3
  <2>4. Next1(sp.rx_in) \in Idx
    BY <2>3, NextIs
  <2>5. /\ sp' \in Ring /\ sp'.rx_in = Next1(sp.rx_in) /\ sp'.rx_out = sp.rx_out
        /\ sp'.rx_buf = [sp.rx_buf EXCEPT ![sp.rx_in] = Head(rfifo)]
        /\ sp'.tx_in = sp.tx_in /\ sp'.tx_out = sp.tx_out /\ sp'.tx_buf = sp.tx_buf
        /\ sp'.irq_enable = sp.irq_enable
    BY <1>5, <2>2, <2>3, <2>4 DEF JtagInv, JtagTypeOK, Ring
  <2>6. /\ RxKept' = RxKept + 1 /\ Slot(sp.rx_out, RxKept + 1) = sp.rx_in
    <3>1. RxKept' = Kept(sp.rx_out, Next1(sp.rx_in))
      BY <2>5 DEF RxKept
    <3>2. /\ Kept(sp.rx_out, Next1(sp.rx_in)) = RxKept + 1
          /\ Slot(sp.rx_out, RxKept + 1) = sp.rx_in
      BY <2>3, OneMoves, JtagUartAssumption DEF RxKept
    <3> QED  BY <3>1, <3>2
  <2>7. TxStays
    BY <1>1, <2>5 DEF TxStays
  <2>8. TxOK' /\ TxKept' = TxKept
    BY <2>7, TxKeeps DEF JtagInv
  <2>9. \A k \in 1 .. RxKept : sp.rx_buf[Slot(sp.rx_out, k)] = got + k
    BY DEF JtagInv, RxOK
  <2>10. \A k \in 1 .. Len(rfifo) : rfifo[k] = got + RxKept + k
    BY DEF JtagInv, RxOK
  <2>11. sent = got + RxKept + Len(rfifo) /\ got \in Int
    BY DEF JtagInv, RxOK, JtagTypeOK
  <2>12. ASSUME NEW k \in 1 .. RxKept'
         PROVE  sp'.rx_buf[Slot(sp'.rx_out, k)] = got' + k
    <3>0. sp.rx_buf \in [Idx -> Int] /\ k \in 1 .. BufLen /\ RxKept + 1 \in 1 .. BufLen
      BY <2>3, <2>6, <2>12, Ranges
    <3>1. CASE k = RxKept + 1
      BY <1>1, <2>2, <2>3, <2>5, <2>6, <2>10, <2>11, <3>0, <3>1
    <3>2. CASE k # RxKept + 1
      <4>1. Slot(sp.rx_out, k) \in Idx /\ Slot(sp.rx_out, k) # sp.rx_in
        BY <2>3, <2>6, <3>0, <3>2, PlaceIs
      <4>2. k \in 1 .. RxKept
        BY <2>3, <2>6, <3>2
      <4> QED  BY <1>1, <2>5, <2>9, <3>0, <4>1, <4>2
    <3> QED  BY <3>1, <3>2
  <2>13. RxOK'
    <3>1. sent' = got' + RxKept' + Len(rfifo')
      BY <1>1, <2>2, <2>3, <2>6, <2>11
    <3>2. \A k \in 1 .. Len(rfifo') : rfifo'[k] = got' + RxKept' + k
      BY <1>1, <2>2, <2>3, <2>6, <2>10, <2>11
    <3> QED  BY <2>12, <3>1, <3>2 DEF RxOK
  <2>14. CallsOK'
    <3>1. RxKept' >= RxKept /\ RxKept' \in Int /\ TxKept' <= TxKept /\ TxKept' \in Int
      BY <2>3, <2>6, <2>8
    <3> QED  BY <1>1, <2>5, <3>1, CallerWaits
  <2>15. JtagTypeOK'
    BY <1>1, <2>1, <2>2, <2>5, JtagUartAssumption DEF JtagInv, JtagTypeOK
  <2>16. HandlerOK'
    BY <1>1, <2>1 DEF JtagInv, HandlerOK
  <2>17. Awake'
    BY <1>1, <1>5, <2>5 DEF JtagInv, Awake
  <2> QED  BY <2>8, <2>13, <2>14, <2>15, <2>16, <2>17 DEF JtagInv
<1> QED  BY <1>3, <1>4, <1>5

LEMMA IsrRxEndKeeps == JtagInv /\ IsrRxEnd => JtagInv'
<1> SUFFICES ASSUME JtagInv, IsrRxEnd PROVE JtagInv'
  OBVIOUS
<1> DEFINE at == IF isr.wi THEN "tx" ELSE "control"
<1>1. /\ UNCHANGED <<fast, rfifo, tfifo, sent, took, pc, call, got, wrote>>
      /\ isr.at = "rx_end" /\ fast /\ isr' = [isr EXCEPT !.at = at]
      /\ IF isr.more THEN Enable(sp.irq_enable \ {"RE"}) ELSE UNCHANGED <<sp, ien>>
  BY DEF IsrRxEnd, host, caller, JtagInv, CallsOK
<1>2. isr' \in Handler /\ isr'.at = at /\ isr'.space = isr.space
  <2>1. at \in {"none", "control", "rx", "rx_end", "tx"} /\ isr \in Handler
    BY CallIs
  <2> HIDE DEF at
  <2>2. isr' = [isr EXCEPT !.at = at]
    BY <1>1
  <2>3. isr' \in Handler /\ isr'.at = at /\ isr'.space = isr.space
    BY <2>1, <2>2, HandlerGoes, Zenon
  <2> QED  BY <2>3
<1>3. at \in {"tx", "control"}
  OBVIOUS
<1> HIDE DEF at
<1>4. sp \in Ring /\ ien = sp.irq_enable /\ sp.irq_enable \in SUBSET {"RE", "WE"}
  BY DEF JtagInv, JtagTypeOK, Ring
<1>5. /\ sp' \in Ring /\ ien' = sp'.irq_enable
      /\ sp'.rx_in = sp.rx_in /\ sp'.rx_out = sp.rx_out /\ sp'.rx_buf = sp.rx_buf
      /\ sp'.tx_in = sp.tx_in /\ sp'.tx_out = sp.tx_out /\ sp'.tx_buf = sp.tx_buf
      /\ "WE" \in ien => "WE" \in ien'
      /\ "RE" \notin ien' => isr.more \/ "RE" \notin ien
  <2>1. CASE isr.more
    <3>1. Enable(sp.irq_enable \ {"RE"})
      BY <1>1, <2>1
    <3> DEFINE set == sp.irq_enable \ {"RE"}
    <3>2. set \in SUBSET {"RE", "WE"} /\ ("WE" \in ien => "WE" \in set)
      BY <1>4
    <3> HIDE DEF set
    <3>3. Enable(set)
      BY <3>1 DEF set
    <3> QED  BY <2>1, <3>2, <3>3, EnableIs
  <2>2. CASE ~isr.more
    BY <1>1, <1>4, <2>2
  <2> QED  BY <2>1, <2>2
<1>6. /\ RxOK' /\ TxOK' /\ CallsOK' /\ RxKept' = RxKept /\ TxKept' = TxKept
      /\ RxFull' <=> RxFull
  BY <1>1, <1>5, RingsStay
<1>7. HandlerOK'
  BY <1>1, <1>2, <1>3 DEF JtagInv, HandlerOK
<1>8. Awake'
  BY <1>1, <1>5, <1>6 DEF JtagInv, HandlerOK, Awake
<1>9. JtagTypeOK'
  BY <1>1, <1>2, <1>5 DEF JtagInv, JtagTypeOK
<1> QED  BY <1>6, <1>7, <1>8, <1>9 DEF JtagInv

(* A character goes from the ring into the FIFO.                           *)
LEMMA IsrTxKeeps == JtagInv /\ IsrTx => JtagInv'
<1> SUFFICES ASSUME JtagInv, IsrTx PROVE JtagInv'
  OBVIOUS
<1> DEFINE at == "control"
           n == isr.space - 1
<1>1. /\ UNCHANGED <<fast, rfifo, sent, took, pc, call, got, wrote>>
      /\ isr.at = "tx" /\ fast
  BY DEF IsrTx, host, caller, JtagInv, CallsOK
<1>2. /\ at \in {"none", "control", "rx", "rx_end", "tx"} /\ isr \in Handler /\ n \in Int
      /\ isr.space \in Int /\ isr.space + Len(tfifo) <= Depth
  BY <1>1, CallIs DEF JtagInv, HandlerOK
<1>3. /\ sp \in Ring /\ ien = sp.irq_enable /\ sp.irq_enable \in SUBSET {"RE", "WE"}
      /\ tfifo \in Seq(Int) /\ Len(tfifo) \in Nat /\ Depth \in Nat /\ took \in Nat
  BY JtagUartAssumption DEF JtagInv, JtagTypeOK, Ring
<1>4. CASE Room /\ sp.tx_out # sp.tx_in
  <2>1. /\ tfifo' = IF Len(tfifo) < Depth
                    THEN Append(tfifo, sp.tx_buf[sp.tx_out]) ELSE tfifo
        /\ sp' = [sp EXCEPT !.tx_out = Next1(sp.tx_out)]
        /\ isr' = [isr EXCEPT !.space = n]
        /\ UNCHANGED ien
    BY <1>4 DEF IsrTx
  <2> HIDE DEF n
  <2>2. isr' \in Handler /\ isr'.at = isr.at /\ isr'.space = n
    BY <1>2, <2>1, HandlerCounts, Zenon
  <2>3. /\ sp.tx_in \in Idx /\ sp.tx_out \in Idx /\ TxKept \in 1 .. BufLen - 1
        /\ RxKept \in Int /\ BufLen \in Nat
    BY <1>4, Ranges, JtagUartAssumption
  <2>4. Next1(sp.tx_out) \in Idx /\ sp.tx_buf[sp.tx_out] \in Int
    BY <2>3, NextIs, Ranges
  <2>5. /\ sp' \in Ring /\ sp'.tx_out = Next1(sp.tx_out) /\ sp'.tx_in = sp.tx_in
        /\ sp'.tx_buf = sp.tx_buf /\ sp'.irq_enable = sp.irq_enable
        /\ sp'.rx_in = sp.rx_in /\ sp'.rx_out = sp.rx_out /\ sp'.rx_buf = sp.rx_buf
    BY <1>3, <2>1, <2>4 DEF Ring
  <2>6. /\ tfifo' = Append(tfifo, sp.tx_buf[sp.tx_out]) /\ Len(tfifo) < Depth
    BY <1>2, <1>3, <1>4, <2>1 DEF Room
  <2>7. /\ tfifo' \in Seq(Int) /\ Len(tfifo') = Len(tfifo) + 1
        /\ \A k \in 1 .. Len(tfifo) : tfifo'[k] = tfifo[k]
        /\ tfifo'[Len(tfifo) + 1] = sp.tx_buf[sp.tx_out]
    BY <1>3, <2>4, <2>6, Appended
  <2>8. /\ TxKept' = TxKept - 1 /\ Slot(sp.tx_out, 1) = sp.tx_out
        /\ \A k \in 1 .. TxKept - 1 : Slot(sp'.tx_out, k) = Slot(sp.tx_out, k + 1)
    <3>1. TxKept' = Kept(Next1(sp.tx_out), sp.tx_in)
      BY <2>5 DEF TxKept
    <3> QED  BY <2>3, <2>5, <3>1, OneMoves DEF TxKept
  <2>9. RxStays
    BY <1>1, <2>5 DEF RxStays
  <2>10. RxOK' /\ RxKept' = RxKept /\ (RxFull' <=> RxFull)
    BY <2>9, RxKeeps DEF JtagInv
  <2>11. \A k \in 1 .. TxKept : sp.tx_buf[Slot(sp.tx_out, k)] = took + Len(tfifo) + k
    BY DEF JtagInv, TxOK
  <2>12. TxOK'
    <3>1. wrote' = took' + Len(tfifo') + TxKept'
      BY <1>1, <1>3, <2>3, <2>7, <2>8 DEF JtagInv, TxOK
    <3>2. sp.tx_buf[sp.tx_out] = took + Len(tfifo) + 1
      BY <2>3, <2>8, <2>11
    <3>3. \A k \in 1 .. Len(tfifo') : tfifo'[k] = took' + k
      <4>1. \A k \in 1 .. Len(tfifo) : tfifo[k] = took + k
        BY DEF JtagInv, TxOK
      <4>2. ASSUME NEW k \in 1 .. Len(tfifo) + 1 PROVE tfifo'[k] = took + k
        <5>1. CASE k = Len(tfifo) + 1
          BY <1>3, <2>7, <3>2, <5>1
        <5>2. CASE k # Len(tfifo) + 1
          <6>1. k \in 1 .. Len(tfifo)
            BY <1>3, <5>2
          <6> QED  BY <2>7, <4>1, <6>1
        <5> QED  BY <5>1, <5>2
      <4> QED  BY <1>1, <2>7, <4>2
    <3>4. \A k \in 1 .. TxKept' :
            sp'.tx_buf[Slot(sp'.tx_out, k)] = took' + Len(tfifo') + k
      BY <1>1, <1>3, <2>3, <2>5, <2>7, <2>8, <2>11
    <3> QED  BY <3>1, <3>3, <3>4 DEF TxOK
  <2>13. CallsOK'
    <3>1. RxKept' >= RxKept /\ RxKept' \in Int /\ TxKept' <= TxKept /\ TxKept' \in Int
      BY <2>3, <2>8, <2>10
    <3> QED  BY <1>1, <2>5, <3>1, CallerWaits
  <2>14. JtagTypeOK'
    BY <1>1, <1>3, <2>1, <2>2, <2>5, <2>6, <2>7 DEF JtagInv, JtagTypeOK
  <2>15. HandlerOK'
    BY <1>1, <1>2, <1>3, <2>2, <2>7 DEF HandlerOK, n
  <2>16. Awake'
    BY <1>1, <1>4, <2>1, <2>5, <2>10 DEF JtagInv, Awake
  <2> QED  BY <2>10, <2>12, <2>13, <2>14, <2>15, <2>16 DEF JtagInv
<1>5. CASE ~(Room /\ sp.tx_out # sp.tx_in)
  <2>1. /\ IF Room THEN Enable(sp.irq_enable \ {"WE"}) ELSE UNCHANGED <<sp, ien>>
        /\ isr' = [isr EXCEPT !.at = at]
        /\ UNCHANGED tfifo
    BY <1>5 DEF IsrTx
  <2>2. isr' \in Handler /\ isr'.at = "control"
    <3> HIDE DEF at
    <3>1. isr' \in Handler /\ isr'.at = at
      BY <1>2, <2>1, HandlerGoes, Zenon
    <3> QED  BY <3>1 DEF at
  <2>3. /\ sp' \in Ring /\ ien' = sp'.irq_enable
        /\ sp'.rx_in = sp.rx_in /\ sp'.rx_out = sp.rx_out /\ sp'.rx_buf = sp.rx_buf
        /\ sp'.tx_in = sp.tx_in /\ sp'.tx_out = sp.tx_out /\ sp'.tx_buf = sp.tx_buf
        /\ "RE" \in ien => "RE" \in ien'
        /\ "WE" \in ien => "WE" \in ien' \/ sp.tx_in = sp.tx_out
    <3>1. CASE Room
      <4> DEFINE set == sp.irq_enable \ {"WE"}
      <4>1. set \in SUBSET {"RE", "WE"} /\ ("RE" \in ien => "RE" \in set)
        BY <1>3
      <4>2. Enable(set)
        BY <2>1, <3>1
      <4> HIDE DEF set
      <4> QED  BY <1>5, <3>1, <4>1, <4>2, EnableIs
    <3>2. CASE ~Room
      BY <1>3, <2>1, <3>2
    <3> QED  BY <3>1, <3>2
  <2>4. /\ RxOK' /\ TxOK' /\ CallsOK' /\ RxKept' = RxKept /\ TxKept' = TxKept
        /\ RxFull' <=> RxFull
    BY <1>1, <2>1, <2>3, RingsStay
  <2>5. HandlerOK'
    BY <2>2 DEF HandlerOK
  <2>6. Awake'
    BY <1>1, <2>3, <2>4 DEF JtagInv, Awake
  <2>7. JtagTypeOK'
    BY <1>1, <2>1, <2>2, <2>3 DEF JtagInv, JtagTypeOK
  <2> QED  BY <2>4, <2>5, <2>6, <2>7 DEF JtagInv
<1> QED  BY <1>4, <1>5

LEMMA TimeoutKeeps == JtagInv /\ Timeout => JtagInv'
<1> SUFFICES ASSUME JtagInv, Timeout PROVE JtagInv'
  OBVIOUS
<1>1. /\ UNCHANGED <<fast, rfifo, tfifo, sent, took, isr, pc, call, got, wrote>>
      /\ fast /\ ien' = ien
      /\ \/ sp' = [sp EXCEPT !.host_inactive = 0]
         \/ /\ sp.host_inactive < IntMax - 2
            /\ sp' = [sp EXCEPT !.host_inactive = @ + 1]
  BY DEF Timeout, host, caller, JtagInv, JtagTypeOK
<1>2. sp \in Ring /\ ien = sp.irq_enable /\ IntMax \in Nat
  BY JtagUartAssumption DEF JtagInv, JtagTypeOK
<1>3. /\ sp' \in Ring /\ ien' = sp'.irq_enable
      /\ sp'.rx_in = sp.rx_in /\ sp'.rx_out = sp.rx_out /\ sp'.rx_buf = sp.rx_buf
      /\ sp'.tx_in = sp.tx_in /\ sp'.tx_out = sp.tx_out /\ sp'.tx_buf = sp.tx_buf
  BY <1>1, <1>2 DEF Ring
<1>4. /\ RxOK' /\ TxOK' /\ CallsOK' /\ RxKept' = RxKept /\ TxKept' = TxKept
      /\ RxFull' <=> RxFull
  BY <1>1, <1>3, RingsStay DEF JtagInv, CallsOK
<1>5. JtagTypeOK' /\ HandlerOK' /\ Awake'
  BY <1>1, <1>3, <1>4 DEF JtagInv, JtagTypeOK, HandlerOK, Awake
<1> QED  BY <1>4, <1>5 DEF JtagInv

-----------------------------------------------------------------------------
(* The calls: first the steps that leave the rings as they are.            *)
Places == {"idle", "c_spin"} \cup Writing \cup Reading
Busy == {"w_copy", "w_advance", "r_copy", "r_advance"}

RingsLeft ==
  /\ UNCHANGED <<fast, rfifo, tfifo, sent, took, isr, got, wrote>>
  /\ sp'.rx_in = sp.rx_in /\ sp'.rx_out = sp.rx_out /\ sp'.rx_buf = sp.rx_buf
  /\ sp'.tx_in = sp.tx_in /\ sp'.tx_out = sp.tx_out /\ sp'.tx_buf = sp.tx_buf
  /\ sp' \in Ring /\ ien' = sp'.irq_enable

LEMMA RingsLeftIs ==
  ASSUME JtagInv, RingsLeft, call' \in Call, pc' \in Places
  PROVE  /\ RxOK' /\ TxOK' /\ HandlerOK' /\ JtagTypeOK'
         /\ RxKept' = RxKept /\ TxKept' = TxKept
         /\ RxFull' <=> RxFull
<1>1. RxStays /\ TxStays
  BY DEF RingsLeft, RxStays, TxStays
<1>2. RxOK' /\ TxOK' /\ RxKept' = RxKept /\ TxKept' = TxKept /\ (RxFull' <=> RxFull)
  BY <1>1, RxKeeps, TxKeeps DEF JtagInv
<1>3. HandlerOK'
  BY <1>2 DEF JtagInv, HandlerOK, RingsLeft
<1>4. JtagTypeOK'
  BY DEF JtagInv, JtagTypeOK, RingsLeft, Places
<1> QED  BY <1>2, <1>3, <1>4

LEMMA CallerGoesOn ==
  ASSUME JtagInv, RingsLeft, call' \in Call, pc' \in Places \ Busy,
         ~fast => pc' \in {"idle", "w_poll", "r_poll"},
         fast => pc' \notin {"w_poll", "r_poll"},
         pc' \in Writing => call'.fn = "write",
         pc' \in Reading => call'.fn = "read",
         pc' = "c_spin" => call'.fn = "close",
         call'.fn = "read" => DataIs(call'.data, got),
         Awake'
  PROVE  JtagInv'
<1>1. RxOK' /\ TxOK' /\ HandlerOK' /\ JtagTypeOK' /\ RxKept' = RxKept /\ TxKept' = TxKept
  BY RingsLeftIs
<1>2. CallsOK'
  BY DEF JtagInv, CallsOK, RingsLeft, Busy
<1> QED  BY <1>1, <1>2 DEF JtagInv

LEMMA SpaceIsKept == JtagInv => sp \in Ring /\ ien = sp.irq_enable /\ pc \in Places
BY DEF JtagInv, JtagTypeOK, Places

LEMMA BegunKeeps == JtagInv /\ (Write \/ Read \/ Close) => JtagInv'
<1> SUFFICES ASSUME JtagInv, Write \/ Read \/ Close PROVE JtagInv'
  OBVIOUS
<1>1. /\ UNCHANGED <<fast, rfifo, tfifo, ien, sent, took, sp, isr, got, wrote>>
      /\ pc = "idle"
  BY DEF Write, Read, Close, device, host, Do
<1>2. PICK fn \in {"read", "write", "close"}, count \in Int, nb \in BOOLEAN :
        /\ call' = Begun(fn, count, nb)
        /\ fn = "write" => pc' = IF fast THEN "w_load" ELSE "w_poll"
        /\ fn = "read" => pc' = IF fast THEN "r_load" ELSE "r_poll"
        /\ fn = "close" => pc' = "c_spin" /\ fast
  <2>1. CASE Write
    <3> DEFINE w == "write"
    <3>1. PICK count \in Int, nb \in BOOLEAN : call' = Begun(w, count, nb)
      BY <2>1 DEF Write
    <3>2. pc' = IF fast THEN "w_load" ELSE "w_poll"
      BY <2>1 DEF Write, Goto
    <3> QED  BY <3>1, <3>2
  <2>2. CASE Read
    <3> DEFINE r == "read"
    <3>1. PICK count \in Int, nb \in BOOLEAN : call' = Begun(r, count, nb)
      BY <2>2 DEF Read
    <3>2. pc' = IF fast THEN "r_load" ELSE "r_poll"
      BY <2>2 DEF Read, Goto
    <3> QED  BY <3>1, <3>2
  <2>3. CASE Close
    <3> DEFINE c == "close"
    <3>1. PICK nb \in BOOLEAN : call' = Begun(c, 0, nb)
      BY <2>3 DEF Close
    <3>2. pc' = "c_spin" /\ fast
      BY <2>3 DEF Close, Goto
    <3> QED  BY <3>1, <3>2
  <2> QED  BY <2>1, <2>2, <2>3
<1>3. call' \in Call /\ call'.fn = fn /\ call'.data = <<>>
  BY <1>2, CallBegun
<1>4. RingsLeft
  BY <1>1, SpaceIsKept DEF RingsLeft
<1>5. DataIs(call'.data, got)
  BY <1>3 DEF DataIs
<1>6. RxFull' <=> RxFull
  BY <1>1 DEF RxFull
<1>7. Awake'
  BY <1>1, <1>6 DEF JtagInv, Awake
<1>8. /\ pc' \in Places \ Busy
      /\ ~fast => pc' \in {"idle", "w_poll", "r_poll"}
      /\ fast => pc' \notin {"w_poll", "r_poll"}
      /\ pc' \in Writing => fn = "write"
      /\ pc' \in Reading => fn = "read"
      /\ pc' = "c_spin" => fn = "close"
  BY <1>2 DEF Places, Busy, Writing, Reading
<1> QED  BY <1>3, <1>4, <1>5, <1>7, <1>8, CallerGoesOn

(* A call that goes on to a place where it works on no ring.               *)
LEMMA CallStep ==
  ASSUME JtagInv, RingsLeft, pc \in Places \ {"idle", "r_advance", "w_poll", "r_poll"},
         pc' \in Places \ Busy, pc' \notin {"w_poll", "r_poll"},
         call' \in Call, call'.fn = call.fn, call'.data = call.data,
         pc' \in Writing => pc \in Writing, pc' \in Reading => pc \in Reading,
         pc' # "c_spin",
         Awake'
  PROVE  JtagInv'
<1>1. fast
  BY DEF JtagInv, CallsOK
<1>2. call'.fn = "read" => DataIs(call'.data, got)
  BY DEF JtagInv, CallsOK
<1>3. /\ pc' \in Writing => call'.fn = "write"
      /\ pc' \in Reading => call'.fn = "read"
  BY DEF JtagInv, CallsOK
<1> QED  BY <1>1, <1>2, <1>3, CallerGoesOn

LEMMA ReturnIs ==
  ASSUME JtagInv, NEW r \in Results, Return(r)
  PROVE  /\ pc' = "idle" /\ call' \in Call /\ call'.fn = call.fn /\ call'.data = call.data
<1>1. call' = [call EXCEPT !.result = r] /\ call \in Call
  BY CallIs DEF Return
<1>2. call' \in Call /\ call'.fn = call.fn /\ call'.data = call.data
  BY <1>1, Zenon DEF Call
<1> QED  BY <1>2 DEF Return, Goto

LEMMA ResultIs == Result \in Results
BY DEF Result, Results

LEMMA SetTimeoutKeeps == JtagInv /\ SetTimeout => JtagInv'
<1> SUFFICES ASSUME JtagInv, SetTimeout PROVE JtagInv'
  OBVIOUS
<1>1. /\ UNCHANGED <<fast, rfifo, tfifo, ien, sent, took, isr, pc, call, got, wrote>>
      /\ \E t \in Timeouts : sp' = [sp EXCEPT !.timeout =
           IF t >= 2 /\ t < IntMax THEN t ELSE IntMax - 1]
  BY DEF SetTimeout, device, host, caller
<1>2. PICK n \in 0 .. IntMax : sp' = [sp EXCEPT !.timeout = n]
  BY <1>1, JtagUartAssumption
<1>3. /\ sp' \in Ring /\ sp'.irq_enable = sp.irq_enable
      /\ sp'.rx_in = sp.rx_in /\ sp'.rx_out = sp.rx_out /\ sp'.rx_buf = sp.rx_buf
      /\ sp'.tx_in = sp.tx_in /\ sp'.tx_out = sp.tx_out /\ sp'.tx_buf = sp.tx_buf
  BY <1>2, SpaceIsKept DEF Ring
<1>4. /\ RxOK' /\ TxOK' /\ CallsOK' /\ RxKept' = RxKept /\ TxKept' = TxKept
      /\ RxFull' <=> RxFull
  BY <1>1, <1>3, RingsStay DEF JtagInv, CallsOK
<1>5. JtagTypeOK' /\ HandlerOK' /\ Awake'
  BY <1>1, <1>3, <1>4 DEF JtagInv, JtagTypeOK, HandlerOK, Awake
<1> QED  BY <1>4, <1>5 DEF JtagInv

LEMMA WriteLoadKeeps == JtagInv /\ WriteLoad => JtagInv'
<1> SUFFICES ASSUME JtagInv, WriteLoad PROVE JtagInv'
  OBVIOUS
<1> DEFINE space == WriteSpace(sp.tx_in, sp.tx_out)
           n == Min({space, call.count})
           in == sp.tx_in
           out == sp.tx_out
<1>1. /\ UNCHANGED <<fast, rfifo, tfifo, ien, sent, took, sp, isr, got, wrote>>
      /\ pc = "w_load"
      /\ \/ /\ call.count > 0 /\ space > 0 /\ pc' = "w_copy"
            /\ call' = Loaded(call, in, out, n)
         \/ /\ pc' = "w_kick"
            /\ call' = [call EXCEPT !.in = in, !.out = out] \/ call' = call
  BY DEF WriteLoad, device, host, Do, Goto, Loaded
<1>2. /\ in \in Idx /\ out \in Idx /\ call \in Call /\ call.count \in Int
  BY Ranges, CallIs
<1>3. /\ space \in Int /\ in + space <= BufLen /\ TxKept + space < BufLen
      /\ TxKept \in Int /\ BufLen \in Int /\ in \in Int
  <2>1. space \in Int /\ in + space <= BufLen /\ Kept(out, in) + space < BufLen
    BY <1>2, SpaceFits
  <2>2. TxKept \in Int /\ BufLen \in Int /\ in \in Int
    BY <1>2, Ranges, JtagUartAssumption DEF Idx
  <2> QED  BY <2>1, <2>2 DEF TxKept
<1>4. n = IF space <= call.count THEN space ELSE call.count
  BY <1>2, <1>3, MinIs
<1> HIDE DEF space, n, in, out
<1>5. RingsLeft
  BY <1>1, SpaceIsKept DEF RingsLeft
<1>6. (RxFull' <=> RxFull) /\ TxKept' = TxKept
  BY <1>1 DEF RxFull, TxKept
<1>7. fast /\ call.fn = "write"
  BY <1>1 DEF JtagInv, CallsOK, Writing
<1>8. call' \in Call /\ call'.fn = call.fn /\ call'.data = call.data
  <2>1. CASE call' = Loaded(call, in, out, n)
    <3>1. n \in Int
      BY <1>2, <1>3, <1>4
    <3> QED  BY <1>2, <2>1, <3>1, CallLoads
  <2>2. CASE call' = [call EXCEPT !.in = in, !.out = out]
    BY <1>2, <2>2, CallSees, Zenon
  <2> QED  BY <1>1, <1>2, <2>1, <2>2
<1>9. Awake'
  BY <1>1, <1>6, <1>7, <1>8 DEF JtagInv, Awake
<1>10. CASE pc' = "w_kick"
  BY <1>1, <1>5, <1>8, <1>9, <1>10, CallStep DEF Places, Busy, Writing, Reading
<1>11. CASE pc' # "w_kick"
  <2>1. call.count > 0 /\ space > 0 /\ pc' = "w_copy"
        /\ call' = Loaded(call, in, out, n)
    BY <1>1, <1>11
  <2>2. n \in Int /\ n >= 1 /\ n <= space
    BY <1>2, <1>3, <1>4, <2>1
  <2>3. call'.in = in /\ call'.n = n
    BY <1>2, <2>1, <2>2, CallLoads
  <2>4. CallsOK'
    BY <1>1, <1>3, <1>6, <1>7, <1>8, <2>1, <2>2, <2>3 DEF CallsOK, Writing, Reading, in
  <2>5. RxOK' /\ TxOK' /\ HandlerOK' /\ JtagTypeOK'
    BY <1>5, <1>8, <2>1, RingsLeftIs DEF Places, Writing
  <2> QED  BY <1>9, <2>4, <2>5 DEF JtagInv
<1> QED  BY <1>10, <1>11

(* What a call changes of the enables.                                     *)
LEMMA Enables ==
  ASSUME JtagInv, NEW set \in SUBSET {"RE", "WE"}, Enable(set),
         UNCHANGED <<fast, rfifo, tfifo, sent, took, isr, got, wrote>>
  PROVE  RingsLeft /\ ien' = set
BY EnableIs DEF RingsLeft

LEMMA WriteKickKeeps == JtagInv /\ WriteKick => JtagInv'
<1> SUFFICES ASSUME JtagInv, WriteKick PROVE JtagInv'
  OBVIOUS
<1>1. /\ UNCHANGED <<fast, rfifo, tfifo, sent, took, isr, got, wrote>>
      /\ pc = "w_kick" /\ Enable(Kick)
      /\ (pc' = "w_spin" /\ call' = call) \/ Return(Result)
  BY DEF WriteKick, host, Do, Goto
<1>2. Kick \in SUBSET {"RE", "WE"} /\ "WE" \in Kick /\ ("RE" \in ien => "RE" \in Kick)
  BY SpaceIsKept DEF Kick, Ring
<1>3. RingsLeft /\ ien' = Kick
  BY <1>1, <1>2, Enables
<1>4. fast /\ call.fn = "write"
  BY <1>1 DEF JtagInv, CallsOK, Writing
<1>5. /\ pc' \in {"w_spin", "idle"}
      /\ call' \in Call /\ call'.fn = call.fn /\ call'.data = call.data
  BY <1>1, ReturnIs, ResultIs, CallIs
<1>6. RxFull' <=> RxFull
  BY <1>3 DEF RxFull, RingsLeft
<1>7. Awake'
  BY <1>2, <1>3, <1>4, <1>5, <1>6 DEF JtagInv, Awake
<1> QED  BY <1>1, <1>3, <1>5, <1>7, CallStep DEF Places, Busy, Writing, Reading

LEMMA WaitKeeps == JtagInv /\ (WriteSpin \/ WriteTest \/ ReadSpin \/ CloseSpin) => JtagInv'
<1> SUFFICES ASSUME JtagInv, WriteSpin \/ WriteTest \/ ReadSpin \/ CloseSpin PROVE JtagInv'
  OBVIOUS
<1>1. UNCHANGED <<fast, rfifo, tfifo, ien, sent, took, sp, isr, got, wrote>>
  BY DEF WriteSpin, WriteTest, ReadSpin, CloseSpin, device, host, caller
<1>2. RingsLeft
  BY <1>1, SpaceIsKept DEF RingsLeft
<1>3. RxFull' <=> RxFull
  BY <1>1 DEF RxFull
<1>4. \/ pc = "w_spin" /\ pc' = "w_test" /\ call' = call
      \/ pc = "w_test" /\ pc' = "w_load" /\ call' = call
      \/ pc = "r_spin" /\ pc' \in {"r_enable", "r_load"} /\ call' = call
      \/ /\ pc \in {"w_test", "c_spin"} /\ pc' = "idle"
         /\ call' \in Call /\ call'.fn = call.fn /\ call'.data = call.data
  <2>1. CASE WriteSpin
    BY <2>1 DEF WriteSpin, Do, Goto
  <2>2. CASE WriteTest
    BY <2>2, ReturnIs, ResultIs DEF WriteTest, Do, Goto
  <2>3. CASE ReadSpin
    BY <2>3 DEF ReadSpin, Do, Goto
  <2>4. CASE CloseSpin
    <3>1. "closed" \in Results /\ "EWOULDBLOCK" \in Results
      BY DEF Results
    <3> QED  BY <2>4, <3>1, ReturnIs DEF CloseSpin, Do
  <2> QED  BY <2>1, <2>2, <2>3, <2>4
<1>5. call' \in Call /\ call'.fn = call.fn /\ call'.data = call.data
  BY <1>4, CallIs
<1>6. /\ pc \in Writing => call.fn = "write"
      /\ pc = "c_spin" => pc' = "idle"
  BY <1>4 DEF JtagInv, CallsOK
<1>7. Awake'
  <2>1. CASE pc = "c_spin"
    <3>1. call.fn = "close"
      BY <2>1 DEF JtagInv, CallsOK
    <3> QED BY <1>1, <1>3, <1>4, <1>5, <2>1, <3>1 DEF JtagInv, Awake
  <2>2. CASE pc # "c_spin"
    BY <1>1, <1>3, <1>4, <1>5, <1>6, <2>2 DEF JtagInv, Awake, Writing
  <2> QED BY <2>1, <2>2
<1> QED  BY <1>2, <1>4, <1>5, <1>7, CallStep DEF Places, Busy, Writing, Reading

LEMMA ReadLoadKeeps == JtagInv /\ ReadLoad => JtagInv'
<1> SUFFICES ASSUME JtagInv, ReadLoad PROVE JtagInv'
  OBVIOUS
<1> DEFINE chars == IF sp.rx_in >= sp.rx_out THEN sp.rx_in - sp.rx_out
                    ELSE BufLen - sp.rx_out
           n == Min({chars, call.count})
           in == sp.rx_in
           out == sp.rx_out
<1>1. /\ UNCHANGED <<fast, rfifo, tfifo, ien, sent, took, sp, isr, got, wrote>>
      /\ pc = "r_load" /\ call' = Loaded(call, in, out, n)
      /\ pc' = IF chars > 0 /\ call.count > 0 THEN "r_copy"
               ELSE IF call.data # <<>> \/ call.nonblock THEN "r_enable" ELSE "r_spin"
  BY DEF ReadLoad, device, host, Do, Goto, Loaded
<1>2. /\ in \in Idx /\ out \in Idx /\ call \in Call /\ call.count \in Int
  BY Ranges, CallIs
<1>3. /\ chars \in Int /\ out + chars <= BufLen /\ chars <= RxKept
      /\ RxKept \in Int /\ BufLen \in Int /\ out \in Int
  <2>1. chars \in Int /\ out + chars <= BufLen /\ chars <= Kept(out, in)
    BY <1>2, CharsFit
  <2>2. RxKept \in Int /\ BufLen \in Int /\ out \in Int
    BY <1>2, Ranges, JtagUartAssumption DEF Idx
  <2> QED  BY <2>1, <2>2 DEF RxKept
<1>4. n = IF chars <= call.count THEN chars ELSE call.count
  BY <1>2, <1>3, MinIs
<1> HIDE DEF chars, n, in, out
<1>5. RingsLeft
  BY <1>1, SpaceIsKept DEF RingsLeft
<1>6. (RxFull' <=> RxFull) /\ RxKept' = RxKept
  BY <1>1 DEF RxFull, RxKept
<1>7. fast /\ call.fn = "read" /\ DataIs(call.data, got)
  BY <1>1 DEF JtagInv, CallsOK, Reading
<1>8. /\ call' \in Call /\ call'.fn = call.fn /\ call'.data = call.data
      /\ call'.out = out /\ call'.n = n /\ n \in Int
  <2>1. n \in Int
    BY <1>2, <1>3, <1>4
  <2>2. /\ Loaded(call, in, out, n) \in Call /\ Loaded(call, in, out, n).fn = call.fn
        /\ Loaded(call, in, out, n).data = call.data
        /\ Loaded(call, in, out, n).out = out /\ Loaded(call, in, out, n).n = n
    BY <1>2, <2>1, CallLoads
  <2>3. call' = Loaded(call, in, out, n)
    BY <1>1
  <2> QED  BY <2>1, <2>2, <2>3
<1>9. Awake'
  BY <1>1, <1>6, <1>7, <1>8 DEF JtagInv, Awake
<1>10. CASE pc' # "r_copy"
  BY <1>1, <1>5, <1>8, <1>9, <1>10, CallStep DEF Places, Busy, Writing, Reading
<1>11. CASE pc' = "r_copy"
  <2>1. n >= 1 /\ n <= chars
    BY <1>1, <1>2, <1>3, <1>4, <1>11
  <2>2. CallsOK'
    BY <1>1, <1>3, <1>6, <1>7, <1>8, <1>11, <2>1 DEF CallsOK, Writing, Reading, out
  <2>3. RxOK' /\ TxOK' /\ HandlerOK' /\ JtagTypeOK'
    BY <1>5, <1>8, <1>11, RingsLeftIs DEF Places, Reading
  <2> QED  BY <1>9, <2>2, <2>3 DEF JtagInv
<1> QED  BY <1>10, <1>11

LEMMA ReadEnableKeeps == JtagInv /\ ReadEnable => JtagInv'
<1> SUFFICES ASSUME JtagInv, ReadEnable PROVE JtagInv'
  OBVIOUS
<1>1. /\ UNCHANGED <<fast, rfifo, tfifo, sent, took, isr, got, wrote>>
      /\ pc = "r_enable" /\ Return(Result)
      /\ IF call.data # <<>> THEN Enable(ReEnable) ELSE UNCHANGED <<sp, ien>>
  BY DEF ReadEnable, host, Do
<1>2. pc' = "idle" /\ call' \in Call /\ call'.fn = call.fn /\ call'.data = call.data
  BY <1>1, ReturnIs, ResultIs
<1>3. /\ RingsLeft /\ ("WE" \in ien => "WE" \in ien')
      /\ "RE" \notin ien' => call.data = <<>> /\ "RE" \notin ien
  <2>1. CASE call.data # <<>>
    <3>1. /\ ReEnable \in SUBSET {"RE", "WE"} /\ "RE" \in ReEnable
          /\ "WE" \in ien => "WE" \in ReEnable
      BY <2>1, SpaceIsKept DEF ReEnable, Ring
    <3> QED  BY <1>1, <2>1, <3>1, Enables
  <2>2. CASE call.data = <<>>
    BY <1>1, <2>2, SpaceIsKept DEF RingsLeft
  <2> QED  BY <2>1, <2>2
<1>4. RxFull' <=> RxFull
  BY <1>3 DEF RxFull, RingsLeft
<1>5. Awake'
  BY <1>1, <1>2, <1>3, <1>4 DEF JtagInv, Awake, RingsLeft
<1> QED  BY <1>1, <1>2, <1>3, <1>5, CallStep DEF Places, Busy, Writing, Reading

-----------------------------------------------------------------------------
(* The steps of a call that fill a ring or empty one.                      *)
LEMMA WriteCopyKeeps == JtagInv /\ WriteCopy => JtagInv'
<1> SUFFICES ASSUME JtagInv, WriteCopy PROVE JtagInv'
  OBVIOUS
<1> DEFINE last == call.in + call.n - 1
           filled == [i \in DOMAIN sp.tx_buf |->
                       IF i \in call.in .. last THEN wrote + 1 + i - call.in
                       ELSE sp.tx_buf[i]]
<1>1. /\ UNCHANGED <<fast, rfifo, tfifo, ien, sent, took, isr, got, wrote, call>>
      /\ pc = "w_copy" /\ pc' = "w_advance" /\ sp' = [sp EXCEPT !.tx_buf = filled]
  BY DEF WriteCopy, device, host, Do, Goto, Stores, StoreChars
<1>2. /\ call.in = sp.tx_in /\ call.n \in Int /\ call.n >= 1 /\ call.in + call.n <= BufLen
      /\ TxKept + call.n < BufLen /\ fast /\ call.fn = "write" /\ wrote \in Nat
  BY <1>1, CallIs DEF JtagInv, CallsOK, Writing, JtagTypeOK
<1>3. /\ sp.tx_in \in Idx /\ sp.tx_out \in Idx /\ TxKept \in 0 .. BufLen - 1
      /\ sp.tx_buf \in [Idx -> Int] /\ call.in \in Int /\ BufLen \in Nat
  <2>1. /\ sp.tx_in \in Idx /\ sp.tx_out \in Idx /\ TxKept \in 0 .. BufLen - 1
        /\ sp.tx_buf \in [Idx -> Int]
    BY Ranges
  <2>2. BufLen \in Nat
    BY JtagUartAssumption
  <2>3. call.in \in Int
    BY <1>2, <2>1, <2>2 DEF Idx
  <2> QED BY <2>1, <2>2, <2>3
<1>4. /\ filled \in [Idx -> Int]
      /\ \A i \in Idx : i \notin call.in .. last => filled[i] = sp.tx_buf[i]
      /\ \A i \in Idx : i \in call.in .. last => filled[i] = wrote + 1 + i - call.in
  <2>1. DOMAIN sp.tx_buf = Idx /\ Idx \subseteq Int
    BY <1>3 DEF Idx
  <2>2. \A i \in Idx : filled[i] = IF i \in call.in .. last THEN wrote + 1 + i - call.in
                                   ELSE sp.tx_buf[i]
    BY <2>1
  <2>3. \A i \in Idx : wrote + 1 + i - call.in \in Int
    BY <1>2, <1>3, <2>1
  <2>4. filled \in [Idx -> Int]
    BY <1>3, <2>1, <2>3
  <2> QED  BY <2>2, <2>4
<1> HIDE DEF filled
<1>5. /\ sp' \in Ring /\ sp'.tx_buf = filled /\ sp'.irq_enable = sp.irq_enable
      /\ sp'.rx_in = sp.rx_in /\ sp'.rx_out = sp.rx_out /\ sp'.rx_buf = sp.rx_buf
      /\ sp'.tx_in = sp.tx_in /\ sp'.tx_out = sp.tx_out
  BY <1>1, <1>4, SpaceIsKept DEF Ring
<1>6. \A j \in 1 .. call.n : Slot(sp.tx_out, TxKept + j) = call.in + j - 1
  BY <1>2, <1>3, InMoves DEF TxKept
<1>7. ASSUME NEW k \in 1 .. TxKept
      PROVE  /\ Slot(sp.tx_out, k) \in Idx
             /\ filled[Slot(sp.tx_out, k)] = sp.tx_buf[Slot(sp.tx_out, k)]
  <2> DEFINE p == Slot(sp.tx_out, k)
  <2>1. k \in 1 .. BufLen
    BY <1>3
  <2>2. p \in Idx /\ p \in Int
    BY <1>3, <2>1, PlaceIs DEF Idx
  <2>3. ASSUME p \in call.in .. last PROVE FALSE
    <3> DEFINE j == p - call.in + 1
    <3>1. j \in 1 .. call.n /\ p = call.in + j - 1
      BY <1>2, <1>3, <2>2, <2>3
    <3> HIDE DEF j, p
    <3>2. p = Slot(sp.tx_out, TxKept + j)
      BY <1>6, <3>1
    <3>3. TxKept + j \in 1 .. BufLen /\ k # TxKept + j
      BY <1>2, <1>3, <3>1
    <3> QED  BY <1>3, <2>1, <3>2, <3>3, PlaceIs DEF p
  <2> HIDE DEF p
  <2>4. filled[p] = sp.tx_buf[p] /\ p \in Idx
    BY <1>4, <2>2, <2>3
  <2> QED  BY <2>4 DEF p
<1>8. TxKept' = TxKept /\ RxKept' = RxKept /\ (RxFull' <=> RxFull)
  BY <1>5 DEF TxKept, RxKept, RxFull
<1>9. TxOK'
  <2>1. /\ wrote = took + Len(tfifo) + TxKept
        /\ \A k \in 1 .. Len(tfifo) : tfifo[k] = took + k
        /\ \A k \in 1 .. TxKept : sp.tx_buf[Slot(sp.tx_out, k)] = took + Len(tfifo) + k
    BY DEF JtagInv, TxOK
  <2>2. \A k \in 1 .. TxKept : filled[Slot(sp.tx_out, k)] = took + Len(tfifo) + k
    BY <1>7, <2>1
  <2> QED  BY <1>1, <1>5, <1>8, <2>1, <2>2 DEF TxOK
<1>10. RxOK'
  BY <1>1, <1>5, RxKeeps DEF JtagInv, RxStays
<1>11. ASSUME NEW j \in 1 .. call.n PROVE filled[call.in + j - 1] = wrote + j
  <2>0. call.in \in Int /\ call.in >= 0 /\ j \in Int /\ j >= 1 /\ j <= call.n
        /\ call.n \in Int /\ BufLen \in Nat /\ call.in + call.n <= BufLen
    BY <1>2, <1>3 DEF Idx
  <2>1. call.in + j - 1 \in Idx /\ call.in + j - 1 \in call.in .. last
    BY <2>0 DEF Idx
  <2>2. filled[call.in + j - 1] = wrote + 1 + (call.in + j - 1) - call.in
    BY <1>4, <2>1
  <2> QED  BY <1>2, <1>3, <2>2
<1>12. CallsOK'
  BY <1>1, <1>2, <1>5, <1>8, <1>11 DEF CallsOK, Writing, Reading
<1>13. JtagTypeOK' /\ HandlerOK' /\ Awake'
  BY <1>1, <1>5, <1>8 DEF JtagInv, JtagTypeOK, HandlerOK, Awake, Writing
<1> QED  BY <1>9, <1>10, <1>12, <1>13 DEF JtagInv

LEMMA WriteAdvanceKeeps == JtagInv /\ WriteAdvance => JtagInv'
<1> SUFFICES ASSUME JtagInv, WriteAdvance PROVE JtagInv'
  OBVIOUS
<1> DEFINE next == (call.in + call.n) % BufLen
           more == call.data \o Chars(wrote + 1, wrote + call.n)
           left == call.count - call.n
<1>1. /\ UNCHANGED <<fast, rfifo, tfifo, ien, sent, took, isr, got>>
      /\ pc = "w_advance" /\ pc' = "w_load" /\ sp' = [sp EXCEPT !.tx_in = next]
      /\ wrote' = wrote + call.n /\ call' = Advanced(call, left, more)
  BY DEF WriteAdvance, device, host, Do, Goto, Stores, StoreIn, Advanced
<1>2. /\ call.in = sp.tx_in /\ call.n \in Int /\ call.n >= 1 /\ call.in + call.n <= BufLen
      /\ TxKept + call.n < BufLen /\ fast /\ call.fn = "write" /\ wrote \in Nat
      /\ \A j \in 1 .. call.n : sp.tx_buf[call.in + j - 1] = wrote + j
  BY <1>1, CallIs DEF JtagInv, CallsOK, Writing, JtagTypeOK
<1>3. /\ sp.tx_in \in Idx /\ sp.tx_out \in Idx /\ TxKept \in 0 .. BufLen - 1
      /\ BufLen \in Nat /\ call \in Call /\ call.data \in Seq(Int)
  BY Ranges, CallIs, JtagUartAssumption
<1>4. left \in Int /\ more \in Seq(Int)
  <2>1. left \in Int
    BY <1>2, CallIs
  <2>2. Chars(wrote + 1, wrote + call.n) \in Seq(Int)
    <3> DEFINE n == call.n
               w == wrote
    <3>1. n \in Nat /\ w \in Nat
      BY <1>2
    <3> HIDE DEF n, w
    <3>2. Chars(w + 1, w + n) \in Seq(Int)
      BY <3>1 DEF Chars
    <3> QED  BY <3>2 DEF n, w
  <2> QED  BY <1>3, <2>1, <2>2
<1>5. /\ next \in Idx /\ Kept(sp.tx_out, next) = TxKept + call.n
      /\ \A j \in 1 .. call.n : Slot(sp.tx_out, TxKept + j) = call.in + j - 1
  BY <1>2, <1>3, InMoves DEF TxKept
<1> HIDE DEF next, more, left
<1>6. /\ sp' \in Ring /\ sp'.tx_in = next /\ sp'.irq_enable = sp.irq_enable
      /\ sp'.rx_in = sp.rx_in /\ sp'.rx_out = sp.rx_out /\ sp'.rx_buf = sp.rx_buf
      /\ sp'.tx_out = sp.tx_out /\ sp'.tx_buf = sp.tx_buf
  BY <1>1, <1>5, SpaceIsKept DEF Ring
<1>7. TxKept' = TxKept + call.n /\ RxKept' = RxKept /\ (RxFull' <=> RxFull)
  BY <1>5, <1>6 DEF TxKept, RxKept, RxFull
<1>8. call' \in Call /\ call'.fn = "write"
  BY <1>1, <1>2, <1>3, <1>4, CallMoves
<1>9. TxOK'
  <2>1. /\ wrote = took + Len(tfifo) + TxKept /\ took \in Int /\ Len(tfifo) \in Int
        /\ \A k \in 1 .. Len(tfifo) : tfifo[k] = took + k
        /\ \A k \in 1 .. TxKept : sp.tx_buf[Slot(sp.tx_out, k)] = took + Len(tfifo) + k
    BY DEF JtagInv, TxOK, JtagTypeOK
  <2>2. ASSUME NEW k \in 1 .. TxKept + call.n
        PROVE  sp.tx_buf[Slot(sp.tx_out, k)] = took + Len(tfifo) + k
    <3>1. CASE k <= TxKept
      BY <1>3, <2>1, <3>1
    <3>2. CASE k > TxKept
      <4> DEFINE j == k - TxKept
      <4>1. j \in 1 .. call.n /\ k = TxKept + j
        BY <1>2, <1>3, <3>2
      <4> HIDE DEF j
      <4>2. sp.tx_buf[Slot(sp.tx_out, k)] = wrote + j
        BY <1>2, <1>5, <4>1
      <4> QED  BY <1>3, <2>1, <4>1, <4>2
    <3> QED  BY <1>2, <1>3, <3>1, <3>2
  <2>3. wrote' = took + Len(tfifo) + (TxKept + call.n)
    BY <1>1, <1>2, <1>3, <2>1
  <2> QED  BY <1>1, <1>6, <1>7, <2>1, <2>2, <2>3 DEF TxOK
<1>10. RxOK'
  BY <1>1, <1>6, RxKeeps DEF JtagInv, RxStays
<1>11. CallsOK'
  BY <1>1, <1>2, <1>8 DEF CallsOK, Writing, Reading
<1>12. JtagTypeOK'
  <2>1. wrote' \in Nat
    BY <1>1, <1>2
  <2> QED  BY <1>1, <1>6, <1>8, <2>1 DEF JtagInv, JtagTypeOK, Writing
<1>13. HandlerOK' /\ Awake'
  BY <1>1, <1>2, <1>6, <1>7, <1>8 DEF JtagInv, HandlerOK, Awake
<1> QED  BY <1>9, <1>10, <1>11, <1>12, <1>13 DEF JtagInv

LEMMA Joined ==
  ASSUME NEW d \in Seq(Int), NEW t \in Seq(Int)
  PROVE  /\ d \o t \in Seq(Int) /\ Len(d \o t) = Len(d) + Len(t)
         /\ \A k \in 1 .. Len(d) : (d \o t)[k] = d[k]
         /\ \A j \in 1 .. Len(t) : (d \o t)[Len(d) + j] = t[j]
OBVIOUS

LEMMA ReadCopyKeeps == JtagInv /\ ReadCopy => JtagInv'
<1> SUFFICES ASSUME JtagInv, ReadCopy PROVE JtagInv'
  OBVIOUS
<1> DEFINE taken == [k \in 1 .. call.n |-> sp.rx_buf[call.out + k - 1]]
           more == call.data \o taken
           left == call.count - call.n
<1>1. /\ UNCHANGED <<fast, rfifo, tfifo, ien, sent, took, sp, isr, got, wrote>>
      /\ pc = "r_copy" /\ pc' = "r_advance" /\ call' = Advanced(call, left, more)
  BY DEF ReadCopy, device, host, Do, Goto, Takes, TakeChars, Advanced
<1>2. /\ call.out = sp.rx_out /\ call.n \in Int /\ call.n >= 1
      /\ call.out + call.n <= BufLen /\ call.n <= RxKept /\ fast
      /\ call.fn = "read" /\ DataIs(call.data, got) /\ got \in Nat
  BY <1>1, CallIs DEF JtagInv, CallsOK, Reading, JtagTypeOK
<1>3. /\ sp.rx_in \in Idx /\ sp.rx_out \in Idx /\ RxKept \in 0 .. BufLen - 1
      /\ BufLen \in Nat /\ call \in Call /\ call.data \in Seq(Int)
      /\ sp.rx_buf \in [Idx -> Int] /\ left \in Int
  <2>1. /\ sp.rx_in \in Idx /\ sp.rx_out \in Idx /\ RxKept \in 0 .. BufLen - 1
        /\ sp.rx_buf \in [Idx -> Int]
    BY Ranges
  <2>2. call \in Call /\ call.data \in Seq(Int) /\ call.count \in Int
    BY CallIs
  <2>3. BufLen \in Nat
    BY JtagUartAssumption
  <2> QED  BY <1>2, <2>1, <2>2, <2>3
<1>4. \A j \in 1 .. call.n : Slot(sp.rx_out, j) = call.out + j - 1
  BY <1>2, <1>3, OutMoves DEF RxKept
<1>5. \A j \in 1 .. call.n : sp.rx_buf[call.out + j - 1] = got + j
  <2>1. \A k \in 1 .. RxKept : sp.rx_buf[Slot(sp.rx_out, k)] = got + k
    BY DEF JtagInv, RxOK
  <2>2. SUFFICES ASSUME NEW j \in 1 .. call.n PROVE sp.rx_buf[call.out + j - 1] = got + j
    OBVIOUS
  <2>3. j \in 1 .. RxKept
    BY <1>2, <1>3
  <2>4. Slot(sp.rx_out, j) = call.out + j - 1
    BY <1>4
  <2> QED  BY <2>1, <2>3, <2>4
<1>6. taken \in Seq(Int) /\ Len(taken) = call.n /\ \A j \in 1 .. call.n : taken[j] = got + j
  <2> DEFINE n == call.n
  <2>1. n \in Nat /\ \A j \in 1 .. n : sp.rx_buf[call.out + j - 1] \in Int
    BY <1>2, <1>5
  <2>2. taken = [k \in 1 .. n |-> sp.rx_buf[call.out + k - 1]]
    OBVIOUS
  <2> HIDE DEF n, taken
  <2>3. taken \in Seq(Int) /\ Len(taken) = n /\ DOMAIN taken = 1 .. n
    BY <2>1, <2>2
  <2>4. \A j \in 1 .. n : taken[j] = sp.rx_buf[call.out + j - 1]
    BY <2>2
  <2> QED  BY <1>5, <2>3, <2>4 DEF n
<1> HIDE DEF taken
<1>7. /\ more \in Seq(Int) /\ Len(more) = Len(call.data) + call.n
      /\ \A k \in 1 .. Len(call.data) : more[k] = call.data[k]
      /\ \A j \in 1 .. call.n : more[Len(call.data) + j] = got + j
  <2>1. /\ more \in Seq(Int) /\ Len(more) = Len(call.data) + Len(taken)
        /\ \A k \in 1 .. Len(call.data) : more[k] = call.data[k]
        /\ \A j \in 1 .. Len(taken) : more[Len(call.data) + j] = taken[j]
    BY <1>3, <1>6, Joined
  <2> HIDE DEF more
  <2> QED  BY <1>6, <2>1
<1> HIDE DEF more, left
<1>8. /\ call' \in Call /\ call'.fn = "read" /\ call'.data = more
      /\ call'.out = call.out /\ call'.n = call.n
  <2>1. /\ Advanced(call, left, more) \in Call /\ Advanced(call, left, more).fn = call.fn
        /\ Advanced(call, left, more).data = more /\ Advanced(call, left, more).out = call.out
        /\ Advanced(call, left, more).n = call.n
    BY <1>3, <1>7, CallMoves
  <2>2. call' = Advanced(call, left, more)
    BY <1>1
  <2> QED  BY <1>2, <2>1, <2>2
<1>9. DataIs(more, got + call.n) /\ Len(more) > 0
  <2> DEFINE had == Len(call.data)
  <2>1. had \in Nat /\ \A k \in 1 .. had : call.data[k] = got - had + k
    BY <1>2, <1>3 DEF DataIs
  <2> HIDE DEF had
  <2>2. /\ Len(more) = had + call.n
        /\ \A k \in 1 .. had : more[k] = call.data[k]
        /\ \A j \in 1 .. call.n : more[had + j] = got + j
    BY <1>7 DEF had
  <2>3. ASSUME NEW k \in 1 .. had + call.n PROVE more[k] = got + call.n - Len(more) + k
    <3>1. CASE k <= had
      BY <1>2, <2>1, <2>2, <3>1
    <3>2. CASE k > had
      <4> DEFINE j == k - had
      <4>1. j \in 1 .. call.n /\ k = had + j
        BY <1>2, <2>1, <3>2
      <4> HIDE DEF j
      <4>2. more[k] = got + j /\ Len(more) = had + call.n
        BY <2>2, <4>1
      <4>3. got \in Int /\ call.n \in Int /\ had \in Int /\ j \in Int
        BY <1>2, <2>1, <4>1
      <4> QED  BY <4>1, <4>2, <4>3
    <3> QED  BY <1>2, <2>1, <3>1, <3>2
  <2> QED  BY <1>2, <2>1, <2>2, <2>3 DEF DataIs
<1>10. RingsLeft
  BY <1>1, SpaceIsKept DEF RingsLeft
<1>11. /\ RxOK' /\ TxOK' /\ HandlerOK' /\ JtagTypeOK' /\ RxKept' = RxKept
       /\ RxFull' <=> RxFull
  BY <1>1, <1>8, <1>10, RingsLeftIs DEF Places, Reading
<1>12. CallsOK'
  BY <1>1, <1>2, <1>8, <1>9, <1>11 DEF CallsOK, Writing, Reading
<1>13. Awake'
  <2>1. more # <<>>
    BY <1>7, <1>9
  <2> QED  BY <1>1, <1>8, <1>11, <2>1 DEF JtagInv, Awake
<1> QED  BY <1>11, <1>12, <1>13 DEF JtagInv

LEMMA ReadAdvanceKeeps == JtagInv /\ ReadAdvance => JtagInv'
<1> SUFFICES ASSUME JtagInv, ReadAdvance PROVE JtagInv'
  OBVIOUS
<1> DEFINE next == (call.out + call.n) % BufLen
<1>1. /\ UNCHANGED <<fast, rfifo, tfifo, ien, sent, took, isr, wrote, call>>
      /\ pc = "r_advance" /\ pc' = "r_load" /\ sp' = [sp EXCEPT !.rx_out = next]
      /\ got' = got + call.n
  BY DEF ReadAdvance, device, host, Do, Goto, Takes, GiveBack
<1>2. /\ call.out = sp.rx_out /\ call.n \in Int /\ call.n >= 1
      /\ call.out + call.n <= BufLen /\ call.n <= RxKept /\ fast
      /\ call.fn = "read" /\ DataIs(call.data, got + call.n) /\ got \in Nat
      /\ Len(call.data) > 0
  BY <1>1, CallIs DEF JtagInv, CallsOK, Reading, JtagTypeOK
<1>3. /\ sp.rx_in \in Idx /\ sp.rx_out \in Idx /\ RxKept \in 0 .. BufLen - 1
      /\ BufLen \in Nat /\ call \in Call /\ call.data # <<>>
  <2>1. call.data # <<>>
    <3> SUFFICES ASSUME call.data = <<>> PROVE FALSE
      OBVIOUS
    <3> QED  BY <1>2
  <2> QED  BY <2>1, Ranges, CallIs, JtagUartAssumption
<1>4. /\ next \in Idx /\ Kept(next, sp.rx_in) = RxKept - call.n
      /\ \A k \in 1 .. RxKept - call.n : Slot(next, k) = Slot(sp.rx_out, k + call.n)
  BY <1>2, <1>3, OutMoves DEF RxKept
<1> HIDE DEF next
<1>5. /\ sp' \in Ring /\ sp'.rx_out = next /\ sp'.irq_enable = sp.irq_enable
      /\ sp'.rx_in = sp.rx_in /\ sp'.rx_buf = sp.rx_buf
      /\ sp'.tx_in = sp.tx_in /\ sp'.tx_out = sp.tx_out /\ sp'.tx_buf = sp.tx_buf
  BY <1>1, <1>4, SpaceIsKept DEF Ring
<1>6. RxKept' = RxKept - call.n /\ TxKept' = TxKept
  BY <1>4, <1>5 DEF TxKept, RxKept
<1>7. TxOK'
  BY <1>1, <1>5, TxKeeps DEF JtagInv, TxStays
<1>8. RxOK'
  <2>1. /\ sent = got + RxKept + Len(rfifo) /\ Len(rfifo) \in Int
        /\ \A k \in 1 .. RxKept : sp.rx_buf[Slot(sp.rx_out, k)] = got + k
        /\ \A k \in 1 .. Len(rfifo) : rfifo[k] = got + RxKept + k
    BY DEF JtagInv, RxOK, JtagTypeOK
  <2>2. got' + RxKept' = got + RxKept
    BY <1>1, <1>2, <1>3, <1>6
  <2>3. ASSUME NEW k \in 1 .. RxKept - call.n
        PROVE  sp.rx_buf[Slot(next, k)] = got + call.n + k
    <3>1. k + call.n \in 1 .. RxKept
      BY <1>2, <1>3
    <3>2. sp.rx_buf[Slot(sp.rx_out, k + call.n)] = got + (k + call.n)
      BY <2>1, <3>1
    <3> QED  BY <1>2, <1>4, <3>2
  <2> QED  BY <1>1, <1>5, <1>6, <2>1, <2>2, <2>3 DEF RxOK
<1>9. CallsOK'
  BY <1>1, <1>2 DEF CallsOK, Writing, Reading
<1>10. JtagTypeOK'
  <2>1. got' \in Nat
    BY <1>1, <1>2
  <2> QED  BY <1>1, <1>5, <2>1 DEF JtagInv, JtagTypeOK, Reading
<1>11. HandlerOK'
  BY <1>1 DEF JtagInv, HandlerOK, ReadAdvance, Do, Runs
<1>12. Awake'
  BY <1>1, <1>2, <1>3, <1>5 DEF JtagInv, Awake
<1> QED  BY <1>7, <1>8, <1>9, <1>10, <1>11, <1>12 DEF JtagInv

-----------------------------------------------------------------------------
(* The small driver, whose rings stay empty.                               *)
LEMMA WritePollKeeps == JtagInv /\ WritePoll => JtagInv'
<1> SUFFICES ASSUME JtagInv, WritePoll PROVE JtagInv'
  OBVIOUS
<1>1. /\ UNCHANGED <<fast, rfifo, ien, sent, took, sp, isr, got>> /\ pc = "w_poll"
  BY DEF WritePoll, host
<1>2. /\ ~fast /\ isr.at = "none" /\ sp.tx_in = sp.tx_out /\ TxKept = 0
      /\ call.fn = "write"
  BY <1>1, Ranges DEF JtagInv, CallsOK, Writing
<1>3. (RxFull' <=> RxFull) /\ TxKept' = TxKept /\ RxKept' = RxKept
  BY <1>1 DEF RxFull, TxKept, RxKept
<1>4. Awake'
  BY <1>1, <1>2 DEF Awake
<1>5. CASE call.count = 0
  <2>1. Return("some") /\ UNCHANGED <<tfifo, wrote>>
    BY <1>5 DEF WritePoll
  <2>2. pc' = "idle" /\ call' \in Call /\ call'.fn = call.fn
    BY <2>1, ReturnIs DEF Results
  <2>3. RingsLeft
    BY <1>1, <2>1, SpaceIsKept DEF RingsLeft
  <2> QED  BY <1>2, <1>4, <2>2, <2>3, CallerGoesOn DEF Places, Busy, Writing, Reading
<1>6. CASE call.count # 0
  <2> DEFINE left == call.count - 1
             more == Append(call.data, wrote + 1)
  <2>1. /\ Len(tfifo) < Depth /\ tfifo' = Append(tfifo, wrote + 1) /\ wrote' = wrote + 1
        /\ call' = Advanced(call, left, more) /\ pc' = pc
    BY <1>6 DEF WritePoll, Advanced
  <2>2. /\ call \in Call /\ left \in Int /\ wrote \in Nat /\ took \in Nat
        /\ tfifo \in Seq(Int) /\ Len(tfifo) \in Nat /\ Depth \in Nat
        /\ call.data \in Seq(Int)
    BY CallIs, JtagUartAssumption DEF JtagInv, JtagTypeOK
  <2>3. more \in Seq(Int)
    BY <2>2, Appended
  <2> HIDE DEF left, more
  <2>4. call' \in Call /\ call'.fn = call.fn
    <3>1. Advanced(call, left, more) \in Call /\ Advanced(call, left, more).fn = call.fn
      BY <2>2, <2>3, CallMoves
    <3>2. call' = Advanced(call, left, more)
      BY <2>1
    <3> QED  BY <3>1, <3>2
  <2>5. /\ tfifo' \in Seq(Int) /\ Len(tfifo') = Len(tfifo) + 1
        /\ \A k \in 1 .. Len(tfifo) : tfifo'[k] = tfifo[k]
        /\ tfifo'[Len(tfifo) + 1] = wrote + 1
    BY <2>1, <2>2, Appended
  <2>6. wrote = took + Len(tfifo) /\ \A k \in 1 .. Len(tfifo) : tfifo[k] = took + k
    BY <1>2, <2>2 DEF JtagInv, TxOK
  <2>7. \A k \in 1 .. Len(tfifo) + 1 : tfifo'[k] = took + k
    <3> SUFFICES ASSUME NEW k \in 1 .. Len(tfifo) + 1 PROVE tfifo'[k] = took + k
      OBVIOUS
    <3>1. CASE k = Len(tfifo) + 1
      BY <2>2, <2>5, <2>6, <3>1
    <3>2. CASE k # Len(tfifo) + 1
      <4>1. k \in 1 .. Len(tfifo)
        BY <2>2, <3>2
      <4> QED  BY <2>5, <2>6, <4>1
    <3> QED  BY <3>1, <3>2
  <2>8. TxOK'
    <3>1. wrote' = took' + Len(tfifo') + TxKept'
      BY <1>1, <1>2, <1>3, <2>1, <2>2, <2>5, <2>6
    <3> QED  BY <1>1, <1>2, <1>3, <2>5, <2>7, <3>1 DEF TxOK
  <2>9. RxOK'
    BY <1>1, RxKeeps DEF JtagInv, RxStays
  <2>10. CallsOK'
    BY <1>1, <1>2, <2>1, <2>4 DEF JtagInv, CallsOK, Writing, Reading
  <2>11. JtagTypeOK'
    BY <1>1, <2>1, <2>2, <2>4, <2>5 DEF JtagInv, JtagTypeOK
  <2>12. HandlerOK'
    BY <1>1, <1>2 DEF HandlerOK
  <2> QED  BY <1>4, <2>8, <2>9, <2>10, <2>11, <2>12 DEF JtagInv
<1> QED  BY <1>5, <1>6

LEMMA DataGrows ==
  ASSUME NEW d \in Seq(Int), NEW e \in Seq(Int), NEW g \in Nat, DataIs(d, g),
         Len(e) = Len(d) + 1, \A k \in 1 .. Len(d) : e[k] = d[k], e[Len(d) + 1] = g + 1
  PROVE  DataIs(e, g + 1)
<1> DEFINE n == Len(d)
<1>1. n \in Nat /\ \A k \in 1 .. n : d[k] = g - n + k
  BY DEF DataIs
<1>2. Len(e) = n + 1 /\ e[n + 1] = g + 1 /\ \A k \in 1 .. n : e[k] = d[k]
  OBVIOUS
<1> HIDE DEF n
<1>3. ASSUME NEW k \in 1 .. n + 1 PROVE e[k] = g + 1 - (n + 1) + k
  <2>1. CASE k = n + 1
    BY <1>1, <1>2, <2>1
  <2>2. CASE k # n + 1
    <3>1. k \in 1 .. n
      BY <1>1, <2>2
    <3> QED  BY <1>1, <1>2, <3>1
  <2> QED  BY <2>1, <2>2
<1> DEFINE m == n + 1
<1>4. Len(e) = m /\ \A k \in 1 .. m : e[k] = g + 1 - m + k
  BY <1>2, <1>3
<1> HIDE DEF m
<1>5. \A k \in 1 .. Len(e) : e[k] = g + 1 - Len(e) + k
  BY <1>4, Zenon
<1> QED  BY <1>5 DEF DataIs

LEMMA ReadPollKeeps == JtagInv /\ ReadPoll => JtagInv'
<1> SUFFICES ASSUME JtagInv, ReadPoll PROVE JtagInv'
  OBVIOUS
<1>1. /\ UNCHANGED <<fast, tfifo, ien, sent, took, sp, isr, wrote>> /\ pc = "r_poll"
  BY DEF ReadPoll, host
<1>2. /\ ~fast /\ isr.at = "none" /\ sp.rx_in = sp.rx_out /\ RxKept = 0
      /\ call.fn = "read" /\ DataIs(call.data, got)
  BY <1>1, Ranges DEF JtagInv, CallsOK, Reading
<1>3. (RxFull' <=> RxFull) /\ TxKept' = TxKept /\ RxKept' = RxKept
  BY <1>1 DEF RxFull, TxKept, RxKept
<1>4. Awake'
  BY <1>1, <1>2 DEF Awake
<1>5. CASE ~(call.count > 0 /\ rfifo # <<>>)
  <2>1. Return(Result) /\ UNCHANGED <<rfifo, got>>
    BY <1>5 DEF ReadPoll
  <2>2. pc' = "idle" /\ call' \in Call /\ call'.fn = call.fn /\ call'.data = call.data
    BY <2>1, ReturnIs, ResultIs
  <2>3. RingsLeft
    BY <1>1, <2>1, SpaceIsKept DEF RingsLeft
  <2> QED  BY <1>2, <1>4, <2>2, <2>3, CallerGoesOn DEF Places, Busy, Writing, Reading
<1>6. CASE call.count > 0 /\ rfifo # <<>>
  <2> DEFINE left == call.count - 1
             more == Append(call.data, Head(rfifo))
  <2>1. /\ rfifo' = Tail(rfifo) /\ got' = got + 1
        /\ call' = Advanced(call, left, more) /\ pc' = pc
    BY <1>6 DEF ReadPoll, Advanced
  <2>2. /\ call \in Call /\ left \in Int /\ got \in Nat /\ sent \in Nat
        /\ rfifo \in Seq(Int) /\ Depth \in Nat /\ Len(rfifo) <= Depth
        /\ call.data \in Seq(Int)
    BY CallIs, JtagUartAssumption DEF JtagInv, JtagTypeOK
  <2>3. /\ rfifo' \in Seq(Int) /\ Len(rfifo) \in Nat /\ Len(rfifo) >= 1
        /\ Len(rfifo') = Len(rfifo) - 1
        /\ \A k \in 1 .. Len(rfifo) - 1 : rfifo'[k] = rfifo[k + 1]
        /\ Head(rfifo) = rfifo[1] /\ rfifo[1] \in Int
    BY <1>6, <2>1, <2>2, TailIs
  <2>4. sent = got + Len(rfifo) /\ \A k \in 1 .. Len(rfifo) : rfifo[k] = got + k
    BY <1>2, <2>2, <2>3 DEF JtagInv, RxOK
  <2>5. Head(rfifo) = got + 1
    BY <2>3, <2>4
  <2>6. /\ more \in Seq(Int) /\ Len(more) = Len(call.data) + 1
        /\ \A k \in 1 .. Len(call.data) : more[k] = call.data[k]
        /\ more[Len(call.data) + 1] = got + 1
    BY <2>2, <2>3, <2>5, Appended
  <2> HIDE DEF left, more
  <2>7. call' \in Call /\ call'.fn = call.fn /\ call'.data = more
    <3>1. /\ Advanced(call, left, more) \in Call /\ Advanced(call, left, more).fn = call.fn
          /\ Advanced(call, left, more).data = more
      BY <2>2, <2>6, CallMoves
    <3>2. call' = Advanced(call, left, more)
      BY <2>1
    <3> QED  BY <3>1, <3>2
  <2>8. DataIs(more, got')
    <3>1. DataIs(more, got + 1)
      BY <1>2, <2>2, <2>6, DataGrows
    <3> QED  BY <2>1, <3>1
  <2>9. RxOK'
    <3>1. sent' = got' + RxKept' + Len(rfifo')
      BY <1>1, <1>2, <1>3, <2>1, <2>2, <2>3, <2>4
    <3>2. \A k \in 1 .. Len(rfifo') : rfifo'[k] = got' + RxKept' + k
      BY <1>2, <1>3, <2>1, <2>2, <2>3, <2>4
    <3> QED  BY <1>2, <1>3, <3>1, <3>2 DEF RxOK
  <2>10. TxOK'
    BY <1>1, TxKeeps DEF JtagInv, TxStays
  <2>11. CallsOK'
    BY <1>1, <1>2, <2>1, <2>7, <2>8 DEF JtagInv, CallsOK, Writing, Reading
  <2>12. JtagTypeOK'
    BY <1>1, <2>1, <2>2, <2>3, <2>7 DEF JtagInv, JtagTypeOK
  <2>13. HandlerOK'
    BY <1>1, <1>2 DEF HandlerOK
  <2> QED  BY <1>4, <2>9, <2>10, <2>11, <2>12, <2>13 DEF JtagInv
<1> QED  BY <1>5, <1>6

-----------------------------------------------------------------------------
LEMMA JtagInvInit == Init => JtagInv
<1> SUFFICES ASSUME Init PROVE JtagInv
  OBVIOUS
<1> DEFINE zeros == [i \in Idx |-> 0]
           none == "none"
           zero == 0
           no == FALSE
<1>1. PICK t \in {Default, IntMax} :
        sp = [timeout |-> t, irq_enable |-> ien, host_inactive |-> 0,
              rx_in |-> 0, rx_out |-> 0, tx_in |-> 0, tx_out |-> 0,
              rx_buf |-> zeros, tx_buf |-> zeros]
  BY DEF Init, Idx
<1>2. zeros \in [Idx -> Int] /\ 0 \in Idx /\ ien \in SUBSET {"RE", "WE"} /\ t \in 0 .. IntMax
  BY <1>1, JtagUartAssumption DEF Idx, Init
<1> HIDE DEF zeros
<1>3. /\ sp \in Ring /\ ien = sp.irq_enable /\ sp.rx_in = 0 /\ sp.rx_out = 0
      /\ sp.tx_in = 0 /\ sp.tx_out = 0
  BY <1>1, <1>2, JtagUartAssumption DEF Ring
<1>4. call \in Call /\ call.fn = "none"
  <2>1. call = Begun(none, zero, no) /\ none \in {"none", "read", "write", "close"}
        /\ zero \in Int /\ no \in BOOLEAN
    BY DEF Init
  <2> HIDE DEF none, zero, no
  <2>2. Begun(none, zero, no) \in Call /\ Begun(none, zero, no).fn = none
    BY <2>1, CallBegun
  <2>3. call \in Call /\ call.fn = none
    BY <2>1, <2>2
  <2> QED  BY <2>3 DEF none
<1>5. isr \in Handler /\ isr.at = "none"
  <2>1. isr = Started(none, no, zero, no)
        /\ none \in {"none", "control", "rx", "rx_end", "tx"}
        /\ zero \in Int /\ no \in BOOLEAN
    BY DEF Init, NoIsr, Started
  <2> HIDE DEF none, zero, no
  <2>2. Started(none, no, zero, no) \in Handler /\ Started(none, no, zero, no).at = none
    BY <2>1, HandlerNew
  <2>4. isr \in Handler /\ isr.at = none
    BY <2>1, <2>2, Zenon
  <2> QED  BY <2>4 DEF none
<1>6. /\ rfifo = <<>> /\ tfifo = <<>> /\ sent = 0 /\ took = 0 /\ pc = "idle"
      /\ got = 0 /\ wrote = 0 /\ (fast => ien = {"RE"})
  BY DEF Init
<1>7. RxKept = 0 /\ TxKept = 0
  BY <1>3 DEF RxKept, TxKept, Kept
<1>8. JtagTypeOK
  BY <1>3, <1>4, <1>5, <1>6, JtagUartAssumption DEF JtagTypeOK
<1>9. RxOK /\ TxOK
  BY <1>6, <1>7 DEF RxOK, TxOK
<1>10. CallsOK
  BY <1>3, <1>4, <1>5, <1>6 DEF CallsOK, Writing, Reading
<1>11. HandlerOK
  BY <1>5 DEF HandlerOK
<1>12. Awake
  BY <1>3, <1>6 DEF Awake
<1> QED  BY <1>8, <1>9, <1>10, <1>11, <1>12 DEF JtagInv

LEMMA JtagInvNext == JtagInv /\ [Next]_vars => JtagInv'
<1> SUFFICES ASSUME JtagInv, [Next]_vars PROVE JtagInv'
  OBVIOUS
<1>1. CASE Host
  BY <1>1, HostSendsKeeps, HostTakesKeeps, IdleKeeps DEF Host
<1>2. CASE Isr
  BY <1>2, IsrEnterKeeps, IsrControlKeeps, IsrRxKeeps, IsrRxEndKeeps, IsrTxKeeps DEF Isr
<1>3. CASE Timeout
  BY <1>3, TimeoutKeeps
<1>4. CASE Caller
  BY <1>4, BegunKeeps, SetTimeoutKeeps DEF Caller
<1>5. CASE Routine
  BY <1>5, WriteLoadKeeps, WriteCopyKeeps, WriteAdvanceKeeps, WriteKickKeeps, WaitKeeps,
     ReadLoadKeeps, ReadCopyKeeps, ReadAdvanceKeeps, ReadEnableKeeps, WritePollKeeps,
     ReadPollKeeps DEF Routine
<1>6. CASE UNCHANGED vars
  BY <1>6, IdleKeeps
<1> QED  BY <1>1, <1>2, <1>3, <1>4, <1>5, <1>6 DEF Next

LEMMA Wraps ==
  ASSUME NEW n \in Nat, n > 0
  PROVE  /\ \A x \in 0 .. n - 1 : x % n = x
         /\ \A x \in n .. 2 * n - 1 : x % n = x - n
         /\ \A x \in -n .. -1 : x % n = x + n
<1>1. ASSUME NEW x \in 0 .. n - 1 PROVE x % n = x
  OBVIOUS
<1>2. ASSUME NEW x \in n .. 2 * n - 1 PROVE x % n = x - n
  OBVIOUS
<1>3. ASSUME NEW x \in -n .. -1 PROVE x % n = x + n
  OBVIOUS
<1> QED  BY <1>1, <1>2, <1>3

(* The window of a ring, as the property writes it, place by place.        *)
LEMMA WindowIs ==
  ASSUME NEW in \in Idx, NEW out \in Idx, NEW buf \in [Idx -> Int]
  PROVE  /\ Window(buf, out, in) \in Seq(Int)
         /\ Len(Window(buf, out, in)) = Kept(out, in)
         /\ \A k \in 1 .. Kept(out, in) : Window(buf, out, in)[k] = buf[Slot(out, k)]
<1>1. (in - out) % BufLen = Kept(out, in)
  <2> DEFINE x == in - out
  <2>1. CASE in >= out
    <3>1. x \in 0 .. BufLen - 1 /\ BufLen \in Nat /\ BufLen > 0 /\ Kept(out, in) = x
      BY <2>1, JtagUartAssumption DEF Kept, Idx
    <3> HIDE DEF x
    <3>2. x % BufLen = x
      BY <3>1, Wraps
    <3> QED  BY <3>1, <3>2 DEF x
  <2>2. CASE in < out
    <3>1. /\ x \in -BufLen .. -1 /\ BufLen \in Nat /\ BufLen > 0
          /\ Kept(out, in) = x + BufLen
      BY <2>2, JtagUartAssumption DEF Kept, Idx
    <3> HIDE DEF x
    <3>2. x % BufLen = x + BufLen
      BY <3>1, Wraps
    <3> QED  BY <3>1, <3>2 DEF x
  <2> QED  BY <2>1, <2>2 DEF Idx
<1>2. ASSUME NEW k \in 1 .. BufLen PROVE (out + k - 1) % BufLen = Slot(out, k)
  <2> DEFINE x == out + k - 1
  <2>1. CASE x < BufLen
    <3>1. x \in 0 .. BufLen - 1 /\ BufLen \in Nat /\ BufLen > 0 /\ Slot(out, k) = x
      BY <2>1, JtagUartAssumption DEF Slot, Idx
    <3> HIDE DEF x
    <3>2. x % BufLen = x
      BY <3>1, Wraps
    <3> QED  BY <3>1, <3>2 DEF x
  <2>2. CASE x >= BufLen
    <3>1. /\ x \in BufLen .. 2 * BufLen - 1 /\ BufLen \in Nat /\ BufLen > 0
          /\ Slot(out, k) = x - BufLen
      BY <2>2, JtagUartAssumption DEF Slot, Idx
    <3> HIDE DEF x
    <3>2. x % BufLen = x - BufLen
      BY <3>1, Wraps
    <3> QED  BY <3>1, <3>2 DEF x
  <2> QED  BY <2>1, <2>2, JtagUartAssumption DEF Idx
<1>3. Kept(out, in) \in 0 .. BufLen - 1
  BY KeptIs
<1> DEFINE m == Kept(out, in)
           w == Window(buf, out, in)
<1>4. w = [k \in 1 .. m |-> buf[(out + k - 1) % BufLen]]
  BY <1>1 DEF Window
<1>5. m \in Nat /\ m < BufLen /\ BufLen \in Nat
  BY <1>3, JtagUartAssumption
<1> HIDE DEF m, w
<1>6. \A k \in 1 .. m : w[k] = buf[Slot(out, k)] /\ Slot(out, k) \in Idx
  <2> SUFFICES ASSUME NEW k \in 1 .. m
               PROVE w[k] = buf[Slot(out, k)] /\ Slot(out, k) \in Idx
    OBVIOUS
  <2>1. k \in 1 .. BufLen
    BY <1>5
  <2> QED  BY <1>2, <1>4, <2>1, PlaceIs
<1>7. w \in Seq(Int) /\ Len(w) = m
  <2>1. DOMAIN w = 1 .. m /\ \A k \in 1 .. m : w[k] \in Int
    BY <1>4, <1>6
  <2>2. w = [k \in 1 .. m |-> w[k]]
    BY <1>4
  <2> QED  BY <1>5, <2>1, <2>2
<1> QED  BY <1>6, <1>7 DEF m, w

(* A sequence with these characters is Chars.                              *)
LEMMA CharsAre ==
  ASSUME NEW a \in Nat, NEW b \in Nat, a <= b, NEW q \in Seq(Int), Len(q) = b - a,
         \A k \in 1 .. Len(q) : q[k] = a + k
  PROVE  q = Chars(a + 1, b)
<1>1. b - (a + 1) + 1 = b - a /\ \A k \in 1 .. b - a : a + 1 + k - 1 = a + k
  OBVIOUS
<1>2. Chars(a + 1, b) = [k \in 1 .. b - a |-> a + k]
  BY <1>1 DEF Chars
<1>3. q = [k \in 1 .. b - a |-> a + k]
  OBVIOUS
<1> QED  BY <1>2, <1>3

(* What the property says of FIFOs, indices and counters follows.          *)
LEMMA JtagTypes == JtagInv => TypeOK
<1> SUFFICES ASSUME JtagInv PROVE TypeOK
  OBVIOUS
<1>1. /\ sp \in Ring /\ isr \in Handler /\ call \in Call /\ ien = sp.irq_enable
      /\ Len(rfifo) <= Depth /\ Len(tfifo) <= Depth
      /\ rfifo \in Seq(Int) /\ tfifo \in Seq(Int)
      /\ sent \in Nat /\ took \in Nat /\ got \in Nat /\ wrote \in Nat
  BY DEF JtagInv, JtagTypeOK
<1>2. /\ sp.irq_enable \subseteq {"RE", "WE"}
      /\ {sp.rx_in, sp.rx_out, sp.tx_in, sp.tx_out} \subseteq 0 .. BufLen - 1
      /\ sp.timeout \in 0 .. IntMax /\ sp.host_inactive \in 0 .. IntMax
  BY <1>1 DEF Ring, Idx
<1>3. isr.at \in {"none", "control", "rx", "rx_end", "tx"} /\ isr.space \in Int
  BY <1>1, Zenon DEF Handler
<1>4. call.result \in {"none", "some", "EWOULDBLOCK", "EIO", "closed"}
  BY <1>1, Zenon DEF Call, Results
<1>5. got \in 0 .. sent /\ took \in 0 .. wrote
  <2>1. RxKept \in Nat /\ TxKept \in Nat
    BY Ranges
  <2>2. /\ sent = got + RxKept + Len(rfifo) /\ wrote = took + Len(tfifo) + TxKept
        /\ Len(rfifo) \in Nat /\ Len(tfifo) \in Nat
    BY <1>1 DEF JtagInv, RxOK, TxOK
  <2> HIDE DEF RxKept, TxKept
  <2> QED  BY <1>1, <2>1, <2>2
<1> QED  BY <1>1, <1>2, <1>3, <1>4, <1>5 DEF TypeOK

LEMMA RxWindow ==
  ASSUME JtagInv
  PROVE  Window(sp.rx_buf, sp.rx_out, sp.rx_in) \o rfifo = Chars(got + 1, sent)
<1> DEFINE w == Window(sp.rx_buf, sp.rx_out, sp.rx_in)
           q == w \o rfifo
           m == RxKept
           f == Len(rfifo)
<1>1. /\ sp.rx_in \in Idx /\ sp.rx_out \in Idx /\ sp.rx_buf \in [Idx -> Int]
      /\ rfifo \in Seq(Int) /\ got \in Nat /\ sent \in Nat /\ m \in Nat
  BY Ranges DEF JtagInv, JtagTypeOK, Ring
<1>2. /\ sent = got + m + f
      /\ \A k \in 1 .. m : sp.rx_buf[Slot(sp.rx_out, k)] = got + k
      /\ \A k \in 1 .. f : rfifo[k] = got + m + k
  BY DEF JtagInv, RxOK
<1>3. w \in Seq(Int) /\ Len(w) = m /\ \A k \in 1 .. m : w[k] = got + k
  BY <1>1, <1>2, WindowIs DEF RxKept
<1> HIDE DEF w, m
<1>4. /\ q \in Seq(Int) /\ Len(q) = m + f /\ f \in Nat
      /\ \A k \in 1 .. m : q[k] = w[k]
      /\ \A j \in 1 .. f : q[m + j] = rfifo[j]
  <2>1. /\ w \o rfifo \in Seq(Int) /\ Len(w \o rfifo) = Len(w) + Len(rfifo)
        /\ \A k \in 1 .. Len(w) : (w \o rfifo)[k] = w[k]
        /\ \A j \in 1 .. Len(rfifo) : (w \o rfifo)[Len(w) + j] = rfifo[j]
    BY <1>1, <1>3, Joined, Zenon
  <2>2. Len(rfifo) \in Nat
    BY <1>1
  <2> QED  BY <1>3, <2>1, <2>2
<1> HIDE DEF q, f
<1>5. ASSUME NEW k \in 1 .. Len(q) PROVE q[k] = got + k
  <2>1. CASE k <= m
    BY <1>1, <1>3, <1>4, <2>1
  <2>2. CASE k > m
    <3> DEFINE j == k - m
    <3>1. j \in 1 .. f /\ k = m + j
      BY <1>1, <1>4, <2>2
    <3> HIDE DEF j
    <3>2. q[k] = rfifo[j] /\ rfifo[j] = got + m + j
      BY <1>2, <1>4, <3>1
    <3> QED  BY <1>1, <3>1, <3>2
  <2> QED  BY <1>1, <2>1, <2>2
<1>6. got <= sent /\ Len(q) = sent - got
  BY <1>1, <1>2, <1>4
<1>7. q = Chars(got + 1, sent)
  BY <1>1, <1>4, <1>5, <1>6, CharsAre
<1> QED  BY <1>7 DEF q, w

LEMMA TxWindow ==
  ASSUME JtagInv
  PROVE  tfifo \o Window(sp.tx_buf, sp.tx_out, sp.tx_in) = Chars(took + 1, wrote)
<1> DEFINE w == Window(sp.tx_buf, sp.tx_out, sp.tx_in)
           q == tfifo \o w
           m == TxKept
           f == Len(tfifo)
<1>1. /\ sp.tx_in \in Idx /\ sp.tx_out \in Idx /\ sp.tx_buf \in [Idx -> Int]
      /\ tfifo \in Seq(Int) /\ took \in Nat /\ wrote \in Nat /\ m \in Nat
  BY Ranges DEF JtagInv, JtagTypeOK, Ring
<1>2. /\ wrote = took + f + m
      /\ \A k \in 1 .. f : tfifo[k] = took + k
      /\ \A k \in 1 .. m : sp.tx_buf[Slot(sp.tx_out, k)] = took + f + k
  BY DEF JtagInv, TxOK
<1>3. w \in Seq(Int) /\ Len(w) = m /\ \A k \in 1 .. m : w[k] = took + f + k
  BY <1>1, <1>2, WindowIs DEF TxKept
<1> HIDE DEF w, m
<1>4. /\ q \in Seq(Int) /\ Len(q) = f + m /\ f \in Nat
      /\ \A k \in 1 .. f : q[k] = tfifo[k]
      /\ \A j \in 1 .. m : q[f + j] = w[j]
  <2>1. /\ tfifo \o w \in Seq(Int) /\ Len(tfifo \o w) = Len(tfifo) + Len(w)
        /\ \A k \in 1 .. Len(tfifo) : (tfifo \o w)[k] = tfifo[k]
        /\ \A j \in 1 .. Len(w) : (tfifo \o w)[Len(tfifo) + j] = w[j]
    BY <1>1, <1>3, Joined, Zenon
  <2>2. Len(tfifo) \in Nat
    BY <1>1
  <2> QED  BY <1>3, <2>1, <2>2
<1> HIDE DEF q, f
<1>5. ASSUME NEW k \in 1 .. Len(q) PROVE q[k] = took + k
  <2>1. CASE k <= f
    BY <1>1, <1>2, <1>4, <2>1
  <2>2. CASE k > f
    <3> DEFINE j == k - f
    <3>1. j \in 1 .. m /\ k = f + j
      BY <1>1, <1>4, <2>2
    <3> HIDE DEF j
    <3>2. q[k] = w[j] /\ w[j] = took + f + j
      BY <1>3, <1>4, <3>1
    <3>3. j \in Int /\ f \in Int /\ took \in Int
      BY <1>1, <1>4, <3>1
    <3> QED  BY <3>1, <3>2, <3>3
  <2>3. k <= f \/ k > f
    BY <1>1, <1>4
  <2> QED  BY <2>1, <2>2, <2>3
<1>6. took <= wrote /\ Len(q) = wrote - took
  BY <1>1, <1>2, <1>4
<1>7. q = Chars(took + 1, wrote)
  BY <1>1, <1>4, <1>5, <1>6, CharsAre
<1> QED  BY <1>7 DEF q, w

(* What a read returns: the last of the characters got so far.             *)
LEMMA DataAre ==
  ASSUME NEW d \in Seq(Int), NEW g \in Nat, DataIs(d, g)
  PROVE  d = Chars(g - Len(d) + 1, g)
<1> DEFINE n == Len(d)
<1>1. n \in Nat /\ DOMAIN d = 1 .. n /\ d = [k \in 1 .. n |-> d[k]]
  OBVIOUS
<1>2. \A k \in 1 .. n : d[k] = g - n + k
  BY DEF DataIs
<1> HIDE DEF n
<1>3. g - (g - n + 1) + 1 = n
  BY <1>1
<1>4. ASSUME NEW k \in 1 .. n PROVE d[k] = g - n + 1 + k - 1
  <2>1. d[k] = g - n + k /\ k \in Int /\ n \in Int
    BY <1>1, <1>2
  <2> QED  BY <2>1
<1>5. Chars(g - n + 1, g) = [k \in 1 .. n |-> g - n + 1 + k - 1]
  BY <1>3 DEF Chars
<1>6. d = [k \in 1 .. n |-> g - n + 1 + k - 1]
  BY <1>1, <1>4
<1> QED  BY <1>5, <1>6 DEF n

LEMMA ReadIs ==
  ASSUME JtagInv, call.fn = "read", pc = "idle"
  PROVE  call.data = Chars(got - Len(call.data) + 1, got)
<1>1. call.data \in Seq(Int)
  BY CallIs
<1>2. DataIs(call.data, got) /\ got \in Nat
  BY DEF JtagInv, JtagTypeOK, CallsOK
<1> QED  BY <1>1, <1>2, DataAre

(* Both rings of the console driver keep every character in its place,     *)
(* however caller, interrupt handler and alarm interleave, although none   *)
(* of them excludes the others (altera_avalon_jtag_uart_read, _write and   *)
(* _irq), and a read returns the next characters in their order.           *)
THEOREM NothingIsLost == Spec => []InOrder
<1>1. JtagInv => InOrder
  BY JtagTypes, RxWindow, TxWindow, ReadIs DEF InOrder
<1> QED  BY <1>1, JtagInvInit, JtagInvNext, PTL DEF Spec

(* A character waiting in the transmit ring always has its interrupt       *)
(* enabled or a write about to enable it, and the receive interrupt is off *)
(* only while the ring is full or a read that made room has still to       *)
(* enable it, so that neither direction stops for want of an interrupt.    *)
THEOREM NoWakeUpIsLost == Spec => []Awake
<1>1. JtagInv => Awake
  BY DEF JtagInv
<1> QED  BY <1>1, JtagInvInit, JtagInvNext, PTL DEF Spec

-----------------------------------------------------------------------------
(***************************************************************************)
(* That the panel shows the lines between the writes, for every panel,     *)
(* virtual width, set of characters and numbers in sequences, whatever is  *)
(* written and wherever the alarm falls into a repaint.                    *)
(*                                                                         *)
(* PanelShowsLines says nothing of the steps in between.  The invariant    *)
(* adds who may touch the panel (ActiveOK), that panel and driver agree on *)
(* what is shown and where the next character goes (PanelFollows), that    *)
(* lines once measured have a width and only a scrolling panel a speed     *)
(* (MeasuredOK), which places of a repaint are done and from which scroll  *)
(* position (PaintOK), and that the repaint shows when the write ends      *)
(* unless the scroll position has moved since (ShowsOK).  What the         *)
(* alarm's whole repaint does is an induction over the places (PaintedIs). *)
(***************************************************************************)
(* What a panel can show, how far a repaint can have come, and when the    *)
(* panel is where the driver thinks it is.                                 *)
Glyphs == [Rows -> [Columns -> Printable]]
Paintings == [visible : Glyphs, panel : Glyphs, place : Rows \X Nat, address : Rows \X Nat]
Follows(s) == s.panel = s.visible /\ s.place = s.address

(* The places of a repaint are the places of the panel.                    *)
LEMMA PlaceType ==
  ASSUME NEW k \in 1 .. LastPlace
  PROVE  Place(k)[1] \in Rows /\ Place(k)[2] \in Columns
<1> DEFINE q == (k - 1) \div Width
<1>1. Height \in Nat \ {0} /\ Width \in Nat \ {0} /\ Height * Width \in Nat
  BY LcdAssumption
<1>2. k - 1 \in Nat /\ k - 1 < Height * Width
  BY <1>1 DEF LastPlace
<1>3. q \in Nat /\ (k - 1) % Width \in 0 .. Width - 1 /\ Width * q <= k - 1
  BY <1>1, <1>2
<1> HIDE DEF q
<1>4. ASSUME q >= Height PROVE FALSE
  <2>1. Width * q >= Height * Width
    BY <1>1, <1>3, <1>4
  <2> QED BY <1>1, <1>2, <1>3, <2>1
<1> QED BY <1>1, <1>3, <1>4 DEF Place, Rows, Columns, q

LEMMA EveryPlace ==
  ASSUME NEW row \in Rows, NEW c \in Columns
  PROVE  \E k \in 1 .. LastPlace : Place(k) = <<row, c>>
<1> DEFINE k == row * Width + c + 1
<1>1. Height \in Nat \ {0} /\ Width \in Nat \ {0} /\ Height * Width \in Nat
  BY LcdAssumption
<1>2. row \in Nat /\ row <= Height - 1 /\ c \in Nat /\ c < Width
  BY <1>1 DEF Rows, Columns
<1>3. row * Width \in Nat /\ row * Width <= (Height - 1) * Width
  BY <1>1, <1>2
<1>4. (Height - 1) * Width = Height * Width - Width
  BY <1>1
<1>5. k \in 1 .. LastPlace
  BY <1>1, <1>2, <1>3, <1>4 DEF LastPlace
<1>6. (k - 1) \div Width = row /\ (k - 1) % Width = c
  BY <1>1, <1>2
<1> QED BY <1>5, <1>6 DEF Place

LEMMA PaintPlaceIs ==
  ASSUME NEW s \in Paintings, NEW at \in Rows \X Columns, NEW char \in Printable
  PROVE  LET t == PaintPlace(s, at, char)
         IN /\ t \in Paintings
            /\ t.visible[at[1]][at[2]] = char
            /\ \A row \in Rows, c \in Columns :
                 <<row, c>> # at => t.visible[row][c] = s.visible[row][c]
            /\ Follows(s) => Follows(t)
<1> DEFINE t == PaintPlace(s, at, char)
           goal == IF s.address = at THEN s.place ELSE at
<1>0. at = <<at[1], at[2]>> /\ at[1] \in Rows /\ at[2] \in Columns /\ at[2] + 1 \in Nat
  BY LcdAssumption DEF Columns
<1>1. goal[1] \in Rows /\ goal[2] \in Nat /\ goal[2] + 1 \in Nat
  BY <1>0, LcdAssumption DEF Paintings, Columns
<1>2. CASE s.visible[at[1]][at[2]] = char
  BY <1>2 DEF PaintPlace
<1>3. CASE s.visible[at[1]][at[2]] # char
  <2> DEFINE line == [c \in Columns |-> IF c = goal[2] THEN char ELSE s.panel[goal[1]][c]]
  <2>1. t = [visible |-> [s.visible EXCEPT ![at[1]][at[2]] = char],
             panel |-> [s.panel EXCEPT ![goal[1]] = line],
             place |-> <<goal[1], goal[2] + 1>>, address |-> <<at[1], at[2] + 1>>]
    BY <1>3 DEF PaintPlace
  <2>2. s.visible \in Glyphs /\ s.panel \in Glyphs
    BY DEF Paintings
  <2>3. [s.visible EXCEPT ![at[1]][at[2]] = char] \in Glyphs
    BY <1>0, <2>2 DEF Glyphs
  <2>4. line \in [Columns -> Printable]
    BY <1>1, <2>2 DEF Glyphs
  <2>5. [s.panel EXCEPT ![goal[1]] = line] \in Glyphs
    BY <1>1, <2>2, <2>4 DEF Glyphs
  <2>6. t \in Paintings
    <3> HIDE DEF t, goal, line
    <3> QED BY <1>0, <1>1, <2>1, <2>3, <2>5 DEF Paintings
  <2>7. t.visible[at[1]][at[2]] = char
    BY <1>0, <2>1, <2>2 DEF Glyphs
  <2>8. ASSUME NEW row \in Rows, NEW c \in Columns, <<row, c>> # at
        PROVE  t.visible[row][c] = s.visible[row][c]
    BY <1>0, <2>1, <2>2, <2>8 DEF Glyphs
  <2>9. ASSUME Follows(s) PROVE Follows(t)
    <3>1. goal = at
      BY <2>9 DEF Follows
    <3>2. line = [s.visible[at[1]] EXCEPT ![at[2]] = char]
      BY <1>0, <2>2, <2>9, <3>1 DEF Follows, Glyphs
    <3>3. [s.panel EXCEPT ![goal[1]] = line] = [s.visible EXCEPT ![at[1]][at[2]] = char]
      BY <2>9, <3>1, <3>2 DEF Follows
    <3> QED BY <2>1, <3>1, <3>3 DEF Follows
  <2> QED BY <2>6, <2>7, <2>8, <2>9
<1> QED BY <1>2, <1>3

(* Whatever is painted first: in the end each place shows its character,   *)
(* and a panel that was where the driver thought it was still is.          *)
LEMMA PaintedIs ==
  ASSUME NEW pos, Before \in Paintings,
         \A row \in Rows, c \in Columns : Shown(row, c, pos) \in Printable
  PROVE  /\ Painted(pos) \in Paintings
         /\ \A row \in Rows, c \in Columns : Painted(pos).visible[row][c] = Shown(row, c, pos)
         /\ Follows(Before) => Follows(Painted(pos))
<1> DEFINE N == LastPlace
           Step(s, k) == PlacePainted(s, k, pos)
           Solves(f) == f = [k \in 0 .. N |-> IF k = 0 THEN Before ELSE Step(f[k - 1], k)]
           after == CHOOSE f : Solves(f)
           step == [k \in 1 .. N |-> [s \in Paintings |-> Step(s, k)]]
<1>1. N \in Nat
  BY LcdAssumption DEF LastPlace
<1>2. ASSUME NEW k \in 1 .. N, NEW s \in Paintings
      PROVE  LET t == Step(s, k)
             IN /\ t \in Paintings /\ (Follows(s) => Follows(t))
                /\ t.visible[Place(k)[1]][Place(k)[2]] = Shown(Place(k)[1], Place(k)[2], pos)
                /\ \A row \in Rows, c \in Columns :
                     <<row, c>> # Place(k) => t.visible[row][c] = s.visible[row][c]
  <2>1. Place(k) \in Rows \X Columns
    BY PlaceType DEF Place
  <2>2. Shown(Place(k)[1], Place(k)[2], pos) \in Printable
    BY PlaceType
  <2> QED BY <2>1, <2>2, PaintPlaceIs DEF PlacePainted
<1>3. step \in [1 .. N -> [Paintings -> Paintings]]
  BY <1>2
<1>4. PICK g \in [0 .. N -> Paintings] : g[0] = Before /\ \A k \in 1 .. N : g[k] = step[k][g[k - 1]]
  <2>1. step \in StepsUpTo(N, Paintings)
    BY <1>3 DEF StepsUpTo
  <2> HIDE DEF step, N
  <2>2. \E f \in [0 .. N -> Paintings] : Recursively(f, N, Before, step)
    BY <1>1, <2>1, RecursionTo
  <2> QED BY <2>2 DEF Recursively
<1>5. Solves(g)
  <2>1. ASSUME NEW k \in 1 .. N PROVE g[k] = Step(g[k - 1], k)
    <3>1. g[k - 1] \in Paintings
      BY <1>1
    <3> QED BY <1>4, <3>1
  <2> HIDE DEF step, N
  <2> QED BY <1>1, <1>4, <2>1
<1>6. Solves(after)
  <2> HIDE DEF Solves
  <2> QED BY <1>5
<1>7. Painted(pos) = after[N]
  BY DEF Painted
<1> DEFINE S == {k \in 0 .. N :
             /\ after[k] \in Paintings /\ (Follows(Before) => Follows(after[k]))
             /\ \A j \in 1 .. k : after[k].visible[Place(j)[1]][Place(j)[2]]
                                    = Shown(Place(j)[1], Place(j)[2], pos)}
<1>8. after[0] = Before /\ \A k \in 1 .. N : after[k] = Step(after[k - 1], k)
  <2> HIDE DEF after, Step, N
  <2> QED BY <1>1, <1>6
<1>9. 0 \in S
  <2> HIDE DEF after, N, Step
  <2> QED BY <1>1, <1>8
<1>10. ASSUME NEW k \in 1 .. N, k - 1 \in S PROVE k \in S
  <2> DEFINE s == after[k - 1]
             t == Step(s, k)
  <2>1. s \in Paintings /\ (Follows(Before) => Follows(s)) /\ after[k] = t
    BY <1>8, <1>10
  <2>2. ASSUME NEW j \in 1 .. k
        PROVE  t.visible[Place(j)[1]][Place(j)[2]] = Shown(Place(j)[1], Place(j)[2], pos)
    <3>1. CASE Place(j) = Place(k)
      BY <1>2, <2>1, <3>1
    <3>2. CASE Place(j) # Place(k)
      <4>1. j \in 1 .. k - 1
        BY <3>2
      <4>2. j \in 1 .. N
        BY <1>1
      <4>3. Place(j)[1] \in Rows /\ Place(j)[2] \in Columns
        BY <4>2, PlaceType
      <4>4. <<Place(j)[1], Place(j)[2]>> # Place(k)
        BY <3>2 DEF Place
      <4>5. t.visible[Place(j)[1]][Place(j)[2]] = s.visible[Place(j)[1]][Place(j)[2]]
        BY <1>2, <2>1, <4>3, <4>4
      <4> QED BY <1>10, <4>1, <4>5
    <3> QED BY <3>1, <3>2
  <2>3. t \in Paintings /\ (Follows(Before) => Follows(t))
    BY <1>2, <2>1
  <2> HIDE DEF after, t
  <2> QED BY <1>1, <2>1, <2>2, <2>3
<1>11. N \in S
  <2> HIDE DEF S, N
  <2>1. \A k \in 1 .. N : k - 1 \in S => k \in S
    BY <1>10
  <2>2. \A k \in 0 .. N : k \in S
    BY <1>1, <1>9, <2>1, InductionTo, Zenon
  <2> QED BY <1>1, <2>2
<1>12. ASSUME NEW row \in Rows, NEW c \in Columns
       PROVE  after[N].visible[row][c] = Shown(row, c, pos)
  <2>1. PICK k \in 1 .. N : Place(k) = <<row, c>>
    BY EveryPlace
  <2>2. after[N].visible[Place(k)[1]][Place(k)[2]] = Shown(Place(k)[1], Place(k)[2], pos)
    BY <1>11, <2>1
  <2>3. Place(k)[1] = row /\ Place(k)[2] = c
    BY <2>1
  <2> QED BY <2>2, <2>3
<1> QED BY <1>7, <1>11, <1>12

-----------------------------------------------------------------------------
(* The driver's records; while a line feed is handled the cursor may be on *)
(* any row, after it at most one below the last.                           *)
LinesInMemory == [Rows -> [0 .. VirtualWidth -> Printable]]
LcdRecords(Y) ==
  [x : 0 .. ByteWords - 1, y : Y, address : Rows \X Nat, escaping : BOOLEAN,
   broken : BOOLEAN, scrollpos : Nat, scrollmax : Nat, active : BOOLEAN, data : LinesInMemory,
   visible : Glyphs, width : [Rows -> {0} \cup Width .. VirtualWidth + 1],
   speed : [Rows -> Nat]]
LcdStates == LcdRecords(0 .. Height)

LcdTypes ==
  /\ lcd \in LcdStates /\ panel \in Glyphs /\ place \in Rows \X Nat
  /\ writer \in {"idle", "text", "repaint", "enter", "paint", "check"}
  /\ old \in Nat /\ paint \in [scrollpos : Nat, k : Nat]
ActiveOK == lcd.active <=> writer \in {"text", "repaint", "enter", "paint"}
PanelFollows == ~lcd.broken => panel = lcd.visible /\ place = lcd.address
MeasuredOK ==
  writer # "text" =>
    /\ \/ \A row \in Rows : lcd.width[row] # 0
       \/ /\ writer = "idle" /\ lcd.scrollmax = 0 /\ lcd.visible = BlankPanel
          /\ \A row \in Rows : lcd.width[row] = 0
    /\ lcd.scrollmax = 0 => \A row \in Rows : lcd.speed[row] = 0
ShownAt(pos) ==
  \A row \in Rows, c \in Columns :
    lcd.width[row] # 0 => lcd.visible[row][c] = Shown(row, c, pos)
ShowsOK ==
  writer = "idle" \/ (writer = "check" /\ lcd.scrollpos = old) => ShownAt(lcd.scrollpos)
PaintOK ==
  writer = "paint" =>
    /\ paint.k \in 1 .. LastPlace + 1 /\ (lcd.scrollpos = old => paint.scrollpos = old)
    /\ \A j \in 1 .. paint.k - 1 :
         lcd.visible[Place(j)[1]][Place(j)[2]]
           = Shown(Place(j)[1], Place(j)[2], paint.scrollpos)
LcdInv ==
  LcdTypes /\ ActiveOK /\ PanelFollows /\ MeasuredOK /\ ShowsOK /\ PaintOK

LEMMA ProductIsNat == ASSUME NEW a \in Nat, NEW b \in Nat PROVE a * b \in Nat
OBVIOUS

LEMMA ShownIsPrintable ==
  ASSUME lcd \in LcdStates, NEW row \in Rows, NEW c \in Columns, NEW pos \in Nat,
         lcd.width[row] # 0
  PROVE  Shown(row, c, pos) \in Printable
<1> DEFINE w == lcd.width[row]
           v == lcd.speed[row]
           o == Offset(row, pos)
<1>1. Width \in Nat \ {0} /\ VirtualWidth \in Nat /\ c \in Nat
  BY LcdAssumption DEF Columns
<1>2. w \in Width .. VirtualWidth + 1 /\ v \in Nat
  BY <1>1 DEF LcdStates, LcdRecords
<1>3. pos * v \in Nat
  BY <1>2, ProductIsNat
<1>4. (pos * v) \div 256 \in Nat
  BY <1>3
<1>5. o \in Nat /\ o < w
  BY <1>1, <1>2, <1>4 DEF Offset
<1> HIDE DEF o, w
<1>6. c + o \in Nat /\ w \in Nat /\ w > 0
  BY <1>1, <1>2, <1>5
<1>7. (c + o) % w \in 0 .. w - 1
  BY <1>6
<1>8. (c + o) % w \in 0 .. VirtualWidth
  BY <1>1, <1>2, <1>7
<1>9. lcd.data[row] \in [0 .. VirtualWidth -> Printable]
  BY DEF LcdStates, LcdRecords, LinesInMemory
<1> QED BY <1>8, <1>9 DEF Shown, o, w

LEMMA SlowIsStill ==
  ASSUME NEW row \in Rows, NEW c \in Columns, NEW p \in Nat, NEW q \in Nat,
         lcd.speed[row] = 0
  PROVE  Shown(row, c, p) = Shown(row, c, q)
<1>1. p * lcd.speed[row] = 0 /\ q * lcd.speed[row] = 0
  OBVIOUS
<1>2. Offset(row, p) = Offset(row, q)
  BY <1>1 DEF Offset
<1> QED BY <1>2 DEF Shown

LEMMA BlankIsGlyphs == BlankPanel \in Glyphs /\ BlankLine \in [0 .. VirtualWidth -> Printable]
BY LcdAssumption DEF BlankPanel, BlankLine, Glyphs

LEMMA LcdInitOK == LcdInit => LcdInv
<1> SUFFICES ASSUME LcdInit PROVE LcdInv
  OBVIOUS
<1>1. LcdTypes
  <2>1. 0 \in Rows /\ 0 \in 0 .. ByteWords - 1 /\ 0 \in 0 .. Height /\ <<0, 0>> \in Rows \X Nat
    BY LcdAssumption DEF Rows
  <2>2. [row \in Rows |-> BlankLine] \in LinesInMemory
    BY BlankIsGlyphs DEF LinesInMemory
  <2>3. lcd \in LcdStates
    BY <2>1, <2>2, BlankIsGlyphs DEF LcdInit, LcdStates, LcdRecords
  <2> QED BY <2>1, <2>3, BlankIsGlyphs DEF LcdInit, LcdTypes
<1> QED BY <1>1 DEF LcdInit, LcdInv, ActiveOK, PanelFollows, MeasuredOK, ShowsOK, ShownAt, PaintOK

(* While the text is taken the panel need only follow the driver.          *)
LEMMA TextKept ==
  ASSUME LcdInv, writer = "text", writer' = "text", UNCHANGED <<old, paint>>,
         lcd' \in LcdStates, lcd'.active = lcd.active,
         panel' \in Glyphs, place' \in Rows \X Nat, PanelFollows'
  PROVE  LcdInv'
BY DEF LcdInv, LcdTypes, ActiveOK, MeasuredOK, ShowsOK, PaintOK

LEMMA ScrolledUpIs ==
  ASSUME NEW s \in LcdRecords(Nat), NEW bottom \in 0 .. Height
  PROVE  LET t == ScrolledUp(s, bottom)
         IN /\ t \in LcdRecords(0 .. bottom)
            /\ t.active = s.active /\ t.broken = s.broken /\ t.visible = s.visible
            /\ t.address = s.address
<1>1. Height \in Nat /\ bottom \in Nat
  BY LcdAssumption
<1>2. CASE s.y <= bottom
  <2>1. s.y \in 0 .. bottom
    BY <1>1, <1>2 DEF LcdRecords
  <2> QED BY <1>2, <2>1 DEF ScrolledUp, LcdRecords
<1>3. CASE ~(s.y <= bottom)
  <2> DEFINE lines == [row \in Rows |-> IF row + s.y - bottom \in Rows
                                        THEN s.data[row + s.y - bottom] ELSE BlankLine]
  <2>1. lines \in LinesInMemory
    BY BlankIsGlyphs DEF LinesInMemory, LcdRecords
  <2>2. ScrolledUp(s, bottom) = [s EXCEPT !.y = bottom, !.data = lines]
    BY <1>3 DEF ScrolledUp
  <2>3. bottom \in 0 .. bottom
    BY <1>1
  <2> HIDE DEF lines
  <2> QED BY <2>1, <2>2, <2>3 DEF LcdRecords
<1> QED BY <1>2, <1>3

(* A character changes no more than the cursor and the lines.              *)
LEMMA CharKept ==
  ASSUME LcdInv, NEW state \in LcdStates, Char(state), state.active = lcd.active,
         state.broken = lcd.broken, state.visible = lcd.visible, state.address = lcd.address
  PROVE  LcdInv'
<1>1. writer = "text" /\ writer' = "text" /\ lcd' = state
      /\ UNCHANGED <<panel, place, old, paint>>
  BY DEF Char
<1>2. PanelFollows' /\ panel' \in Glyphs /\ place' \in Rows \X Nat
  BY <1>1 DEF LcdInv, LcdTypes, PanelFollows
<1> QED BY <1>1, <1>2, TextKept

LEMMA TextStepKept ==
  ASSUME LcdInv,
         \/ CarriageReturn \/ LineFeed \/ Backspace \/ Escape
         \/ \E c \in Printable : PutChar(c)
  PROVE  LcdInv'
<1>0. lcd \in LcdStates /\ Height \in Nat \ {0} /\ ByteWords \in Nat \ {0}
      /\ VirtualWidth \in Nat
  BY LcdAssumption DEF LcdInv, LcdTypes
<1>1. CASE CarriageReturn
  <2> DEFINE t == [lcd EXCEPT !.x = 0]
  <2>1. t \in LcdStates
    BY <1>0 DEF LcdStates, LcdRecords
  <2>2. t.active = lcd.active /\ t.broken = lcd.broken /\ t.visible = lcd.visible
        /\ t.address = lcd.address
    BY <1>0 DEF LcdStates, LcdRecords
  <2>3. Char(t)
    BY <1>1 DEF CarriageReturn
  <2> HIDE DEF t
  <2> QED BY <2>1, <2>2, <2>3, CharKept
<1>2. CASE LineFeed
  <2> DEFINE s == [lcd EXCEPT !.x = 0, !.y = @ + 1]
             t == ScrolledUp(s, Height)
  <2>0. lcd.y + 1 \in Nat /\ 0 \in 0 .. ByteWords - 1
    BY <1>0 DEF LcdStates, LcdRecords
  <2>1. s \in LcdRecords(Nat)
    BY <1>0, <2>0 DEF LcdStates, LcdRecords
  <2>2. s.active = lcd.active /\ s.broken = lcd.broken /\ s.visible = lcd.visible
        /\ s.address = lcd.address
    BY <1>0 DEF LcdStates, LcdRecords
  <2> HIDE DEF s
  <2>3. Height \in 0 .. Height
    BY <1>0
  <2>4. /\ t \in LcdStates
        /\ t.active = lcd.active /\ t.broken = lcd.broken /\ t.visible = lcd.visible
        /\ t.address = lcd.address
    BY <2>1, <2>2, <2>3, ScrolledUpIs DEF LcdStates
  <2>5. Char(t)
    BY <1>2 DEF LineFeed, s
  <2> HIDE DEF t
  <2> QED BY <2>4, <2>5, CharKept
<1>3. CASE Backspace
  <2> DEFINE t == [lcd EXCEPT !.x = IF @ > 0 THEN @ - 1 ELSE 0]
  <2>1. t \in LcdStates
    BY <1>0 DEF LcdStates, LcdRecords
  <2>2. t.active = lcd.active /\ t.broken = lcd.broken /\ t.visible = lcd.visible
        /\ t.address = lcd.address
    BY <1>0 DEF LcdStates, LcdRecords
  <2>3. Char(t)
    BY <1>3 DEF Backspace
  <2> HIDE DEF t
  <2> QED BY <2>1, <2>2, <2>3, CharKept
<1>4. CASE Escape
  <2> DEFINE t == [lcd EXCEPT !.escaping = TRUE]
  <2>1. t \in LcdStates
    BY <1>0 DEF LcdStates, LcdRecords
  <2>2. t.active = lcd.active /\ t.broken = lcd.broken /\ t.visible = lcd.visible
        /\ t.address = lcd.address
    BY <1>0 DEF LcdStates, LcdRecords
  <2>3. Char(t)
    BY <1>4 DEF Escape
  <2> HIDE DEF t
  <2> QED BY <2>1, <2>2, <2>3, CharKept
<1>5. ASSUME NEW c \in Printable, PutChar(c) PROVE LcdInv'
  <2> DEFINE s == ScrolledUp(lcd, Height - 1)
             data == IF s.x < VirtualWidth THEN [s.data EXCEPT ![s.y][s.x] = c] ELSE s.data
             t == [s EXCEPT !.x = (s.x + 1) % ByteWords, !.data = data]
  <2>1. lcd \in LcdRecords(Nat) /\ Height - 1 \in 0 .. Height
    BY <1>0 DEF LcdStates, LcdRecords
  <2>2. /\ s \in LcdRecords(0 .. Height - 1)
        /\ s.active = lcd.active /\ s.broken = lcd.broken /\ s.visible = lcd.visible
        /\ s.address = lcd.address
    BY <2>1, ScrolledUpIs
  <2>3. Char(t)
    BY <1>5 DEF PutChar
  <2> HIDE DEF s
  <2>4. s.y \in Rows /\ s.x \in Nat /\ s.data \in LinesInMemory
    BY <1>0, <2>2 DEF LcdRecords, Rows
  <2>5. data \in LinesInMemory
    BY <1>0, <2>4 DEF LinesInMemory
  <2>6. (s.x + 1) % ByteWords \in 0 .. ByteWords - 1
    BY <1>0, <2>4
  <2> HIDE DEF data
  <2> DEFINE col == (s.x + 1) % ByteWords
  <2>7. t \in LcdStates
    <3> HIDE DEF col
    <3>1. s.y \in 0 .. Height
      BY <1>0, <2>4 DEF Rows
    <3>2. [s EXCEPT !.x = col, !.data = data] \in LcdStates
      BY <2>2, <2>5, <2>6, <3>1 DEF LcdRecords, LcdStates, col
    <3> QED BY <3>2 DEF col
  <2>8. t.active = lcd.active /\ t.broken = lcd.broken /\ t.visible = lcd.visible
        /\ t.address = lcd.address
    BY <2>2 DEF LcdRecords
  <2> HIDE DEF t
  <2> QED BY <2>3, <2>7, <2>8, CharKept
<1> QED BY <1>1, <1>2, <1>3, <1>4, <1>5

(* Nor does an escape sequence, but for the one that clears the screen.    *)
LEMMA SequenceKept ==
  ASSUME LcdInv, NEW state \in LcdStates, Sequence(state), UNCHANGED <<panel, place>>,
         state.active = lcd.active, state.broken = lcd.broken,
         state.visible = lcd.visible, state.address = lcd.address
  PROVE  LcdInv'
<1>1. writer = "text" /\ writer' = "text" /\ UNCHANGED <<old, paint>>
      /\ lcd' = [state EXCEPT !.escaping = FALSE]
  BY DEF Sequence
<1>2. /\ lcd' \in LcdStates /\ lcd'.active = lcd.active /\ lcd'.broken = lcd.broken
      /\ lcd'.visible = lcd.visible /\ lcd'.address = lcd.address
  BY <1>1 DEF LcdStates, LcdRecords
<1>3. PanelFollows' /\ panel' \in Glyphs /\ place' \in Rows \X Nat
  BY <1>2 DEF LcdInv, LcdTypes, PanelFollows
<1> QED BY <1>1, <1>2, <1>3, TextKept

LEMMA EscapeStepKept ==
  ASSUME LcdInv,
         \/ \E parm1, parm2 \in Parms : MoveCursor(parm1, parm2)
         \/ \E parm1 \in Parms : ClearToEnd(parm1)
         \/ ClearScreen \/ OtherSequence
  PROVE  LcdInv'
<1>0. lcd \in LcdStates /\ Height \in Nat \ {0} /\ ByteWords \in Nat \ {0}
      /\ VirtualWidth \in Nat /\ Parms \subseteq Nat
  BY LcdAssumption DEF LcdInv, LcdTypes
<1>1. ASSUME NEW parm1 \in Parms, NEW parm2 \in Parms, MoveCursor(parm1, parm2) PROVE LcdInv'
  <2> DEFINE col == IF parm2 > 0 THEN (parm2 - 1) % ByteWords ELSE lcd.x
             s == [lcd EXCEPT !.x = col]
             below == Least((parm1 - 1) % ByteWords, 2 * Height)
             u == [s EXCEPT !.y = below]
             t == IF parm1 > 0 THEN ScrolledUp(u, Height) ELSE s
  <2>1. col \in 0 .. ByteWords - 1
    BY <1>0 DEF LcdStates, LcdRecords
  <2> HIDE DEF col
  <2>2. /\ s \in LcdStates /\ s \in LcdRecords(Nat)
        /\ s.active = lcd.active /\ s.broken = lcd.broken /\ s.visible = lcd.visible
        /\ s.address = lcd.address
    BY <1>0, <2>1 DEF LcdStates, LcdRecords
  <2>3. Sequence(t) /\ UNCHANGED <<panel, place>>
    BY <1>1 DEF MoveCursor, col
  <2> HIDE DEF s
  <2>4. CASE parm1 > 0
    <3>1. (parm1 - 1) % ByteWords \in Nat /\ 2 * Height \in Nat
      BY <1>0, <2>4
    <3>2. below \in Nat
      BY <3>1 DEF Least
    <3> HIDE DEF below
    <3>3. u \in LcdRecords(Nat)
      BY <2>2, <3>2 DEF LcdRecords
    <3>4. /\ u.active = lcd.active /\ u.broken = lcd.broken /\ u.visible = lcd.visible
          /\ u.address = lcd.address
      BY <2>2 DEF LcdRecords
    <3> HIDE DEF u
    <3>5. Height \in 0 .. Height
      BY <1>0
    <3>6. /\ t \in LcdStates
          /\ t.active = lcd.active /\ t.broken = lcd.broken /\ t.visible = lcd.visible
          /\ t.address = lcd.address
      BY <2>4, <3>3, <3>4, <3>5, ScrolledUpIs DEF LcdStates
    <3> HIDE DEF t
    <3> QED BY <2>3, <3>6, SequenceKept
  <2>5. CASE ~(parm1 > 0)
    <3>1. t = s
      BY <2>5
    <3> HIDE DEF t
    <3> QED BY <2>2, <2>3, <3>1, SequenceKept
  <2> QED BY <2>4, <2>5
<1>2. ASSUME NEW parm1 \in Parms, ClearToEnd(parm1) PROVE LcdInv'
  <2> DEFINE line == lcd.data[lcd.y]
             blanked == [c \in DOMAIN line |->
                           IF c \in lcd.x .. VirtualWidth - 1 THEN Blank ELSE line[c]]
             t == [lcd EXCEPT !.data[lcd.y] = blanked]
  <2>1. lcd.y \in Rows /\ lcd.data \in LinesInMemory /\ line \in [0 .. VirtualWidth -> Printable]
    BY <1>0, <1>2 DEF ClearToEnd, LcdStates, LcdRecords, LinesInMemory
  <2>2. blanked \in [0 .. VirtualWidth -> Printable]
    BY <2>1, LcdAssumption
  <2>3. CASE parm1 < 1
    <3>1. Sequence(t) /\ UNCHANGED <<panel, place>>
      BY <1>2, <2>3 DEF ClearToEnd
    <3> HIDE DEF line, blanked
    <3>2. [lcd.data EXCEPT ![lcd.y] = blanked] \in LinesInMemory
      BY <2>1, <2>2 DEF LinesInMemory
    <3>3. t \in LcdStates
      BY <1>0, <3>2 DEF LcdStates, LcdRecords
    <3>4. t.active = lcd.active /\ t.broken = lcd.broken /\ t.visible = lcd.visible
          /\ t.address = lcd.address
      BY <1>0 DEF LcdStates, LcdRecords
    <3> HIDE DEF t
    <3> QED BY <3>1, <3>3, <3>4, SequenceKept
  <2>4. CASE ~(parm1 < 1)
    <3>1. Sequence(lcd) /\ UNCHANGED <<panel, place>>
      BY <1>2, <2>4 DEF ClearToEnd
    <3> QED BY <1>0, <3>1, SequenceKept
  <2> QED BY <2>3, <2>4
<1>3. CASE ClearScreen
  <2> DEFINE lines == [row \in Rows |-> BlankLine]
             none == [row \in Rows |-> 0]
             s == [lcd EXCEPT !.x = 0, !.y = 0, !.address = <<0, 0>>, !.data = lines,
                     !.visible = BlankPanel, !.width = none]
  <2>1. <<0, 0>> \in Rows \X Nat /\ lines \in LinesInMemory /\ BlankPanel \in Glyphs
        /\ none \in [Rows -> {0} \cup Width .. VirtualWidth + 1]
        /\ 0 \in 0 .. ByteWords - 1 /\ 0 \in 0 .. Height
    BY <1>0, BlankIsGlyphs DEF Rows, LinesInMemory
  <2> HIDE DEF lines, none
  <2>2. s \in LcdStates /\ s.active = lcd.active /\ s.broken = lcd.broken
        /\ s.visible = BlankPanel /\ s.address = <<0, 0>>
    BY <1>0, <2>1 DEF LcdStates, LcdRecords
  <2>3. \/ Sequence(s) /\ ~lcd.broken /\ panel' = BlankPanel /\ place' = <<0, 0>>
        \/ Sequence([s EXCEPT !.broken = TRUE]) /\ UNCHANGED <<panel, place>>
    BY <1>3 DEF ClearScreen, AddressCleared, AddressHome, lines, none
  <2>4. writer = "text" /\ writer' = "text" /\ UNCHANGED <<old, paint>>
    BY <2>3 DEF Sequence
  <2> HIDE DEF s
  <2>5. CASE Sequence(s) /\ ~lcd.broken /\ panel' = BlankPanel /\ place' = <<0, 0>>
    <3>1. /\ lcd' \in LcdStates /\ lcd'.active = lcd.active
          /\ lcd'.visible = BlankPanel /\ lcd'.address = <<0, 0>>
      BY <2>2, <2>5 DEF Sequence, LcdStates, LcdRecords
    <3>2. PanelFollows' /\ panel' \in Glyphs /\ place' \in Rows \X Nat
      BY <2>1, <2>5, <3>1 DEF PanelFollows
    <3> QED BY <2>4, <3>1, <3>2, TextKept
  <2>6. CASE Sequence([s EXCEPT !.broken = TRUE]) /\ UNCHANGED <<panel, place>>
    <3>1. lcd' \in LcdStates /\ lcd'.active = lcd.active /\ lcd'.broken
      BY <2>2, <2>6 DEF Sequence, LcdStates, LcdRecords
    <3>2. PanelFollows' /\ panel' \in Glyphs /\ place' \in Rows \X Nat
      BY <2>6, <3>1 DEF PanelFollows, LcdInv, LcdTypes
    <3> QED BY <2>4, <3>1, <3>2, TextKept
  <2> QED BY <2>3, <2>5, <2>6
<1>4. CASE OtherSequence
  BY <1>0, <1>4, SequenceKept DEF OtherSequence
<1> QED BY <1>1, <1>2, <1>3, <1>4

LEMMA GreatestIs ==
  ASSUME NEW n \in Nat, NEW S \in SUBSET (0 .. n), S # {}
  PROVE  Max(S) \in S /\ \A y \in S : y <= Max(S)
<1> DEFINE T == {n - y : y \in S}
<1>1. T \in SUBSET Nat /\ T # {}
  <2>1. PICK y \in S : n - y \in T
    OBVIOUS
  <2>2. \A z \in S : n - z \in Nat
    OBVIOUS
  <2> QED BY <2>1, <2>2
<1>2. PICK t \in T : \A u \in T : t <= u
  BY <1>1, LeastNat
<1>3. PICK x \in S : t = n - x
  OBVIOUS
<1>4. ASSUME NEW y \in S PROVE x >= y
  <2>0. n - y \in T
    OBVIOUS
  <2>1. n - y \in T /\ x \in Nat /\ y \in Nat
    <3> HIDE DEF T
    <3> QED BY <2>0
  <2> HIDE DEF T
  <2>2. t <= n - y
    BY <1>2, <2>1
  <2> QED BY <1>3, <2>1, <2>2
<1>5. \A y \in S : Max(S) >= y
  BY <1>4 DEF Max
<1>6. Max(S) \in S
  BY <1>4 DEF Max
<1> QED BY <1>5, <1>6

LEMMA WidthOfType ==
  ASSUME NEW line
  PROVE  WidthOf(line) \in Width .. VirtualWidth + 1
<1> DEFINE used == {c \in 0 .. VirtualWidth - 1 : line[c] # Blank}
           width == IF used = {} THEN 0 ELSE Max(used) + 1
<1>1. Width \in Nat \ {0} /\ VirtualWidth \in Nat /\ VirtualWidth > Width
  BY LcdAssumption
<1>2. width \in 0 .. VirtualWidth
  <2>1. CASE used = {}
    BY <1>1, <2>1
  <2>2. CASE used # {}
    <3>1. VirtualWidth - 1 \in Nat /\ used \in SUBSET (0 .. VirtualWidth - 1)
      BY <1>1
    <3> HIDE DEF used
    <3>2. Max(used) \in used
      BY <2>2, <3>1, GreatestIs
    <3> DEFINE last == Max(used)
    <3>3. last + 1 \in 0 .. VirtualWidth
      <4> HIDE DEF last
      <4>1. last \in 0 .. VirtualWidth - 1
        BY <3>1, <3>2 DEF last
      <4> QED BY <1>1, <4>1
    <3>4. width = Max(used) + 1
      BY <2>2 DEF used
    <3> HIDE DEF width
    <3> QED BY <3>3, <3>4
  <2> QED BY <2>1, <2>2
<1>3. WidthOf(line) = IF width <= Width THEN Width ELSE width + 1
  BY DEF WidthOf
<1> HIDE DEF width
<1> QED BY <1>1, <1>2, <1>3

LEMMA MeasureKept ==
  ASSUME LcdInv, Measure
  PROVE  LcdInv'
<1> DEFINE width == [row \in Rows |-> WidthOf(lcd.data[row])]
           widths == {width[row] : row \in Rows}
           widthmax == Max(widths)
           speed == [row \in Rows |-> IF width[row] > Width
                                      THEN (256 * width[row]) \div (2 * widthmax) ELSE 0]
           scrollmax == IF widthmax <= Width THEN 0 ELSE 2 * widthmax
<1>1. Height \in Nat \ {0} /\ Width \in Nat \ {0} /\ VirtualWidth \in Nat
      /\ VirtualWidth > Width /\ 0 \in Rows
  BY LcdAssumption DEF Rows
<1>2. writer = "text" /\ writer' = "repaint" /\ UNCHANGED <<panel, place, old, paint>>
      /\ lcd' = [lcd EXCEPT !.width = width, !.speed = speed, !.scrollmax = scrollmax]
  BY DEF Measure
<1>3. \A row \in Rows : width[row] \in Width .. VirtualWidth + 1
  BY WidthOfType
<1>4. width \in [Rows -> {0} \cup Width .. VirtualWidth + 1]
  BY <1>3
<1> HIDE DEF width
<1>5. widths \in SUBSET (0 .. VirtualWidth + 1) /\ widths # {} /\ VirtualWidth + 1 \in Nat
  BY <1>1, <1>3
<1>6. widthmax \in widths /\ \A w \in widths : w <= widthmax
  <2> HIDE DEF widths
  <2> QED BY <1>5, GreatestIs
<1>7. widthmax \in Width .. VirtualWidth + 1
  BY <1>3, <1>6
<1>8. \A row \in Rows : width[row] <= widthmax
  BY <1>6
<1> HIDE DEF widths, widthmax
<1>9. speed \in [Rows -> Nat] /\ scrollmax \in Nat
  <2>1. ASSUME NEW row \in Rows PROVE (256 * width[row]) \div (2 * widthmax) \in Nat
    <3>1. 256 * width[row] \in Nat /\ 2 * widthmax \in Nat \ {0}
      BY <1>1, <1>3, <1>7
    <3> QED BY <3>1
  <2>2. 2 * widthmax \in Nat
    BY <1>1, <1>7
  <2> QED BY <2>1, <2>2
<1>10. scrollmax = 0 => \A row \in Rows : speed[row] = 0
  <2> SUFFICES ASSUME scrollmax = 0, NEW row \in Rows PROVE speed[row] = 0
    OBVIOUS
  <2>1. widthmax <= Width
    BY <1>1, <1>7
  <2>2. ~(width[row] > Width)
    BY <1>1, <1>3, <1>7, <1>8, <2>1
  <2> QED BY <2>2
<1> HIDE DEF speed, scrollmax
<1>11. /\ lcd' \in LcdStates /\ lcd'.active = lcd.active /\ lcd'.width = width
       /\ lcd'.speed = speed /\ lcd'.scrollmax = scrollmax /\ lcd'.broken = lcd.broken
       /\ lcd'.visible = lcd.visible /\ lcd'.address = lcd.address
  BY <1>2, <1>4, <1>9 DEF LcdInv, LcdTypes, LcdStates, LcdRecords
<1>12. LcdTypes' /\ ActiveOK' /\ PanelFollows'
  BY <1>2, <1>11 DEF LcdInv, LcdTypes, ActiveOK, PanelFollows
<1>13. MeasuredOK'
  BY <1>1, <1>3, <1>10, <1>11 DEF MeasuredOK
<1> QED BY <1>2, <1>12, <1>13 DEF LcdInv, ShowsOK, PaintOK

(* The steps of a write that only go on.                                   *)
LEMMA WriteStepKept ==
  ASSUME LcdInv, WriteText \/ WriteOld \/ WriteEnter
  PROVE  LcdInv'
<1>1. CASE WriteText
  <2>1. /\ lcd' \in LcdStates /\ lcd'.active /\ lcd'.broken = lcd.broken
        /\ lcd'.visible = lcd.visible /\ lcd'.address = lcd.address
    BY <1>1 DEF LcdInv, LcdTypes, WriteText, LcdStates, LcdRecords
  <2> QED BY <1>1, <2>1 DEF LcdInv, LcdTypes, WriteText, ActiveOK, PanelFollows, MeasuredOK,
                            ShowsOK, PaintOK
<1>2. CASE WriteOld
  <2>1. lcd.scrollpos \in Nat
    BY DEF LcdInv, LcdTypes, LcdStates, LcdRecords
  <2> QED BY <1>2, <2>1 DEF LcdInv, LcdTypes, WriteOld, ActiveOK, PanelFollows, MeasuredOK,
                            ShowsOK, PaintOK
<1>3. CASE WriteEnter
  <2>1. lcd.scrollpos \in Nat /\ LastPlace \in Nat
    BY LcdAssumption DEF LcdInv, LcdTypes, LcdStates, LcdRecords, LastPlace
  <2>2. paint' = [scrollpos |-> lcd.scrollpos, k |-> 1] /\ paint'.k = 1
        /\ paint'.scrollpos = lcd.scrollpos /\ 1 \in 1 .. LastPlace + 1
    BY <1>3, <2>1 DEF WriteEnter
  <2>3. PaintOK'
    BY <1>3, <2>1, <2>2 DEF PaintOK, WriteEnter
  <2>4. LcdTypes'
    BY <1>3, <2>1, <2>2 DEF LcdInv, LcdTypes, WriteEnter
  <2> QED BY <1>3, <2>3, <2>4 DEF LcdInv, WriteEnter, ActiveOK, PanelFollows, MeasuredOK,
                            ShowsOK
<1> QED BY <1>1, <1>2, <1>3

LEMMA ShownKept ==
  ASSUME lcd'.data = lcd.data, lcd'.width = lcd.width, lcd'.speed = lcd.speed
  PROVE  \A row, c, p : Shown(row, c, p)' = Shown(row, c, p)
BY DEF Shown, Offset

LEMMA BeforeIs ==
  ASSUME LcdInv
  PROVE  Before \in Paintings /\ (~lcd.broken => Follows(Before)) /\ Before.visible = lcd.visible
BY DEF Before, Paintings, Follows, LcdInv, LcdTypes, LcdStates, LcdRecords, PanelFollows

LEMMA ShowIs ==
  ASSUME LcdInv, NEW state \in LcdStates, NEW after \in Paintings, Show(state, after),
         ~state.broken => Follows(after)
  PROVE  /\ lcd' \in LcdStates /\ lcd'.visible = after.visible
         /\ lcd'.data = state.data /\ lcd'.width = state.width /\ lcd'.speed = state.speed
         /\ lcd'.scrollpos = state.scrollpos /\ lcd'.scrollmax = state.scrollmax
         /\ lcd'.active = state.active
         /\ panel' \in Glyphs /\ place' \in Rows \X Nat /\ PanelFollows'
<1>1. CASE /\ ~state.broken
           /\ lcd' = [state EXCEPT !.visible = after.visible, !.address = after.address]
           /\ panel' = after.panel /\ place' = after.place
  BY <1>1 DEF LcdStates, LcdRecords, Paintings, Follows, PanelFollows
<1>2. CASE /\ lcd' = [state EXCEPT !.visible = after.visible, !.broken = TRUE]
           /\ UNCHANGED <<panel, place>>
  BY <1>2 DEF LcdStates, LcdRecords, Paintings, PanelFollows, LcdInv, LcdTypes
<1> QED BY <1>1, <1>2 DEF Show

LEMMA WritePlaceKept ==
  ASSUME LcdInv, WritePlace
  PROVE  LcdInv'
<1> DEFINE k == paint.k
           pos == paint.scrollpos
           row == Place(k)[1]
           c == Place(k)[2]
           after == PlacePainted(Before, k, pos)
<1>0. /\ lcd \in LcdStates /\ pos \in Nat /\ writer = "paint" /\ writer' = "paint"
      /\ old' = old /\ LastPlace \in Nat
  BY LcdAssumption DEF LcdInv, LcdTypes, WritePlace, LastPlace
<1>1. k \in 1 .. LastPlace /\ paint' = [scrollpos |-> pos, k |-> k + 1]
  BY <1>0 DEF WritePlace, LcdInv, LcdTypes, PaintOK
<1>2. row \in Rows /\ c \in Columns /\ Place(k) \in Rows \X Columns /\ Place(k) = <<row, c>>
  BY <1>1, PlaceType DEF Place
<1>3. lcd.width[row] # 0 /\ \A r \in Rows : lcd.width[r] # 0
  BY <1>0, <1>2 DEF LcdInv, MeasuredOK
<1>4. Shown(row, c, pos) \in Printable
  BY <1>0, <1>2, <1>3, ShownIsPrintable
<1>5. /\ after \in Paintings /\ after.visible[row][c] = Shown(row, c, pos)
      /\ \A r \in Rows, d \in Columns :
           <<r, d>> # Place(k) => after.visible[r][d] = lcd.visible[r][d]
      /\ ~lcd.broken => Follows(after)
  BY <1>2, <1>4, BeforeIs, PaintPlaceIs DEF PlacePainted
<1>6. Show(lcd, after)
  BY DEF WritePlace
<1> HIDE DEF after
<1>7. /\ lcd' \in LcdStates /\ lcd'.visible = after.visible
      /\ lcd'.data = lcd.data /\ lcd'.width = lcd.width /\ lcd'.speed = lcd.speed
      /\ lcd'.scrollpos = lcd.scrollpos /\ lcd'.scrollmax = lcd.scrollmax
      /\ lcd'.active = lcd.active
      /\ panel' \in Glyphs /\ place' \in Rows \X Nat /\ PanelFollows'
  BY <1>0, <1>5, <1>6, ShowIs
<1>8. LcdTypes' /\ ActiveOK' /\ MeasuredOK' /\ ShowsOK'
  BY <1>0, <1>1, <1>7 DEF LcdInv, LcdTypes, ActiveOK, MeasuredOK, ShowsOK
<1>9. ASSUME NEW j \in 1 .. k
      PROVE  lcd'.visible[Place(j)[1]][Place(j)[2]] = Shown(Place(j)[1], Place(j)[2], pos)
  <2>1. CASE Place(j) = Place(k)
    BY <1>5, <1>7, <2>1
  <2>2. CASE Place(j) # Place(k)
    <3>1. j \in 1 .. k - 1 /\ j \in 1 .. LastPlace
      BY <1>0, <1>1, <2>2
    <3>2. Place(j)[1] \in Rows /\ Place(j)[2] \in Columns
          /\ <<Place(j)[1], Place(j)[2]>> # Place(k)
      BY <2>2, <3>1, PlaceType DEF Place
    <3>3. lcd.visible[Place(j)[1]][Place(j)[2]] = Shown(Place(j)[1], Place(j)[2], pos)
      BY <1>0, <3>1 DEF LcdInv, PaintOK
    <3> QED BY <1>5, <1>7, <3>2, <3>3
  <2> QED BY <2>1, <2>2
<1>10. \A j \in 1 .. k : Shown(Place(j)[1], Place(j)[2], paint.scrollpos)'
                           = Shown(Place(j)[1], Place(j)[2], pos)
  <2>1. paint'.scrollpos = pos
    BY <1>1
  <2> QED BY <1>7, <2>1 DEF Shown, Offset, Place
<1>11. paint'.k = k + 1 /\ paint'.scrollpos = pos /\ k + 1 \in 1 .. LastPlace + 1
       /\ paint'.k - 1 = k
  BY <1>0, <1>1
<1>12. PaintOK'
  <2>1. (lcd.scrollpos = old => paint.scrollpos = old)'
    BY <1>0, <1>7, <1>11 DEF LcdInv, PaintOK
  <2>2. (\A j \in 1 .. paint.k - 1 :
           lcd.visible[Place(j)[1]][Place(j)[2]]
             = Shown(Place(j)[1], Place(j)[2], paint.scrollpos))'
    BY <1>9, <1>10, <1>11 DEF Place
  <2>3. (paint.k \in 1 .. LastPlace + 1)'
    BY <1>11 DEF LastPlace
  <2> QED BY <2>1, <2>2, <2>3 DEF PaintOK
<1> QED BY <1>7, <1>8, <1>12 DEF LcdInv

LEMMA WriteEndKept ==
  ASSUME LcdInv, WriteActive \/ WriteCheck
  PROVE  LcdInv'
<1>0. lcd \in LcdStates /\ LastPlace \in Nat
  BY LcdAssumption DEF LcdInv, LcdTypes, LastPlace
<1>1. CASE WriteActive
  <2>1. /\ lcd' \in LcdStates /\ ~lcd'.active /\ lcd'.broken = lcd.broken
        /\ lcd'.visible = lcd.visible /\ lcd'.address = lcd.address
        /\ lcd'.data = lcd.data /\ lcd'.width = lcd.width /\ lcd'.speed = lcd.speed
        /\ lcd'.scrollpos = lcd.scrollpos /\ lcd'.scrollmax = lcd.scrollmax
    BY <1>0, <1>1 DEF WriteActive, LcdStates, LcdRecords
  <2>2. LcdTypes' /\ ActiveOK' /\ PanelFollows' /\ MeasuredOK' /\ PaintOK'
    BY <1>1, <2>1 DEF LcdInv, LcdTypes, ActiveOK, PanelFollows, MeasuredOK, PaintOK, WriteActive
  <2>3. ASSUME lcd.scrollpos = old, NEW row \in Rows, NEW c \in Columns
        PROVE  lcd.visible[row][c] = Shown(row, c, lcd.scrollpos)
    <3>1. paint.k = LastPlace + 1 /\ paint.scrollpos = lcd.scrollpos
      BY <1>0, <1>1, <2>3 DEF LcdInv, PaintOK, WriteActive
    <3>2. PICK j \in 1 .. LastPlace : Place(j) = <<row, c>>
      BY EveryPlace
    <3>3. j \in 1 .. paint.k - 1
      BY <1>0, <3>1
    <3> QED BY <1>1, <3>1, <3>2, <3>3 DEF LcdInv, PaintOK, WriteActive
  <2>4. ShowsOK'
    <3>1. \A row, c, p : Shown(row, c, p)' = Shown(row, c, p)
      BY <2>1, ShownKept
    <3>2. writer' = "check" /\ old' = old
      BY <1>1 DEF WriteActive
    <3>3. lcd.scrollpos = old => ShownAt(lcd.scrollpos)'
      BY <2>1, <2>3 DEF ShownAt, Shown, Offset
    <3> QED BY <2>1, <3>2, <3>3 DEF ShowsOK
  <2> QED BY <2>2, <2>4 DEF LcdInv
<1>2. CASE WriteCheck
  <2>1. writer = "check" /\ UNCHANGED <<panel, place, paint, text>> /\ old' = 0
        /\ IF lcd.scrollpos # old
           THEN writer' = "repaint" /\ lcd' = [lcd EXCEPT !.active = TRUE]
           ELSE writer' = "idle" /\ UNCHANGED lcd
    BY <1>2 DEF WriteCheck, Missed, ScrollMissed
  <2>2. CASE lcd.scrollpos # old
    <3>1. /\ lcd' \in LcdStates /\ lcd'.active /\ lcd'.broken = lcd.broken
          /\ lcd'.visible = lcd.visible /\ lcd'.address = lcd.address
          /\ lcd'.width = lcd.width /\ lcd'.speed = lcd.speed
          /\ lcd'.scrollmax = lcd.scrollmax
      BY <1>0, <2>1, <2>2 DEF LcdStates, LcdRecords
    <3> QED BY <2>1, <2>2, <3>1 DEF LcdInv, LcdTypes, ActiveOK, PanelFollows, MeasuredOK,
                                    ShowsOK, PaintOK
  <2>3. CASE lcd.scrollpos = old
    <3>1. writer' = "idle" /\ UNCHANGED <<lcd, panel, place, paint>>
      BY <2>1, <2>3
    <3>2. ShowsOK'
      BY <2>1, <2>3, <3>1 DEF LcdInv, ShowsOK, ShownAt, Shown, Offset
    <3>3. LcdTypes' /\ ActiveOK' /\ PanelFollows' /\ MeasuredOK' /\ PaintOK'
      BY <2>1, <3>1 DEF LcdInv, LcdTypes, ActiveOK, PanelFollows, MeasuredOK, PaintOK
    <3> QED BY <3>2, <3>3 DEF LcdInv
  <2> QED BY <2>2, <2>3
<1> QED BY <1>1, <1>2

LEMMA AlarmRepaints ==
  ASSUME LcdInv, LcdTimeout, lcd.scrollmax > 0, ~lcd.active
  PROVE  LcdInv'
<1> DEFINE next == IF lcd.scrollpos + 1 >= lcd.scrollmax THEN 0 ELSE lcd.scrollpos + 1
           scrolled == [lcd EXCEPT !.scrollpos = next]
           after == Painted(next)
<1>0. lcd \in LcdStates /\ lcd.scrollpos \in Nat /\ lcd.scrollmax \in Nat
  BY DEF LcdInv, LcdTypes, LcdStates, LcdRecords
<1>1. Show(scrolled, after) /\ UNCHANGED <<writer, old, paint, text>>
  BY DEF LcdTimeout
<1>2. next \in Nat
  BY <1>0
<1> HIDE DEF next
<1>3. /\ scrolled \in LcdStates /\ scrolled.scrollpos = next
      /\ scrolled.data = lcd.data /\ scrolled.width = lcd.width /\ scrolled.speed = lcd.speed
      /\ scrolled.scrollmax = lcd.scrollmax /\ scrolled.active = lcd.active
      /\ scrolled.broken = lcd.broken
  BY <1>0, <1>2 DEF LcdStates, LcdRecords
<1> HIDE DEF scrolled
<1>4. writer \in {"idle", "check"} /\ \A row \in Rows : lcd.width[row] # 0
  BY <1>0 DEF LcdInv, LcdTypes, ActiveOK, MeasuredOK
<1>5. \A row \in Rows, c \in Columns : Shown(row, c, next) \in Printable
  BY <1>0, <1>2, <1>4, ShownIsPrintable
<1>6. /\ after \in Paintings
      /\ \A row \in Rows, c \in Columns : after.visible[row][c] = Shown(row, c, next)
      /\ ~lcd.broken => Follows(after)
  BY <1>5, BeforeIs, PaintedIs
<1> HIDE DEF after
<1>7. /\ lcd' \in LcdStates /\ lcd'.visible = after.visible
      /\ lcd'.data = lcd.data /\ lcd'.width = lcd.width /\ lcd'.speed = lcd.speed
      /\ lcd'.scrollpos = next /\ lcd'.scrollmax = lcd.scrollmax
      /\ lcd'.active = lcd.active
      /\ panel' \in Glyphs /\ place' \in Rows \X Nat /\ PanelFollows'
  BY <1>1, <1>3, <1>6, ShowIs
<1>8. LcdTypes' /\ ActiveOK' /\ MeasuredOK' /\ PaintOK'
  BY <1>1, <1>4, <1>7 DEF LcdInv, LcdTypes, ActiveOK, MeasuredOK, PaintOK
<1>9. ShownAt(lcd.scrollpos)'
  BY <1>6, <1>7 DEF ShownAt, Shown, Offset
<1> QED BY <1>7, <1>8, <1>9 DEF LcdInv, ShowsOK

LEMMA AlarmLeaves ==
  ASSUME LcdInv, LcdTimeout, ~(lcd.scrollmax > 0 /\ ~lcd.active)
  PROVE  LcdInv'
<1> DEFINE next == IF lcd.scrollpos + 1 >= lcd.scrollmax THEN 0 ELSE lcd.scrollpos + 1
<1>0. lcd \in LcdStates /\ lcd.scrollpos \in Nat /\ lcd.scrollmax \in Nat
  BY DEF LcdInv, LcdTypes, LcdStates, LcdRecords
<1>1. /\ lcd' = [lcd EXCEPT !.scrollpos = next]
      /\ UNCHANGED <<panel, place, writer, old, paint>>
      /\ writer \in {"enter", "paint", "check"} => lcd.scrollpos = old
  BY DEF LcdTimeout
<1>2. next \in Nat
  BY <1>0
<1> HIDE DEF next
<1>3. /\ lcd' \in LcdStates /\ lcd'.scrollpos = next /\ lcd'.visible = lcd.visible
      /\ lcd'.data = lcd.data /\ lcd'.width = lcd.width /\ lcd'.speed = lcd.speed
      /\ lcd'.scrollmax = lcd.scrollmax /\ lcd'.active = lcd.active
      /\ lcd'.broken = lcd.broken /\ lcd'.address = lcd.address
  BY <1>0, <1>1, <1>2 DEF LcdStates, LcdRecords
<1>4. LcdTypes' /\ ActiveOK' /\ PanelFollows' /\ MeasuredOK'
  BY <1>1, <1>3 DEF LcdInv, LcdTypes, ActiveOK, PanelFollows, MeasuredOK
<1>5. PaintOK'
  <2>1. \A row, c, p : Shown(row, c, p)' = Shown(row, c, p)
    BY <1>3, ShownKept
  <2>2. \A k : Place(k)' = Place(k)
    BY DEF Place
  <2> QED BY <1>1, <1>3, <2>1, <2>2 DEF LcdInv, PaintOK
<1>6. ASSUME writer = "idle", NEW row \in Rows, NEW c \in Columns, lcd.width[row] # 0
      PROVE  lcd.visible[row][c] = Shown(row, c, next)
  <2>1. lcd.scrollmax = 0 /\ lcd.speed[row] = 0
    BY <1>0, <1>6 DEF LcdInv, ActiveOK, MeasuredOK
  <2>2. lcd.visible[row][c] = Shown(row, c, lcd.scrollpos)
    BY <1>6 DEF LcdInv, ShowsOK, ShownAt
  <2> QED BY <1>0, <1>2, <2>1, <2>2, SlowIsStill
<1>7. ASSUME writer = "check", next = old
      PROVE  ShownAt(next)
  BY <1>1, <1>7 DEF LcdInv, ShowsOK
<1>8. ShowsOK'
  <2>1. CASE writer = "idle"
    BY <1>1, <1>3, <1>6, <2>1 DEF ShowsOK, ShownAt, Shown, Offset
  <2>2. CASE writer = "check" /\ next = old
    BY <1>1, <1>3, <1>7, <2>2 DEF ShowsOK, ShownAt, Shown, Offset
  <2>3. CASE writer # "idle" /\ ~(writer = "check" /\ next = old)
    BY <1>1, <1>3, <2>3 DEF ShowsOK
  <2> QED BY <2>1, <2>2, <2>3
<1> QED BY <1>4, <1>5, <1>8 DEF LcdInv

LEMMA LcdStepOK == LcdInv /\ [LcdNext]_lcdVars => LcdInv'
<1> SUFFICES ASSUME LcdInv, [LcdNext]_lcdVars PROVE LcdInv'
  OBVIOUS
<1>1. CASE \/ CarriageReturn \/ LineFeed \/ Backspace \/ Escape
           \/ \E c \in Printable : PutChar(c)
  BY <1>1, TextStepKept
<1>2. CASE \/ \E parm1, parm2 \in Parms : MoveCursor(parm1, parm2)
           \/ \E parm1 \in Parms : ClearToEnd(parm1)
           \/ ClearScreen \/ OtherSequence
  BY <1>2, EscapeStepKept
<1>3. CASE Measure
  BY <1>3, MeasureKept
<1>4. CASE WriteText \/ WriteOld \/ WriteEnter
  BY <1>4, WriteStepKept
<1>5. CASE WritePlace
  BY <1>5, WritePlaceKept
<1>6. CASE WriteActive \/ WriteCheck
  BY <1>6, WriteEndKept
<1>7. CASE LcdTimeout
  BY <1>7, AlarmRepaints, AlarmLeaves
<1>8. CASE UNCHANGED lcdVars
  <2>1. UNCHANGED <<lcd, panel, place, writer, old, paint>>
    BY <1>8 DEF lcdVars
  <2>2. LcdTypes' /\ ActiveOK' /\ PanelFollows' /\ MeasuredOK'
    BY <2>1 DEF LcdInv, LcdTypes, ActiveOK, PanelFollows, MeasuredOK
  <2>3. \A row, c, p : Shown(row, c, p)' = Shown(row, c, p)
    BY <2>1, ShownKept
  <2>4. ShowsOK'
    BY <2>1, <2>3 DEF LcdInv, ShowsOK, ShownAt
  <2>5. \A k : Place(k)' = Place(k)
    BY DEF Place
  <2>6. PaintOK'
    BY <2>1, <2>3, <2>5 DEF LcdInv, PaintOK
  <2> QED BY <2>2, <2>4, <2>6 DEF LcdInv
<1> QED
  BY <1>1, <1>2, <1>3, <1>4, <1>5, <1>6, <1>7, <1>8 DEF LcdNext

LEMMA LcdInvShows == LcdInv => PanelShowsLines
<1> SUFFICES ASSUME LcdInv, writer = "idle", ~lcd.broken, NEW row \in Rows, NEW c \in Columns
             PROVE  panel[row][c] = IF lcd.width[row] = 0 THEN Blank
                                    ELSE Shown(row, c, lcd.scrollpos)
  BY DEF PanelShowsLines
<1>1. panel = lcd.visible
  BY DEF LcdInv, PanelFollows
<1>2. CASE lcd.width[row] = 0
  BY <1>1, <1>2 DEF LcdInv, MeasuredOK, BlankPanel
<1>3. CASE lcd.width[row] # 0
  BY <1>1, <1>3 DEF LcdInv, ShowsOK, ShownAt
<1> QED BY <1>2, <1>3

(* What the driver remembers of the panel and of its repainting is true    *)
(* after every step of a write and every alarm                             *)
(* (altera_avalon_lcd_16207.c:227-265, 454-546).                           *)
THEOREM LcdInvariant == LcdSpec => []LcdInv
BY LcdInitOK, LcdStepOK, PTL DEF LcdSpec

(* Between the writes a working panel shows each line from its own offset  *)
(* at the scroll position, for every size of panel and line: an alarm that *)
(* fell into a repaint has been noticed and made good (lines 494-511).     *)
THEOREM PanelAlwaysShows == LcdSpec => []PanelShowsLines
BY LcdInvariant, LcdInvShows, PTL
=============================================================================
