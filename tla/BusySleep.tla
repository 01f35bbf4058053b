----------------------------- MODULE BusySleep -----------------------------
(***************************************************************************)
(* The delay of the HAL, usleep and alt_busy_sleep: turns of a loop of     *)
(* nine cycles.  The drivers of the PHYs and of the LCD wait with it, so a *)
(* delay that is too short is a device used before it is ready.            *)
(*                                                                         *)
(* The largest integer of the build is a parameter (largest, INT_MAX), and *)
(* so are the turns of a microsecond (perUs): the counting is the same at  *)
(* 7 as at 2147483647.                                                     *)
(***************************************************************************)
EXTENDS Integers, SystemMap

(* Turns of a microsecond, cut to an integer: 99 cycles of a hundred, so   *)
(* that a delay of exact turns is one percent short of its time.           *)
CyclesPerLoop == IF NIOS2.CPU_IMPLEMENTATION = "tiny" THEN 9 ELSE 3
PerUs == ALT_CPU.FREQ \div (CyclesPerLoop * 1000000)
ASSUME OnePercentShort ==
  PerUs = 11 /\ 100 * PerUs * CyclesPerLoop = 99 * (ALT_CPU.FREQ \div 1000000)

(* "addi -1; bne": the loop ends at 0, and a word that starts at 0 goes    *)
(* all the way around.  "addi -1; bgt": it ends at the first that is not   *)
(* positive.                                                               *)
UntilZero(count, largest) == IF count = 0 THEN 2 * (largest + 1) ELSE count
UntilNotPositive(count) == IF count > 0 THEN count ELSE 1

(* The microseconds one turn of the outer loop takes off, and how often.   *)
Most(largest, perUs) == largest \div perUs
BigLoops(us, largest, perUs) == us \div Most(largest, perUs)

(* alt_busy_sleep, in turns.  us is an unsigned word.                      *)
Turns(us, largest, perUs) ==
  LET big == BigLoops(us, largest, perUs)
      rest == us - big * Most(largest, perUs)
  IN IF big > 0
     THEN big * largest + UntilZero(rest * perUs, largest)
     ELSE UntilNotPositive(us * perUs)

(* ALT_USLEEP *)
USleep(us, largest, perUs) == Turns(us, largest, perUs)

Asked(us, perUs) == us * perUs
Exact(us, largest, perUs) == us > 0 /\ us % Most(largest, perUs) = 0

(* No turn is missing.  There are too many by what a multiple of perUs     *)
(* lacks to the largest integer, once per outer turn;                      *)
(* unless us is an exact multiple of what an outer turn takes off: then    *)
(* the last loop starts at 0 and takes a whole word of turns.  At 100 MHz  *)
(* that is a wait of 195225786 us that takes six and a half minutes more.  *)
ASSUME SleepsAsAsked ==
  \A largest \in {7, 15, 31}, perUs \in {1, 2, 3, 5} :
    \A us \in 0 .. (2 * largest + 1) :
      LET turns == USleep(us, largest, perUs)
          over == BigLoops(us, largest, perUs) * (largest % perUs)
      IN /\ turns >= Asked(us, perUs)
         /\ us > 0 /\ ~Exact(us, largest, perUs) => turns = Asked(us, perUs) + over
         /\ Exact(us, largest, perUs)
              => turns = Asked(us, perUs) + over + 2 * (largest + 1)
=============================================================================
