----------------------------- MODULE Exceptions -----------------------------
(***************************************************************************)
(* Exceptions that an instruction makes (alt_instruction_exception_entry.c *)
(* and the end of alt_exception_entry.S): what becomes of the program when *)
(* an exception is no interrupt.  The program registers no handler.        *)
(*                                                                         *)
(* A handler is a function from what it is told to its answer.             *)
(***************************************************************************)
EXTENDS Integers, SystemMap

CAUSE_NOT_PRESENT == -1
Cause ==
  [RESET |-> 0, CPU_ONLY_RESET_REQUEST |-> 1, INTERRUPT |-> 2, TRAP_INST |-> 3,
   UNIMPLEMENTED_INST |-> 4, ILLEGAL_INST |-> 5, MISALIGNED_DATA_ADDR |-> 6,
   MISALIGNED_TARGET_PC |-> 7, DIVISION_ERROR |-> 8,
   SUPERVISOR_ONLY_INST_ADDR |-> 9, SUPERVISOR_ONLY_INST |-> 10,
   SUPERVISOR_ONLY_DATA_ADDR |-> 11, TLB_MISS |-> 12,
   TLB_EXECUTE_PERM_VIOLATION |-> 13, TLB_READ_PERM_VIOLATION |-> 14,
   TLB_WRITE_PERM_VIOLATION |-> 15, MPU_INST_REGION_VIOLATION |-> 16,
   MPU_DATA_REGION_VIOLATION |-> 17, ECC_TLB_ERR |-> 18, ECC_FETCH_ERR |-> 19,
   ECC_REGISTER_FILE_ERR |-> 20, ECC_DATA_ERR |-> 21,
   ECC_DATA_CACHE_WRITEBACK_ERR |-> 22]
Causes == {Cause[name] : name \in DOMAIN Cause}

(* alt_exception_cause_generated_bad_addr *)
GeneratedBadAddr(cause) ==
  cause \in {Cause.SUPERVISOR_ONLY_DATA_ADDR, Cause.MISALIGNED_DATA_ADDR,
             Cause.MISALIGNED_TARGET_PC, Cause.TLB_READ_PERM_VIOLATION,
             Cause.TLB_WRITE_PERM_VIOLATION, Cause.MPU_DATA_REGION_VIOLATION,
             Cause.ECC_DATA_ERR}

(* The cause and the address, where the processor keeps them; this one     *)
(* does not.                                                               *)
Told(cause, address, extraInfo) ==
  IF extraInfo THEN [cause |-> cause, bad_addr |-> address]
  ELSE [cause |-> CAUSE_NOT_PRESENT, bad_addr |-> 0]

(* alt_instruction_exception_entry, and what its caller makes of the       *)
(* answer: without a handler the program stops, in the debugger or in a    *)
(* loop; with one the instruction is issued again or skipped.              *)
REISSUE_INST == 0
SKIP_INST == 1
Entered(handler, told) == IF told \in DOMAIN handler THEN {handler[told]} ELSE {}
Resumes(handler, told, pc) ==
  {IF answer = REISSUE_INST THEN pc ELSE pc + 4 : answer \in Entered(handler, told)}

(* Where the program goes on after an exception.  What this processor      *)
(* tells every handler is the same for each cause, and never an address to *)
(* rely on; so one that skips any exception skips all of them.             *)
ASSUME HandlersAreBlind ==
  \A c, d \in Causes, a, b \in {0, 4} :
    LET told == Told(c, a, FALSE)
    IN /\ told = Told(d, b, FALSE) /\ ~GeneratedBadAddr(told.cause)
       /\ Resumes([t \in {} |-> SKIP_INST], told, 8) = {}
       /\ \A answer \in {REISSUE_INST, SKIP_INST} :
            LET handler == [t \in {told} |-> answer]
            IN Resumes(handler, told, 8) = Resumes(handler, Told(d, b, FALSE), 8)
=============================================================================
