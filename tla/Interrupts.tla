----------------------------- MODULE Interrupts -----------------------------
(***************************************************************************)
(* The interrupt layer of the HAL, with the processor's own controller:    *)
(* alt_exception_entry.S, alt_irq_entry.S, alt_irq_handler.c, alt_iic.c,   *)
(* alt_iic_isr_register.c, alt_irq_register.c, alt_irq.h and               *)
(* alt_legacy_irq.h.                                                       *)
(*                                                                         *)
(* One processor runs the program and, on top of it, the exceptions it     *)
(* takes: the contexts are a stack, and only the last one moves.  Handlers *)
(* are the users': one takes its device's request away, calls the routines *)
(* below and may let more urgent interrupts in.  A device holds its        *)
(* request until then; a line is enabled only while a handler is           *)
(* registered for it, and only the program takes one back; and while some  *)
(* handler is interruptible none enables or disables a line: the routines  *)
(* write IENABLE without the priority mask, and would let the less urgent  *)
(* lines in again (MoreUrgentOnTop would fail).                            *)
(***************************************************************************)
EXTENDS Integers, SequencesExt, FiniteSetsExt

CONSTANTS NIRQ,          \* lines; the lower, the more urgent
          Handlers,      \* handlers, each with its own context
          Nobody         \* no handler, no line, no mask

Lines == 0 .. NIRQ - 1
Entry == [handler : Handlers \cup {Nobody}, context : Handlers \cup {Nobody}]

ASSUME InterruptsAssumption ==
  /\ NIRQ \in Nat \ {0}
  /\ Nobody \notin Handlers /\ Nobody \notin Lines
  /\ \A set \in SUBSET Lines : set # Nobody
  /\ \A entry \in Entry : entry # Nobody

VARIABLES pie,        \* interrupts enabled, in the status register
          ienable,    \* the lines enabled at the processor
          asserted,   \* the lines its devices hold up
          active,     \* alt_irq_active
          mask,       \* alt_priority_mask
          table,      \* alt_irq
          contexts,   \* the program and the exceptions on top of it
          asked       \* the lines that calls enabled last, not disabled

irqVars == <<pie, ienable, asserted, active, mask, table, contexts, asked>>

Pending == asserted \cap ienable

(* A context: the line handled and the entry called for it, the status and *)
(* the mask to restore, and the call it is making: of alt_iic_isr_register *)
(* when new is an entry, of alt_irq_enable or alt_irq_disable in any case. *)
Context == [at : {"run", "test", "pending", "handler", "context", "off", "load",
                  "store", "ienable", "on", "restore"},
            line : Lines \cup {Nobody}, entry : Entry,
            estatus : BOOLEAN, old : (SUBSET Lines) \cup {Nobody},
            id : Lines, enable : BOOLEAN, new : Entry \cup {Nobody},
            status : BOOLEAN, inner : BOOLEAN, value : SUBSET Lines]

Void == [handler |-> Nobody, context |-> Nobody]
Fresh(at) == [at |-> at, line |-> Nobody, entry |-> Void, estatus |-> TRUE,
              old |-> Nobody, id |-> 0, enable |-> FALSE, new |-> Nobody,
              status |-> TRUE, inner |-> TRUE, value |-> {}]

IrqInit ==
  /\ pie = TRUE /\ ienable = {} /\ asserted = {} /\ active = {} /\ mask = Lines
  /\ table = [l \in Lines |-> Void] /\ contexts = <<Fresh("run")>> /\ asked = {}

Here == Last(contexts)
At(at) == Here.at = at
Becomes(c) == contexts' = [contexts EXCEPT ![Len(contexts)] = c]
Moves(at) == Becomes([Here EXCEPT !.at = at])

(* alt_irq_disable_all leaves interrupts off and returns what they were;   *)
(* alt_irq_enable_all puts that back.                                      *)
LeaveOn == pie
TurnOff == FALSE
DisableAll == TurnOff

-----------------------------------------------------------------------------
(* The devices, and the exception: alt_exception saves the context and     *)
(* alt_irq_entry tests for an interrupt, alt_irq_handler calls the handler *)
(* of the lowest line pending until none is.                               *)
Raise(l) ==
  /\ l \notin asserted /\ asserted' = asserted \cup {l}
  /\ UNCHANGED <<pie, ienable, active, mask, table, contexts, asked>>

Exception ==
  /\ pie /\ Pending # {}
  /\ contexts' = Append(contexts, [Fresh("test") EXCEPT !.estatus = pie])
  /\ pie' = FALSE
  /\ UNCHANGED <<ienable, asserted, active, mask, table, asked>>

IsIrq == Here.estatus /\ Pending # {}

Dispatch ==
  /\ (At("test") /\ IsIrq) \/ (At("pending") /\ Pending # {})
  /\ Becomes([Here EXCEPT !.at = "run", !.line = Min(Pending),
                          !.entry = table[Min(Pending)]])
  /\ UNCHANGED <<pie, ienable, asserted, active, mask, table, asked>>

(* Back to the interrupted context, with its status.                       *)
Eret ==
  /\ At("pending") /\ Pending = {}
  /\ contexts' = Front(contexts) /\ pie' = Here.estatus
  /\ UNCHANGED <<ienable, asserted, active, mask, table, asked>>

-----------------------------------------------------------------------------
(* A handler: it clears its device's request, it may be interruptible for  *)
(* a while, and it returns.                                                *)
InHandler == At("run") /\ Here.line # Nobody

Clear ==
  /\ InHandler /\ asserted' = asserted \ {Here.line}
  /\ UNCHANGED <<pie, ienable, active, mask, table, contexts, asked>>

AsUrgent(l) == {m \in Lines : m <= l}
MoreUrgent(l) == {m \in Lines : m < l}
PriorityMask(l) == MoreUrgent(l)

Interruptible ==
  /\ InHandler /\ Here.old = Nobody
  /\ mask' = PriorityMask(Here.line) /\ ienable' = active \cap mask' /\ pie' = TRUE
  /\ Becomes([Here EXCEPT !.old = mask])
  /\ UNCHANGED <<asserted, active, table, asked>>

NonInterruptible ==
  /\ InHandler /\ Here.old # Nobody
  /\ pie' = FALSE /\ mask' = Here.old /\ ienable' = Here.old \cap active
  /\ Becomes([Here EXCEPT !.old = Nobody])
  /\ UNCHANGED <<asserted, active, table, asked>>

HandlerReturns ==
  /\ InHandler /\ Here.old = Nobody
  /\ Becomes([Fresh("pending") EXCEPT !.estatus = Here.estatus])
  /\ UNCHANGED <<pie, ienable, asserted, active, mask, table, asked>>

-----------------------------------------------------------------------------
(* alt_ic_isr_register and alt_irq_register: the handler and its context   *)
(* go into the table with interrupts off; then the line is enabled, or     *)
(* disabled when the handler is NULL.                                      *)
MayCall == At("run") /\ mask = Lines

Register(l, h) ==
  /\ MayCall /\ (h = Nobody => Here.line = Nobody)
  /\ pie' = DisableAll
  /\ Becomes([Here EXCEPT !.at = "handler", !.id = l, !.enable = h # Nobody,
                !.new = [handler |-> h, context |-> h], !.status = pie])
  /\ UNCHANGED <<ienable, asserted, active, mask, table, asked>>

StoreHandler ==
  /\ At("handler") /\ Moves("context")
  /\ table' = [table EXCEPT ![Here.id].handler = Here.new.handler]
  /\ UNCHANGED <<pie, ienable, asserted, active, mask, asked>>

StoreContext ==
  /\ At("context") /\ Moves("off")
  /\ table' = [table EXCEPT ![Here.id].context = Here.new.context]
  /\ UNCHANGED <<pie, ienable, asserted, active, mask, asked>>

(* alt_irq_enable and alt_irq_disable, called or on the way of the above.  *)
EnableOrDisable(l, enable) ==
  /\ MayCall /\ (enable => table[l].handler # Nobody)
  /\ Becomes([Here EXCEPT !.at = "off", !.id = l, !.enable = enable, !.new = Nobody])
  /\ UNCHANGED <<pie, ienable, asserted, active, mask, table, asked>>

Off ==
  /\ At("off") /\ pie' = DisableAll
  /\ Becomes([Here EXCEPT !.at = "load", !.inner = pie])
  /\ UNCHANGED <<ienable, asserted, active, mask, table, asked>>

With(set) == IF Here.enable THEN set \cup {Here.id} ELSE set \ {Here.id}

Returned == [Fresh("run") EXCEPT !.line = Here.line, !.entry = Here.entry,
                                 !.estatus = Here.estatus]

LoadActive ==
  /\ At("load") /\ asked' = With(asked)
  /\ Becomes([Here EXCEPT !.at = "store", !.value = With(active)])
  /\ UNCHANGED <<pie, ienable, asserted, active, mask, table>>

StoreActive ==
  /\ At("store") /\ active' = Here.value /\ Moves("ienable")
  /\ UNCHANGED <<pie, ienable, asserted, mask, table, asked>>

WriteIenable ==
  /\ At("ienable") /\ ienable' = active /\ Moves("on")
  /\ UNCHANGED <<pie, asserted, active, mask, table, asked>>

On ==
  /\ At("on") /\ pie' = Here.inner
  /\ IF Here.new = Nobody THEN Becomes(Returned) ELSE Moves("restore")
  /\ UNCHANGED <<ienable, asserted, active, mask, table, asked>>

Restore ==
  /\ At("restore") /\ pie' = Here.status /\ Becomes(Returned)
  /\ UNCHANGED <<ienable, asserted, active, mask, table, asked>>

Routines ==
  \/ \E l \in Lines :
       \/ \E h \in Handlers \cup {Nobody} : Register(l, h)
       \/ \E enable \in BOOLEAN : EnableOrDisable(l, enable)
  \/ StoreHandler \/ StoreContext \/ Off \/ LoadActive \/ StoreActive
  \/ WriteIenable \/ On \/ Restore

IrqNext ==
  \/ \E l \in Lines : Raise(l)
  \/ Exception \/ Dispatch \/ Eret
  \/ Clear \/ Interruptible \/ NonInterruptible \/ HandlerReturns
  \/ Routines

IrqSpec == IrqInit /\ [][IrqNext]_irqVars

-----------------------------------------------------------------------------
(* What the table holds when a handler is called is what one call of the   *)
(* registration put there: never NULL, never the context of another        *)
(* (alt_iic_isr_register.c:84-97, alt_irq_handler.c:144).                   *)
CallsRegistered ==
  \A k \in DOMAIN contexts :
    LET c == contexts[k]
    IN c.line # Nobody => c.entry.handler \in Handlers
                          /\ c.entry.context = c.entry.handler

(* No enable or disable is lost, however the calls of the program and the  *)
(* handlers fall together, and every priority mask has been put back: the  *)
(* program runs with the lines enabled that were asked for                 *)
(* (alt_legacy_irq.h:68-99, 118-152).                                      *)
EnablesKept ==
  (Len(contexts) = 1 /\ At("run")) => pie /\ active = asked /\ ienable = asked

(* A handler is interrupted by more urgent lines only, also when it lets   *)
(* interrupts in and again when it is itself on top of another             *)
(* (alt_legacy_irq.h:101-131).                                             *)
MoreUrgentOnTop ==
  \A j, k \in DOMAIN contexts :
    (j < k /\ contexts[j].line # Nobody /\ contexts[k].line # Nobody)
      => contexts[k].line < contexts[j].line
=============================================================================
