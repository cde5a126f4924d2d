---------------------------- MODULE Interrupts ----------------------------
(***************************************************************************)
(* Interrupt dispatch (irq.C, interrupts.C, irq_low.asm), in the order in  *)
(* which P4/kernel.C starts it up. The two 8259 controllers are external:  *)
(* requests that wait, lines in service, priorities, and the end of        *)
(* interrupt that takes the first line out of service.                     *)
(*                                                                         *)
(* The handlers themselves are in the modules of their devices; Devices    *)
(* puts each between dispatch and end of interrupt. Exceptions, and        *)
(* deregister_handler, which nobody calls, are left out.                   *)
(***************************************************************************)
EXTENDS Integers, Sequences, FiniteSetsExt

CONSTANTS
    Line,           \* the request lines that devices raise
    NULL            \* no handler

ASSUME InterruptsAssumption == Line \subseteq 0..15 /\ NULL \notin {"timer", "keyboard"}

VARIABLES
    irr,                \* requests the controllers hold
    in_service,         \* by controller: the lines whose end of interrupt is due
    vector_base,        \* by controller: the vector of its first line
    handler_table,
    interrupts_enabled,
    booted              \* how many steps of BootOrder are done

picVars == <<irr, in_service>>
tableVars == <<vector_base, handler_table, interrupts_enabled, booted>>
interruptVars == <<picVars, tableVars>>

IRQ_BASE == 32
IRQ_TABLE_SIZE == 16

InterruptsInit ==
    /\ irr = {}
    /\ in_service = [master |-> {}, slave |-> {}]
    /\ vector_base = [master |-> 8, slave |-> 112]
    /\ handler_table = [i \in 0..IRQ_TABLE_SIZE - 1 |-> NULL]
    /\ interrupts_enabled = FALSE
    /\ booted = 0

-----------------------------------------------------------------------------
(* Start-up.                                                               *)

\* Deviation: interrupts are enabled before the handlers are there.
BootOrder_early == <<"irq_remap", "init_dispatcher", "enable_interrupts", "timer", "keyboard">>

\* main of P4/kernel.C, as far as interrupts are concerned.
BootOrder == <<"irq_remap", "init_dispatcher", "timer", "keyboard", "enable_interrupts">>

irq_remap == vector_base' = [master |-> 32, slave |-> 40] /\ UNCHANGED <<handler_table, interrupts_enabled>>

init_dispatcher ==
    /\ handler_table' = [i \in 0..IRQ_TABLE_SIZE - 1 |-> NULL]
    /\ UNCHANGED <<vector_base, interrupts_enabled>>

register_handler(irq_code, handler) ==
    /\ handler_table' = [handler_table EXCEPT ![irq_code] = handler]
    /\ UNCHANGED <<vector_base, interrupts_enabled>>

enable_interrupts == interrupts_enabled' = TRUE /\ UNCHANGED <<vector_base, handler_table>>

\* The next step of main, if it is the named one.
BootStep(step) ==
    /\ booted < Len(BootOrder)
    /\ BootOrder[booted + 1] = step
    /\ booted' = booted + 1
    /\ UNCHANGED picVars

-----------------------------------------------------------------------------
(* The controllers, and the dispatcher between request and return.         *)

\* The controllers hold requests from irq_remap on, which resets them; a line raised
\* again while its request waits is the same request.
Raise(n) ==
    /\ booted > 0
    /\ n \notin irr
    /\ irr' = irr \cup {n}
    /\ UNCHANGED <<in_service, tableVars>>

generated_by_slave_PIC(n) == n > 7

\* The slave's output is line 2 of the master.
MasterLine(n) == IF generated_by_slave_PIC(n) THEN 2 ELSE n

Vector(n) ==
    IF generated_by_slave_PIC(n) THEN vector_base.slave + n - 8 ELSE vector_base.master + n

\* A request passes when its line is ahead of every line in service.
Passes(n) ==
    /\ n \in irr
    /\ \A m \in in_service.master : MasterLine(n) < m
    /\ generated_by_slave_PIC(n) => \A m \in in_service.slave : n < m

Rank(n) == 16 * MasterLine(n) + n

Accepted(n) ==
    /\ interrupts_enabled
    /\ Passes(n)
    /\ \A m \in irr : Passes(m) => Rank(n) <= Rank(m)

Handler(n) ==
    LET int_no == Vector(n) - IRQ_BASE
    IN  IF int_no \in DOMAIN handler_table THEN handler_table[int_no] ELSE NULL

InService(n) ==
    [master |-> in_service.master \cup {MasterLine(n)},
     slave  |-> in_service.slave \cup (IF generated_by_slave_PIC(n) THEN {n} ELSE {})]

\* An end of interrupt names no line: it retires the first one in service.
Retired(lines) == lines \ {Min(lines)}

\* Deviation: the slave is not told.
EndOfInterrupt_master_only(n, serving) == [serving EXCEPT !.master = Retired(@)]

EndOfInterrupt(n, serving) ==
    [master |-> Retired(serving.master),
     slave  |-> IF generated_by_slave_PIC(n) THEN Retired(serving.slave) ELSE serving.slave]

\* dispatch_interrupt with everything but what the handler does.
dispatch_interrupt(n, handler) ==
    /\ Accepted(n)
    /\ Handler(n) = handler
    /\ irr' = irr \ {n}
    /\ in_service' = EndOfInterrupt(n, InService(n))
    /\ UNCHANGED tableVars

-----------------------------------------------------------------------------
InterruptsTypeOK ==
    /\ irr \subseteq Line
    /\ in_service \in [master : SUBSET (0..7), slave : SUBSET (8..15)]
    /\ vector_base \in {[master |-> 8, slave |-> 112], [master |-> 32, slave |-> 40]}
    /\ handler_table \in [0..IRQ_TABLE_SIZE - 1 -> {"timer", "keyboard", NULL}]
    /\ interrupts_enabled \in BOOLEAN
    /\ booted \in 0..Len(BootOrder)
=============================================================================
