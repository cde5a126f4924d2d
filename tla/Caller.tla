------------------------------ MODULE Caller ------------------------------
(***************************************************************************)
(* The one flow of control that interrupt handlers interrupt: kernel code  *)
(* that calls the operations of the devices, one after the other.          *)
(*                                                                         *)
(* The repository is built without optimization: every read and every      *)
(* write of a shared variable is an instruction of its own, and a step     *)
(* here. A handler runs between two of them, and as a whole: its gate      *)
(* clears the interrupt flag (0x8E in interrupts.C).                       *)
(***************************************************************************)
VARIABLES
    pc,             \* "idle", or the next step of the operation it is in
    loc             \* the locals of that operation, with its processor register

callerVars == <<pc, loc>>

NoLocals == [op |-> "none"]

CallerInit == pc = "idle" /\ loc = NoLocals

Go(from, to) == pc = from /\ pc' = to

Call(first, locals) == Go("idle", first) /\ loc' = locals

\* One step of the operation, after which it goes on at "to" with the same locals.
Step(from, to) == Go(from, to) /\ UNCHANGED loc

Return(from) == Go(from, "idle") /\ loc' = NoLocals
=============================================================================
