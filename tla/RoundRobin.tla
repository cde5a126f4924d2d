---------------------------- MODULE RoundRobin ----------------------------
(***************************************************************************)
(* What the scheduler, the dispatcher and pass_on_CPU promise together:    *)
(* the threads stand in a ring and the CPU goes round it.  A thread loses  *)
(* its turn only by passing the CPU on, leaves only from its own turn, and *)
(* nobody overtakes.  Threads.tla is shown to implement this.              *)
(***************************************************************************)
EXTENDS Sequences, Naturals, Functions

CONSTANT Thread

VARIABLES
    ring,       \* the admitted threads; once started, the first one has the CPU
    started     \* the start-up code has handed the CPU to the first thread

ringVars == <<ring, started>>

Init ==
    /\ ring = <<>>
    /\ started = FALSE

Admit(t) ==
    /\ ~started
    /\ t \notin Range(ring)
    /\ ring' = Append(ring, t)
    /\ UNCHANGED started

KickOff(t) ==
    /\ ~started
    /\ t \notin Range(ring)
    /\ ring' = <<t>> \o ring
    /\ started' = TRUE

PassOn ==
    /\ started
    /\ ring' = Append(Tail(ring), Head(ring))
    /\ UNCHANGED started

Leave ==
    /\ started
    /\ Len(ring) > 1
    /\ ring' = Tail(ring)
    /\ UNCHANGED started

Next == (\E t \in Thread : Admit(t) \/ KickOff(t)) \/ PassOn \/ Leave

Spec == Init /\ [][Next]_ringVars /\ WF_ringVars(PassOn \/ Leave)
=============================================================================
