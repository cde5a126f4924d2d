----------------------------- MODULE Scheduler -----------------------------
(***************************************************************************)
(* The FIFO scheduler (P6/scheduler.C, the same file in P5) and the part   *)
(* of dispatch_to (P6/thread.C) that changes the running thread.  A module *)
(* that composes it EXTENDS it and uses these operators in its actions.    *)
(***************************************************************************)
EXTENDS ReadyList

CONSTANT Thread         \* the TCBs

ASSUME NullAssumption == NULL \notin Thread

VARIABLES
    ready_queue,        \* Scheduler::ready_queue, as the sequence of its data
    current_thread      \* the global current_thread; NULL before the first dispatch

schedVars == <<ready_queue, current_thread>>

SchedTypeOK ==
    /\ ready_queue \in Seq(Thread)
    /\ current_thread \in Thread \cup {NULL}

SchedInit ==
    /\ ready_queue = <<>>
    /\ current_thread = NULL

\* Deviation: the thread that gives up the CPU goes to the front of the queue.
resume_front(t) == ready_queue' = push_front(ready_queue, t)

\* resume(t) and add(t) have the same body.
resume(t) == ready_queue' = push_back(ready_queue, t)
add(t)    == ready_queue' = push_back(ready_queue, t)

\* terminate(t): the thread may no longer be chosen.
terminate(t) == ready_queue' = remove(ready_queue, t)

\* dispatch_to(t): t runs.
dispatch_to(t) == current_thread' = t

\* Deviation: the dispatched thread stays in the queue.
yield_from_no_pop(q) ==
    /\ ready_queue' = q
    /\ IF front(q) # NULL THEN dispatch_to(front(q)) ELSE UNCHANGED current_thread

\* yield() as it runs from queue q: the oldest thread leaves the queue and is
\* dispatched; with an empty queue the call returns and nothing has changed.
yield_from(q) ==
    /\ ready_queue' = pop_front(q)
    /\ IF front(q) # NULL THEN dispatch_to(front(q)) ELSE UNCHANGED current_thread

yield == yield_from(ready_queue)
=============================================================================
