------------------------------ MODULE Threads ------------------------------
(***************************************************************************)
(* Kernel threads on one CPU: the start-up code of kernel.C, the life of a *)
(* thread (thread.C) and its passing-on of the CPU (pass_on_CPU in         *)
(* kernel.C) over the FIFO scheduler, with the interrupt flag each context *)
(* switch saves and restores (threads_low.asm) and the timer that needs    *)
(* the flag.  There is no preemption: a thread leaves the CPU only by      *)
(* calling yield().                                                        *)
(***************************************************************************)
EXTENDS Scheduler

CONSTANTS
    First,          \* thread1, which main() dispatches to directly
    Forever,        \* the threads whose function never returns
    NB_ITERATIONS,  \* bursts of a thread function that does return
    StartEnables    \* thread_start() enables interrupts: TRUE in P6, FALSE in P5

ASSUME ThreadsAssumption ==
    /\ First \in Thread
    /\ NB_ITERATIONS \in Nat
    /\ StartEnables \in BOOLEAN
    \* kernel.C of P6 starts "Only thread 1 will run forever"; in P5, fun3 and fun4 do.
    /\ Forever \subseteq Thread /\ Forever # {}

VARIABLES
    main,       \* the start-up code: "init", "adding", and "gone" once it has dispatched
    pc,         \* where each thread is, or will be when it is switched in again
    burst,      \* bursts completed by each thread function that returns
    IF_flag,    \* EFLAGS.IF of the CPU
    saved_IF,   \* EFLAGS.IF in the saved context of each thread
    irq0        \* the timer interrupt is pending at the interrupt controller

cpuVars == <<IF_flag, saved_IF, irq0>>
vars == <<schedVars, main, pc, burst, cpuVars>>

Location == {"new", "start", "run", "resumed", "shutdown", "terminated", "dead", "lost"}

\* Deviation: the fake frame enables interrupts.
InitialEflagsIF_set == TRUE

\* setup_context() pushes EFLAGS = 0: a thread starts with interrupts disabled.
InitialEflagsIF == FALSE

Init ==
    /\ SchedInit
    /\ main = "init"
    /\ pc = [t \in Thread |-> "new"]
    /\ burst = [t \in Thread |-> 0]
    /\ IF_flag = FALSE
    /\ saved_IF = [t \in Thread |-> InitialEflagsIF]
    /\ irq0 = FALSE

-----------------------------------------------------------------------------
(* main() of kernel.C.                                                     *)

MainEnable ==
    /\ main = "init"
    /\ main' = "adding"
    /\ IF_flag' = TRUE
    /\ UNCHANGED <<schedVars, pc, burst, saved_IF, irq0>>

\* The order in which main() adds the threads is left open.
MainAdd(t) ==
    /\ main = "adding"
    /\ t # First
    /\ pc[t] = "new"
    /\ add(t)
    /\ pc' = [pc EXCEPT ![t] = "start"]
    /\ UNCHANGED <<current_thread, main, burst, cpuVars>>

\* The CPU side of a switch: the flag goes to the context of the thread that
\* is left (the start-up code has none) and comes from that of t.
SwitchFlag(t) ==
    LET left == IF current_thread = NULL THEN saved_IF
                ELSE [saved_IF EXCEPT ![current_thread] = IF_flag]
    IN  /\ saved_IF' = left
        /\ IF_flag' = left[t]
        /\ UNCHANGED irq0

MainDispatch ==
    /\ main = "adding"
    /\ \A t \in Thread \ {First} : pc[t] # "new"
    /\ main' = "gone"
    /\ pc' = [pc EXCEPT ![First] = "start"]
    /\ dispatch_to(First)
    /\ SwitchFlag(First)
    /\ UNCHANGED <<ready_queue, burst>>

-----------------------------------------------------------------------------
(* What the running thread does.                                           *)

At(t, where) == current_thread = t /\ pc[t] = where

Goto(t, where) == pc' = [pc EXCEPT ![t] = where]

\* Deviation: thread_start forgets to enable interrupts (the body P5 has).
ThreadStart_silent(t) ==
    /\ At(t, "start")
    /\ Goto(t, "run")
    /\ UNCHANGED <<schedVars, main, burst, cpuVars>>

ThreadStart(t) ==
    /\ At(t, "start")
    /\ Goto(t, "run")
    /\ IF_flag' = (IF_flag \/ StartEnables)
    /\ UNCHANGED <<schedVars, main, burst, saved_IF, irq0>>

\* Deviation: pass_on_CPU yields without queueing the thread again.
Resume_forgotten(t) ==
    /\ At(t, "run")
    /\ t \in Forever \/ burst[t] < NB_ITERATIONS
    /\ burst' = IF t \in Forever THEN burst ELSE [burst EXCEPT ![t] = @ + 1]
    /\ Goto(t, "resumed")
    /\ UNCHANGED <<schedVars, main, cpuVars>>

\* Deviation: the thread function's loop does not end.
Resume_uncapped(t) ==
    /\ At(t, "run")
    /\ burst' = IF t \in Forever THEN burst ELSE [burst EXCEPT ![t] = @ + 1]
    /\ resume(t)
    /\ Goto(t, "resumed")
    /\ UNCHANGED <<current_thread, main, cpuVars>>

\* First half of pass_on_CPU: resume(CurrentThread()).
Resume(t) ==
    /\ At(t, "run")
    /\ t \in Forever \/ burst[t] < NB_ITERATIONS
    /\ burst' = IF t \in Forever THEN burst ELSE [burst EXCEPT ![t] = @ + 1]
    /\ resume(t)
    /\ Goto(t, "resumed")
    /\ UNCHANGED <<current_thread, main, cpuVars>>

\* Second half: yield(). The thread goes on in its function when it is next dispatched.
Yield(t) ==
    /\ At(t, "resumed")
    /\ yield
    /\ Goto(t, "run")
    /\ IF front(ready_queue) # NULL THEN SwitchFlag(front(ready_queue)) ELSE UNCHANGED cpuVars
    /\ UNCHANGED <<main, burst>>

\* The thread function returns into thread_shutdown, as setup_context arranged.
Return(t) ==
    /\ At(t, "run")
    /\ t \notin Forever
    /\ burst[t] = NB_ITERATIONS
    /\ Goto(t, "shutdown")
    /\ UNCHANGED <<schedVars, main, burst, cpuVars>>

\* Deviation: a finished thread is queued again instead of removed.
ShutdownTerminate_requeues(t) ==
    /\ At(t, "shutdown")
    /\ resume(t)
    /\ Goto(t, "terminated")
    /\ UNCHANGED <<current_thread, main, burst, cpuVars>>

ShutdownTerminate(t) ==
    /\ At(t, "shutdown")
    /\ terminate(t)
    /\ Goto(t, "terminated")
    /\ UNCHANGED <<current_thread, main, burst, cpuVars>>

\* yield() comes back only if there was nobody to dispatch; thread_shutdown then
\* returns to the word above it on the stack, the argument 0: the CPU is lost.
ShutdownYield(t) ==
    /\ At(t, "terminated")
    /\ yield
    /\ IF front(ready_queue) # NULL
       THEN Goto(t, "dead") /\ SwitchFlag(front(ready_queue))
       ELSE Goto(t, "lost") /\ UNCHANGED cpuVars
    /\ UNCHANGED <<main, burst>>

ThreadStep(t) ==
    \/ ThreadStart(t) \/ Resume(t) \/ Yield(t)
    \/ Return(t) \/ ShutdownTerminate(t) \/ ShutdownYield(t)

-----------------------------------------------------------------------------
(* The timer chip raises IRQ 0; the CPU takes it only with the flag set,   *)
(* and its handler runs to its iret with the flag clear (interrupt gate).  *)

TimerFires ==
    /\ ~irq0
    /\ irq0' = TRUE
    /\ UNCHANGED <<schedVars, main, pc, burst, IF_flag, saved_IF>>

TimerInterrupt ==
    /\ IF_flag /\ irq0
    /\ irq0' = FALSE
    /\ UNCHANGED <<schedVars, main, pc, burst, IF_flag, saved_IF>>

Next ==
    \/ MainEnable
    \/ \E t \in Thread : MainAdd(t)
    \/ MainDispatch
    \/ \E t \in Thread : ThreadStep(t)
    \/ TimerFires
    \/ TimerInterrupt

\* The CPU goes on executing the code it is in, the timer chip is programmed to
\* fire for ever, and a pending interrupt is taken while the flag stays set.
Fairness ==
    /\ WF_vars(MainEnable \/ (\E t \in Thread : MainAdd(t)) \/ MainDispatch)
    /\ \A t \in Thread : WF_vars(ThreadStep(t))
    /\ WF_vars(TimerFires)
    /\ WF_vars(TimerInterrupt)

Spec == Init /\ [][Next]_vars /\ Fairness

-----------------------------------------------------------------------------
(* Properties.                                                             *)

TypeOK ==
    /\ SchedTypeOK
    /\ main \in {"init", "adding", "gone"}
    /\ pc \in [Thread -> Location]
    /\ burst \in [Thread -> 0..NB_ITERATIONS]
    /\ IF_flag \in BOOLEAN
    /\ saved_IF \in [Thread -> BOOLEAN]
    /\ irq0 \in BOOLEAN

Queued(t) == t \in Range(ready_queue)

\* No thread is lost or doubled: one that can run is waiting in the ready queue, once,
\* or has the CPU; one that is over (or not yet admitted) is neither queued nor running,
\* so yield() never dispatches it (scheduler.C, pass_on_CPU, thread_shutdown).
NoThreadLost ==
    /\ NoDuplicates(ready_queue)
    /\ \A t \in Thread :
          /\ pc[t] \in {"start", "run"} => (Queued(t) <=> current_thread # t)
          /\ pc[t] = "resumed" => Queued(t) /\ current_thread = t
          /\ pc[t] \in {"shutdown", "terminated"} => ~Queued(t) /\ current_thread = t
          /\ pc[t] \in {"new", "dead"} => ~Queued(t) /\ current_thread # t

\* yield() in thread_shutdown always finds a thread to dispatch and so never returns:
\* the CPU does not run off the end of a finished thread's stack (thread.C:79-81).
CpuStaysInCode == \A t \in Thread : pc[t] # "lost"

\* thread_start() finds interrupts disabled, as Machine::enable_interrupts() asserts
\* (machine.C:32), and from then on a thread runs with the flag thread_start left it,
\* whatever switches it has been through.
InterruptFlagKept ==
    \A t \in Thread : current_thread = t => (IF_flag <=> (pc[t] # "start" /\ StartEnables))

\* Once queued, a thread gets the CPU, whatever the others do: they pass the CPU on
\* after each burst and join behind it (scheduler.C:55-69).
StarvationFree == \A t \in Thread : Queued(t) ~> (current_thread = t)

\* A pending timer interrupt is taken: "If we forget to do it, the timer dies"
\* (kernel.C:305-307 in P6).
TimerAlive == irq0 ~> ~irq0

\* The ring of RoundRobin: the running thread, then the ready queue; between resume()
\* and yield() the running thread is already in the queue as well, at its end.
Ring ==
    IF current_thread = NULL THEN ready_queue
    ELSE IF pc[current_thread] = "resumed"
         THEN <<current_thread>> \o SubSeq(ready_queue, 1, Len(ready_queue) - 1)
         ELSE <<current_thread>> \o ready_queue

RR == INSTANCE RoundRobin WITH ring <- Ring, started <- (main = "gone")

\* Boot, scheduler, dispatcher and thread life implement the ring: FIFO turns, no
\* overtaking, no thread leaving but from its own turn, and the ring keeps turning.
RoundRobinOrder == RR!Spec
=============================================================================
