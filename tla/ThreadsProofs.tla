--------------------------- MODULE ThreadsProofs ---------------------------
(***************************************************************************)
(* Theorems about Threads.tla, for any number of threads: the type         *)
(* invariant, no thread lost or doubled, the CPU never off the end of a    *)
(* finished thread, the interrupt flag through every switch, and the round *)
(* robin.  They rest on one inductive invariant, Consistent; the last also *)
(* needs ResumedIsLast.                                                    *)
(***************************************************************************)
EXTENDS Threads, ReadyListProofs

\* The start-up code leaves no thread behind: until the first dispatch nobody runs and
\* the first thread is not in the queue, and afterwards every thread has been admitted.
BootConsistent ==
    /\ current_thread = NULL <=> main # "gone"
    /\ main # "gone" => pc[First] = "new" /\ \A t \in Thread : pc[t] \in {"new", "start"}
    /\ main = "gone" => \A t \in Thread : pc[t] # "new"

\* A thread whose function never returns is never on the way out.
ForeverRuns == \A t \in Forever : pc[t] \in {"new", "start", "run", "resumed"}

\* The flag in a suspended thread's saved context: clear until it has started, and what
\* thread_start left from then on.
SavedFlagKept ==
    \A t \in Thread : current_thread # t =>
        /\ pc[t] \in {"new", "start"} => saved_IF[t] = FALSE
        /\ pc[t] = "run" => saved_IF[t] = StartEnables

Consistent ==
    /\ TypeOK
    /\ BootConsistent
    /\ ForeverRuns
    /\ NoThreadLost
    /\ CpuStaysInCode
    /\ InterruptFlagKept
    /\ SavedFlagKept

-----------------------------------------------------------------------------

\* What every step preserves is true at the start.
LEMMA InitConsistent == Init => Consistent
<1> SUFFICES ASSUME Init PROVE Consistent
  OBVIOUS
<1> USE ThreadsAssumption, NullAssumption DEF Init, SchedInit, InitialEflagsIF
<1>1. SchedTypeOK
  <2>1. <<>> \in Seq(Thread)
    OBVIOUS
  <2> QED
    BY <2>1 DEF SchedTypeOK
<1>2. TypeOK
  <2>1. 0 \in 0..NB_ITERATIONS
    OBVIOUS
  <2> QED
    BY <1>1, <2>1 DEF TypeOK, Location
<1>3. BootConsistent /\ ForeverRuns /\ CpuStaysInCode /\ InterruptFlagKept /\ SavedFlagKept
  BY DEF BootConsistent, ForeverRuns, CpuStaysInCode, InterruptFlagKept, SavedFlagKept
<1>4. NoThreadLost
  BY EmptyHasNoElements DEF NoThreadLost, NoDuplicates, Queued
<1> QED
  BY <1>2, <1>3, <1>4 DEF Consistent

\* main() lets interrupts in, and nothing else happens.
LEMMA MainEnableConsistent == Consistent /\ MainEnable => Consistent'
<1> SUFFICES ASSUME Consistent, MainEnable PROVE Consistent'
  OBVIOUS
<1> USE ThreadsAssumption, NullAssumption DEF Consistent, MainEnable, schedVars
<1>1. TypeOK'
  BY DEF TypeOK, SchedTypeOK
<1>2. BootConsistent' /\ ForeverRuns' /\ CpuStaysInCode'
  BY DEF BootConsistent, ForeverRuns, CpuStaysInCode
<1>3. NoThreadLost'
  BY DEF NoThreadLost, Queued
<1>4. InterruptFlagKept' /\ SavedFlagKept'
  BY DEF BootConsistent, InterruptFlagKept, SavedFlagKept
<1> QED
  BY <1>1, <1>2, <1>3, <1>4

\* A thread that main() adds enters the queue and becomes ready to start.
LEMMA MainAddConsistent ==
    ASSUME NEW t \in Thread, Consistent, MainAdd(t)
    PROVE  Consistent'
<1> USE ThreadsAssumption, NullAssumption DEF Consistent, MainAdd, add, cpuVars
<1>1. ready_queue \in Seq(Thread) /\ NoDuplicates(ready_queue) /\ t \notin Range(ready_queue)
  BY DEF TypeOK, SchedTypeOK, NoThreadLost, Queued
<1>2. /\ ready_queue' \in Seq(Thread)
      /\ Range(ready_queue') = Range(ready_queue) \cup {t}
      /\ NoDuplicates(ready_queue')
  BY ZenonT(30), <1>1, PushBackElements, PushBackKeepsNoDuplicates
<1>3. pc \in [Thread -> Location] /\ pc' = [pc EXCEPT ![t] = "start"]
  BY DEF TypeOK
<1>4. TypeOK'
  BY <1>2, <1>3 DEF TypeOK, SchedTypeOK, Location
<1>5. BootConsistent' /\ ForeverRuns' /\ CpuStaysInCode'
  BY <1>3 DEF BootConsistent, ForeverRuns, CpuStaysInCode
<1>6. current_thread = NULL /\ \A u \in Thread : pc[u] \in {"new", "start"}
  BY DEF BootConsistent
<1>7. NoThreadLost'
  BY <1>2, <1>3, <1>6 DEF NoThreadLost, Queued
<1>8. InterruptFlagKept' /\ SavedFlagKept'
  BY <1>3, <1>6 DEF InterruptFlagKept, SavedFlagKept
<1> QED
  BY <1>4, <1>5, <1>7, <1>8

\* The first dispatch: from the start-up code to First, with the flag of its faked frame.
LEMMA MainDispatchConsistent == Consistent /\ MainDispatch => Consistent'
<1> SUFFICES ASSUME Consistent, MainDispatch PROVE Consistent'
  OBVIOUS
<1> USE ThreadsAssumption, NullAssumption DEF Consistent, MainDispatch, dispatch_to
<1>1. pc \in [Thread -> Location] /\ pc' = [pc EXCEPT ![First] = "start"]
  BY DEF TypeOK
<1>2. /\ current_thread = NULL
      /\ pc[First] = "new"
      /\ \A t \in Thread : pc[t] \in {"new", "start"}
      /\ current_thread' = First
  BY DEF BootConsistent
<1>3. saved_IF' = saved_IF /\ IF_flag' = saved_IF[First] /\ irq0' = irq0
  BY <1>2 DEF SwitchFlag
<1>4. TypeOK'
  BY <1>1, <1>2, <1>3 DEF TypeOK, SchedTypeOK, Location
<1>5. BootConsistent' /\ ForeverRuns' /\ CpuStaysInCode'
  BY <1>1, <1>2 DEF BootConsistent, ForeverRuns, CpuStaysInCode
<1>6. NoThreadLost'
  BY <1>1, <1>2 DEF NoThreadLost, Queued
<1>7. InterruptFlagKept' /\ SavedFlagKept'
  BY <1>1, <1>2, <1>3 DEF InterruptFlagKept, SavedFlagKept
<1> QED
  BY <1>4, <1>5, <1>6, <1>7

-----------------------------------------------------------------------------
(* What the running thread does.  The start-up code is over by then, so     *)
(* every thread has been admitted.                                         *)

\* thread_start(): the flag goes from clear to what StartEnables says.
LEMMA ThreadStartConsistent ==
    ASSUME NEW t \in Thread, Consistent, ThreadStart(t)
    PROVE  Consistent'
<1> USE ThreadsAssumption, NullAssumption DEF Consistent, ThreadStart, At, Goto, schedVars
<1>1. pc \in [Thread -> Location] /\ pc' = [pc EXCEPT ![t] = "run"]
  BY DEF TypeOK
<1>2. ~IF_flag
  BY DEF InterruptFlagKept
<1>3. TypeOK'
  BY <1>1 DEF TypeOK, SchedTypeOK, Location
<1>4. BootConsistent' /\ ForeverRuns' /\ CpuStaysInCode'
  BY <1>1 DEF BootConsistent, ForeverRuns, CpuStaysInCode
<1>5. NoThreadLost'
  BY <1>1 DEF NoThreadLost, Queued
<1>6. InterruptFlagKept' /\ SavedFlagKept'
  BY <1>1, <1>2 DEF InterruptFlagKept, SavedFlagKept, TypeOK
<1> QED
  BY <1>3, <1>4, <1>5, <1>6

\* First half of pass_on_CPU: the running thread, which was not queued, is now.
LEMMA ResumeConsistent ==
    ASSUME NEW t \in Thread, Consistent, Resume(t)
    PROVE  Consistent'
<1> USE ThreadsAssumption, NullAssumption
        DEF Consistent, Resume, resume, At, Goto, cpuVars
<1>1. pc \in [Thread -> Location] /\ pc' = [pc EXCEPT ![t] = "resumed"]
  BY DEF TypeOK
<1>2. ready_queue \in Seq(Thread) /\ NoDuplicates(ready_queue) /\ t \notin Range(ready_queue)
  BY DEF TypeOK, SchedTypeOK, NoThreadLost, Queued
<1>3. /\ ready_queue' \in Seq(Thread)
      /\ Range(ready_queue') = Range(ready_queue) \cup {t}
      /\ NoDuplicates(ready_queue')
  BY ZenonT(30), <1>2, PushBackElements, PushBackKeepsNoDuplicates
<1>4. burst' \in [Thread -> 0..NB_ITERATIONS]
  BY DEF TypeOK
<1>5. TypeOK'
  BY <1>1, <1>3, <1>4 DEF TypeOK, SchedTypeOK, Location
<1>6. BootConsistent' /\ ForeverRuns' /\ CpuStaysInCode'
  BY <1>1 DEF BootConsistent, ForeverRuns, CpuStaysInCode
<1>7. NoThreadLost'
  BY <1>1, <1>3 DEF NoThreadLost, Queued
<1>8. InterruptFlagKept' /\ SavedFlagKept'
  BY <1>1 DEF InterruptFlagKept, SavedFlagKept
<1> QED
  BY <1>5, <1>6, <1>7, <1>8

\* What yield() does when the queue is not empty: its front leaves it and runs.
LEMMA YieldDispatches ==
    ASSUME TypeOK, NoDuplicates(ready_queue), ready_queue # <<>>, yield
    PROVE  /\ current_thread' = front(ready_queue)
           /\ front(ready_queue) \in Thread
           /\ Queued(front(ready_queue))
           /\ ready_queue' \in Seq(Thread)
           /\ NoDuplicates(ready_queue')
           /\ Range(ready_queue') = Range(ready_queue) \ {front(ready_queue)}
<1>1. ready_queue \in Seq(Thread) /\ NULL \notin Thread
  BY NullAssumption DEF TypeOK, SchedTypeOK
<1>2. front(ready_queue) \in Thread /\ front(ready_queue) \in Range(ready_queue)
  BY <1>1, FrontIsAnElement
<1>3. /\ pop_front(ready_queue) \in Seq(Thread)
      /\ NoDuplicates(pop_front(ready_queue))
      /\ Range(pop_front(ready_queue)) = Range(ready_queue) \ {front(ready_queue)}
  BY <1>1, PopFrontElements
<1> QED
  BY <1>1, <1>2, <1>3 DEF yield, yield_from, dispatch_to, Queued

\* Second half of pass_on_CPU: the queue is not empty, for the thread itself is in it.
\* The flag travels with the thread that leaves and comes back with the one that enters.
LEMMA YieldConsistent ==
    ASSUME NEW t \in Thread, Consistent, Yield(t)
    PROVE  Consistent'
<1> USE ThreadsAssumption, NullAssumption DEF Consistent, Yield, At, Goto
<1> DEFINE n == front(ready_queue)
<1>1. pc \in [Thread -> Location] /\ pc' = [pc EXCEPT ![t] = "run"]
  BY DEF TypeOK
<1>2. ready_queue # <<>> /\ NoDuplicates(ready_queue) /\ Queued(t) /\ current_thread = t
  BY EmptyHasNoElements DEF NoThreadLost, Queued
<1>3. /\ current_thread' = n /\ n \in Thread /\ Queued(n)
      /\ ready_queue' \in Seq(Thread)
      /\ NoDuplicates(ready_queue')
      /\ Range(ready_queue') = Range(ready_queue) \ {n}
  BY <1>2, YieldDispatches
<1>4. /\ saved_IF' = [saved_IF EXCEPT ![t] = IF_flag]
      /\ IF_flag' = saved_IF'[n]
      /\ irq0' = irq0
  BY <1>2, <1>3 DEF SwitchFlag
<1>5. IF_flag = StartEnables
  BY <1>2 DEF InterruptFlagKept, TypeOK
<1>6. saved_IF \in [Thread -> BOOLEAN] /\ IF_flag \in BOOLEAN
  BY DEF TypeOK
<1> HIDE DEF n
<1>7. TypeOK'
  BY <1>1, <1>3, <1>4, <1>6 DEF TypeOK, SchedTypeOK, Location
<1>8. BootConsistent' /\ ForeverRuns' /\ CpuStaysInCode'
  BY <1>1, <1>2, <1>3 DEF BootConsistent, ForeverRuns, CpuStaysInCode
<1>9. NoThreadLost'
  BY <1>1, <1>2, <1>3 DEF NoThreadLost, Queued, BootConsistent
<1>10. n # t => pc[n] \in {"start", "run"}
  BY <1>1, <1>2, <1>3 DEF NoThreadLost, Location, CpuStaysInCode
<1>11. InterruptFlagKept'
  BY <1>1, <1>2, <1>3, <1>4, <1>5, <1>6, <1>10 DEF InterruptFlagKept, SavedFlagKept
<1>12. SavedFlagKept'
  BY <1>1, <1>2, <1>3, <1>4, <1>5, <1>6 DEF SavedFlagKept
<1> QED
  BY <1>7, <1>8, <1>9, <1>11, <1>12

\* The thread function returns: only one that is not to run for ever does.
LEMMA ReturnConsistent ==
    ASSUME NEW t \in Thread, Consistent, Return(t)
    PROVE  Consistent'
<1> USE ThreadsAssumption, NullAssumption
        DEF Consistent, Return, At, Goto, schedVars, cpuVars
<1>1. pc \in [Thread -> Location] /\ pc' = [pc EXCEPT ![t] = "shutdown"]
  BY DEF TypeOK
<1>2. TypeOK'
  BY <1>1 DEF TypeOK, SchedTypeOK, Location
<1>3. BootConsistent' /\ ForeverRuns' /\ CpuStaysInCode'
  BY <1>1 DEF BootConsistent, ForeverRuns, CpuStaysInCode
<1>4. NoThreadLost'
  BY <1>1 DEF NoThreadLost, Queued
<1>5. InterruptFlagKept' /\ SavedFlagKept'
  BY <1>1 DEF InterruptFlagKept, SavedFlagKept
<1> QED
  BY <1>2, <1>3, <1>4, <1>5

\* terminate() on the running thread, which is not queued: nothing to take out.
LEMMA ShutdownTerminateConsistent ==
    ASSUME NEW t \in Thread, Consistent, ShutdownTerminate(t)
    PROVE  Consistent'
<1> USE ThreadsAssumption, NullAssumption
        DEF Consistent, ShutdownTerminate, terminate, At, Goto, cpuVars
<1>1. pc \in [Thread -> Location] /\ pc' = [pc EXCEPT ![t] = "terminated"]
  BY DEF TypeOK
<1>2. ready_queue' = ready_queue
  BY RemoveAbsent DEF NoThreadLost, Queued
<1>3. TypeOK'
  BY <1>1, <1>2 DEF TypeOK, SchedTypeOK, Location
<1>4. BootConsistent' /\ ForeverRuns' /\ CpuStaysInCode'
  BY <1>1 DEF BootConsistent, ForeverRuns, CpuStaysInCode
<1>5. NoThreadLost'
  BY <1>1, <1>2 DEF NoThreadLost, Queued
<1>6. InterruptFlagKept' /\ SavedFlagKept'
  BY <1>1 DEF InterruptFlagKept, SavedFlagKept
<1> QED
  BY <1>3, <1>4, <1>5, <1>6

\* yield() in thread_shutdown: a thread that runs for ever is waiting in the queue, so
\* another thread is dispatched and the finished one is never seen again.
LEMMA ShutdownYieldConsistent ==
    ASSUME NEW t \in Thread, Consistent, ShutdownYield(t)
    PROVE  Consistent'
<1> USE ThreadsAssumption, NullAssumption DEF Consistent, ShutdownYield, At, Goto
<1> DEFINE n == front(ready_queue)
<1>1. NoDuplicates(ready_queue) /\ ~Queued(t) /\ current_thread = t
  BY DEF NoThreadLost
<1>2. ready_queue # <<>>
  <2>1. PICK f \in Forever : f \in Thread
    OBVIOUS
  <2>2. f # t /\ pc[f] \in {"start", "run", "resumed"}
    BY <2>1, <1>1 DEF ForeverRuns, BootConsistent
  <2>3. pc[f] \in {"start", "run"}
    BY <2>1, <2>2, <1>1 DEF NoThreadLost
  <2>4. Queued(f)
    BY <2>1, <2>2, <2>3, <1>1 DEF NoThreadLost
  <2> QED
    BY <2>4, EmptyHasNoElements DEF Queued
<1>3. /\ current_thread' = n /\ n \in Thread /\ Queued(n)
      /\ ready_queue' \in Seq(Thread)
      /\ NoDuplicates(ready_queue')
      /\ Range(ready_queue') = Range(ready_queue) \ {n}
  BY <1>1, <1>2, YieldDispatches
<1>4. n # t /\ n # NULL
  BY <1>1, <1>3
<1>5. pc \in [Thread -> Location] /\ pc' = [pc EXCEPT ![t] = "dead"]
  BY <1>4 DEF TypeOK
<1>6. /\ saved_IF' = [saved_IF EXCEPT ![t] = IF_flag]
      /\ IF_flag' = saved_IF'[n]
      /\ irq0' = irq0
  BY <1>1, <1>4 DEF SwitchFlag
<1>7. saved_IF \in [Thread -> BOOLEAN] /\ IF_flag \in BOOLEAN
  BY DEF TypeOK
<1> HIDE DEF n
<1>8. TypeOK'
  BY <1>3, <1>5, <1>6, <1>7 DEF TypeOK, SchedTypeOK, Location
<1>9. BootConsistent' /\ ForeverRuns' /\ CpuStaysInCode'
  BY <1>1, <1>3, <1>5 DEF BootConsistent, ForeverRuns, CpuStaysInCode
<1>10. NoThreadLost'
  BY <1>1, <1>3, <1>4, <1>5 DEF NoThreadLost, Queued
<1>11. pc[n] \in {"start", "run"}
  BY <1>1, <1>3, <1>4, <1>5 DEF NoThreadLost, Location, CpuStaysInCode
<1>12. InterruptFlagKept'
  BY <1>1, <1>3, <1>4, <1>5, <1>6, <1>7, <1>11 DEF InterruptFlagKept, SavedFlagKept
<1>13. SavedFlagKept'
  BY <1>1, <1>3, <1>4, <1>5, <1>6, <1>7 DEF SavedFlagKept
<1> QED
  BY <1>8, <1>9, <1>10, <1>12, <1>13

-----------------------------------------------------------------------------

\* The timer comes and goes without touching a thread; so does a stuttering step.
LEMMA TimerConsistent ==
    ASSUME Consistent, TimerFires \/ TimerInterrupt \/ UNCHANGED vars
    PROVE  Consistent'
<1> USE DEF Consistent, TimerFires, TimerInterrupt, vars, schedVars, cpuVars
<1>1. TypeOK'
  BY DEF TypeOK, SchedTypeOK
<1>2. BootConsistent' /\ ForeverRuns' /\ CpuStaysInCode'
  BY DEF BootConsistent, ForeverRuns, CpuStaysInCode
<1>3. NoThreadLost'
  BY DEF NoThreadLost, Queued
<1>4. InterruptFlagKept' /\ SavedFlagKept'
  BY DEF InterruptFlagKept, SavedFlagKept
<1> QED
  BY <1>1, <1>2, <1>3, <1>4

\* Every step of the start-up code, a thread or the timer preserves it.
LEMMA NextConsistent == Consistent /\ [Next]_vars => Consistent'
<1> SUFFICES ASSUME Consistent, [Next]_vars PROVE Consistent'
  OBVIOUS
<1>1. CASE MainEnable
  BY <1>1, MainEnableConsistent
<1>2. ASSUME NEW t \in Thread, MainAdd(t) PROVE Consistent'
  BY <1>2, MainAddConsistent
<1>3. CASE MainDispatch
  BY <1>3, MainDispatchConsistent
<1>4. ASSUME NEW t \in Thread, ThreadStep(t) PROVE Consistent'
  BY <1>4, ThreadStartConsistent, ResumeConsistent, YieldConsistent, ReturnConsistent,
     ShutdownTerminateConsistent, ShutdownYieldConsistent DEF ThreadStep
<1>5. CASE TimerFires \/ TimerInterrupt \/ UNCHANGED vars
  BY <1>5, TimerConsistent
<1> QED
  BY <1>1, <1>2, <1>3, <1>4, <1>5 DEF Next

\* In every reachable state, whatever the number of threads.
THEOREM AlwaysConsistent == Spec => []Consistent
  BY InitConsistent, NextConsistent, PTL DEF Spec

\* The types of the scheduler's, the threads' and the CPU's state.
THEOREM TypeCorrect == Spec => []TypeOK
<1>1. Consistent => TypeOK
  BY DEF Consistent
<1> QED
  BY <1>1, AlwaysConsistent, PTL

\* resume, yield, terminate and thread_shutdown lose no thread and double none.
THEOREM ThreadsAreNeverLost == Spec => []NoThreadLost
<1>1. Consistent => NoThreadLost
  BY DEF Consistent
<1> QED
  BY <1>1, AlwaysConsistent, PTL

\* thread_shutdown never gets control back from yield().
THEOREM ShutdownNeverReturns == Spec => []CpuStaysInCode
<1>1. Consistent => CpuStaysInCode
  BY DEF Consistent
<1> QED
  BY <1>1, AlwaysConsistent, PTL

\* No switch changes the interrupt flag a thread runs with, and thread_start's assertion
\* that interrupts are off holds.
THEOREM SwitchesKeepInterruptFlag == Spec => []InterruptFlagKept
<1>1. Consistent => InterruptFlagKept
  BY DEF Consistent
<1> QED
  BY <1>1, AlwaysConsistent, PTL

-----------------------------------------------------------------------------
(* The ring: the safety half of Threads!RoundRobinOrder.  Boot, scheduler, *)
(* dispatcher and thread life implement RoundRobin.tla step by step; that  *)
(* the ring keeps turning is liveness and stays with TLC.                  *)

\* Between resume() and yield() the running thread is the newest of the queue: nobody
\* else runs, so nobody has joined behind it (pass_on_CPU in kernel.C).
ResumedIsLast ==
    \A t \in Thread : pc[t] = "resumed" =>
        /\ ready_queue # <<>>
        /\ ready_queue[Len(ready_queue)] = t

-----------------------------------------------------------------------------
(* Sequences.                                                              *)

\* What stands in front of a sequence is its head, and the rest its tail.
LEMMA ConsHeadTail ==
    ASSUME NEW S, NEW q \in Seq(S), NEW x \in S
    PROVE  /\ Head(<<x>> \o q) = x
           /\ Tail(<<x>> \o q) = q
           /\ Len(<<x>> \o q) = Len(q) + 1
  OBVIOUS

\* Dispatching the front of a queue and keeping the rest rebuilds the queue as a ring.
LEMMA FrontThenRest ==
    ASSUME NEW S, NEW q \in Seq(S), q # <<>>
    PROVE  <<Head(q)>> \o Tail(q) = q
  OBVIOUS

\* Cutting off what has just been pushed gives the sequence back.
LEMMA PushThenCut ==
    ASSUME NEW S, NEW q \in Seq(S), NEW x \in S
    PROVE  SubSeq(Append(q, x), 1, Len(Append(q, x)) - 1) = q
  OBVIOUS

\* Pushing the last element after cutting it off gives the sequence back.
LEMMA CutThenPush ==
    ASSUME NEW S, NEW q \in Seq(S), q # <<>>
    PROVE  /\ SubSeq(q, 1, Len(q) - 1) \in Seq(S)
           /\ Append(SubSeq(q, 1, Len(q) - 1), q[Len(q)]) = q
  OBVIOUS

-----------------------------------------------------------------------------
(* The running thread stays the newest of the queue until it yields.       *)

\* No thread has run yet.
LEMMA InitResumedIsLast == Init => ResumedIsLast
  BY DEF Init, ResumedIsLast

\* Only resume() leads between resume() and yield(), and it has just pushed the thread.
LEMMA ThreadStepResumedIsLast ==
    ASSUME NEW t \in Thread, Consistent, ResumedIsLast, ThreadStep(t)
    PROVE  ResumedIsLast'
<1> USE DEF At, Goto
<1>1. /\ ready_queue \in Seq(Thread)
      /\ pc \in [Thread -> Location]
      /\ \A u \in Thread : pc[u] = "resumed" => current_thread = u
  BY DEF Consistent, TypeOK, SchedTypeOK, NoThreadLost
<1>2. CASE ThreadStart(t)
  BY <1>1, <1>2 DEF ThreadStart, schedVars, ResumedIsLast
<1>3. CASE Resume(t)
  <2>1. ready_queue' # <<>> /\ ready_queue'[Len(ready_queue')] = t
    BY <1>1, <1>3 DEF Resume, resume, push_back
  <2> QED
    BY <1>1, <1>3, <2>1 DEF Resume, ResumedIsLast
<1>4. CASE Yield(t)
  BY <1>1, <1>4 DEF Yield, ResumedIsLast
<1>5. CASE Return(t)
  BY <1>1, <1>5 DEF Return, schedVars, ResumedIsLast
<1>6. CASE ShutdownTerminate(t)
  BY <1>1, <1>6 DEF ShutdownTerminate, ResumedIsLast
<1>7. CASE ShutdownYield(t)
  <2>1. \A u \in Thread : pc'[u] # "resumed"
    BY <1>1, <1>7 DEF ShutdownYield
  <2> QED
    BY <2>1 DEF ResumedIsLast
<1> QED
  BY <1>2, <1>3, <1>4, <1>5, <1>6, <1>7 DEF ThreadStep

\* The start-up code and the timer leave the running thread where it is.
LEMMA NextResumedIsLast ==
    Consistent /\ ResumedIsLast /\ [Next]_vars => ResumedIsLast'
<1> SUFFICES ASSUME Consistent, ResumedIsLast, [Next]_vars PROVE ResumedIsLast'
  OBVIOUS
<1>1. ASSUME main # "gone", MainDispatch \/ \E t \in Thread : MainAdd(t)
      PROVE  ResumedIsLast'
  <2>1. pc \in [Thread -> Location] /\ \A t \in Thread : pc[t] \in {"new", "start"}
    BY <1>1 DEF Consistent, BootConsistent, TypeOK
  <2>2. \A t \in Thread : pc'[t] \in {"new", "start"}
    BY <1>1, <2>1 DEF MainAdd, MainDispatch
  <2> QED
    BY <2>2 DEF ResumedIsLast
<1>2. CASE MainEnable \/ TimerFires \/ TimerInterrupt \/ UNCHANGED vars
  BY <1>2 DEF MainEnable, TimerFires, TimerInterrupt, vars, schedVars, ResumedIsLast
<1> QED
  BY <1>1, <1>2, ThreadStepResumedIsLast DEF Next, MainAdd, MainDispatch

-----------------------------------------------------------------------------
(* Every step of the threads is a step of the ring, or none.               *)

\* The ring is empty before main() admits the first thread.
LEMMA InitRing == Init => RR!Init
  BY DEF Init, SchedInit, RR!Init, Ring

\* main() admits the threads, each behind the ones before.
LEMMA MainAddAdmits ==
    ASSUME NEW t \in Thread, Consistent, MainAdd(t)
    PROVE  RR!Admit(t)
<1>1. current_thread = NULL /\ main = "adding" /\ t \notin Range(ready_queue)
  BY DEF MainAdd, Consistent, BootConsistent, NoThreadLost, Queued
<1> QED
  BY <1>1 DEF MainAdd, add, push_back, RR!Admit, RR!Range, Range, Ring

\* The direct dispatch of main() puts First, which is not queued, before all the others.
LEMMA MainDispatchKicksOff ==
    ASSUME Consistent, MainDispatch
    PROVE  RR!KickOff(First)
<1>1. current_thread = NULL /\ main = "adding" /\ First \notin Range(ready_queue)
  BY ThreadsAssumption DEF MainDispatch, Consistent, BootConsistent, NoThreadLost, Queued
<1>2. pc'[First] = "start" /\ current_thread' = First /\ First # NULL
  BY NullAssumption, ThreadsAssumption DEF MainDispatch, dispatch_to, Consistent, TypeOK
<1> QED
  BY <1>1, <1>2 DEF MainDispatch, RR!KickOff, RR!Range, Range, Ring

\* What happens inside a turn does not move the ring.
LEMMA TurnKeepsRing ==
    ASSUME NEW t \in Thread, Consistent, ResumedIsLast,
           ThreadStart(t) \/ Resume(t) \/ Return(t) \/ ShutdownTerminate(t)
    PROVE  UNCHANGED RR!ringVars
<1> USE DEF At, Goto, RR!ringVars, Ring
<1>1. /\ ready_queue \in Seq(Thread)
      /\ pc \in [Thread -> Location]
      /\ t # NULL
  BY NullAssumption DEF Consistent, TypeOK, SchedTypeOK
<1>2. CASE ThreadStart(t)
  BY <1>1, <1>2 DEF ThreadStart, schedVars
<1>3. CASE Resume(t)
  BY <1>1, <1>3, PushThenCut DEF Resume, resume, push_back
<1>4. CASE Return(t)
  BY <1>1, <1>4 DEF Return, schedVars
<1>5. CASE ShutdownTerminate(t)
  <2>1. ready_queue' = ready_queue
    BY <1>5, RemoveAbsent
       DEF ShutdownTerminate, terminate, Consistent, NoThreadLost, Queued
  <2> QED
    BY <1>1, <1>5, <2>1 DEF ShutdownTerminate
<1> QED
  BY <1>2, <1>3, <1>4, <1>5

\* yield() after resume() passes the turn to the oldest thread of the queue.
LEMMA YieldPassesOn ==
    ASSUME NEW t \in Thread, Consistent, ResumedIsLast, Yield(t)
    PROVE  RR!PassOn
<1> DEFINE q == ready_queue
           cut == SubSeq(q, 1, Len(q) - 1)
<1>1. /\ q \in Seq(Thread) /\ q # <<>> /\ q[Len(q)] = t
      /\ current_thread = t /\ pc[t] = "resumed" /\ t # NULL
      /\ pc \in [Thread -> Location]
      /\ main = "gone" /\ main' = main
  BY NullAssumption
     DEF Yield, At, ResumedIsLast, Consistent, TypeOK, SchedTypeOK, BootConsistent
<1>2. /\ ready_queue' = Tail(q) /\ current_thread' = Head(q)
      /\ Head(q) \in Thread /\ Head(q) # NULL
  BY <1>1, NullAssumption
     DEF Yield, yield, yield_from, front, pop_front, dispatch_to
<1>3. pc'[Head(q)] # "resumed"
  BY <1>1, <1>2 DEF Yield, Goto, Consistent, NoThreadLost
<1>4. Ring = <<t>> \o cut /\ cut \in Seq(Thread) /\ Append(cut, t) = q
  BY <1>1, CutThenPush DEF Ring
<1>5. Ring' = <<Head(q)>> \o Tail(q)
  BY <1>2, <1>3 DEF Ring
<1>6. Ring' = q
  BY <1>1, <1>5, FrontThenRest
<1>7. Head(Ring) = t /\ Tail(Ring) = cut
  BY <1>1, <1>4, ConsHeadTail
<1> QED
  BY <1>1, <1>4, <1>6, <1>7 DEF RR!PassOn

\* yield() at the end of a thread leaves the ring to the others, of which there are some.
LEMMA ShutdownYieldLeaves ==
    ASSUME NEW t \in Thread, Consistent, Consistent', ShutdownYield(t)
    PROVE  RR!Leave
<1> DEFINE q == ready_queue
<1>1. /\ q \in Seq(Thread)
      /\ current_thread = t /\ pc[t] = "terminated" /\ t # NULL
      /\ pc \in [Thread -> Location]
      /\ main = "gone" /\ main' = main
  BY NullAssumption DEF ShutdownYield, At, Consistent, TypeOK, SchedTypeOK, BootConsistent
<1>2. q # <<>>
  BY <1>1, FrontIsAnElement, NullAssumption
     DEF ShutdownYield, Goto, Consistent, CpuStaysInCode
<1>3. /\ ready_queue' = Tail(q) /\ current_thread' = Head(q)
      /\ Head(q) \in Thread /\ Head(q) # NULL
  BY <1>1, <1>2, NullAssumption
     DEF ShutdownYield, yield, yield_from, front, pop_front, dispatch_to
<1>4. pc'[Head(q)] # "resumed"
  BY <1>1, <1>3 DEF ShutdownYield, Goto, Consistent, NoThreadLost
<1>5. Ring = <<t>> \o q /\ Ring' = <<Head(q)>> \o Tail(q)
  BY <1>1, <1>3, <1>4 DEF Ring
<1>6. Ring' = q
  BY <1>1, <1>2, <1>5, FrontThenRest
<1>7. Tail(Ring) = q /\ Len(Ring) = Len(q) + 1 /\ Len(q) > 0
  BY <1>1, <1>2, <1>5, ConsHeadTail
<1> QED
  BY <1>1, <1>6, <1>7 DEF RR!Leave

\* Every step of the start-up code, a thread or the timer moves the ring as one of its own
\* actions says, or not at all.
LEMMA NextIsARingStep ==
    Consistent /\ ResumedIsLast /\ [Next]_vars => [RR!Next]_(RR!ringVars)
<1> SUFFICES ASSUME Consistent, ResumedIsLast, [Next]_vars
             PROVE  [RR!Next]_(RR!ringVars)
  OBVIOUS
<1>1. CASE MainEnable
  BY <1>1 DEF MainEnable, schedVars, RR!ringVars, Ring
<1>2. ASSUME NEW t \in Thread, MainAdd(t) PROVE RR!Next
  BY <1>2, MainAddAdmits DEF RR!Next
<1>3. CASE MainDispatch
  BY <1>3, MainDispatchKicksOff, ThreadsAssumption DEF RR!Next
<1>4. ASSUME NEW t \in Thread, ThreadStep(t) PROVE [RR!Next]_(RR!ringVars)
  <2>1. CASE Yield(t)
    BY <2>1, YieldPassesOn DEF RR!Next
  <2>2. CASE ShutdownYield(t)
    BY <2>2, NextConsistent, ShutdownYieldLeaves DEF RR!Next
  <2> QED
    BY <1>4, <2>1, <2>2, TurnKeepsRing DEF ThreadStep
<1>5. CASE TimerFires \/ TimerInterrupt \/ UNCHANGED vars
  BY <1>5 DEF TimerFires, TimerInterrupt, vars, schedVars, RR!ringVars, Ring
<1> QED
  BY <1>1, <1>2, <1>3, <1>4, <1>5 DEF Next

\* FIFO turns, no overtaking, no thread leaving but from its own turn and never the
\* last one: the safety half of RoundRobinOrder, for any number of threads and whichever
\* of them return (scheduler.C:55-69, pass_on_CPU, thread_shutdown).
THEOREM ImplementsRoundRobin == Spec => RR!Init /\ [][RR!Next]_(RR!ringVars)
<1>1. Spec => [](Consistent /\ ResumedIsLast)
  BY AlwaysConsistent, InitResumedIsLast, NextResumedIsLast, PTL DEF Spec
<1> QED
  BY <1>1, InitRing, NextIsARingStep, PTL DEF Spec
=============================================================================
