------------------------- MODULE BlockingDiskProofs -------------------------
(***************************************************************************)
(* Theorems about BlockingDisk.tla, for any number of threads, blocks and  *)
(* iterations: the queue discipline of threads that wait for the disk and, *)
(* with one thread using the disk as in kernel.C, that every transfer      *)
(* moves its own block and fun2 reads back what it wrote.                  *)
(***************************************************************************)
EXTENDS BlockingDisk, ReadyListProofs, FiniteSetTheorems, FunctionTheorems

\* A queue without duplicates that has as many places as there are threads to queue
\* holds every one of them.
LEMMA FullQueueHoldsAll ==
    ASSUME NEW S, IsFiniteSet(S),
           NEW q \in [1..Cardinality(S) -> S], NoDuplicates(q)
    PROVE  Range(q) = S
<1> DEFINE n == Cardinality(S)
<1>1. n \in Nat
  BY FS_CardinalityType
<1>2. q \in Injection(1..n, S)
  BY Fun_IsInj DEF NoDuplicates
<1>3. Cardinality(1..n) = n /\ IsFiniteSet(1..n)
  BY <1>1, FS_Interval
<1>4. q \in Surjection(1..n, S)
  BY <1>2, <1>3, FS_Injection
<1> QED
  BY <1>4, Fun_SurjectionProperties

\* A function on 1..n is a sequence.
LEMMA FunctionIsSequence ==
    ASSUME NEW S, NEW T, S \subseteq T, NEW n \in Nat, NEW q \in [1..n -> S]
    PROVE  q \in Seq(T)
<1>1. q \in [1..n -> T]
  OBVIOUS
<1> QED
  BY <1>1

\* The next block fun2 goes to is one of its blocks: (block + 1) % NBlocks.
LEMMA NextBlockIsABlock == \A b \in Block : (b + 1) % NBlocks \in Block
  BY DiskAssumption DEF Block

\* yield() from a queue that is not empty: its front leaves it and runs.
LEMMA YieldFromQueue ==
    ASSUME NEW q \in Seq(Thread), NoDuplicates(q), q # <<>>, yield_from(q)
    PROVE  /\ current_thread' = front(q)
           /\ front(q) \in Thread /\ front(q) \in Range(q)
           /\ ready_queue' \in Seq(Thread)
           /\ NoDuplicates(ready_queue')
           /\ Range(ready_queue') = Range(q) \ {front(q)}
  BY NullAssumption, FrontIsAnElement, PopFrontElements DEF yield_from, dispatch_to

-----------------------------------------------------------------------------
(* Types and queue.                                                        *)

Queues == TypeOK /\ QueuedOnce

\* main() has queued every thread but the one it dispatches to.
LEMMA InitQueues == Init => Queues
<1> SUFFICES ASSUME Init PROVE Queues
  OBVIOUS
<1> DEFINE S == Thread \ {current_thread}
<1> USE DiskAssumption, NullAssumption
<1>1. current_thread \in Thread /\ current_thread # NULL
  BY DEF Init, Others
<1>2. IsFiniteSet(S) /\ Cardinality(S) = Cardinality(Thread) - 1
  BY <1>1, FS_RemoveElement
<1>3. ready_queue \in [1..Cardinality(S) -> S] /\ NoDuplicates(ready_queue)
  BY <1>2 DEF Init
<1>4. Range(ready_queue) = S
  BY <1>2, <1>3, FullQueueHoldsAll
<1>5. ready_queue \in Seq(Thread)
  <2>1. Cardinality(S) \in Nat
    BY <1>2, FS_CardinalityType
  <2> QED
    BY <1>3, <2>1, FunctionIsSequence
<1>6. 0 \in Block /\ 1 \in Block /\ 0 \in 0..NB_ITERATIONS
      /\ Garbage \in Contents /\ Block \subseteq Contents
  BY DEF Block, Contents, Garbage
<1>7. TypeOK
  BY <1>1, <1>5, <1>6 DEF Init, TypeOK, SchedTypeOK
<1>8. QueuedOnce
  BY <1>1, <1>3, <1>4 DEF Init, QueuedOnce
<1> QED
  BY <1>7, <1>8 DEF Queues

\* The running thread, back in the queue, lets the front of it run.
LEMMA PassingOnQueues ==
    ASSUME NEW t \in Thread, Queues,
           current_thread = t, pc[t] # "dead",
           yield_from(push_back(ready_queue, t)),
           \A u \in Thread : pc'[u] = "dead" <=> pc[u] = "dead"
    PROVE  SchedTypeOK' /\ QueuedOnce'
<1> DEFINE q == push_back(ready_queue, t)
           n == front(q)
<1>1. ready_queue \in Seq(Thread) /\ NoDuplicates(ready_queue) /\ t \notin Range(ready_queue)
  BY DEF Queues, TypeOK, SchedTypeOK, QueuedOnce
<1>2. q \in Seq(Thread) /\ Range(q) = Range(ready_queue) \cup {t} /\ NoDuplicates(q)
  BY <1>1, PushBackElements, PushBackKeepsNoDuplicates
<1>3. q # <<>>
  BY <1>2, EmptyHasNoElements
<1>4. /\ current_thread' = n /\ n \in Thread /\ n \in Range(q)
      /\ ready_queue' \in Seq(Thread)
      /\ NoDuplicates(ready_queue')
      /\ Range(ready_queue') = Range(q) \ {n}
  BY <1>2, <1>3, YieldFromQueue
<1> HIDE DEF q, n
<1>5. SchedTypeOK'
  BY <1>4 DEF SchedTypeOK
<1>6. QueuedOnce'
  BY <1>2, <1>4 DEF Queues, QueuedOnce
<1> QED
  BY <1>5, <1>6

\* A step that moves neither the queue nor the CPU and ends no thread.
LEMMA InPlaceQueues ==
    ASSUME Queues, UNCHANGED schedVars,
           \A u \in Thread : pc'[u] = "dead" <=> pc[u] = "dead"
    PROVE  SchedTypeOK' /\ QueuedOnce'
  BY DEF Queues, TypeOK, SchedTypeOK, QueuedOnce, schedVars

\* The driver's calls: only the one that waits gives up the CPU.
LEMMA DriverQueues ==
    ASSUME NEW t \in User, Queues, Issue(t) \/ Ready(t) \/ NotReady(t)
    PROVE  Queues'
<1> USE DiskAssumption DEF At, Goto, userVars, diskVars
<1>1. t \in Thread /\ TypeOK
  BY DEF Queues
<1>2. CASE Issue(t)
  <2>1. Target(t) \in Block /\ Command(t) \in {"read", "write"}
    BY <1>1 DEF TypeOK, Target, Command
  <2>2. ctl' \in [state : {"idle", "busy", "drq"}, cmd : {"read", "write"}, block : Block]
    BY <1>1, <1>2, <2>1 DEF Issue, ControllerAccepts, TypeOK
  <2>3. /\ pc' \in [Thread -> {"issue", "poll", "transfer", "pass", "dead"}]
        /\ \A u \in Thread : pc'[u] = "dead" <=> pc[u] = "dead"
    BY <1>1, <1>2 DEF Issue, TypeOK
  <2>4. SchedTypeOK' /\ QueuedOnce'
    BY <1>2, <2>3, InPlaceQueues DEF Issue
  <2> QED
    BY <1>1, <1>2, <2>2, <2>3, <2>4 DEF Issue, Queues, TypeOK
<1>3. CASE Ready(t)
  <2>1. /\ pc' \in [Thread -> {"issue", "poll", "transfer", "pass", "dead"}]
        /\ \A u \in Thread : pc'[u] = "dead" <=> pc[u] = "dead"
    BY <1>1, <1>3 DEF Ready, TypeOK
  <2>2. SchedTypeOK' /\ QueuedOnce'
    BY <1>3, <2>1, InPlaceQueues DEF Ready
  <2> QED
    BY <1>1, <1>3, <2>1, <2>2 DEF Ready, Queues, TypeOK
<1>4. CASE NotReady(t)
  <2>1. SchedTypeOK' /\ QueuedOnce'
    BY <1>1, <1>4, PassingOnQueues DEF NotReady
  <2> QED
    BY <1>1, <1>4, <2>1 DEF NotReady, Queues, TypeOK
<1> QED
  BY <1>2, <1>3, <1>4

\* What the data port yields is the contents of a block.
LEMMA PortDataIsContents == TypeOK => PortData \in Contents
  BY DiskAssumption DEF TypeOK, PortData, Contents, Garbage

\* A transfer leaves the queue alone.
LEMMA TransferQueues ==
    ASSUME NEW t \in User, Queues, Transfer(t)
    PROVE  Queues'
<1> USE DiskAssumption DEF At, Goto, TransferDone, NextBlock
<1>1. t \in Thread /\ TypeOK /\ PortData \in Contents
  BY PortDataIsContents DEF Queues
<1>2. UNCHANGED <<schedVars, iteration>>
  BY DEF Transfer, TransferRead, TransferWrite, TransferCheck
<1>3. /\ pc' \in [Thread -> {"issue", "poll", "transfer", "pass", "dead"}]
      /\ \A u \in Thread : pc'[u] = "dead" <=> pc[u] = "dead"
  BY <1>1 DEF Transfer, TransferRead, TransferWrite, TransferCheck, TypeOK
<1>4. SchedTypeOK' /\ QueuedOnce'
  BY <1>2, <1>3, InPlaceQueues
<1>5. ctl' \in [state : {"idle", "busy", "drq"}, cmd : {"read", "write"}, block : Block]
  BY <1>1 DEF Transfer, TransferRead, TransferWrite, TransferCheck, TypeOK
<1>6. read_block' \in [User -> Block] /\ write_block' \in [User -> Block]
  BY <1>1, NextBlockIsABlock
     DEF Transfer, TransferRead, TransferWrite, TransferCheck, TypeOK
<1>7. media' \in [Block -> Contents]
  BY <1>1 DEF Transfer, TransferRead, TransferWrite, TransferCheck, PortTakes, TypeOK
<1>8. /\ op' \in [User -> {"read", "write", "check"}]
      /\ first' \in [User -> BOOLEAN] /\ halted' \in BOOLEAN
  BY <1>1 DEF Transfer, TransferRead, TransferWrite, TransferCheck, TypeOK
<1>9. buf' \in [User -> Contents] /\ aux' \in [User -> Contents]
  BY <1>1 DEF Transfer, TransferRead, TransferWrite, TransferCheck, TypeOK
<1> QED
  BY <1>1, <1>2, <1>3, <1>4, <1>5, <1>6, <1>7, <1>8, <1>9 DEF Queues, TypeOK

\* pass_on_CPU in fun2, and in fun1.
LEMMA PassOnQueues ==
    ASSUME NEW t \in Thread, Queues,
           (t \in User /\ PassOnUser(t)) \/ (t \in Others /\ PassOnOther(t))
    PROVE  Queues'
<1> USE DiskAssumption DEF At, Goto, userVars, diskVars
<1>1. TypeOK
  BY DEF Queues
<1>2. CASE t \in User /\ PassOnUser(t)
  <2>1. /\ pc' \in [Thread -> {"issue", "poll", "transfer", "pass", "dead"}]
        /\ \A u \in Thread : pc'[u] = "dead" <=> pc[u] = "dead"
    BY <1>1, <1>2 DEF PassOnUser, TypeOK
  <2>2. SchedTypeOK' /\ QueuedOnce'
    BY <1>2, <2>1, PassingOnQueues DEF PassOnUser
  <2>3. iteration' \in [User -> 0..NB_ITERATIONS] /\ op' \in [User -> {"read", "write", "check"}]
    BY <1>1, <1>2 DEF PassOnUser, TypeOK
  <2> QED
    BY <1>1, <1>2, <2>1, <2>2, <2>3 DEF PassOnUser, Queues, TypeOK
<1>3. CASE t \in Others /\ PassOnOther(t)
  <2>1. SchedTypeOK' /\ QueuedOnce'
    BY <1>3, PassingOnQueues DEF PassOnOther
  <2> QED
    BY <1>1, <1>3, <2>1 DEF PassOnOther, Queues, TypeOK
<1> QED
  BY <1>2, <1>3

\* thread_shutdown: the thread, which is not queued, is not queued again.
LEMMA FinishQueues ==
    ASSUME NEW t \in User, Queues, Finish(t)
    PROVE  Queues'
<1> USE DiskAssumption DEF At, Goto, userVars, diskVars
<1>1. /\ t \in Thread /\ TypeOK /\ QueuedOnce
      /\ current_thread = t /\ t \notin Range(ready_queue)
      /\ ready_queue \in Seq(Thread)
  BY DEF Queues, TypeOK, SchedTypeOK, QueuedOnce, Finish
<1>2. yield_from(ready_queue)
  BY <1>1, RemoveAbsent DEF Finish
<1>3. /\ pc' = [pc EXCEPT ![t] = "dead"]
      /\ pc' \in [Thread -> {"issue", "poll", "transfer", "pass", "dead"}]
  BY <1>1 DEF Finish, TypeOK
<1>4. SchedTypeOK' /\ QueuedOnce'
  <2>1. CASE ready_queue = <<>>
    <3>1. UNCHANGED schedVars
      BY <1>2, <2>1 DEF yield_from, pop_front, front, schedVars
    <3> QED
      BY <1>1, <1>3, <3>1, <2>1, EmptyHasNoElements
         DEF QueuedOnce, TypeOK, SchedTypeOK, schedVars
  <2>2. CASE ready_queue # <<>>
    <3> DEFINE n == front(ready_queue)
    <3>1. /\ current_thread' = n /\ n \in Thread /\ n \in Range(ready_queue)
          /\ ready_queue' \in Seq(Thread)
          /\ NoDuplicates(ready_queue')
          /\ Range(ready_queue') = Range(ready_queue) \ {n}
      BY <1>1, <1>2, <2>2, YieldFromQueue DEF QueuedOnce
    <3> HIDE DEF n
    <3> QED
      BY <1>1, <1>3, <3>1 DEF QueuedOnce, TypeOK, SchedTypeOK
  <2> QED
    BY <2>1, <2>2
<1> QED
  BY <1>1, <1>3, <1>4 DEF Finish, Queues, TypeOK

\* The controller gets ready, or nothing happens.
LEMMA ControllerQueues ==
    ASSUME Queues, ControllerReady \/ UNCHANGED vars
    PROVE  Queues'
<1>1. SchedTypeOK' /\ QueuedOnce'
  BY InPlaceQueues DEF ControllerReady, vars
<1> QED
  BY <1>1 DEF ControllerReady, vars, userVars, diskVars, Queues, TypeOK

\* Every step of a user, of another thread and of the controller keeps types and queue.
LEMMA NextQueues == Queues /\ [Next]_vars => Queues'
  BY DriverQueues, TransferQueues, PassOnQueues, FinishQueues, ControllerQueues,
     DiskAssumption DEF Next, UserStep, Others

\* In every reachable state, whatever the number of threads, users and blocks.
THEOREM AlwaysQueues == Spec => []Queues
  BY InitQueues, NextQueues, PTL DEF Spec

\* The types of the threads', the driver's and the controller's state.
THEOREM DiskTypeCorrect == Spec => []TypeOK
<1>1. Queues => TypeOK
  BY DEF Queues
<1> QED
  BY <1>1, AlwaysQueues, PTL

\* A thread that waits for the disk is queued once while another runs and never after it
\* has finished, with any number of threads using the disk (blocking_disk.C, scheduler.C).
THEOREM WaitersQueuedOnce == Spec => []QueuedOnce
<1>1. Queues => QueuedOnce
  BY DEF Queues
<1> QED
  BY <1>1, AlwaysQueues, PTL

\* While a thread waits, only its own loop body can move anything but the controller.
LEMMA WaitingStep ==
    ASSUME NEW t \in User, Queues, [Next]_vars,
           At(t, "poll"), ~is_ready, UNCHANGED ctl
    PROVE  NotReady(t) \/ UNCHANGED vars
<1>1. t \in Thread /\ current_thread = t /\ pc[t] = "poll" /\ ctl.state # "drq"
  BY DiskAssumption DEF At, is_ready
<1>2. ~ControllerReady
  BY <1>1 DEF ControllerReady, Queues, TypeOK
<1>3. ~\E u \in Others : PassOnOther(u)
  BY <1>1 DEF PassOnOther, At, Others
<1>4. \A u \in User : UserStep(u) => u = t /\ NotReady(t)
  BY <1>1 DEF UserStep, Issue, Ready, NotReady, Transfer, TransferRead, TransferWrite,
              TransferCheck, PassOnUser, Finish, At, is_ready
<1> QED
  BY <1>2, <1>3, <1>4 DEF Next

\* A thread whose disk call is not ready hands the CPU to a queued thread, and not to
\* itself, however many wait (wait_until_ready in blocking_disk.C).
THEOREM WaitersYield == Spec => YieldsWhileWaiting
<1> DEFINE Yields == \A t \in User :
               At(t, "poll") /\ ~is_ready /\ ready_queue # <<>> /\ UNCHANGED ctl
                   => current_thread' # t
<1>1. ASSUME Queues, [Next]_vars PROVE [Yields]_vars
  <2> SUFFICES ASSUME NEW t \in User, ~UNCHANGED vars,
                      At(t, "poll"), ~is_ready, ready_queue # <<>>, UNCHANGED ctl
               PROVE  current_thread' # t
    OBVIOUS
  <2> DEFINE q == push_back(ready_queue, t)
  <2>1. t \in Thread /\ current_thread = t
    BY DiskAssumption DEF At
  <2>2. ready_queue \in Seq(Thread) /\ t \notin Range(ready_queue)
    BY <1>1, <2>1 DEF Queues, TypeOK, SchedTypeOK, QueuedOnce
  <2>3. yield_from(q)
    BY <1>1, WaitingStep DEF NotReady
  <2>4. front(q) = front(ready_queue) /\ front(q) # NULL
    BY <2>1, <2>2, NullAssumption DEF front, push_back
  <2>5. current_thread' = front(ready_queue)
    BY <2>3, <2>4 DEF yield_from, dispatch_to
  <2> QED
    BY <2>2, <2>5, FrontIsAnElement, NullAssumption
<1>2. Spec => [][Yields]_vars
  BY <1>1, AlwaysQueues, PTL DEF Spec
<1> QED
  BY <1>2 DEF YieldsWhileWaiting

-----------------------------------------------------------------------------
(* One user of the disk, as in kernel.C.                                   *)

\* The controller is where the user's call has brought it: nothing outstanding before
\* issue_operation and after the transfer, in between the user's own command and block.
ServesUser ==
    \A t \in User :
        /\ pc[t] \in {"issue", "pass", "dead"} => ctl.state = "idle"
        /\ pc[t] = "poll" => ctl.state \in {"busy", "drq"}
        /\ pc[t] = "transfer" => ctl.state = "drq"
        /\ pc[t] \in {"poll", "transfer"} => ctl.cmd = Command(t) /\ ctl.block = Target(t)

\* The block that is to be read back holds what was written.
WrittenBeforeCheck ==
    \A t \in User : op[t] = "check" /\ pc[t] \in {"issue", "poll", "transfer"}
                        => media[write_block[t]] = buf[t]

Served == Queues /\ ServesUser /\ WrittenBeforeCheck /\ ReadBackMatches

\* Nothing has been sent to the controller, and nothing is to be read back.
LEMMA InitServed == Init => Served
  BY InitQueues, DiskAssumption
     DEF Init, Served, ServesUser, WrittenBeforeCheck, ReadBackMatches

\* A command of the one user finds the controller idle, so it is never ignored.
LEMMA DriverServed ==
    ASSUME \A t, u \in User : t = u,
           NEW t \in User, Served, Issue(t) \/ Ready(t) \/ NotReady(t)
    PROVE  ServesUser' /\ WrittenBeforeCheck' /\ ReadBackMatches'
<1> USE DiskAssumption DEF At, Goto, userVars, diskVars, Target, Command, Served
<1>1. t \in Thread /\ \A u \in User : u = t
  OBVIOUS
<1>2. CASE Issue(t)
  <2>1. /\ ctl'.state \in {"busy", "drq"}
        /\ ctl'.cmd = Command(t) /\ ctl'.block = Target(t)
    BY <1>1, <1>2 DEF Issue, ControllerAccepts, ServesUser
  <2> QED
    BY <1>1, <1>2, <2>1 DEF Issue, ServesUser, WrittenBeforeCheck, ReadBackMatches, Queues, TypeOK
<1>3. CASE Ready(t)
  BY <1>1, <1>3
     DEF Ready, is_ready, ServesUser, WrittenBeforeCheck, ReadBackMatches, Queues, TypeOK
<1>4. CASE NotReady(t)
  BY <1>1, <1>4 DEF NotReady, ServesUser, WrittenBeforeCheck, ReadBackMatches
<1> QED
  BY <1>2, <1>3, <1>4

\* What a transfer of the one user moves.
LEMMA TransferMoves ==
    ASSUME \A t, u \in User : t = u,
           NEW t \in User, Served
    PROVE  /\ TransferRead(t) => buf'[t] = media[read_block[t]] /\ media' = media
           /\ TransferWrite(t) => media' = [media EXCEPT ![write_block[t]] = buf[t]]
           /\ TransferCheck(t) => aux'[t] = media[write_block[t]]
  BY DEF TransferRead, TransferWrite, TransferCheck, PortData, PortTakes, At, Target, Command,
         Served, ServesUser, Queues, TypeOK

\* A transfer ends the command; the read-back finds what the first write left.
LEMMA TransferServed ==
    ASSUME \A t, u \in User : t = u,
           NEW t \in User, Served, Transfer(t)
    PROVE  ServesUser' /\ WrittenBeforeCheck' /\ ReadBackMatches'
<1> USE DiskAssumption DEF At, Goto, TransferDone, NextBlock, Served
<1>1. /\ t \in Thread /\ \A u \in User : u = t
      /\ ctl.state = "drq" /\ ctl \in [state : {"idle", "busy", "drq"},
                                        cmd : {"read", "write"}, block : Block]
  BY DEF Transfer, TransferRead, TransferWrite, TransferCheck, ServesUser, Queues, TypeOK
<1>2. CASE TransferRead(t)
  BY <1>1, <1>2
     DEF TransferRead, ServesUser, WrittenBeforeCheck, ReadBackMatches, Queues, TypeOK
<1>3. CASE TransferWrite(t)
  <2>1. media' = [media EXCEPT ![write_block[t]] = buf[t]]
    BY <1>3, TransferMoves
  <2> QED
    BY <1>1, <1>3, <2>1
       DEF TransferWrite, ServesUser, WrittenBeforeCheck, ReadBackMatches, Queues, TypeOK
<1>4. CASE TransferCheck(t)
  <2>1. aux'[t] = buf[t]
    BY <1>4, TransferMoves DEF TransferCheck, WrittenBeforeCheck
  <2> QED
    BY <1>1, <1>4, <2>1
       DEF TransferCheck, ServesUser, WrittenBeforeCheck, ReadBackMatches, Queues, TypeOK
<1> QED
  BY <1>2, <1>3, <1>4 DEF Transfer

\* Between two calls nothing is outstanding.
LEMMA PassOnServed ==
    ASSUME \A t, u \in User : t = u,
           NEW t \in User, Served, PassOnUser(t) \/ Finish(t)
    PROVE  ServesUser' /\ WrittenBeforeCheck' /\ ReadBackMatches'
  BY DiskAssumption
     DEF PassOnUser, Finish, At, Goto, userVars, diskVars, Served,
         ServesUser, WrittenBeforeCheck, ReadBackMatches, Queues, TypeOK

\* The other threads do not touch the disk, and a seek ends with the command it began with.
LEMMA OtherServed ==
    ASSUME Served, (\E t \in Others : PassOnOther(t)) \/ ControllerReady \/ UNCHANGED vars
    PROVE  ServesUser' /\ WrittenBeforeCheck' /\ ReadBackMatches'
  BY DEF PassOnOther, ControllerReady, vars, userVars, diskVars, Served, Target, Command,
         ServesUser, WrittenBeforeCheck, ReadBackMatches, Queues, TypeOK

\* With one user, every step keeps the controller at that user's call.
LEMMA NextServed ==
    ASSUME \A t, u \in User : t = u
    PROVE  Served /\ [Next]_vars => Served'
<1> SUFFICES ASSUME Served, [Next]_vars PROVE Served'
  OBVIOUS
<1>1. Queues'
  BY NextQueues DEF Served
<1>2. ServesUser' /\ WrittenBeforeCheck' /\ ReadBackMatches'
  BY DriverServed, TransferServed, PassOnServed, OtherServed DEF Next, UserStep
<1> QED
  BY <1>1, <1>2 DEF Served

\* In every reachable state of a system with one user of the disk.
THEOREM AlwaysServed ==
    ASSUME \A t, u \in User : t = u
    PROVE  Spec => []Served
  BY InitServed, NextServed, PTL DEF Spec

\* With one thread using the disk, fun2 reads back what it wrote, whatever the number of
\* blocks and iterations and however the controller takes its time (kernel.C, fun2).
THEOREM SingleUserReadsBack ==
    ASSUME \A t, u \in User : t = u
    PROVE  Spec => []ReadBackMatches
<1>1. Served => ReadBackMatches
  BY DEF Served
<1> QED
  BY <1>1, AlwaysServed, PTL

\* With one thread using the disk, read() and write() move the block they were called
\* with, in their own direction, and touch no other (blocking_disk.H:48-53).
THEOREM SingleUserTransfersItsOwnBlock ==
    ASSUME \A t, u \in User : t = u
    PROVE  Spec => TransfersItsOwnBlock
<1> DEFINE Moves == \A t \in User :
        /\ TransferRead(t) => buf'[t] = media[read_block[t]] /\ media' = media
        /\ TransferWrite(t) => media' = [media EXCEPT ![write_block[t]] = buf[t]]
        /\ TransferCheck(t) => aux'[t] = media[write_block[t]]
<1>1. Served => Moves
  BY TransferMoves
<1>2. Spec => [][Moves]_vars
  BY <1>1, AlwaysServed, PTL
<1> QED
  BY <1>2 DEF TransfersItsOwnBlock
=============================================================================
