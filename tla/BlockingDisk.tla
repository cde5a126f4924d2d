--------------------------- MODULE BlockingDisk ---------------------------
(***************************************************************************)
(* Disk input and output that gives up the CPU while it waits              *)
(* (P6/blocking_disk.C over P6/simple_disk.C), used by threads that run    *)
(* fun2 of P6/kernel.C, beside threads that only pass the CPU on (fun1).   *)
(* The FIFO scheduler is Scheduler.tla; the ATA controller is external,    *)
(* modelled from the ports and bits the driver uses.                       *)
(*                                                                         *)
(* A block's 512 bytes are one value. The transfer loop of 256 port        *)
(* accesses and the 7 port writes of issue_operation are one step each: no *)
(* other thread runs before the next yield(), and no interrupt handler     *)
(* touches the disk's ports.                                               *)
(***************************************************************************)
EXTENDS Scheduler, FiniteSets

CONSTANTS
    User,           \* the threads that run fun2; the others run fun1
    NB_ITERATIONS,
    NBlocks         \* blocks fun2 goes round: 10 in kernel.C

ASSUME DiskAssumption ==
    /\ IsFiniteSet(Thread)
    /\ User \subseteq Thread /\ User # Thread
    /\ NB_ITERATIONS \in Nat \ {0}
    /\ NBlocks \in Nat \ {0, 1}

VARIABLES
    pc,             \* where a user is: "issue", "poll", "transfer", "pass", "dead"
    op,             \* the disk call a user is in: "read", "write", "check" (the read-back)
    iteration,      \* fun2's j
    read_block,
    write_block,
    first,          \* checking_first_write_read
    buf, aux,       \* the two buffers of fun2
    ctl,            \* the controller: [state, cmd, block]
    media,          \* what is on the disk
    halted          \* fun2's assert(false) was reached

userVars == <<op, iteration, read_block, write_block, first, buf, aux>>
diskVars == <<ctl, media>>
vars == <<schedVars, pc, userVars, diskVars, halted>>

Block == 0..NBlocks - 1

\* Each block starts with contents of its own; Garbage is what a port yields otherwise.
Garbage == NBlocks
Contents == 0..NBlocks

Others == Thread \ User

\* One of fun1's threads runs, the rest have been added in any order.
Init ==
    /\ current_thread \in Others
    /\ ready_queue \in {q \in [1..Cardinality(Thread) - 1 -> Thread \ {current_thread}] :
                            NoDuplicates(q)}
    /\ pc = [t \in Thread |-> IF t \in User THEN "issue" ELSE "pass"]
    /\ op = [t \in User |-> "read"]
    /\ iteration = [t \in User |-> 0]
    /\ read_block = [t \in User |-> 1]
    /\ write_block = [t \in User |-> 0]
    /\ first = [t \in User |-> TRUE]
    /\ buf = [t \in User |-> Garbage]
    /\ aux = [t \in User |-> Garbage]
    /\ ctl = [state |-> "idle", cmd |-> "read", block |-> 0]
    /\ media = [b \in Block |-> b]
    /\ halted = FALSE

At(t, where) == ~halted /\ current_thread = t /\ pc[t] = where

Goto(t, where) == pc' = [pc EXCEPT ![t] = where]

\* The block and the direction of the call a user is in.
Target(t) == IF op[t] = "read" THEN read_block[t] ELSE write_block[t]
Command(t) == IF op[t] = "write" THEN "write" ELSE "read"

-----------------------------------------------------------------------------
(* The controller. A command sent while it is busy is ignored; a read is   *)
(* ready after a seek, a write at once or after a while.                   *)

ControllerAccepts(cmd, b) ==
    IF ctl.state = "busy" THEN UNCHANGED ctl
    ELSE \E s \in IF cmd = "read" THEN {"busy"} ELSE {"busy", "drq"} :
            ctl' = [state |-> s, cmd |-> cmd, block |-> b]

ControllerReady ==
    /\ ctl.state = "busy"
    /\ ctl' = [ctl EXCEPT !.state = "drq"]
    /\ UNCHANGED <<schedVars, pc, userVars, media, halted>>

\* What 256 reads of the data port yield, and what 256 writes to it do.
PortData == IF ctl.state = "drq" /\ ctl.cmd = "read" THEN media[ctl.block] ELSE Garbage

PortTakes(x) ==
    media' = IF ctl.state = "drq" /\ ctl.cmd = "write"
             THEN [media EXCEPT ![ctl.block] = x] ELSE media

TransferDone == ctl' = IF ctl.state = "drq" THEN [ctl EXCEPT !.state = "idle"] ELSE ctl

-----------------------------------------------------------------------------
(* The driver, called by fun2.                                             *)

\* Deviation: the command register always gets the code of a read.
Issue_reads_only(t) ==
    /\ At(t, "issue")
    /\ ControllerAccepts("read", Target(t))
    /\ Goto(t, "poll")
    /\ UNCHANGED <<schedVars, userVars, media, halted>>

\* issue_operation: sends the block number and the command, whatever the status is.
Issue(t) ==
    /\ At(t, "issue")
    /\ ControllerAccepts(Command(t), Target(t))
    /\ Goto(t, "poll")
    /\ UNCHANGED <<schedVars, userVars, media, halted>>

\* Deviation: the status register is not looked at.
is_ready_always == TRUE

\* is_ready: the DRQ bit, and no other.
is_ready == ctl.state = "drq"

Ready(t) ==
    /\ At(t, "poll")
    /\ is_ready
    /\ Goto(t, "transfer")
    /\ UNCHANGED <<schedVars, userVars, diskVars, halted>>

\* Deviation: the waiting thread yields without queueing itself.
NotReady_unqueued(t) ==
    /\ At(t, "poll")
    /\ ~is_ready
    /\ yield
    /\ UNCHANGED <<pc, userVars, diskVars, halted>>

\* Deviation: the waiting thread queues itself and polls on.
NotReady_keeps_cpu(t) ==
    /\ At(t, "poll")
    /\ ~is_ready
    /\ Len(ready_queue) <= Cardinality(Thread)
    /\ add(t)
    /\ UNCHANGED <<current_thread, pc, userVars, diskVars, halted>>

\* The loop body of wait_until_ready: add(CurrentThread()), yield(), and the test again
\* when the thread is next dispatched.
NotReady(t) ==
    /\ At(t, "poll")
    /\ ~is_ready
    /\ yield_from(push_back(ready_queue, t))
    /\ UNCHANGED <<pc, userVars, diskVars, halted>>

\* The end of an iteration: on to the next block, then pass_on_CPU.
NextBlock(t) ==
    /\ write_block' = [write_block EXCEPT ![t] = read_block[t]]
    /\ read_block' = [read_block EXCEPT ![t] = (@ + 1) % NBlocks]
    /\ Goto(t, "pass")

TransferRead(t) ==
    /\ At(t, "transfer") /\ op[t] = "read"
    /\ buf' = [buf EXCEPT ![t] = PortData]
    /\ TransferDone
    /\ op' = [op EXCEPT ![t] = "write"]
    /\ Goto(t, "issue")
    /\ UNCHANGED <<schedVars, iteration, read_block, write_block, first, aux, media, halted>>

TransferWrite(t) ==
    /\ At(t, "transfer") /\ op[t] = "write"
    /\ PortTakes(buf[t])
    /\ TransferDone
    /\ IF first[t]
       THEN op' = [op EXCEPT ![t] = "check"] /\ Goto(t, "issue")
            /\ UNCHANGED <<read_block, write_block>>
       ELSE NextBlock(t) /\ UNCHANGED op
    /\ UNCHANGED <<schedVars, iteration, first, buf, aux, halted>>

\* The read-back of the first write and the comparison whose failure is assert(false),
\* after which no thread runs any more.
TransferCheck(t) ==
    /\ At(t, "transfer") /\ op[t] = "check"
    /\ aux' = [aux EXCEPT ![t] = PortData]
    /\ TransferDone
    /\ IF aux'[t] = buf[t]
       THEN first' = [first EXCEPT ![t] = FALSE] /\ NextBlock(t) /\ UNCHANGED halted
       ELSE halted' = TRUE /\ UNCHANGED <<first, pc, read_block, write_block>>
    /\ UNCHANGED <<schedVars, op, iteration, buf, media>>

Transfer(t) == TransferRead(t) \/ TransferWrite(t) \/ TransferCheck(t)

\* Deviation: the loop of fun2 does not end.
PassOnUser_uncapped(t) ==
    /\ At(t, "pass")
    /\ yield_from(push_back(ready_queue, t))
    /\ iteration' = [iteration EXCEPT ![t] = @ + 1]
    /\ Goto(t, "issue")
    /\ op' = [op EXCEPT ![t] = "read"]
    /\ UNCHANGED <<read_block, write_block, first, buf, aux, diskVars, halted>>

\* pass_on_CPU and the loop test of fun2 on the way back.
PassOnUser(t) ==
    /\ At(t, "pass")
    /\ iteration[t] < NB_ITERATIONS
    /\ yield_from(push_back(ready_queue, t))
    /\ iteration' = [iteration EXCEPT ![t] = @ + 1]
    /\ IF iteration'[t] < NB_ITERATIONS
       THEN Goto(t, "issue") /\ op' = [op EXCEPT ![t] = "read"]
       ELSE UNCHANGED <<pc, op>>
    /\ UNCHANGED <<read_block, write_block, first, buf, aux, diskVars, halted>>

\* fun2 returns into thread_shutdown: terminate, yield.
Finish(t) ==
    /\ At(t, "pass")
    /\ iteration[t] = NB_ITERATIONS
    /\ yield_from(remove(ready_queue, t))
    /\ Goto(t, "dead")
    /\ UNCHANGED <<userVars, diskVars, halted>>

UserStep(t) ==
    Issue(t) \/ Ready(t) \/ NotReady(t) \/ Transfer(t) \/ PassOnUser(t) \/ Finish(t)

\* fun1: a burst that touches nothing here, then pass_on_CPU.
PassOnOther(t) ==
    /\ At(t, "pass")
    /\ yield_from(push_back(ready_queue, t))
    /\ UNCHANGED <<pc, userVars, diskVars, halted>>

Next ==
    \/ \E t \in User : UserStep(t)
    \/ \E t \in Others : PassOnOther(t)
    \/ ControllerReady

\* The CPU executes the running thread's code; a seek ends.
Fairness ==
    /\ \A t \in User : WF_vars(UserStep(t))
    /\ \A t \in Others : WF_vars(PassOnOther(t))
    /\ WF_vars(ControllerReady)

Spec == Init /\ [][Next]_vars /\ Fairness

-----------------------------------------------------------------------------
(* Properties.                                                             *)

TypeOK ==
    /\ SchedTypeOK
    /\ pc \in [Thread -> {"issue", "poll", "transfer", "pass", "dead"}]
    /\ op \in [User -> {"read", "write", "check"}]
    /\ iteration \in [User -> 0..NB_ITERATIONS]
    /\ read_block \in [User -> Block] /\ write_block \in [User -> Block]
    /\ first \in [User -> BOOLEAN]
    /\ buf \in [User -> Contents] /\ aux \in [User -> Contents]
    /\ ctl \in [state : {"idle", "busy", "drq"}, cmd : {"read", "write"}, block : Block]
    /\ media \in [Block -> Contents]
    /\ halted \in BOOLEAN

\* A thread that waits for the disk is in the ready queue like any other: once if it is
\* not running, not at all if it is, and never again once it is finished.
QueuedOnce ==
    /\ NoDuplicates(ready_queue)
    /\ \A t \in Thread : t \in Range(ready_queue) <=> (pc[t] # "dead" /\ current_thread # t)

\* "Reads 512 Bytes in the given block ... and copies them to the given buffer", "Writes
\* 512 Bytes from the buffer to the given block" (blocking_disk.H:48-53): a transfer
\* moves the block its own call named, in its own direction, and touches no other.
TransfersItsOwnBlock ==
    [][\A t \in User :
        /\ TransferRead(t) => buf'[t] = media[read_block[t]] /\ media' = media
        /\ TransferWrite(t) => media' = [media EXCEPT ![write_block[t]] = buf[t]]
        /\ TransferCheck(t) => aux'[t] = media[write_block[t]]]_vars

\* fun2 reads back what it wrote first: its assert(false) is not reached.
ReadBackMatches == ~halted

\* A thread whose disk call is not ready does not keep the CPU from a queued thread
\* ("Simply yields the cpu to try again later", blocking_disk.H:56-57).
YieldsWhileWaiting ==
    [][\A t \in User :
        At(t, "poll") /\ ~is_ready /\ ready_queue # <<>> /\ UNCHANGED ctl
            => current_thread' # t]_vars

\* Every read and write ends, and so fun2 ends ("FUN 2 IS DONE!").
JobsFinish == <>(\A t \in User : pc[t] = "dead")
=============================================================================
