# A TLA+ development of the CSCE410 kernel

The repository holds a small 32-bit x86 teaching kernel in six stages, `src/P1` to `src/P6`. Each
stage is a copy of the last with a subsystem added: frame pools (P2), page tables (P3), virtual
memory pools (P4), threads and a scheduler (P5), a disk driver that gives up the CPU (P6). The
modules here model the last form of each subsystem, and say where an earlier stage differs. The
Bochs emulator vendored in `src/P1` is the machine the kernel runs on, not part of it.

## 1. Inventory

| part | source | state | operations | modelled in |
|---|---|---|---|---|
| scheduler | `P6/scheduler.C` (= P5) | the ready queue | `yield`, `resume`, `add`, `terminate` | `Scheduler` |
| ready list | `P6/linked_list.H`, `node.H` | chain of nodes, head, tail, length | `push_back`, `push_front`, `pop_front`, `front`, `back`, `remove` | `LinkedList` (chain), `ListSpec`, `ReadyList` (sequence) |
| threads | `thread.C`, `kernel.C` of P5, P6 | `current_thread`, saved contexts, the interrupt flag | start-up, `thread_start`, `pass_on_CPU`, `thread_shutdown` | `Threads` |
| context switch | `P6/threads_low.asm`, `thread.C` | stacks, `esp`, `eax`, EFLAGS | the instructions of `threads_low_switch_to`, `setup_context` | `ThreadSwitch` |
| disk driver | `P6/blocking_disk.C`, `simple_disk.C` | none of its own; the ATA controller's | `read`, `write`, `wait_until_ready` | `BlockingDisk` |
| frame pools | `P4/cont_frame_pool.C` (= P3) | two-bit code per frame, `nFreeFrames`, list of pools | constructor, `get_frames`, `mark_inaccessible`, `release_frames` | `ContFramePool`, `RegionAllocator` |
| page tables | `P4/page_table.C` | directory, tables, registered pools | `handle_fault`, `free_page`, `register_pool` | `PageTable`, `Paging` |
| virtual memory pools | `P4/vm_pool.C` | sorted list of regions in the pool's first page | `allocate`, `release`, `is_legitimate` | `VMPool`, `Paging` |
| interrupt dispatch | `interrupts.C`, `irq.C`, `irq_low.asm` | handler table; the two controllers' | `irq_remap`, `init_dispatcher`, `register_handler`, `dispatch_interrupt` | `Interrupts`, `Devices` |
| timer | `simple_timer.C` | `seconds`, `ticks` | interrupt handler, `current`, `wait` | `SimpleTimer`, `Devices` |
| keyboard | `P4/simple_keyboard.C` | `key_pressed`, `key_code` | interrupt handler, `read`, `wait` | `SimpleKeyboard`, `Devices` |
| console | `console.C` | cursor, text memory | `init`, `putch`, `puts`, `scroll` | `Console`, `Devices` |
| exception dispatch | `exceptions.C` | handler table | `dispatch_exception`, `register_handler` | not modelled: filled once, then read only |
| heap | `mem_pool.C`, `frame_pool.C` of P6 | next free address | `allocate` | only that addresses are never reused (`LinkedList`) |
| descriptor tables, boot, utilities | `gdt.C`, `idt.C`, `start.asm`, `utils.C` ... | fixed tables | set up once | not modelled: nothing happens over time |

How they meet. `kernel.C` builds everything, admits the threads with `add` and dispatches to the
first one; it never runs again. A thread leaves the CPU only inside `yield`, called by
`pass_on_CPU`, by `BlockingDisk::wait_until_ready` and by `thread_shutdown`; `yield` pops the ready
list and calls `dispatch_to`, which calls the assembly switch. The disk driver and the threads
share the scheduler; all disk users share one controller. The page-fault handler (P4) asks every
registered virtual memory pool whether an address is legitimate and takes frames from the
process frame pool; the virtual memory pools hand pages back through the page table. Interrupt
handlers run on the interrupted thread's stack, with interrupts off, to their `iret`.

What is hard here, and what each part must get right:

* **Scheduling.** No preemption and a FIFO queue: every thread's progress depends on every
  other's calls coming in the right order. No thread may be lost from the queue, be in it twice, or
  be dispatched after it is over; the queue must never be empty when a thread shuts down.
* **Switching.** One routine saves a context, another function fakes one, and they share only a
  layout. A switch must bring a thread back where it was, on its own stack, with its own
  interrupt flag, whatever interrupts arrive in between.
* **Disk.** A transfer spans many switches, and the controller has no owner.
* **Frames.** The extent of an allocation is only in the bitmap's codes; a counter is kept beside
  them. Grants must be disjoint and releases complete.
* **Virtual memory.** A constructor that faults half way, a list that lives in the memory it describes,
  tables edited through the addresses they map, frames that must all stay accounted for, and release, which
  must give everything back.
* **Interrupts, timer, keyboard, console.** The handlers run with interrupts off, but what they change is read and
  written by kernel code with interrupts on and without a lock: two counters read one after the other, a flag and a code,
  a cursor that is read, used and written back. Every request must get its end-of-interrupt at every controller it came through.

`PROJECT.json` lists the hazards line by line, with the properties that cover each.

## 2. Modules

```
ReadyList ---- Scheduler -+- Threads ------- MCThreads
   |  \                   |     \-- RoundRobin (abstract)
   |   ReadyListProofs    |      \- ThreadsProofs
   |                      +- BlockingDisk -- MCBlockingDisk, BlockingDiskProofs
ListSpec (abstract) -- LinkedList -- MCLinkedList, LinkedListProofs
ThreadSwitch -- MCThreadSwitch, ThreadSwitchProofs
RegionAllocator (abstract) -+- ContFramePool -- MCContFramePool, ContFramePoolProofs
                            +- Paging -- MCPaging, PagingProofs
PageTable, VMPool ----------/
Caller -+- SimpleTimer ----\
        +- SimpleKeyboard --+- Devices -- MCDevices, DevicesProofs
        +- Console ---------+
           Interrupts ------/
```

**`ReadyList`** has the list operations as operators on sequences. `ListSpec` makes a state machine
of them, recording each call with what it answered. **`LinkedList`** is the implementation: nodes
with `prev` and `next`, the three fields of the list, and one action per method. The loop of `remove` is the recursive function `Walk`,
one `Visit` per turn, which unlinks the node if it is the one and goes on from its `next` all the same. `pop_back` and `get`
are left out: as templates they are never instantiated, and they do not compile when they are.

**`Scheduler`** has the ready queue and `current_thread`, and the scheduler's methods as operators that
a composing module uses in its actions; `yield` includes the effect of `dispatch_to` on
`current_thread`.

**`Threads`** composes it with `main()` and with what threads do. `main` is `"init"` until interrupts are
enabled, then `"adding"`, and `"gone"` after the first dispatch. `pc[t]` says where thread *t* is, or
where it will go on when it next gets the CPU: `new` (not admitted), `start` (about to run
`thread_start`), `run` (in its function), `resumed` (between the two halves of `pass_on_CPU`), `shutdown`
and `terminated` (in `thread_shutdown`, before and after `terminate`), `dead`, and `lost` (`yield` came back
and the CPU runs off the stack). `pass_on_CPU` and `thread_shutdown` are two actions each, because a timer
interrupt may come between. `SwitchFlag` is the assembly switch as far as EFLAGS is concerned.
`StartEnables` distinguishes P6's `thread_start` from P5's empty one; `Forever` says which thread
functions do not return. Returning from `main()`, stack contents and the heap are not in it.
The order of `main`'s calls to `add` is left open.

**`RoundRobin`** is what all that promises: a ring of threads, of which the first has the CPU. It may go
to the end of the ring, or leave if it is not the last. `Threads!Ring` maps the running thread followed
by the ready queue to the ring; in `resumed` the running thread is already at the end of the queue,
and that copy is dropped.

**`ThreadSwitch`** looks inside one switch: each instruction of `threads_low_switch_to` from the
call in `dispatch_to` to the `iret`, on stacks of words, with an interrupt possible before each
while the flag is set. A stack is an array indexed by depth, so the word at `[esp-4]` is the one
deeper than `esp`, and an interrupt overwrites everything deeper. Runs of instructions whose
intermediate states differ only in what lies safely above `esp` (the pushes of the registers) are
one step. Which thread is dispatched is left open. `want` is a history variable: what each thread is to
find when it is switched in.

**`BlockingDisk`** runs `fun2` of `P6/kernel.C` (read a block, write it to the one before, check the
first write) in the threads `User`, and `fun1` in the others, over `Scheduler`. The controller is external:
idle, busy seeking or ready to transfer; it ignores a command while busy, starts over on one sent while ready,
answers garbage on the data port when it has nothing, and may make a write wait as it makes a read wait. A block's
contents are one value.

**`ContFramePool`** has both pools of `P4/kernel.C`, from their construction on. The bitmap maps each frame to
one of the four codes. `Found` and `StartOf` are the scan of `get_frames` as written, with its
count that is reset only at a byte of four allocated frames; the counters are `% UIntRange`. Assertion failures
halt. Three client disciplines choose what is asked: `single` (one frame at a time, any
pool, any order: what `page_table.C` does), `stack` (any size, from the kernel pool, last in first out:
`test_memory` of `P2/kernel.C`), and `any` (what the interface allows). **`RegionAllocator`** is the
promise: a grant takes units nobody holds, a release gives the whole range back.

**`PageTable`** keeps what each frame holds, read as page-table entries: an entry is a frame or -1. The
handler's stores go where the self-mapped directory makes the constructed addresses lead (`PteFrame`, `PdeFrame`),
so a wrong address damages whatever it reaches. A frame that holds data reads as entries for frame 0, the worst it can
be for a new page table before it is cleared. `get_frame` is what single-frame requests get from the process
pool, which the run `frames` justifies. **`VMPool`** has the list of regions of each pool, first fit and `release`.
**`Paging`** is one flow of control over both. An access (`Touch`, or the constructor's first store to
its list) stays in `access` until `Access` succeeds; until then the CPU retries and `PageFault` or `IllegalAccess` serves it. The
constructor is therefore two steps, with a fault while `num_allocated` is 0. `tlb` is the translation cache, which never drops an
entry by itself here, the worst case for `free_page`; the handler's own accesses through the self-mapping are not cached in it, as page tables
are never given back. Its assertion on the uninitialized `base_address` passes or fails at random. Addresses are pages
where the code only takes them apart, bytes in the pools.

**`Devices`** puts four modules together. **`Interrupts`** has the dispatcher and, as external parts, the two 8259 controllers:
requests waiting (`irr`), lines in service, priorities; `dispatch_interrupt` is one step from the acceptance of a request to the
end-of-interrupt, as the gates clear the interrupt flag and no handler sets it. `booted` counts the steps of P4's `main` up to
`enable_interrupts`. **`Caller`** is the flow of control they interrupt: `pc` is the next step of the device operation it is in and `loc`
holds its locals. **`SimpleTimer`**, **`SimpleKeyboard`** and **`Console`** have a handler's part, which is one step, and the
operations kernel code calls, with every read and write of shared variables a step of its own. The makefiles build without
optimization, so `csr_x++` is a load, an addition and a store, and a polling loop reads memory each time. In `putch` this gives up to
a dozen steps; a handler's `puts` uses the same definitions of scrolling (`Put`). Histories: `elapsed` (timer interrupts handled),
`typed` (keys handled during a call), `paper` (all output on a page without an end), `torn` (characters that a handler's output
interrupted). Characters are those that take a place (`Printable`) and the four `putch` treats by itself (`Control`). Colours, hardware
cursor and number formatting are left out; a message is any sequence of printables and newlines, in the run one letter and a newline.

Operators marked *Deviation* are variants of the operator below them with a plausible
mistake. No specification uses them. They document which mistake each property would catch:
`PROJECT.json` pairs each checked property with one, and replacing the operator by its
deviation makes TLC report that property violated.

## 3. Runs

| run | instance | result |
|---|---|---|
| `threads` | 4 threads as in `kernel.C`, one running for ever, 2 bursts each, P6 flags | holds |
| `threads_p5_timer` | the same with P5's `thread_start` and its two endless threads | `TimerAlive` fails |
| `linked_list` | 2 values, 4 nodes ever allocated | holds |
| `switch_p5` | 3 threads, interrupts off in threads | holds |
| `switch_p6` | 3 threads, interrupts on in threads | `SwitchReturns` fails |
| `disk` | 3 threads, one disk user, 3 blocks, 5 iterations | holds |
| `disk_two_users` | the same with two disk users | `TransfersItsOwnBlock` fails |
| `frames` | pools of 8 and 12 frames, a hole of 4, requests up to 3, disciplines `single` and `stack` | holds |
| `frames_any` | the same with discipline `any` | `SequencesDisjoint` fails |
| `paging` | 4 entries to a page, pages of 2 bytes, 2 pools of 3 pages, requests up to 3 bytes, 8 frames | holds |
| `paging_release` | the same | `ReleaseGivesBack` fails |
| `devices` | 2 rows of 4 columns, 2 ticks to a second, lines 0, 1 and 14, 2 keys, 4 interrupts, 3 calls | holds |

What the properties say:

* `threads`: `NoThreadLost` (a thread that can run is queued once or running; one that is over is neither),
  `CpuStaysInCode` (`yield` in `thread_shutdown` never returns), `InterruptFlagKept` (the assertion in
  `enable_interrupts` holds, and each thread always runs with the flag `thread_start` left it),
  `StarvationFree`, `TimerAlive`, and `RoundRobinOrder`, the refinement of `RoundRobin` with its fairness.
* `linked_list`: `WellLinked` (links agree in both directions, no deleted node reachable, none leaked) and
  `ImplementsSequence`, the refinement of `ListSpec` including every answer.
* `switch_*`: `SwitchReturns` (what `iret` pops is where the thread called from, on the stack it had, with its flag),
  `FramesAgree` (the constant 68 and the faked frame fit what the switch pushes), `StartChain` (plain `ret`s lead
  from `thread_start` to the function to `thread_shutdown`).
* `disk*`: `TransfersItsOwnBlock`, `ReadBackMatches` (`fun2`'s `assert(false)` is not reached), `QueuedOnce`,
  `YieldsWhileWaiting`, `JobsFinish`.
* `frames*`: `BitmapAgrees` (codes say exactly what is held), `FreeCountExact`, `HaltsOnlyWhenExhausted`,
  `ImplementsAllocator`, and for the documented interface `SequencesDisjoint`.
* `paging`: `FramesAccounted` (each frame is free, the directory, a table or behind one page, and one only),
  `StructuresIntact` (shared memory and the self-mapping survive every store), `NoStaleTranslation` (the cache agrees with the tables),
  `OnlyRegionsMapped` (frames go only to regions and lists), `HaltsForCause` (out of frames, out of space and illegal access mean
  just that), `ImplementsAllocator` (regions are disjoint, inside their pool and clear of its list), `AccessCompletes`.
* `devices`: `RequestsPass` (no request waits behind an interrupt that is over), `NoUncaptured` (timer and keyboard requests always
  find their handlers, even those that waited through start-up), `ReadingWithinASecond` (`current` lags its call by less than a second
  and never runs ahead), `ReadReturnsFreshKey` (`read` returns a key pressed during the call), `ConsoleContained` (whatever a handler
  prints in the midst of `putch`, the cursor ends on the screen and nothing is stored outside it but in the row after),
  `ScreenShowsText` (without such an interrupt the screen is the end of the endless page). The row after the screen really is written.
  Two things the code does are outside these properties on purpose: a backspace interrupted after its test leaves the cursor at -1, and
  two readings of `current` may go back by a second.

**Bounds.** Four threads give a running one, one that ends, and two whose order could be disturbed;
two bursts make every thread pass the CPU on to each other one and once more. Only the loop
counter of finite functions is bounded, by their own `NB_ITERATIONS`. Four nodes give chains with two inner
nodes, and repeated values make `remove` unlink neighbours. A stack of 24 words holds one frame (17 words), the
words under it and the two of a call; the switch is not nested. Three threads cover the one that leaves, the one that comes and
one already suspended. Five iterations over three blocks wrap round and reread written blocks. The pools have two and three bitmap
bytes, so allocations cross bytes and the skip over a full byte happens; `UIntRange` 64 leaves a wrapped counter recognizable.
In `paging` the directory has a shared table, two tables for pools and itself; the second pool reaches into a table its list is not
in, and eight frames are two fewer than everything would need, so frames run out both before and after a page table is taken.
A page of two bytes makes sizes that are rounded up and sizes that are not.
In `devices` start-up prints three lines, so the cursor is in the last row from then on and every newline scrolls, as on a screen in
use; two tab stops to a row let both a tab and letters wrap. Four interrupts give two carries of the ticks, two tears of one
`putch`, or a second request on every line. Three calls fill a row, wrap it or take back a character.

**Fairness.** Each thread's next step is weakly fair: the step is enabled only while the thread has the CPU, and a CPU
executes the code it is in. The timer chip is programmed once to fire periodically, so `TimerFires` is fair; `TimerInterrupt`
is weakly fair because a CPU with the flag set takes a pending interrupt between two instructions. A disk command that
was accepted completes (`ControllerReady`). In `Paging` the CPU takes the fault or retries the access it is at. No fairness is assumed of `ThreadSwitch`, `LinkedList`, `ContFramePool` and `Devices`,
which have safety properties only. Deadlock is checked in every run but `disk_two_users`, where a
failed assertion of `fun2` stops the kernel; the halted frame pools of `ContFramePool` spin in `abort()`, which is a step.

**Where the code and what is said of it part** (the five runs that fail):

1. `threads_p5_timer`: in P5 threads start with interrupts disabled and nothing enables them: the timer
   "dies", as the comment in `P5/kernel.C` puts it. P6 repairs it.
2. `switch_p6`: that repair exposes the switch: it keeps the return address and `eax` below the stack pointer for
   up to three instructions. An interrupt there destroys them.
3. `disk_two_users`: a `BlockingDisk` is safe for one thread only, which is how `kernel.C` uses it.
4. `frames_any`: `get_frames(n)` for n > 1 may grant frames that are held. The repository's own callers do not
   release several-frame sequences out of order, so they do not meet it.
5. `paging_release`: `release` compares where it should assign and gives nothing back. `Paging` still checks `free_page`, which
   is public: `FreePage` calls it as `release` would.

## 4. Proofs

The theorems hold for every value of the constants that the `ASSUME`s of the modules allow. Where one needs more, it says
so in its own hypothesis, and the table names what in the code gives it. Each rests on an inductive invariant, with one lemma per
action that it is preserved, and short theorems that take the properties from it.

| module | theorems | inductive invariant | hypothesis, and what justifies it |
|---|---|---|---|
| `ThreadsProofs` | `TypeCorrect`, `ThreadsAreNeverLost`, `ShutdownNeverReturns`, `SwitchesKeepInterruptFlag` | `Consistent` | none |
| | `ImplementsRoundRobin` | `Consistent`, `ResumedIsLast` | none |
| `LinkedListProofs` | `ListWellLinked`, `ListImplementsSequence` | `HasAChain` | none |
| `BlockingDiskProofs` | `DiskTypeCorrect`, `WaitersQueuedOnce`, `WaitersYield` | `Queues` | none |
| | `SingleUserReadsBack`, `SingleUserTransfersItsOwnBlock` | `Served` | at most one user: in `P6/kernel.C` only `fun2` touches the disk |
| `ThreadSwitchProofs` | `SwitchAlwaysReturns`, `FramesAlwaysAgree`, `ChainAlwaysFollowed` | `Switching` | `StartEnables = FALSE`: `thread_start` of P5 enables nothing |
| `ContFramePoolProofs` | `PoolsTypeCorrect`, `BitmapAlwaysAgrees`, `FreeCountAlwaysExact`, `SequencesStayDisjoint`, `HaltsOnlyOnExhaustion` | `PoolsAgree` | `Clients` within `{"single", "stack"}`: `page_table.C` and `test_memory` |
| | `PoolsImplementAllocator` | `PoolsAgree` | and `InfoFrames <= MaxRequest`: start-up makes such a request itself |
| `PagingProofs` | `PagingTypeCorrect`, `FramesAlwaysAccounted`, `StructuresStayIntact`, `TranslationsNeverStale`, `OnlyRegionsEverMapped`, `StopsForCause` | `PagingInv` | none |
| | `PoolsImplementRegions` | `PagingInv` | `PoolsApart`: the two pools of `P4/kernel.C`, 512 MB and 1 GB up, do not overlap |
| `DevicesProofs` | `RequestsAlwaysPass`, `HandlersAreThere` | `Dispatching` | none |
| | `ReadingsWithinASecond`, `ReadsAreFresh` | `Clock`, `FreshKey` | none |
| | `DevicesTypeCorrect`, `ScreenAlwaysShowsText` | `ConsoleTypes`, `Shown` | none |
| | `CursorComesBack` | `Contained` | two rows at least: `console.C` has 25. With one, a line printed in the midst of a scroll would make it clear the row before the screen |

The hypotheses are not idle: without them the runs `disk_two_users`, `switch_p6` and `frames_any` find the property violated
(`SwitchReturns` and `SequencesDisjoint` themselves, and `TransfersItsOwnBlock`). `ReadyListProofs` has what `push_back`, `front`, `pop_front` and
`remove` do to the elements of a queue and to its freedom from duplicates, which both users of the scheduler need.

The arguments:

* **`Consistent`.** None of the four properties of `Threads` is inductive alone. `BootConsistent`: before the first dispatch nobody
  runs and the first thread is not admitted, after it everybody is. `ForeverRuns`: an endless thread never gets into
  `thread_shutdown`. With `NoThreadLost` that gives `CpuStaysInCode`: when *t* shuts down, an endless thread is not running, hence
  queued, hence the queue is not empty. `SavedFlagKept`: the flag in a suspended context is clear before the thread has started and
  `StartEnables` after; a switch exchanges it with the CPU's.
* **`ResumedIsLast`** is what the ring needs: between `resume` and `yield` the running thread is the last of the queue, so dropping its
  copy there and finding it at the end of the ring afterwards are the same. The theorem is the safety half of
  `RoundRobinOrder`; that the ring keeps turning is liveness.
* **`HasAChain`.** `WellLinked` follows the chain by a function that recurses, of which nothing can be said before it is known to end. The
  invariant says instead that there is some row of different nodes, none of them freed, linked both ways, with `head`, `tail` and `len` to fit.
  Following the links then yields that row (`ChainFollowed`). Every method either takes one node out of the row (`UnlinkShortens`, for the first
  node, the last, the only one and one in between; `pop_front` is the case of the first) or puts a new one at an end. For `remove`,
  `WalkKeeps` says what the chain is after *i* turns: what is kept of the first *i* nodes, then the others, with the loop
  at the first of these (`VisitProgresses` is one turn). It is an induction over the turns, carried out from the least turn at
  which it fails. The data along the row is the sequence of `ListSpec`, so the refinement is the same argument.
* **`Queues`.** A waiting user is queued once and the running thread not at all. `WaitersYield` counts: with a thread that never uses the
  disk the queue holds another thread than the one that polls.
* **`Served`** says for each place in a transfer what the controller is doing: what it was told last is what the one user
  told it, it is not idle before the transfer, and a block is on the medium as it was written before it is read back.
* **`Switching`** describes the stack of every suspended thread as a frame of the switch under the address `dispatch_to` returns
  to, or as the one `setup_context` faked, and the running thread's instruction by instruction: which of its words above and
  below `esp` are still to be used (`Progress`). `Masked` says that interrupts are on only until the first thread starts, when
  nothing below `esp` is needed. The frame `iret` pops is then the one that was left, and `saved_esp` is where it starts.
* **`PoolsAgree`.** Codes, counter and sequences held say the same (`BitmapAgrees`, `FreeCountExact`), sequences are disjoint and inside their
  pools, and `KernelInOrder`: during start-up and under the discipline `stack` the kernel pool's frames are taken from the lowest
  up without a gap. The last is why the scan of `get_frames`, whose count is not reset at every allocated frame, still finds free
  frames: everything behind the first free frame is free. A single frame needs no run at all. The invariant also says that the process pool's descriptor frames and the hole
  were taken at start-up, and that a halted pool had no run of the length asked for.
* **`PagingInv`.** `TableInv`: directory, tables and pages use distinct frames, none of them free; the last entry of the directory
  is the directory, the shared memory's table is the identity; every cached translation is what the tables say. `PoolInv`: each
  list has its own page first, then regions in order, of whole pages, inside the pool; a pool half constructed is the one whose
  first page is being accessed, and has no list yet. The fault handler stores through the recursive entry several times, and
  each store goes where the tables of that moment lead: its lemmas follow the memory from store to store and show that each hits
  the entry it is meant for, although the new table holds whatever its frame held before. First fit (`Hole`, `RegionPlaced`)
  yields a region between its neighbours, or there is no address where one fits (`HaltsForCause`). The cache is right because `free_page`
  clears the entry before it reloads `cr3`, and because otherwise entries only go from not present to present, of which nothing is cached.
* **`Dispatching`**: handlers are in place before interrupts are enabled, and nothing is in service between two
  dispatches, because each sends its end-of-interrupt to every controller it came through.
* **`Clock`**: `elapsed = seconds * hz + ticks` with `ticks < hz` (`Counting`), and what a call has read so far relates to the time of
  the call (`Reading`). If the tick that carries comes between the two loads, the seconds read are one behind and the ticks
  start from zero: less than a second is missing and never one too many. `InOneCall` says which locals a step may rely on.
* **`ConsoleTypes`, `Contained`.** `Placed` bounds the cursor by the step `putch` is in: on the screen, or on the right margin, or in the row after
  the screen, each until the step that repairs it. A handler's line may find it in any of these places; its first character brings it
  back (`PutMoves`) and every other keeps it there, so the whole line does (`PutsMove`). What a fold over a line returns is not proved by induction
  but by its unrolling (`PutsOneByOne`): a sequence of consoles, one for each character, along which a property is passed on (`PassedOn`, from
  the least element of a set of naturals). With at least two rows a scroll moves the screen by one row or two and stays inside it.
* **`Shown`** compares the screen with the page before, during and after a call. `TypesAlike` is the comparison for one
  character: cursor and cells move alike, and when the row after the last is reached, scrolling moves the screen (`ScrollsAlike`) where the page
  just goes on. Within `putch`, `Finished` is the console as it will be when the call is over if nothing is printed in its midst: every
  step leaves it as it was (`PutchFinishes`), as long as what has been read is still so (`Fresh`).
* **`FreshKey`**: while `key_pressed` is set after the call has cleared it, `key_code` is a key typed during the call.

Every invariant and every action property of the passing runs is thereby a theorem, and so is the safety half of each refinement.

Only model-checked:

* liveness, which needs fairness: `StarvationFree`, `TimerAlive`, `JobsFinish`, `AccessCompletes`, the fairness half of `RoundRobinOrder`;
* the five runs that find a violation: TLC's counterexample is the evidence there.

## 5. What could follow

The modules planned are written and their safety is proved. What would add to them:

1. A proof of liveness, with a prover that handles fairness and `ENABLED`; TLC has checked it on the instances of section 3 only.
2. The disk driver beside the page tables: no kernel of the repository runs both, so their composition would be a design and not a model.
3. The scheduler's queue as `LinkedList` inside `Threads`. `ListImplementsSequence` allows the sequence of `ReadyList` to stand for it now,
   because no interrupt handler calls a method of the list: the timer's only counts and prints, and one thread at a time uses the queue.

## 6. Not modelled

Stack and heap exhaustion, and the heap itself, which promises nothing but fresh addresses; the boot loader, descriptor tables and
string utilities; exception handlers other than the page fault, which print and stop; `deregister_handler`, `set_TextColor` and the
number formatting of the console; `SimpleDisk::wait_until_ready`, which asserts instead of waiting and which `BlockingDisk` replaces; the
error state of the disk and a controller still busy after a write, for which the driver has no code; spurious interrupts; the earlier
frame pools of P2, superseded in P3; instruction-level detail outside the switch and the devices; and the wording of output.
