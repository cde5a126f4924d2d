--------------------------- MODULE ContFramePool ---------------------------
(***************************************************************************)
(* The contiguous frame pools (P4/cont_frame_pool.C, the same file in P3): *)
(* the kernel pool, which keeps its bitmap in its own first frames, and    *)
(* the process pool, whose bitmap lives in frames of the kernel pool and   *)
(* which has a hole of inaccessible memory.  The start-up code of kernel.C *)
(* builds both; then clients get and release frames.                       *)
(***************************************************************************)
EXTENDS Integers, FiniteSets, FiniteSetsExt

CONSTANTS
    KernelBase, KernelSize,     \* KERNEL_POOL_START_FRAME, KERNEL_POOL_SIZE
    ProcessBase, ProcessSize,   \* PROCESS_POOL_START_FRAME, PROCESS_POOL_SIZE
    HoleBase, HoleSize,         \* MEM_HOLE_START_FRAME, MEM_HOLE_SIZE
    FramesPerInfo,              \* frames one info frame describes: FRAME_SIZE * 4
    UIntRange,                  \* unsigned int is 0 .. UIntRange - 1
    Clients,                    \* which of the client disciplines below may occur
    MaxRequest                  \* bound: the largest request of a client

\* The addresses in P4/kernel.C: two disjoint pools whose sizes are whole bytes of the
\* bitmap (the constructor rounds any other size up), the hole byte-aligned inside.
ASSUME FramePoolAssumption ==
    /\ {KernelBase, ProcessBase, HoleBase} \subseteq Nat
    /\ {KernelSize, ProcessSize, HoleSize, FramesPerInfo, UIntRange, MaxRequest}
          \subseteq Nat \ {0}
    /\ KernelSize % 4 = 0 /\ ProcessSize % 4 = 0
    /\ KernelBase > 0 /\ KernelBase + KernelSize <= ProcessBase
    /\ ProcessBase <= HoleBase /\ HoleBase + HoleSize <= ProcessBase + ProcessSize
    /\ (HoleBase - ProcessBase) % 4 = 0 /\ HoleSize % 4 = 0
    /\ KernelSize + ProcessSize < UIntRange
    /\ Clients \subseteq {"single", "stack", "any"}

PoolId == {"kernel", "process"}

\* The two bits of a frame: 11 free, 10 head of a sequence, 00 allocated and not head,
\* 01 inaccessible or in use for the bitmap itself.
Code == {"free", "head", "allocated", "inaccessible"}

LowBit(c) == c \in {"free", "inaccessible"}

NoPool == [base |-> 0, nframes |-> 0, nFreeFrames |-> 0, bitmap |-> <<>>]

VARIABLES
    pool,       \* the pools; NoPool until constructed
    boot,       \* how far main() is: "kernel", "info", "process", "hole", "up"
    held,       \* the sequences granted and not released: [base, size]
    client,     \* the discipline the clients follow
    halted      \* an assertion failed: the pool and the number of frames asked for

vars == <<pool, boot, held, client, halted>>

Running == [pool |-> "none", size |-> 0]

Index(P) == 0..P.nframes - 1

needed_info_frames(n) == (n - 1) \div FramesPerInfo + 1

\* Deviation: the info frames are not set aside.
NewPool_unreserved(base, n, info) ==
    LET size  == IF n % 4 = 0 THEN n ELSE n + 4 - (n % 4)
        own   == IF info = 0 THEN needed_info_frames(size) ELSE 0
    IN  [base        |-> base,
         nframes     |-> size,
         nFreeFrames |-> (n - own) % UIntRange,
         bitmap      |-> [i \in 0..size - 1 |-> "free"]]

\* The constructor, without its entry into pools[]. The size is rounded up to whole bytes,
\* but the count of free frames is not.
NewPool(base, n, info) ==
    LET size  == IF n % 4 = 0 THEN n ELSE n + 4 - (n % 4)
        own   == IF info = 0 THEN needed_info_frames(size) ELSE 0
    IN  [base        |-> base,
         nframes     |-> size,
         nFreeFrames |-> (n - own) % UIntRange,
         bitmap      |-> [i \in 0..size - 1 |-> IF i < own THEN "inaccessible" ELSE "free"]]

Init ==
    /\ pool = [p \in PoolId |-> NoPool]
    /\ boot = "kernel"
    /\ held = {}
    /\ client \in Clients
    /\ halted = Running

-----------------------------------------------------------------------------
(* get_frames.                                                             *)

\* The scan skips a byte whose four frames are all 00, and only then resets its count.
InFullByte(P, i) == \A k \in 0..3 : P.bitmap[4 * (i \div 4) + k] = "allocated"

\* count after frame i, a free one: the free frames since the last skipped byte.
CountAt(P, i) ==
    Cardinality({j \in 0..i : P.bitmap[j] = "free" /\ \A k \in j..i : ~InFullByte(P, k)})

\* Deviation: the scan stops one free frame too late.
Found_late(P, n) == {i \in Index(P) : P.bitmap[i] = "free" /\ CountAt(P, i) > n}

\* The indices at which the scan has counted n frames. It stops at the first.
Found(P, n) == {i \in Index(P) : P.bitmap[i] = "free" /\ CountAt(P, i) = n}

CanGet(P, n) == P.nFreeFrames > 0 /\ Found(P, n) # {}

\* Where the granted sequence starts: n - 1 frames back, whatever those frames are.
StartOf(P, n) == Min(Found(P, n)) - n + 1

\* Deviation: the first frame is not marked as the head of its sequence.
Granted_no_head(P, n) ==
    LET start == StartOf(P, n) IN
    [P EXCEPT !.nFreeFrames = (@ - n) % UIntRange,
              !.bitmap = [i \in Index(P) |->
                  IF i \in start..start + n - 1 THEN "allocated" ELSE @[i]]]

\* Deviation: only one frame is taken off the count.
Granted_miscounts(P, n) ==
    LET start == StartOf(P, n) IN
    [P EXCEPT !.nFreeFrames = (@ - 1) % UIntRange,
              !.bitmap = [i \in Index(P) |->
                  CASE i = start -> "head"
                    [] i \in start + 1..start + n - 1 -> "allocated"
                    [] OTHER -> @[i]]]

Granted(P, n) ==
    LET start == StartOf(P, n) IN
    [P EXCEPT !.nFreeFrames = (@ - n) % UIntRange,
              !.bitmap = [i \in Index(P) |->
                  CASE i = start -> "head"
                    [] i \in start + 1..start + n - 1 -> "allocated"
                    [] OTHER -> @[i]]]

Halt(p, n) == halted' = [pool |-> p, size |-> n] /\ UNCHANGED <<pool, boot, held, client>>

\* get_frames(n) on pool p: both ways to fail are failed assertions, which halt the kernel.
get_frames(p, n) ==
    LET P == pool[p] IN
    /\ CanGet(P, n)
    /\ pool' = [pool EXCEPT ![p] = Granted(P, n)]
    /\ held' = held \cup {[base |-> P.base + StartOf(P, n), size |-> n]}

-----------------------------------------------------------------------------
(* main() of kernel.C.                                                     *)

BootKernelPool ==
    /\ boot = "kernel" /\ boot' = "info"
    /\ pool' = [pool EXCEPT !.kernel = NewPool(KernelBase, KernelSize, 0)]
    /\ UNCHANGED <<held, client, halted>>

InfoFrames == needed_info_frames(ProcessSize)

BootInfoFrames ==
    /\ boot = "info"
    /\ IF CanGet(pool["kernel"], InfoFrames)
       THEN get_frames("kernel", InfoFrames) /\ boot' = "process" /\ UNCHANGED <<client, halted>>
       ELSE Halt("kernel", InfoFrames)

\* The constructor's two assertions, that the info frames are outside the pool and
\* are enough, hold by what BootInfoFrames asked for.
BootProcessPool ==
    /\ boot = "process" /\ boot' = "hole"
    /\ pool' = [pool EXCEPT !.process = NewPool(ProcessBase, ProcessSize, KernelBase)]
    /\ UNCHANGED <<held, client, halted>>

\* mark_inaccessible. Its assertion is meant to ask whether the frame is free but, for
\* the precedence of & and >, asks for the low bit of the last frame of the byte.
MarkedInaccessible(P, base, n) ==
    [P EXCEPT !.nFreeFrames = (@ - n) % UIntRange,
              !.bitmap = [i \in Index(P) |->
                 IF P.base + i \in base..base + n - 1 THEN "inaccessible" ELSE @[i]]]

MarkAsserts(P, base, n) ==
    \A i \in base - P.base .. base - P.base + n - 1 :
        i \in Index(P) /\ LowBit(P.bitmap[4 * (i \div 4) + 3])

BootHole ==
    /\ boot = "hole"
    /\ IF MarkAsserts(pool["process"], HoleBase, HoleSize)
       THEN /\ boot' = "up"
            /\ pool' = [pool EXCEPT !.process = MarkedInaccessible(@, HoleBase, HoleSize)]
            /\ UNCHANGED <<held, client, halted>>
       ELSE Halt("process", 0)

-----------------------------------------------------------------------------
(* Clients.                                                                *)

\* Frames the start-up code keeps for the process pool's bitmap.
BootHeld(r) == r.base < KernelBase + KernelSize /\ \A s \in held : r.base <= s.base

\* "single": one frame at a time from either pool, released in any order (page_table.C).
\* "stack": any number from the kernel pool, the last one got released first
\*          (test_memory in P2/kernel.C).
\* "any":   what cont_frame_pool.H allows: any number, any pool, any order.
MayGet(p, n) ==
    \/ client = "single" /\ n = 1
    \/ client = "stack" /\ p = "kernel"
    \/ client = "any"

MayRelease(r) ==
    /\ ~BootHeld(r)
    /\ client = "stack" => \A s \in held : s.base <= r.base

ClientGet(p, n) ==
    /\ boot = "up" /\ halted = Running
    /\ MayGet(p, n)
    /\ IF CanGet(pool[p], n)
       THEN get_frames(p, n) /\ UNCHANGED <<boot, client, halted>>
       ELSE Halt(p, n)

\* The pool release_frames finds: the first one constructed whose range has the frame.
PoolOf(f) == IF f < pool["kernel"].base + pool["kernel"].nframes THEN "kernel" ELSE "process"

\* The frames after head i that release_frame frees: up to one with either bit set.
RunFrom(P, i) ==
    {j \in Index(P) : j > i /\ \A k \in i + 1..j : P.bitmap[k] = "allocated"}

\* release_frame, whose assertion demands a head.
ClientRelease(r) ==
    LET p   == PoolOf(r.base)
        P   == pool[p]
        i   == r.base - P.base
        run == {i} \cup RunFrom(P, i)
    IN
    /\ boot = "up" /\ halted = Running
    /\ MayRelease(r)
    /\ IF P.bitmap[i] = "head"
       THEN /\ pool' = [pool EXCEPT ![p] =
                   [P EXCEPT !.nFreeFrames = (@ + Cardinality(run)) % UIntRange,
                             !.bitmap = [j \in Index(P) |-> IF j \in run THEN "free" ELSE @[j]]]]
            /\ held' = held \ {r}
            /\ UNCHANGED <<boot, client, halted>>
       ELSE Halt(p, 0)

\* abort() spins for ever.
Halted == halted # Running /\ UNCHANGED vars

Next ==
    \/ BootKernelPool \/ BootInfoFrames \/ BootProcessPool \/ BootHole
    \/ \E p \in PoolId, n \in 1..MaxRequest : ClientGet(p, n)
    \/ \E r \in held : ClientRelease(r)
    \/ Halted

Spec == Init /\ [][Next]_vars

-----------------------------------------------------------------------------
(* Properties.                                                             *)

Frames(r) == r.base .. r.base + r.size - 1

PoolFrames(p) == pool[p].base .. pool[p].base + pool[p].nframes - 1

TypeOK ==
    /\ \A p \in PoolId :
          /\ pool[p].nFreeFrames \in 0..pool[p].nframes
          /\ \A i \in Index(pool[p]) : pool[p].bitmap[i] \in Code
    /\ boot \in {"kernel", "info", "process", "hole", "up"}
    /\ client \in Clients
    /\ \A r \in held : r.base \in Nat /\ r.size \in Nat \ {0}

\* "Allocates a number of contiguous frames" (cont_frame_pool.H:91-98): no frame is in
\* two sequences held at the same time.
SequencesDisjoint == \A r, s \in held : r # s => Frames(r) \cap Frames(s) = {}

\* The bitmap says what is held, and nothing else: a head where a sequence starts,
\* "allocated" on its other frames, "free" only on frames nobody holds that memory has.
BitmapAgrees ==
    \A p \in PoolId : \A i \in Index(pool[p]) :
        LET f == pool[p].base + i
            c == pool[p].bitmap[i]
            own == p = "kernel" /\ i < needed_info_frames(KernelSize)
            hole == boot = "up" /\ f \in HoleBase..HoleBase + HoleSize - 1
        IN  /\ c = "head" <=> \E r \in held : f = r.base
            /\ c = "allocated" <=> \E r \in held : f \in Frames(r) \ {r.base}
            /\ c = "inaccessible" <=> own \/ hole

\* nFreeFrames, which get_frames trusts before it looks, is the number of free frames.
FreeCountExact ==
    \A p \in PoolId :
        pool[p].nFreeFrames = Cardinality({i \in Index(pool[p]) : pool[p].bitmap[i] = "free"})

\* The kernel halts in get_frames only when the pool has no n free frames in a row, and
\* never in release_frame or mark_inaccessible.
HaltsOnlyWhenExhausted ==
    halted # Running =>
        LET P == pool[halted.pool] IN
        /\ halted.size > 0
        /\ \A i \in Index(P) : \E k \in i..i + halted.size - 1 :
              k \in Index(P) => P.bitmap[k] # "free"

Usable ==
    (KernelBase + needed_info_frames(KernelSize) .. KernelBase + KernelSize - 1)
    \cup ((ProcessBase .. ProcessBase + ProcessSize - 1)
             \ (HoleBase .. HoleBase + HoleSize - 1))

Allocator ==
    INSTANCE RegionAllocator WITH
        Unit <- Usable, MaxSize <- MaxRequest, stopped <- (halted # Running)

\* Both pools together are one allocator of ranges: each grant is disjoint from what is
\* held, from the bitmaps' own frames and from the hole; each release gives all of it back.
ImplementsAllocator == Allocator!Spec
=============================================================================
