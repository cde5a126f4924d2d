------------------------ MODULE ContFramePoolProofs ------------------------
(***************************************************************************)
(* Theorems about ContFramePool.tla, for pools, holes and requests of any  *)
(* size and the two disciplines the repository's own clients follow:       *)
(* single frames in any order, and any number of frames in stack order.    *)
(* The bitmaps, the counts and the sequences held agree, the kernel halts  *)
(* only when a pool is exhausted, and both pools together implement        *)
(* RegionAllocator.tla.                                                    *)
(***************************************************************************)
EXTENDS ContFramePool, FiniteSetTheorems, TLAPS

\* The frames of a pool, and whether main() has built it.
PoolBase(p) == IF p = "kernel" THEN KernelBase ELSE ProcessBase
PoolSize(p) == IF p = "kernel" THEN KernelSize ELSE ProcessSize
Built(p) == IF p = "kernel" THEN boot # "kernel" ELSE boot \in {"hole", "up"}
RangeOf(p) == PoolBase(p) .. PoolBase(p) + PoolSize(p) - 1

FreeOf(P) == {i \in Index(P) : P.bitmap[i] = "free"}

Own == needed_info_frames(KernelSize)

\* What the start-up code holds for the process pool's bitmap.
InfoSequence == [base |-> KernelBase + Own, size |-> InfoFrames]

PoolState(p) ==
    [base : {PoolBase(p)}, nframes : {PoolSize(p)}, nFreeFrames : 0..PoolSize(p),
     bitmap : [0..PoolSize(p) - 1 -> Code]]

PoolsBuilt ==
    /\ pool = [p \in PoolId |-> pool[p]]
    /\ \A p \in PoolId : IF Built(p) THEN pool[p] \in PoolState(p) ELSE pool[p] = NoPool
    /\ boot \in {"kernel", "info", "process", "hole", "up"}
    /\ client \in Clients

\* Every sequence held lies in one of the pools, and no two share a frame.
SequencesInPools ==
    /\ held \subseteq [base : Nat, size : Nat \ {0}]
    /\ \A r \in held : \E p \in PoolId : Built(p) /\ Frames(r) \subseteq RangeOf(p)
    /\ SequencesDisjoint

\* The start-up code's sequence is held as soon as it is granted, and is the lowest.
BootSequence ==
    /\ boot \in {"kernel", "info"} => held = {}
    /\ boot \in {"process", "hole"} => held = {InfoSequence}
    /\ boot \in {"process", "hole", "up"} =>
          /\ InfoSequence \in held /\ \A r \in held : InfoSequence.base <= r.base
          /\ Own + InfoFrames <= KernelSize

\* Frames from e on are free, and no other.
FreeFrom(P, e) == \A i \in Index(P) : P.bitmap[i] = "free" <=> i >= e

\* As long as the start-up code runs, and with clients that keep stack order, the kernel
\* pool's frames are taken from the lowest up, without a gap.
KernelInOrder ==
    boot # "kernel" /\ (boot # "up" \/ client = "stack") =>
        \E e \in 0..KernelSize : FreeFrom(pool["kernel"], e)

\* The request the kernel has halted on cannot be met.
HaltedFor ==
    halted # Running =>
        /\ halted.pool \in PoolId /\ halted.size \in Nat \ {0}
        /\ halted = [pool |-> halted.pool, size |-> halted.size]
        /\ boot \in {"info", "up"}
        /\ ~CanGet(pool[halted.pool], halted.size)
        /\ boot = "info" => halted.pool = "kernel" /\ halted.size = InfoFrames
        /\ boot = "up" => MayGet(halted.pool, halted.size)

PoolsAgree ==
    /\ PoolsBuilt
    /\ SequencesInPools
    /\ BootSequence
    /\ BitmapAgrees
    /\ FreeCountExact
    /\ KernelInOrder
    /\ HaltedFor

-----------------------------------------------------------------------------
(* Numbers and pools.                                                      *)

\* What the assumption on the addresses says of each pool.
LEMMA PoolFacts ==
    /\ \A p \in PoolId :
          /\ PoolBase(p) \in Nat \ {0} /\ PoolSize(p) \in Nat \ {0}
          /\ PoolSize(p) % 4 = 0 /\ PoolSize(p) < UIntRange
    /\ UIntRange \in Nat
    /\ Own \in 1..KernelSize
    /\ InfoFrames \in Nat \ {0}
    /\ \A p, q \in PoolId : p # q => RangeOf(p) \cap RangeOf(q) = {}
PROOF
<1>1. \A n, f \in Nat \ {0} : (n - 1) \div f + 1 \in 1..n
  OBVIOUS
<1>2. \A n \in Nat \ {0} : needed_info_frames(n) \in 1..n
  BY <1>1, FramePoolAssumption DEF needed_info_frames
<1>3. KernelSize \in Nat \ {0} /\ ProcessSize \in Nat \ {0}
  BY FramePoolAssumption
<1>4. Own \in 1..KernelSize
  BY <1>2, <1>3 DEF Own
<1>5. InfoFrames \in Nat \ {0}
  BY <1>2, <1>3 DEF InfoFrames
<1>6. \A p \in PoolId : /\ PoolBase(p) \in Nat \ {0} /\ PoolSize(p) \in Nat \ {0}
                        /\ PoolSize(p) % 4 = 0 /\ PoolSize(p) < UIntRange
  BY FramePoolAssumption DEF PoolId, PoolBase, PoolSize
<1>7. \A p, q \in PoolId : p # q => RangeOf(p) \cap RangeOf(q) = {}
  BY FramePoolAssumption DEF PoolId, PoolBase, PoolSize, RangeOf
<1> QED
  BY <1>4, <1>5, <1>6, <1>7, FramePoolAssumption

\* A set of naturals has a least element.
LEMMA NatHasMin ==
    ASSUME NEW S \in SUBSET Nat, S # {}
    PROVE  Min(S) \in S /\ \A y \in S : Min(S) <= y
PROOF
<1> DEFINE R == OpToRel(<, Nat)
<1>1. IsWellFoundedOn(R, Nat)
  BY NatLessThanWellFounded
<1>2. \A x, y \in S : <<x, y>> \in R <=> x < y
  BY DEF OpToRel
<1> HIDE DEF R
<1>3. PICK m \in S : \A y \in S : ~(<<y, m>> \in R)
  BY <1>1, WFMin
<1>4. \A y \in S : ~(y < m)
  BY <1>2, <1>3
<1>5. \E x \in S : \A y \in S : x <= y
  BY <1>4
<1> QED
  BY <1>5 DEF Min

-----------------------------------------------------------------------------
(* The scan of get_frames.                                                 *)

\* A pool's indices and free frames.
LEMMA PoolShape ==
    ASSUME NEW p \in PoolId, NEW P \in PoolState(p)
    PROVE  /\ P.base = PoolBase(p) /\ P.nframes = PoolSize(p)
           /\ P.nFreeFrames \in 0..PoolSize(p)
           /\ Index(P) = 0..PoolSize(p) - 1
           /\ P.bitmap \in [0..PoolSize(p) - 1 -> Code]
           /\ FreeOf(P) \in SUBSET Index(P) /\ FreeOf(P) \in SUBSET Nat
           /\ IsFiniteSet(FreeOf(P)) /\ Cardinality(FreeOf(P)) \in Nat
PROOF
<1>1. /\ P.base = PoolBase(p) /\ P.nframes = PoolSize(p)
      /\ P.nFreeFrames \in 0..PoolSize(p)
      /\ P.bitmap \in [0..PoolSize(p) - 1 -> Code]
  BY DEF PoolState
<1>2. Index(P) = 0..PoolSize(p) - 1
  BY <1>1 DEF Index
<1>3. FreeOf(P) \in SUBSET Index(P) /\ FreeOf(P) \in SUBSET Nat
  BY <1>2, PoolFacts DEF FreeOf
<1>4. IsFiniteSet(0..PoolSize(p) - 1)
  BY FS_Interval, PoolFacts
<1>5. IsFiniteSet(FreeOf(P))
  BY <1>2, <1>3, <1>4, FS_Subset
<1> QED
  BY <1>1, <1>2, <1>3, <1>5, FS_CardinalityType

\* The scan never skips the byte of a free frame.
LEMMA FreeByteNotFull ==
    ASSUME NEW p \in PoolId, NEW P \in PoolState(p), NEW i \in FreeOf(P)
    PROVE  ~InFullByte(P, i)
PROOF
<1>1. i \in Nat /\ P.bitmap[i] = "free"
  BY PoolShape DEF FreeOf
<1>2. \E k \in 0..3 : 4 * (i \div 4) + k = i
  BY <1>1
<1>3. "free" # "allocated"
  OBVIOUS
<1> QED
  BY <1>1, <1>2, <1>3 DEF InFullByte

\* Where the scan stops is a least index.
LEMMA StopsAtFirst ==
    ASSUME NEW p \in PoolId, NEW P \in PoolState(p), NEW n \in Nat \ {0}, Found(P, n) # {}
    PROVE  /\ Min(Found(P, n)) \in FreeOf(P)
           /\ CountAt(P, Min(Found(P, n))) = n
PROOF
<1>1. Found(P, n) \in SUBSET Nat
  BY PoolShape, PoolFacts DEF Found
<1>2. Min(Found(P, n)) \in Found(P, n)
  BY <1>1, NatHasMin
<1> QED
  BY <1>2 DEF Found, FreeOf

\* In a pool taken from the lowest frame up without a gap, the scan counts the free frames.
LEMMA CountInOrder ==
    ASSUME NEW p \in PoolId, NEW P \in PoolState(p), NEW e \in 0..PoolSize(p),
           FreeFrom(P, e), NEW i \in FreeOf(P)
    PROVE  CountAt(P, i) = i - e + 1
PROOF
<1>1. i \in Index(P) /\ i \in Nat /\ i >= e /\ e \in Nat
  <2>1. i \in Index(P) /\ P.bitmap[i] = "free"
    BY DEF FreeOf
  <2>2. i >= e
    BY <2>1 DEF FreeFrom
  <2> QED
    BY <2>1, <2>2, PoolShape, PoolFacts
<1> DEFINE S == {j \in 0..i : P.bitmap[j] = "free" /\ \A k \in j..i : ~InFullByte(P, k)}
<1>2. \A k \in e..i : k \in FreeOf(P)
  <2>1. \A k \in e..i : k \in Index(P) /\ k >= e
    BY <1>1, PoolShape, PoolFacts
  <2> QED
    BY <2>1 DEF FreeOf, FreeFrom
<1>3. \A k \in e..i : ~InFullByte(P, k)
  BY <1>2, FreeByteNotFull
<1>4. e..i \subseteq S
  BY <1>1, <1>2, <1>3 DEF FreeOf
<1>5. S \subseteq e..i
  BY <1>1, PoolShape, PoolFacts DEF FreeFrom
<1>6. S = e..i
  BY <1>4, <1>5
<1>7. Cardinality(e..i) = i - e + 1
  BY <1>1, FS_Interval
<1> QED
  BY <1>6, <1>7 DEF CountAt

\* There get_frames succeeds exactly if enough frames are left, and takes the lowest.
LEMMA ScanInOrder ==
    ASSUME NEW p \in PoolId, NEW P \in PoolState(p), NEW e \in 0..PoolSize(p),
           FreeFrom(P, e), NEW n \in Nat \ {0}, P.nFreeFrames = Cardinality(FreeOf(P))
    PROVE  /\ CanGet(P, n) <=> e + n <= PoolSize(p)
           /\ CanGet(P, n) => StartOf(P, n) = e
PROOF
<1> DEFINE N == PoolSize(p)
<1>1. N \in Nat /\ e \in Nat /\ Index(P) = 0..N - 1
  BY PoolShape, PoolFacts
<1>2. FreeOf(P) = e..N - 1
  BY <1>1 DEF FreeOf, FreeFrom
<1>3. Cardinality(FreeOf(P)) = N - e
  BY SMTT(30), <1>1, <1>2, FS_Interval
<1>4. Found(P, n) = {i \in e..N - 1 : i - e + 1 = n}
  <2>1. \A i \in FreeOf(P) : CountAt(P, i) = i - e + 1
    BY CountInOrder
  <2> QED
    BY <1>2, <2>1 DEF Found, FreeOf
<1>5. Found(P, n) # {} <=> e + n <= N
  <2>1. ASSUME e + n <= N PROVE e + n - 1 \in Found(P, n)
    BY <1>1, <1>4, <2>1
  <2>2. ASSUME NEW i \in Found(P, n) PROVE e + n <= N
    BY <1>1, <1>4, <2>2
  <2> QED
    BY <2>1, <2>2
<1>6. CanGet(P, n) <=> e + n <= N
  BY <1>1, <1>3, <1>5 DEF CanGet
<1>7. ASSUME CanGet(P, n) PROVE StartOf(P, n) = e
  <2>1. Min(Found(P, n)) \in FreeOf(P) /\ CountAt(P, Min(Found(P, n))) = n
    BY <1>7, StopsAtFirst DEF CanGet
  <2> DEFINE m == Min(Found(P, n))
  <2>2. m - e + 1 = n /\ m \in Nat
    BY <2>1, CountInOrder, PoolShape
  <2> HIDE DEF m
  <2>3. m - n + 1 = e
    BY <2>2, <1>1
  <2> QED
    BY <2>3 DEF StartOf, m
<1> QED
  BY <1>6, <1>7

\* A request for one frame succeeds exactly if a frame is free, and gets a free one.
LEMMA ScanSingle ==
    ASSUME NEW p \in PoolId, NEW P \in PoolState(p), P.nFreeFrames = Cardinality(FreeOf(P))
    PROVE  /\ CanGet(P, 1) <=> FreeOf(P) # {}
           /\ CanGet(P, 1) => StartOf(P, 1) \in FreeOf(P)
PROOF
<1>1. ASSUME CanGet(P, 1) PROVE FreeOf(P) # {} /\ StartOf(P, 1) \in FreeOf(P)
  <2>1. Min(Found(P, 1)) \in FreeOf(P)
    BY <1>1, StopsAtFirst DEF CanGet
  <2>2. Min(Found(P, 1)) \in Nat
    BY <2>1, PoolShape
  <2>3. StartOf(P, 1) = Min(Found(P, 1))
    BY <2>2 DEF StartOf
  <2> QED
    BY <2>1, <2>3
<1>2. ASSUME FreeOf(P) # {} PROVE CanGet(P, 1)
  <2> DEFINE m == Min(FreeOf(P))
  <2>1. m \in FreeOf(P) /\ \A y \in FreeOf(P) : m <= y
    BY <1>2, NatHasMin, PoolShape
  <2> HIDE DEF m
  <2>2. m \in Nat /\ m \in Index(P) /\ P.bitmap[m] = "free"
    BY <2>1, PoolShape DEF FreeOf
  <2>3. ~InFullByte(P, m)
    BY <2>1, FreeByteNotFull
  <2> DEFINE S == {j \in 0..m : P.bitmap[j] = "free" /\ \A k \in j..m : ~InFullByte(P, k)}
  <2>4. \A j \in 0..m : j \in Index(P)
    BY <2>2, PoolShape, PoolFacts
  <2>5. S = {m}
    BY <2>1, <2>2, <2>3, <2>4 DEF FreeOf
  <2>6. CountAt(P, m) = 1
    BY <2>5, FS_Singleton DEF CountAt
  <2>7. Found(P, 1) # {}
    BY <2>2, <2>6 DEF Found
  <2>8. Cardinality(FreeOf(P)) # 0
    BY <1>2, PoolShape, FS_EmptySet
  <2> QED
    BY <2>7, <2>8, PoolShape DEF CanGet
<1> QED
  BY <1>1, <1>2

-----------------------------------------------------------------------------
(* What a grant and a release do to one pool.                              *)

\* A grant of free frames takes exactly those, and the count stays exact.
LEMMA GrantTakesFree ==
    ASSUME NEW p \in PoolId, NEW P \in PoolState(p), NEW n \in Nat \ {0},
           StartOf(P, n) .. StartOf(P, n) + n - 1 \subseteq FreeOf(P),
           StartOf(P, n) \in FreeOf(P),
           P.nFreeFrames = Cardinality(FreeOf(P))
    PROVE  LET G == Granted(P, n)
               s == StartOf(P, n)
           IN  /\ G \in PoolState(p)
               /\ \A i \in Index(P) : G.bitmap[i] = IF i = s THEN "head"
                                          ELSE IF i \in s + 1..s + n - 1 THEN "allocated"
                                          ELSE P.bitmap[i]
               /\ FreeOf(G) = FreeOf(P) \ (s..s + n - 1)
               /\ G.nFreeFrames = Cardinality(FreeOf(G))
PROOF
<1> DEFINE s == StartOf(P, n)
           G == Granted(P, n)
           N == PoolSize(p)
           took == s..s + n - 1
           bits == [i \in Index(P) |->
                      CASE i = s -> "head"
                        [] i \in s + 1..s + n - 1 -> "allocated"
                        [] OTHER -> P.bitmap[i]]
<1>1. /\ s \in Nat /\ N \in Nat \ {0} /\ N < UIntRange /\ UIntRange \in Nat
      /\ took \subseteq FreeOf(P) /\ s \in FreeOf(P)
  BY PoolShape, PoolFacts
<1>2. Index(P) = 0..N - 1 /\ P.bitmap \in [0..N - 1 -> Code] /\ FreeOf(P) \subseteq Index(P)
  BY PoolShape
<1>3. G = [P EXCEPT !.nFreeFrames = (P.nFreeFrames - n) % UIntRange, !.bitmap = bits]
  BY DEF Granted
<1> HIDE DEF s, G
<1>4. IsFiniteSet(FreeOf(P)) /\ Cardinality(FreeOf(P)) \in 0..N
  BY PoolShape
<1>5. Cardinality(took) = n /\ IsFiniteSet(took)
  <2>1. s \in Int /\ s + n - 1 \in Int /\ ~(s > s + n - 1) /\ s + n - 1 - s + 1 = n
    BY <1>1
  <2> QED
    BY <2>1, FS_Interval
<1>6. Cardinality(FreeOf(P) \ took) = Cardinality(FreeOf(P)) - n
  <2>1. FreeOf(P) \cap took = took
    BY <1>1
  <2>2. Cardinality(FreeOf(P) \ took) = Cardinality(FreeOf(P)) - Cardinality(FreeOf(P) \cap took)
    BY <1>4, <1>5, FS_Difference
  <2> QED
    BY <1>5, <2>1, <2>2
<1>7. Cardinality(FreeOf(P)) - n \in 0..N
  <2>1. Cardinality(took) <= Cardinality(FreeOf(P))
    BY <1>1, <1>4, FS_Subset
  <2> QED
    BY <1>1, <1>4, <1>5, <2>1
<1>8. (P.nFreeFrames - n) % UIntRange = Cardinality(FreeOf(P)) - n
  <2>1. \A x, u \in Nat : x < u => x % u = x
    OBVIOUS
  <2> QED
    BY <1>1, <1>7, <2>1
<1>9. bits \in [0..N - 1 -> Code]
  BY <1>2 DEF Code
<1>10. /\ G.nFreeFrames = Cardinality(FreeOf(P)) - n /\ G.bitmap = bits
       /\ G \in PoolState(p)
  BY <1>3, <1>7, <1>8, <1>9 DEF PoolState
<1>11. \A i \in Index(P) : G.bitmap[i] = IF i = s THEN "head"
                                   ELSE IF i \in s + 1..s + n - 1 THEN "allocated"
                                   ELSE P.bitmap[i]
  BY <1>10
<1>12. Index(G) = Index(P)
  BY <1>10, PoolShape
<1>13. \A i \in Index(P) : i \in took <=> i = s \/ i \in s + 1..s + n - 1
  BY <1>1, <1>2
<1>14. FreeOf(G) = FreeOf(P) \ took
  BY <1>11, <1>12, <1>13 DEF FreeOf
<1> QED
  BY <1>6, <1>10, <1>11, <1>14 DEF s, G

\* The pool after the frames of a run are freed.
Freed(P, run) ==
    [P EXCEPT !.nFreeFrames = (@ + Cardinality(run)) % UIntRange,
              !.bitmap = [j \in Index(P) |-> IF j \in run THEN "free" ELSE @[j]]]

\* A release of frames that are not free frees exactly those, and the count stays exact.
LEMMA ReleaseFrees ==
    ASSUME NEW p \in PoolId, NEW P \in PoolState(p), NEW run \in SUBSET Index(P),
           run \cap FreeOf(P) = {}, P.nFreeFrames = Cardinality(FreeOf(P))
    PROVE  LET F == Freed(P, run)
           IN  /\ F \in PoolState(p)
               /\ \A i \in Index(P) : F.bitmap[i] = IF i \in run THEN "free" ELSE P.bitmap[i]
               /\ FreeOf(F) = FreeOf(P) \cup run
               /\ F.nFreeFrames = Cardinality(FreeOf(F))
PROOF
<1> DEFINE N == PoolSize(p)
           F == Freed(P, run)
           bits == [j \in Index(P) |-> IF j \in run THEN "free" ELSE P.bitmap[j]]
           c == Cardinality(FreeOf(P)) + Cardinality(run)
<1>1. N \in Nat \ {0} /\ N < UIntRange /\ UIntRange \in Nat
  BY PoolFacts
<1>2. /\ Index(P) = 0..N - 1 /\ P.bitmap \in [0..N - 1 -> Code]
      /\ FreeOf(P) \in SUBSET Index(P)
  BY PoolShape
<1>3. F = [P EXCEPT !.nFreeFrames = (P.nFreeFrames + Cardinality(run)) % UIntRange,
                    !.bitmap = bits]
  BY DEF Freed
<1> HIDE DEF F
<1>4. IsFiniteSet(Index(P)) /\ Cardinality(Index(P)) = N
  <2>1. IsFiniteSet(0..N - 1) /\ Cardinality(0..N - 1) = N
    <3>1. 0 \in Int /\ N - 1 \in Int /\ (0 > N - 1 <=> N = 0) /\ N - 1 - 0 + 1 = N
      BY <1>1
    <3> QED
      BY <3>1, FS_Interval
  <2> QED
    BY <1>2, <2>1
<1>5. /\ IsFiniteSet(run) /\ IsFiniteSet(FreeOf(P))
      /\ Cardinality(run) \in Nat /\ Cardinality(FreeOf(P)) \in Nat
  BY <1>2, <1>4, FS_Subset, FS_CardinalityType
<1>6. Cardinality(FreeOf(P) \cup run) = c
  <2>1. Cardinality(FreeOf(P) \cap run) = 0
    <3>1. FreeOf(P) \cap run = {}
      OBVIOUS
    <3> QED
      BY <3>1, FS_EmptySet
  <2>2. Cardinality(FreeOf(P) \cup run)
           = Cardinality(FreeOf(P)) + Cardinality(run) - Cardinality(FreeOf(P) \cap run)
    BY <1>5, FS_Union
  <2> QED
    BY <1>5, <2>1, <2>2
<1>7. c \in 0..N
  <2> DEFINE U == FreeOf(P) \cup run
  <2>2. U \in SUBSET Index(P)
    BY <1>2
  <2> HIDE DEF U
  <2>3. Cardinality(U) <= N
    BY <2>2, <1>4, FS_Subset
  <2>1. Cardinality(FreeOf(P) \cup run) <= N
    BY <2>3 DEF U
  <2> QED
    BY <1>1, <1>5, <1>6, <2>1
<1>8. (P.nFreeFrames + Cardinality(run)) % UIntRange = c
  <2>1. \A x, u \in Nat : x < u => x % u = x
    OBVIOUS
  <2> QED
    BY <1>1, <1>7, <2>1
<1>9. bits \in [0..N - 1 -> Code]
  BY <1>2 DEF Code
<1> HIDE DEF c
<1>10. F.nFreeFrames = c /\ F.bitmap = bits /\ F \in PoolState(p)
  BY <1>3, <1>7, <1>8, <1>9 DEF PoolState
<1>11. \A i \in Index(P) : F.bitmap[i] = IF i \in run THEN "free" ELSE P.bitmap[i]
  BY <1>10
<1>12. Index(F) = Index(P)
  BY <1>10, PoolShape
<1>13. FreeOf(F) = FreeOf(P) \cup run
  BY <1>11, <1>12 DEF FreeOf
<1> QED
  BY <1>6, <1>10, <1>11, <1>13 DEF F

\* The same, as one fact.
IsReleased(p, P, run, F) ==
    /\ F \in PoolState(p)
    /\ \A i \in Index(P) : F.bitmap[i] = IF i \in run THEN "free" ELSE P.bitmap[i]
    /\ FreeOf(F) = FreeOf(P) \cup run
    /\ F.nFreeFrames = Cardinality(FreeOf(F))

LEMMA FreedIsReleased ==
    ASSUME NEW p \in PoolId, NEW P \in PoolState(p), NEW run \in SUBSET Index(P),
           run \cap FreeOf(P) = {}, P.nFreeFrames = Cardinality(FreeOf(P))
    PROVE  IsReleased(p, P, run, Freed(P, run))
  BY ReleaseFrees DEF IsReleased

-----------------------------------------------------------------------------
(* Grants.                                                                 *)

\* A pool main() has not built yet has no frames.
LEMMA PoolStates ==
    ASSUME PoolsBuilt, NEW p \in PoolId
    PROVE  /\ Built(p) => /\ pool[p] \in PoolState(p)
                          /\ Index(pool[p]) = 0..PoolSize(p) - 1
                          /\ pool[p].base = PoolBase(p)
                          /\ \A i \in Index(pool[p]) : pool[p].base + i \in RangeOf(p)
           /\ ~Built(p) => pool[p] = NoPool /\ Index(pool[p]) = {} /\ FreeOf(pool[p]) = {}
PROOF
<1>1. ASSUME Built(p)
      PROVE  /\ pool[p] \in PoolState(p) /\ Index(pool[p]) = 0..PoolSize(p) - 1
             /\ pool[p].base = PoolBase(p)
             /\ \A i \in Index(pool[p]) : pool[p].base + i \in RangeOf(p)
  <2>1. pool[p] \in PoolState(p)
    BY <1>1 DEF PoolsBuilt
  <2>2. pool[p].base = PoolBase(p) /\ Index(pool[p]) = 0..PoolSize(p) - 1
    BY <2>1, PoolShape
  <2>3. \A i \in 0..PoolSize(p) - 1 : PoolBase(p) + i \in RangeOf(p)
    BY PoolFacts DEF RangeOf
  <2> QED
    BY <2>1, <2>2, <2>3
<1>2. ASSUME ~Built(p)
      PROVE  pool[p] = NoPool /\ Index(pool[p]) = {} /\ FreeOf(pool[p]) = {}
  BY <1>2 DEF PoolsBuilt, Index, FreeOf, NoPool
<1> QED
  BY <1>1, <1>2

\* Nobody holds a free frame.
LEMMA FreeUnheld ==
    ASSUME PoolsBuilt, SequencesInPools, BitmapAgrees, NEW p \in PoolId,
           NEW i \in FreeOf(pool[p]), NEW r \in held
    PROVE  pool[p].base + i \notin Frames(r)
PROOF
<1>1. i \in Index(pool[p]) /\ pool[p].bitmap[i] = "free"
  BY DEF FreeOf
<1>2. pool[p].base + i # r.base /\ ~(pool[p].base + i \in Frames(r) \ {r.base})
  BY <1>1 DEF BitmapAgrees
<1> QED
  BY <1>2

\* A grant of free frames of pool p.
Grants(p, n) ==
    LET s == StartOf(pool[p], n) IN
    /\ get_frames(p, n)
    /\ s \in FreeOf(pool[p]) /\ s..s + n - 1 \subseteq FreeOf(pool[p])

\* The frames granted are in the pool, and nobody holds them.
LEMMA GrantedUnheld ==
    ASSUME PoolsBuilt, SequencesInPools, BitmapAgrees, NEW p \in PoolId, Built(p),
           NEW n \in Nat \ {0}, Grants(p, n)
    PROVE  LET s == StartOf(pool[p], n)
               g == [base |-> pool[p].base + s, size |-> n]
           IN  /\ g \in [base : Nat, size : Nat \ {0}]
               /\ s \in Nat
               /\ Frames(g) = pool[p].base + s .. pool[p].base + s + n - 1
               /\ Frames(g) \subseteq RangeOf(p)
               /\ \A r \in held : Frames(g) \cap Frames(r) = {}
               /\ held' = held \cup {g}
PROOF
<1> DEFINE s == StartOf(pool[p], n)
           g == [base |-> pool[p].base + s, size |-> n]
           b == pool[p].base
<1>1. /\ s \in Nat /\ s..s + n - 1 \subseteq FreeOf(pool[p]) /\ s \in FreeOf(pool[p])
      /\ FreeOf(pool[p]) \subseteq Index(pool[p])
      /\ held' = held \cup {g}
  BY PoolStates, PoolShape DEF Grants, get_frames
<1>2. b \in Nat
  BY PoolStates, PoolFacts
<1> HIDE DEF s
<1>3. Frames(g) = b + s .. b + s + n - 1 /\ g \in [base : Nat, size : Nat \ {0}]
  BY <1>1, <1>2 DEF Frames
<1> HIDE DEF g, b
<1>4. \A f \in Frames(g) : \E i \in s..s + n - 1 : f = b + i
  <2> TAKE f \in Frames(g)
  <2>1. f - b \in s..s + n - 1 /\ f = b + (f - b)
    BY <1>1, <1>2, <1>3
  <2> QED
    BY <2>1
<1>5. Frames(g) \subseteq RangeOf(p)
  BY <1>1, <1>4, PoolStates DEF b
<1>6. \A r \in held : Frames(g) \cap Frames(r) = {}
  BY <1>1, <1>4, FreeUnheld DEF b
<1> QED
  BY <1>1, <1>3, <1>5, <1>6 DEF s, g, b

\* A grant changes one pool, which keeps its shape, its count and its agreement with
\* what is held.
LEMMA GrantKeepsPools ==
    ASSUME PoolsBuilt, SequencesInPools, BitmapAgrees, FreeCountExact,
           NEW p \in PoolId, Built(p), NEW n \in Nat \ {0}, Grants(p, n),
           \A q \in PoolId : Built(q)' <=> Built(q), boot' = "up" <=> boot = "up"
    PROVE  /\ pool' = [q \in PoolId |-> pool'[q]]
           /\ \A q \in PoolId : IF Built(q)' THEN pool'[q] \in PoolState(q)
                                             ELSE pool'[q] = NoPool
           /\ SequencesInPools'
           /\ BitmapAgrees'
           /\ FreeCountExact'
           /\ FreeOf(pool'[p]) =
                 FreeOf(pool[p]) \ (StartOf(pool[p], n) .. StartOf(pool[p], n) + n - 1)
           /\ \A q \in PoolId : q # p => pool'[q] = pool[q]
PROOF
<1> DEFINE P == pool[p]
           s == StartOf(P, n)
           g == [base |-> P.base + s, size |-> n]
           G == Granted(P, n)
<1>1. /\ P \in PoolState(p) /\ s \in FreeOf(P) /\ s..s + n - 1 \subseteq FreeOf(P)
      /\ pool' = [pool EXCEPT ![p] = G]
      /\ Index(P) = 0..PoolSize(p) - 1
      /\ P.base = PoolBase(p)
      /\ P.nFreeFrames = Cardinality(FreeOf(P))
  BY PoolStates DEF Grants, get_frames, FreeCountExact, FreeOf
<1>2. /\ G \in PoolState(p)
      /\ \A i \in Index(P) : G.bitmap[i] = IF i = s THEN "head"
                                   ELSE IF i \in s + 1..s + n - 1 THEN "allocated"
                                   ELSE P.bitmap[i]
      /\ FreeOf(G) = FreeOf(P) \ (s..s + n - 1)
      /\ G.nFreeFrames = Cardinality(FreeOf(G))
  BY <1>1, GrantTakesFree
<1>3. /\ s \in Nat /\ Frames(g) = P.base + s .. P.base + s + n - 1
      /\ g \in [base : Nat, size : Nat \ {0}]
      /\ Frames(g) \subseteq RangeOf(p)
      /\ \A r \in held : Frames(g) \cap Frames(r) = {}
      /\ held' = held \cup {g}
  BY GrantedUnheld
<1>4. /\ pool' = [q \in PoolId |-> pool'[q]]
      /\ pool'[p] = G /\ \A q \in PoolId : q # p => pool'[q] = pool[q]
  <2>1. pool = [q \in PoolId |-> pool[q]]
    BY DEF PoolsBuilt
  <2> HIDE DEF P, G
  <2> QED
    BY <1>1, <2>1
<1> HIDE DEF P, s, G
<1>5. \A q \in PoolId : IF Built(q)' THEN pool'[q] \in PoolState(q) ELSE pool'[q] = NoPool
  BY <1>2, <1>4 DEF PoolsBuilt
<1>6. SequencesInPools'
  <2>1. held' \subseteq [base : Nat, size : Nat \ {0}]
    BY <1>3 DEF SequencesInPools
  <2>2. \A r \in held' : \E q \in PoolId : Built(q)' /\ Frames(r) \subseteq RangeOf(q)
    BY <1>3 DEF SequencesInPools
  <2>3. \A q, r \in held' : q # r => Frames(q) \cap Frames(r) = {}
    BY <1>3 DEF SequencesInPools, SequencesDisjoint
  <2> QED
    BY <2>1, <2>2, <2>3 DEF SequencesInPools, SequencesDisjoint
<1>7. Index(G) = Index(P) /\ G.base = P.base
  BY <1>1, <1>2, PoolShape
<1>8. FreeCountExact'
  <2>1. \A q \in PoolId : pool'[q].nFreeFrames = Cardinality(FreeOf(pool'[q]))
    <3>1. \A q \in PoolId : pool[q].nFreeFrames = Cardinality(FreeOf(pool[q]))
      BY DEF FreeCountExact, FreeOf
    <3> QED
      BY <3>1, <1>2, <1>4
  <2> QED
    BY <2>1 DEF FreeCountExact, FreeOf, Index
<1>9. BitmapAgrees'
  <2>1. ASSUME NEW q \in PoolId, NEW i \in Index(pool'[q])
        PROVE  /\ pool'[q].bitmap[i] = "head" <=> \E r \in held' : pool'[q].base + i = r.base
               /\ pool'[q].bitmap[i] = "allocated"
                     <=> \E r \in held' : pool'[q].base + i \in Frames(r) \ {r.base}
               /\ pool'[q].bitmap[i] = "inaccessible"
                     <=> \/ q = "kernel" /\ i < Own
                         \/ /\ boot' = "up"
                            /\ pool'[q].base + i \in HoleBase..HoleBase + HoleSize - 1
    <3> DEFINE f == pool[q].base + i
               own == q = "kernel" /\ i < Own
               hole == boot = "up" /\ f \in HoleBase..HoleBase + HoleSize - 1
    <3>1. i \in Index(pool[q]) /\ pool'[q].base = pool[q].base
      BY <1>4, <1>7, <2>1 DEF P
    <3>2. /\ pool[q].bitmap[i] = "head" <=> \E r \in held : f = r.base
          /\ pool[q].bitmap[i] = "allocated" <=> \E r \in held : f \in Frames(r) \ {r.base}
          /\ pool[q].bitmap[i] = "inaccessible" <=> own \/ hole
      BY <3>1 DEF BitmapAgrees, Own
    <3>3. g.base = PoolBase(p) + s /\ g.base \in Frames(g)
      BY SMTT(30), <1>1, <1>3, PoolFacts
    <3> HIDE DEF g
    <3>4. CASE q # p
      <4>1. f \in RangeOf(q)
        BY <3>1, PoolStates
      <4>2. f \notin RangeOf(p)
        BY <3>4, <4>1, PoolFacts
      <4>3. f \notin Frames(g) /\ f # g.base
        BY <1>3, <3>3, <4>2
      <4> QED
        BY <1>3, <1>4, <3>1, <3>2, <3>4, <4>3
    <3>5. CASE q = p
      <4>1. /\ f = PoolBase(p) + i /\ i \in Nat /\ i \in Index(P)
            /\ P.base = PoolBase(p) /\ PoolBase(p) \in Nat /\ s \in Nat
            /\ pool'[q].bitmap[i] = G.bitmap[i] /\ pool[q].bitmap[i] = P.bitmap[i]
        BY SMTT(30), <1>1, <1>3, <1>4, <3>1, <3>5, PoolFacts DEF P
      <4>2. CASE i \in s..s + n - 1
        <5>1. P.bitmap[i] = "free"
          BY <1>1, <4>2 DEF FreeOf
        <5>2. f \in Frames(g) /\ (f = g.base <=> i = s)
          BY <1>3, <3>3, <4>1, <4>2
        <5>3. G.bitmap[i] = IF i = s THEN "head" ELSE "allocated"
          BY <1>2, <4>1, <4>2
        <5>4. \A r \in held : f \notin Frames(r) \ {r.base} /\ f # r.base
          BY <3>2, <4>1, <5>1
        <5>5. ~own /\ ~hole
          BY <3>2, <4>1, <5>1
        <5> QED
          BY <1>3, <3>1, <4>1, <5>2, <5>3, <5>4, <5>5
      <4>3. CASE i \notin s..s + n - 1
        <5>1. G.bitmap[i] = P.bitmap[i]
          BY <1>2, <4>1, <4>3
        <5>2. f \notin Frames(g) /\ f # g.base
          BY <1>3, <3>3, <4>1, <4>3
        <5> QED
          BY <1>3, <3>1, <3>2, <4>1, <5>1, <5>2
      <4> QED
        BY <4>2, <4>3
    <3> QED
      BY <3>4, <3>5
  <2> QED
    BY <2>1 DEF BitmapAgrees, Index, Own, Frames
<1> QED
  BY <1>2, <1>4, <1>5, <1>6, <1>8, <1>9 DEF P, s, G

-----------------------------------------------------------------------------
(* Releases.                                                               *)

\* Offsets of a range within another.
LEMMA RangeWithin ==
    ASSUME NEW b \in Nat, NEW n \in Nat, NEW f \in Nat, NEW size \in Nat \ {0},
           f \in b..b + n - 1, f + size - 1 \in b..b + n - 1
    PROVE  /\ f - b \in Nat /\ f - b \in 0..n - 1 /\ f - b + size - 1 \in 0..n - 1
           /\ f = b + (f - b)
           /\ f - b..f - b + size - 1 \subseteq 0..n - 1
  OBVIOUS

\* The frame after a sequence is not one of its neighbour's inner frames.
LEMMA RunIsSequence ==
    ASSUME PoolsBuilt, SequencesInPools, BitmapAgrees, NEW p \in PoolId, Built(p),
           NEW r \in held, Frames(r) \subseteq RangeOf(p)
    PROVE  LET i == r.base - pool[p].base IN
           /\ i \in Index(pool[p]) /\ i \in Nat
           /\ pool[p].bitmap[i] = "head"
           /\ {i} \cup RunFrom(pool[p], i) = i..i + r.size - 1
           /\ i..i + r.size - 1 \subseteq Index(pool[p])
           /\ \A j \in Index(pool[p]) :
                 j \in i..i + r.size - 1 <=> pool[p].base + j \in Frames(r)
PROOF
<1> DEFINE P == pool[p]
           b == PoolBase(p)
           N == PoolSize(p)
           i == r.base - b
<1>1. /\ P.base = b /\ Index(P) = 0..N - 1 /\ b \in Nat /\ N \in Nat
      /\ RangeOf(p) = b..b + N - 1
  BY PoolStates, PoolFacts DEF RangeOf
<1>2. /\ r.base \in Nat /\ r.size \in Nat \ {0} /\ Frames(r) = r.base..r.base + r.size - 1
      /\ r.base \in Frames(r) /\ r.base + r.size - 1 \in Frames(r)
  BY DEF SequencesInPools, Frames
<1> HIDE DEF P, b, N
<1>3. /\ i \in Nat /\ i + r.size - 1 \in 0..N - 1 /\ r.base = b + i
      /\ i..i + r.size - 1 \subseteq Index(P)
  <2>1. r.base \in b..b + N - 1 /\ r.base + r.size - 1 \in b..b + N - 1
    BY <1>1, <1>2
  <2>2. /\ i \in Nat /\ i + r.size - 1 \in 0..N - 1 /\ r.base = b + i
        /\ i..i + r.size - 1 \subseteq 0..N - 1
    BY <1>1, <1>2, <2>1, RangeWithin
  <2> QED
    BY <1>1, <2>2
<1> HIDE DEF i
<1>4. \A j \in Index(P) :
         /\ b + j \in Frames(r) <=> j \in i..i + r.size - 1
         /\ b + j \in Frames(r) \ {r.base} <=> j \in i + 1..i + r.size - 1
  <2> TAKE j \in Index(P)
  <2>1. j \in Int /\ b \in Int /\ i \in Int /\ r.size \in Int
    BY <1>1, <1>2, <1>3
  <2>2. Frames(r) = b + i .. b + i + r.size - 1 /\ r.base = b + i
    BY <1>2, <1>3
  <2> QED
    BY <2>1, <2>2
<1>5. P.bitmap[i] = "head"
  <2>1. i \in Index(P) /\ P.base + i = r.base
    <3>1. i \in 0..N - 1
      BY <1>1, <1>2, <1>3
    <3> QED
      BY <1>1, <1>3, <3>1
  <2>2. \A j \in Index(P) : P.bitmap[j] = "head" <=> \E q \in held : P.base + j = q.base
    BY DEF BitmapAgrees, P
  <2> QED
    BY <2>1, <2>2
<1>6. \A j \in Index(P) :
         P.bitmap[j] = "allocated" <=> \E q \in held : b + j \in Frames(q) \ {q.base}
  BY <1>1 DEF BitmapAgrees, P
<1>7. ASSUME NEW j \in i + 1..i + r.size - 1 PROVE j \in RunFrom(P, i)
  <2>1. j \in Index(P) /\ j > i /\ \A k \in i + 1..j : k \in Index(P) /\ k \in i + 1..i + r.size - 1
    BY <1>1, <1>2, <1>3
  <2>2. \A k \in i + 1..j : P.bitmap[k] = "allocated"
    BY <1>4, <1>6, <2>1
  <2> QED
    BY <2>1, <2>2 DEF RunFrom
<1>8. ASSUME NEW j \in RunFrom(P, i) PROVE j \in i + 1..i + r.size - 1
  <2>1. /\ j \in Index(P) /\ j \in Nat /\ j > i
        /\ \A k \in i + 1..j : P.bitmap[k] = "allocated"
    BY <1>1 DEF RunFrom
  <2>2. SUFFICES ASSUME j >= i + r.size PROVE FALSE
    BY <1>2, <1>3, <2>1
  <2> DEFINE k == i + r.size
  <2>3. k \in i + 1..j /\ k \in Index(P) /\ k \in Nat
    <3>1. j \in 0..N - 1 /\ k \in Nat /\ r.size \in Nat \ {0} /\ i \in Nat
      BY <1>1, <1>2, <1>3, <2>1
    <3> HIDE DEF k
    <3>2. k \in 0..N - 1
      BY <1>1, <2>2, <3>1 DEF k
    <3> QED
      BY <1>1, <2>2, <3>1, <3>2 DEF k
  <2>4. PICK q \in held : b + k \in Frames(q) \ {q.base}
    BY <1>6, <2>1, <2>3
  <2>5. b + k = r.base + r.size
    BY <1>1, <1>2, <1>3
  <2>6. q.base \in Nat /\ q.size \in Nat \ {0} /\ Frames(q) = q.base..q.base + q.size - 1
    BY DEF SequencesInPools, Frames
  <2> HIDE DEF k
  <2>7. r.base + r.size \in Frames(q) /\ r.base + r.size # q.base
    BY <2>4, <2>5
  <2>8. r.base + r.size - 1 \in Frames(q) /\ q # r
    BY <1>2, <2>6, <2>7, SMTT(30)
  <2> QED
    BY <1>2, <2>8 DEF SequencesInPools, SequencesDisjoint
<1>9. {i} \cup RunFrom(P, i) = i..i + r.size - 1
  <2>1. RunFrom(P, i) = i + 1..i + r.size - 1
    BY <1>7, <1>8
  <2> QED
    BY <1>2, <1>3, <2>1
<1>10. i \in Index(P)
  BY <1>1, <1>2, <1>3
<1> QED
  BY <1>1, <1>3, <1>4, <1>5, <1>9, <1>10 DEF i, P, b

\* release_frames of r, which lies in pool p.
Releases(p, r) ==
    /\ pool' = [pool EXCEPT ![p] =
          Freed(pool[p], r.base - pool[p].base .. r.base - pool[p].base + r.size - 1)]
    /\ held' = held \ {r}

\* A release of a held sequence finds its pool and its head: its assertion never fails,
\* and it frees the frames of the sequence and no other.
LEMMA ReleaseFindsHead ==
    ASSUME PoolsBuilt, SequencesInPools, BitmapAgrees, boot = "up", NEW r \in held,
           ClientRelease(r)
    PROVE  /\ ~BootHeld(r) /\ MayRelease(r) /\ halted = Running
           /\ UNCHANGED <<boot, client, halted>>
           /\ \E p \in PoolId : /\ Built(p) /\ Frames(r) \subseteq RangeOf(p)
                                /\ Releases(p, r)
PROOF
<1>1. PICK p \in PoolId : Built(p) /\ Frames(r) \subseteq RangeOf(p)
  BY DEF SequencesInPools
<1>2. PoolOf(r.base) = p
  <2>1. r.base \in Nat /\ r.size \in Nat \ {0} /\ r.base \in Frames(r)
    BY DEF SequencesInPools, Frames
  <2>2. r.base \in RangeOf(p)
    BY <1>1, <2>1
  <2>3. Built("kernel") /\ "kernel" \in PoolId
    BY DEF Built, PoolId
  <2>4. pool["kernel"].base = KernelBase /\ pool["kernel"].nframes = KernelSize
    BY <2>3, PoolStates, PoolShape DEF PoolBase, PoolSize
  <2> QED
    BY <2>1, <2>2, <2>4, FramePoolAssumption DEF PoolOf, RangeOf, PoolBase, PoolSize, PoolId
<1> DEFINE P == pool[p]
           i == r.base - P.base
<1>3. P.bitmap[i] = "head" /\ {i} \cup RunFrom(P, i) = i..i + r.size - 1
  BY <1>1, RunIsSequence
<1>4. Releases(p, r) /\ UNCHANGED <<boot, client, halted>>
  BY <1>2, <1>3 DEF ClientRelease, Releases, Freed
<1>5. ~BootHeld(r) /\ MayRelease(r) /\ halted = Running
  BY DEF ClientRelease, MayRelease
<1> QED
  BY <1>1, <1>4, <1>5

\* A release changes one pool, which keeps its shape, its count and its agreement with
\* what is held.
LEMMA ReleaseKeepsPools ==
    ASSUME PoolsBuilt, SequencesInPools, BitmapAgrees, FreeCountExact,
           NEW p \in PoolId, Built(p), NEW r \in held, Frames(r) \subseteq RangeOf(p),
           Releases(p, r), boot' = boot
    PROVE  /\ pool' = [q \in PoolId |-> pool'[q]]
           /\ \A q \in PoolId : IF Built(q)' THEN pool'[q] \in PoolState(q)
                                             ELSE pool'[q] = NoPool
           /\ SequencesInPools'
           /\ BitmapAgrees'
           /\ FreeCountExact'
           /\ FreeOf(pool'[p]) = FreeOf(pool[p])
                \cup (r.base - pool[p].base .. r.base - pool[p].base + r.size - 1)
           /\ \A q \in PoolId : q # p => pool'[q] = pool[q]
PROOF
<1> DEFINE P == pool[p]
           run == r.base - P.base .. r.base - P.base + r.size - 1
           F == Freed(P, run)
<1>1. /\ P \in PoolState(p) /\ Index(P) = 0..PoolSize(p) - 1 /\ P.base = PoolBase(p)
      /\ P.nFreeFrames = Cardinality(FreeOf(P))
      /\ pool' = [pool EXCEPT ![p] = F] /\ held' = held \ {r}
  BY PoolStates DEF Releases, FreeCountExact, FreeOf
<1>2. /\ run \subseteq Index(P)
      /\ \A j \in Index(P) : j \in run <=> P.base + j \in Frames(r)
  BY RunIsSequence
<1>3. /\ r.base \in Nat /\ r.size \in Nat \ {0} /\ r.base \in Frames(r)
      /\ \A q \in held : q # r => Frames(q) \cap Frames(r) = {}
      /\ \A q \in held : q.base \in Frames(q)
  BY DEF SequencesInPools, SequencesDisjoint, Frames
<1> HIDE DEF P, run, F
<1>4. run \cap FreeOf(P) = {}
  <2>1. ASSUME NEW j \in run, j \in FreeOf(P) PROVE FALSE
    <3>1. P.base + j \notin Frames(r)
      BY <2>1, FreeUnheld DEF P
    <3> QED
      BY <1>2, <2>1, <3>1
  <2> QED
    BY <2>1
<1>5. /\ F \in PoolState(p)
      /\ \A i \in Index(P) : F.bitmap[i] = IF i \in run THEN "free" ELSE P.bitmap[i]
      /\ FreeOf(F) = FreeOf(P) \cup run
      /\ F.nFreeFrames = Cardinality(FreeOf(F))
  <2>1. run \in SUBSET Index(P)
    BY <1>2
  <2>2. F = Freed(P, run)
    BY DEF F
  <2> HIDE DEF F
  <2>3. IsReleased(p, P, run, Freed(P, run))
    BY <1>1, <1>4, <2>1, FreedIsReleased
  <2> QED
    BY <2>2, <2>3 DEF IsReleased
<1>6. /\ pool' = [q \in PoolId |-> pool'[q]]
      /\ pool'[p] = F /\ \A q \in PoolId : q # p => pool'[q] = pool[q]
  BY <1>1 DEF PoolsBuilt
<1>7. \A q \in PoolId : IF Built(q)' THEN pool'[q] \in PoolState(q) ELSE pool'[q] = NoPool
  BY <1>5, <1>6 DEF PoolsBuilt, Built
<1>8. SequencesInPools'
  <2>1. \A q \in PoolId : Built(q)' <=> Built(q)
    BY DEF Built
  <2>2. \A s \in held' : \E q \in PoolId : Built(q)' /\ Frames(s) \subseteq RangeOf(q)
    BY <1>1, <2>1 DEF SequencesInPools
  <2> QED
    BY <1>1, <2>2 DEF SequencesInPools, SequencesDisjoint
<1>9. Index(F) = Index(P) /\ F.base = P.base
  BY <1>1, <1>5, PoolShape
<1>10. FreeCountExact'
  <2>1. \A q \in PoolId : pool[q].nFreeFrames = Cardinality(FreeOf(pool[q]))
    BY DEF FreeCountExact, FreeOf
  <2>2. \A q \in PoolId : pool'[q].nFreeFrames = Cardinality(FreeOf(pool'[q]))
    BY <1>5, <1>6, <2>1
  <2> QED
    BY <2>2 DEF FreeCountExact, FreeOf, Index
<1>11. BitmapAgrees'
  <2>1. ASSUME NEW q \in PoolId, NEW i \in Index(pool'[q])
        PROVE  /\ pool'[q].bitmap[i] = "head" <=> \E s \in held' : pool'[q].base + i = s.base
               /\ pool'[q].bitmap[i] = "allocated"
                     <=> \E s \in held' : pool'[q].base + i \in Frames(s) \ {s.base}
               /\ pool'[q].bitmap[i] = "inaccessible"
                     <=> \/ q = "kernel" /\ i < Own
                         \/ /\ boot' = "up"
                            /\ pool'[q].base + i \in HoleBase..HoleBase + HoleSize - 1
    <3> DEFINE f == pool[q].base + i
               own == q = "kernel" /\ i < Own
               hole == boot = "up" /\ f \in HoleBase..HoleBase + HoleSize - 1
    <3>1. i \in Index(pool[q]) /\ pool'[q].base = pool[q].base
      BY <1>6, <1>9, <2>1 DEF P
    <3>2. /\ pool[q].bitmap[i] = "head" <=> \E s \in held : f = s.base
          /\ pool[q].bitmap[i] = "allocated" <=> \E s \in held : f \in Frames(s) \ {s.base}
          /\ pool[q].bitmap[i] = "inaccessible" <=> own \/ hole
      BY <3>1 DEF BitmapAgrees, Own
    <3>3. CASE f \notin Frames(r)
      <4>1. pool'[q].bitmap[i] = pool[q].bitmap[i]
        BY <1>2, <1>5, <1>6, <3>1, <3>3 DEF P
      <4>2. f # r.base
        BY <1>3, <3>3
      <4> QED
        BY <1>1, <3>1, <3>2, <3>3, <4>1, <4>2
    <3>4. CASE f \in Frames(r)
      <4>1. q = p
        <5>1. f \in RangeOf(q) /\ f \in RangeOf(p)
          BY <3>1, <3>4, PoolStates
        <5> QED
          BY <5>1, PoolFacts
      <4>2. pool'[q].bitmap[i] = "free"
        BY <1>2, <1>5, <1>6, <3>1, <3>4, <4>1 DEF P
      <4>3. \A s \in held' : f \notin Frames(s) /\ f # s.base
        BY <1>1, <1>3, <3>4
      <4>4. ~own /\ ~hole
        BY <3>2, <3>4
      <4> QED
        BY <3>1, <4>2, <4>3, <4>4
    <3> QED
      BY <3>3, <3>4
  <2> QED
    BY <2>1 DEF BitmapAgrees, Index, Own, Frames
<1> QED
  BY <1>5, <1>6, <1>7, <1>8, <1>10, <1>11 DEF P, run, F

\* A release in stack order leaves the kernel pool's frames taken from the lowest up.
LEMMA ReleaseKeepsOrder ==
    ASSUME PoolsBuilt, SequencesInPools, BitmapAgrees, FreeCountExact, boot = "up",
           NEW r \in held, Frames(r) \subseteq RangeOf("kernel"), Releases("kernel", r),
           boot' = boot, \A s \in held : s.base <= r.base,
           NEW e \in 0..KernelSize, FreeFrom(pool["kernel"], e)
    PROVE  \E d \in 0..KernelSize : FreeFrom(pool'["kernel"], d)
PROOF
<1> DEFINE P == pool["kernel"]
           i == r.base - KernelBase
           run == i..i + r.size - 1
<1>1. /\ "kernel" \in PoolId /\ Built("kernel") /\ P.base = KernelBase
      /\ Index(P) = 0..KernelSize - 1 /\ KernelSize \in Nat /\ Own \in 1..KernelSize
      /\ KernelBase \in Nat
  BY PoolStates, PoolFacts DEF PoolId, Built, PoolBase, PoolSize
<1>2. /\ i \in Index(P) /\ i \in Nat /\ P.bitmap[i] = "head" /\ run \subseteq Index(P)
      /\ \A j \in Index(P) : j \in run <=> KernelBase + j \in Frames(r)
  BY <1>1, RunIsSequence
<1>3. FreeOf(pool'["kernel"]) = FreeOf(P) \cup run
  BY <1>1, ReleaseKeepsPools
<1>4. Index(pool'["kernel"]) = Index(P)
  <2>1. Built("kernel")'
    BY DEF Built
  <2>2. pool'["kernel"] \in PoolState("kernel")
    BY <1>1, <2>1, ReleaseKeepsPools
  <2> QED
    BY <1>1, <2>2, PoolShape DEF PoolSize
<1>5. r.base \in Nat /\ r.size \in Nat \ {0}
  BY DEF SequencesInPools
<1>6. i \in 0..KernelSize /\ i >= Own
  <2>1. P.bitmap[i] # "inaccessible"
    BY <1>2
  <2>2. ~(i < needed_info_frames(KernelSize))
    BY <1>1, <1>2, <2>1 DEF BitmapAgrees
  <2> QED
    BY <1>1, <1>2, <2>2 DEF Own
<1>7. ASSUME NEW j \in Index(P), j >= i PROVE j \in FreeOf(P) \cup run
  <2>1. CASE j >= e
    BY <2>1 DEF FreeOf, FreeFrom
  <2>2. CASE j < e
    <3>1. j \in Nat /\ P.bitmap[j] # "free"
      BY <1>1, <2>2 DEF FreeFrom
    <3>2. P.bitmap[j] # "inaccessible"
      <4>1. ~(j < needed_info_frames(KernelSize))
        BY <1>1, <1>2, <1>6, <1>7, <3>1 DEF Own
      <4>2. ~(P.base + j \in HoleBase..HoleBase + HoleSize - 1)
        <5>1. HoleBase \in Nat /\ ProcessBase \in Nat /\ KernelBase + KernelSize <= HoleBase
          BY <1>1, FramePoolAssumption
        <5>2. j \in 0..KernelSize - 1
          BY <1>1, <1>7
        <5> HIDE DEF P
        <5> QED
          BY <1>1, <5>1, <5>2
      <4> QED
        BY <1>1, <4>1, <4>2 DEF BitmapAgrees
    <3>3. P.bitmap[j] \in Code
      BY <1>1, PoolStates, PoolShape DEF PoolSize
    <3>4. P.bitmap[j] = "head" \/ P.bitmap[j] = "allocated"
      BY <3>1, <3>2, <3>3 DEF Code
    <3>5. PICK s \in held : KernelBase + j \in Frames(s)
      <4>1. \/ \E s \in held : KernelBase + j = s.base
            \/ \E s \in held : KernelBase + j \in Frames(s) \ {s.base}
        BY <1>1, <3>4 DEF BitmapAgrees
      <4>2. \A s \in held : s.base \in Frames(s)
        BY DEF SequencesInPools, Frames
      <4> QED
        BY <4>1, <4>2
    <3>6. s.base \in Nat /\ s.size \in Nat \ {0} /\ Frames(s) = s.base..s.base + s.size - 1
      BY DEF SequencesInPools, Frames
    <3>7. r.base \in Frames(s) /\ r.base \in Frames(r)
      <4>1. KernelBase + j \in s.base..s.base + s.size - 1
        BY <3>5, <3>6
      <4>2. s.base <= r.base /\ r.base <= KernelBase + j
        BY <1>1, <1>2, <1>5, <1>7, <3>1
      <4>3. r.base \in s.base..s.base + s.size - 1
        BY <1>1, <1>5, <3>1, <3>6, <4>1, <4>2
      <4> QED
        BY <1>5, <3>6, <4>3 DEF Frames
    <3>8. s = r
      BY <3>7 DEF SequencesInPools, SequencesDisjoint
    <3> QED
      BY <1>2, <1>7, <3>5, <3>8
  <2> QED
    BY <1>1, <2>1, <2>2
<1>8. ASSUME NEW j \in Index(P), j < i PROVE j \notin FreeOf(P) \cup run
  <2>1. j \notin run
    BY <1>1, <1>2, <1>8
  <2>2. i < e
    BY <1>1, <1>2 DEF FreeFrom
  <2>3. j < e
    BY <1>1, <1>2, <1>8, <2>2
  <2>4. j \notin FreeOf(P)
    BY <1>1, <1>8, <2>3 DEF FreeOf, FreeFrom
  <2> QED
    BY <2>1, <2>4
<1>9. \A j \in Index(P) : j \in FreeOf(pool'["kernel"]) <=> j >= i
  BY <1>1, <1>2, <1>3, <1>7, <1>8
<1>10. FreeFrom(pool'["kernel"], i)
  BY <1>4, <1>9 DEF FreeFrom, FreeOf
<1> QED
  BY <1>6, <1>10

-----------------------------------------------------------------------------
(* The steps of main().                                                    *)

\* A pool just constructed: its own bitmap frames in use, the rest free.
LEMMA NewPoolShape ==
    ASSUME NEW p \in PoolId, NEW info \in Nat, NEW own \in 0..PoolSize(p),
           own = IF info = 0 THEN needed_info_frames(PoolSize(p)) ELSE 0
    PROVE  LET P == NewPool(PoolBase(p), PoolSize(p), info) IN
           /\ P \in PoolState(p)
           /\ \A i \in 0..PoolSize(p) - 1 :
                 P.bitmap[i] = IF i < own THEN "inaccessible" ELSE "free"
           /\ FreeFrom(P, own)
           /\ P.nFreeFrames = Cardinality(FreeOf(P))
PROOF
<1> DEFINE N == PoolSize(p)
           P == NewPool(PoolBase(p), N, info)
           bits == [i \in 0..N - 1 |-> IF i < own THEN "inaccessible" ELSE "free"]
<1>1. N \in Nat \ {0} /\ N % 4 = 0 /\ N < UIntRange /\ UIntRange \in Nat /\ own \in Nat
  BY PoolFacts
<1>2. P = [base |-> PoolBase(p), nframes |-> N, nFreeFrames |-> (N - own) % UIntRange,
           bitmap |-> bits]
  BY <1>1 DEF NewPool
<1> HIDE DEF P, N
<1>3. (N - own) % UIntRange = N - own /\ N - own \in 0..N
  <2>1. \A x, u \in Nat : x < u => x % u = x
    OBVIOUS
  <2>2. N - own \in 0..N /\ N - own < UIntRange
    BY <1>1 DEF N
  <2> QED
    BY <1>1, <2>1, <2>2
<1>4. bits \in [0..N - 1 -> Code]
  BY DEF Code
<1>5. P \in PoolState(p) /\ P.nFreeFrames = N - own /\ P.bitmap = bits
  BY <1>2, <1>3, <1>4 DEF PoolState, N
<1>6. Index(P) = 0..N - 1
  BY <1>5, PoolShape DEF N
<1>7. FreeFrom(P, own)
  BY <1>1, <1>5, <1>6 DEF FreeFrom
<1>8. FreeOf(P) = own..N - 1
  BY <1>1, <1>6, <1>7 DEF FreeOf, FreeFrom
<1>9. Cardinality(FreeOf(P)) = N - own
  <2>1. own \in Int /\ N - 1 \in Int /\ own <= N
    BY <1>1 DEF N
  <2>2. Cardinality(own..N - 1) = IF own > N - 1 THEN 0 ELSE (N - 1) - own + 1
    BY <2>1, FS_Interval
  <2>3. N \in Nat
    BY <1>1 DEF N
  <2> QED
    BY <1>1, <1>8, <2>1, <2>2, <2>3
<1> QED
  BY <1>1, <1>5, <1>7, <1>9 DEF P, N

\* Nothing is built and nothing is held at the start.
LEMMA PoolsInit == Init => PoolsAgree
PROOF
<1> SUFFICES ASSUME Init PROVE PoolsAgree
  OBVIOUS
<1>1. /\ boot = "kernel" /\ held = {} /\ halted = Running /\ client \in Clients
      /\ pool = [p \in PoolId |-> NoPool]
  BY DEF Init
<1>2. \A p \in PoolId : ~Built(p) /\ pool[p] = NoPool /\ Index(pool[p]) = {}
  BY <1>1 DEF Built, PoolId, Index, NoPool
<1>3. PoolsBuilt
  BY <1>1, <1>2 DEF PoolsBuilt
<1>4. SequencesInPools /\ BootSequence /\ KernelInOrder /\ HaltedFor /\ BitmapAgrees
  BY <1>1, <1>2 DEF SequencesInPools, SequencesDisjoint, BootSequence, KernelInOrder,
     HaltedFor, Running, BitmapAgrees
<1>5. FreeCountExact
  <2>1. \A p \in PoolId : {i \in Index(pool[p]) : pool[p].bitmap[i] = "free"} = {}
    BY <1>2
  <2>2. \A p \in PoolId : pool[p].nFreeFrames = 0
    BY <1>2 DEF NoPool
  <2>3. Cardinality({}) = 0
    BY FS_EmptySet
  <2> QED
    BY <2>1, <2>2, <2>3 DEF FreeCountExact
<1> QED
  BY <1>3, <1>4, <1>5 DEF PoolsAgree

\* The kernel pool's constructor.
LEMMA KernelPoolAgrees ==
    ASSUME PoolsAgree, BootKernelPool PROVE PoolsAgree'
PROOF
<1> DEFINE K == NewPool(KernelBase, KernelSize, 0)
<1>1. /\ boot = "kernel" /\ boot' = "info" /\ pool' = [pool EXCEPT !["kernel"] = K]
      /\ held' = held /\ client' = client /\ halted' = halted /\ held = {}
  BY DEF BootKernelPool, PoolsAgree, BootSequence
<1>2. /\ K \in PoolState("kernel") /\ FreeFrom(K, Own)
      /\ \A i \in 0..KernelSize - 1 :
            K.bitmap[i] = IF i < Own THEN "inaccessible" ELSE "free"
      /\ K.nFreeFrames = Cardinality(FreeOf(K))
  BY PoolFacts, NewPoolShape DEF PoolId, PoolBase, PoolSize, Own
<1>3. Index(K) = 0..KernelSize - 1 /\ K.base = KernelBase
  BY <1>2, PoolShape DEF PoolId, PoolSize, PoolBase
<1> HIDE DEF K
<1>4. /\ pool' = [q \in PoolId |-> pool'[q]]
      /\ pool'["kernel"] = K /\ pool'["process"] = NoPool
  BY <1>1 DEF PoolsAgree, PoolsBuilt, PoolId, Built
<1>5. Index(pool'["process"]) = {}
  BY <1>4 DEF Index, NoPool
<1>6. PoolsBuilt'
  BY <1>1, <1>2, <1>4 DEF PoolsAgree, PoolsBuilt, PoolId, Built
<1>7. SequencesInPools' /\ BootSequence' /\ HaltedFor'
  BY <1>1 DEF PoolsAgree, SequencesInPools, SequencesDisjoint, BootSequence, HaltedFor
<1>8. KernelInOrder'
  <2>1. Own \in 0..KernelSize
    BY PoolFacts
  <2> QED
    BY <1>2, <1>4, <2>1 DEF KernelInOrder
<1>9. FreeCountExact'
  <2>1. pool'["process"].nFreeFrames = Cardinality(FreeOf(pool'["process"]))
    <3>1. FreeOf(pool'["process"]) = {} /\ pool'["process"].nFreeFrames = 0
      BY <1>4, <1>5 DEF FreeOf, NoPool
    <3> QED
      BY <3>1, FS_EmptySet
  <2>2. \A q \in PoolId : pool'[q].nFreeFrames = Cardinality(FreeOf(pool'[q]))
    BY <1>2, <1>4, <2>1 DEF PoolId
  <2> QED
    BY <2>2 DEF FreeCountExact, FreeOf, Index
<1>10. BitmapAgrees'
  <2>1. \A i \in Index(pool'["kernel"]) :
           /\ pool'["kernel"].bitmap[i] # "head" /\ pool'["kernel"].bitmap[i] # "allocated"
           /\ pool'["kernel"].bitmap[i] = "inaccessible" <=> i < Own
    BY <1>2, <1>3, <1>4
  <2> QED
    BY <1>1, <1>4, <1>5, <2>1 DEF BitmapAgrees, Index, PoolId, Own
<1> QED
  BY <1>6, <1>7, <1>8, <1>9, <1>10 DEF PoolsAgree

\* The grant of the info frames, which the kernel pool has in one piece or not at all.
LEMMA InfoFramesAgree ==
    ASSUME PoolsAgree, BootInfoFrames PROVE PoolsAgree'
PROOF
<1> DEFINE P == pool["kernel"]
<1>1. /\ PoolsBuilt /\ SequencesInPools /\ BitmapAgrees /\ FreeCountExact /\ KernelInOrder
      /\ BootSequence /\ HaltedFor
  BY DEF PoolsAgree
<1>2. /\ boot = "info" /\ "kernel" \in PoolId /\ Built("kernel") /\ P \in PoolState("kernel")
      /\ P.base = KernelBase /\ Index(P) = 0..KernelSize - 1
      /\ held = {} /\ InfoFrames \in Nat \ {0} /\ Own \in 1..KernelSize
      /\ KernelBase \in Nat /\ KernelSize \in Nat
      /\ P.nFreeFrames = Cardinality(FreeOf(P))
  BY <1>1, PoolStates, PoolFacts
     DEF BootInfoFrames, PoolId, Built, BootSequence, PoolBase, PoolSize, FreeCountExact, FreeOf
<1>3. FreeFrom(P, Own)
  <2>1. ASSUME NEW i \in Index(P) PROVE P.bitmap[i] = "free" <=> i >= Own
    <3>1. /\ P.bitmap[i] # "head" /\ P.bitmap[i] # "allocated"
          /\ P.bitmap[i] = "inaccessible" <=> i < Own
      BY <1>1, <1>2 DEF BitmapAgrees, Own
    <3>2. P.bitmap[i] \in Code
      BY <1>2, PoolShape DEF PoolSize
    <3>3. i \in Nat
      BY <1>2
    <3> QED
      BY <1>2, <3>1, <3>2, <3>3 DEF Code
  <2> QED
    BY <2>1 DEF FreeFrom
<1>4. /\ CanGet(P, InfoFrames) <=> Own + InfoFrames <= KernelSize
      /\ CanGet(P, InfoFrames) => StartOf(P, InfoFrames) = Own
  <2>1. Own \in 0..PoolSize("kernel")
    BY <1>2 DEF PoolSize
  <2>2. /\ CanGet(P, InfoFrames) <=> Own + InfoFrames <= PoolSize("kernel")
        /\ CanGet(P, InfoFrames) => StartOf(P, InfoFrames) = Own
    BY <1>2, <1>3, <2>1, ScanInOrder
  <2> QED
    BY <2>2 DEF PoolSize
<1>5. CASE CanGet(P, InfoFrames)
  <2>1. /\ get_frames("kernel", InfoFrames) /\ boot' = "process"
        /\ client' = client /\ halted' = halted
    BY <1>5 DEF BootInfoFrames
  <2>2. Own \in FreeOf(P) /\ Own..Own + InfoFrames - 1 \subseteq FreeOf(P)
    <3>1. \A j \in Own..Own + InfoFrames - 1 : j \in Index(P) /\ j >= Own
      BY <1>2, <1>4, <1>5
    <3>2. Own \in Own..Own + InfoFrames - 1
      BY <1>2
    <3> QED
      BY <1>3, <3>1, <3>2 DEF FreeFrom, FreeOf
  <2>3. Grants("kernel", InfoFrames)
    BY <1>4, <1>5, <2>1, <2>2 DEF Grants
  <2>4. \A q \in PoolId : Built(q)' <=> Built(q)
    BY <1>2, <2>1 DEF PoolId, Built
  <2>5. held' = {InfoSequence}
    BY <1>2, <1>4, <1>5, <2>1 DEF get_frames, InfoSequence
  <2>6. /\ pool' = [q \in PoolId |-> pool'[q]]
        /\ \A q \in PoolId : IF Built(q)' THEN pool'[q] \in PoolState(q) ELSE pool'[q] = NoPool
        /\ SequencesInPools' /\ BitmapAgrees' /\ FreeCountExact'
        /\ FreeOf(pool'["kernel"]) = FreeOf(P) \ (Own..Own + InfoFrames - 1)
    BY <1>1, <1>2, <1>4, <1>5, <2>1, <2>3, <2>4, GrantKeepsPools
  <2>7. PoolsBuilt'
    BY <1>1, <2>1, <2>6 DEF PoolsBuilt
  <2>8. BootSequence'
    BY <1>2, <1>4, <1>5, <2>1, <2>5 DEF BootSequence, InfoSequence
  <2>9. HaltedFor'
    BY <1>1, <1>2, <1>5, <2>1 DEF HaltedFor
  <2>10. KernelInOrder'
    <3>1. Index(pool'["kernel"]) = 0..KernelSize - 1
      <4>1. pool'["kernel"] \in PoolState("kernel")
        BY <1>2, <2>4, <2>6
      <4> QED
        BY <1>2, <4>1, PoolShape DEF PoolSize
    <3>2. \A j \in 0..KernelSize - 1 : j \in FreeOf(pool'["kernel"]) <=> j >= Own + InfoFrames
      BY <1>2, <1>3, <2>6 DEF FreeFrom, FreeOf
    <3>3. FreeFrom(pool'["kernel"], Own + InfoFrames)
      BY <3>1, <3>2 DEF FreeFrom, FreeOf
    <3>4. Own + InfoFrames \in 0..KernelSize
      BY <1>2, <1>4, <1>5
    <3> QED
      BY <3>3, <3>4 DEF KernelInOrder
  <2> QED
    BY <2>6, <2>7, <2>8, <2>9, <2>10 DEF PoolsAgree
<1>6. CASE ~CanGet(P, InfoFrames)
  <2>1. /\ halted' = [pool |-> "kernel", size |-> InfoFrames]
        /\ pool' = pool /\ boot' = boot /\ held' = held /\ client' = client
    BY <1>6 DEF BootInfoFrames, Halt
  <2>2. HaltedFor'
    BY <1>2, <1>6, <2>1 DEF HaltedFor, PoolId
  <2>3. /\ PoolsBuilt' /\ SequencesInPools' /\ BootSequence' /\ BitmapAgrees'
        /\ FreeCountExact' /\ KernelInOrder'
    BY SMTT(30), <1>1, <2>1
       DEF PoolsBuilt, Built, SequencesInPools, SequencesDisjoint, Frames, BootSequence,
           BitmapAgrees, FreeCountExact, KernelInOrder, Index, FreeFrom
  <2> QED
    BY <2>2, <2>3 DEF PoolsAgree
<1> QED
  BY <1>5, <1>6

\* The sequence of the start-up code lies in the kernel pool.
LEMMA InfoSequenceInKernel ==
    ASSUME BootSequence, boot \in {"process", "hole", "up"}
    PROVE  Frames(InfoSequence) \subseteq RangeOf("kernel") /\ InfoSequence.base \in RangeOf("kernel")
PROOF
<1>1. /\ Own + InfoFrames <= KernelSize /\ Own \in 1..KernelSize /\ InfoFrames \in Nat \ {0}
      /\ KernelBase \in Nat /\ KernelSize \in Nat
  BY PoolFacts DEF BootSequence, PoolId, PoolBase, PoolSize
<1>2. Frames(InfoSequence) = KernelBase + Own .. KernelBase + Own + InfoFrames - 1
  BY DEF Frames, InfoSequence
<1>3. InfoSequence.base = KernelBase + Own
  BY DEF InfoSequence
<1> QED
  BY <1>1, <1>2, <1>3 DEF RangeOf, PoolBase, PoolSize

\* The process pool's constructor.
LEMMA ProcessPoolAgrees ==
    ASSUME PoolsAgree, BootProcessPool PROVE PoolsAgree'
PROOF
<1> DEFINE R == NewPool(ProcessBase, ProcessSize, KernelBase)
<1>1. /\ boot = "process" /\ boot' = "hole" /\ pool' = [pool EXCEPT !["process"] = R]
      /\ held' = held /\ client' = client /\ halted' = halted /\ held = {InfoSequence}
      /\ PoolsBuilt /\ SequencesInPools /\ BitmapAgrees /\ FreeCountExact /\ KernelInOrder
      /\ BootSequence /\ HaltedFor
  BY DEF BootProcessPool, PoolsAgree, BootSequence
<1>2. /\ R \in PoolState("process")
      /\ \A i \in 0..ProcessSize - 1 : R.bitmap[i] = "free"
      /\ R.nFreeFrames = Cardinality(FreeOf(R))
  <2>1. /\ "process" \in PoolId /\ KernelBase \in Nat /\ KernelBase # 0
        /\ PoolBase("process") = ProcessBase /\ PoolSize("process") = ProcessSize
        /\ ProcessSize \in Nat /\ 0 \in 0..ProcessSize
    BY FramePoolAssumption DEF PoolId, PoolBase, PoolSize
  <2>2. /\ R \in PoolState("process")
        /\ \A i \in 0..ProcessSize - 1 : R.bitmap[i] = IF i < 0 THEN "inaccessible" ELSE "free"
        /\ R.nFreeFrames = Cardinality(FreeOf(R))
    BY <2>1, NewPoolShape
  <2> QED
    BY <2>1, <2>2
<1>3. Index(R) = 0..ProcessSize - 1 /\ R.base = ProcessBase
  BY <1>2, PoolShape DEF PoolId, PoolSize, PoolBase
<1> HIDE DEF R
<1>4. /\ pool' = [q \in PoolId |-> pool'[q]]
      /\ pool'["process"] = R /\ pool'["kernel"] = pool["kernel"]
  BY <1>1 DEF PoolsBuilt, PoolId
<1>5. PoolsBuilt'
  BY <1>1, <1>2, <1>4 DEF PoolsBuilt, PoolId, Built
<1>6. SequencesInPools'
  <2>1. \A q \in PoolId : Built(q) => Built(q)'
    BY <1>1 DEF Built, PoolId
  <2> QED
    BY <1>1, <2>1 DEF SequencesInPools, SequencesDisjoint, Frames
<1>7. BootSequence' /\ HaltedFor' /\ KernelInOrder'
  BY <1>1, <1>4 DEF BootSequence, HaltedFor, KernelInOrder, FreeFrom, Index
<1>8. FreeCountExact'
  <2>1. \A q \in PoolId : pool'[q].nFreeFrames = Cardinality(FreeOf(pool'[q]))
    <3>1. pool["kernel"].nFreeFrames = Cardinality(FreeOf(pool["kernel"]))
      BY <1>1 DEF FreeCountExact, FreeOf, PoolId
    <3> QED
      BY <1>2, <1>4, <3>1 DEF PoolId
  <2> QED
    BY <2>1 DEF FreeCountExact, FreeOf, Index
<1>9. BitmapAgrees'
  <2>1. ASSUME NEW i \in Index(pool'["process"])
        PROVE  /\ pool'["process"].bitmap[i] = "free"
               /\ \A r \in held' : ProcessBase + i # r.base /\ ProcessBase + i \notin Frames(r)
    <3>1. i \in 0..ProcessSize - 1 /\ pool'["process"].bitmap[i] = "free"
      BY <1>2, <1>3, <1>4
    <3>2. ProcessBase + i \in RangeOf("process")
      BY <3>1, FramePoolAssumption DEF RangeOf, PoolBase, PoolSize
    <3>3. ProcessBase + i \notin RangeOf("kernel")
      BY <3>2, PoolFacts DEF PoolId
    <3> QED
      BY <1>1, <3>1, <3>3, InfoSequenceInKernel
  <2>2. \A i \in Index(pool'["process"]) :
           /\ pool'["process"].bitmap[i] = "head"
                 <=> \E r \in held' : pool'["process"].base + i = r.base
           /\ pool'["process"].bitmap[i] = "allocated"
                 <=> \E r \in held' : pool'["process"].base + i \in Frames(r) \ {r.base}
           /\ pool'["process"].bitmap[i] # "inaccessible"
    BY <1>3, <1>4, <2>1
  <2>3. \A i \in Index(pool["kernel"]) :
           /\ pool["kernel"].bitmap[i] = "head"
                 <=> \E r \in held : pool["kernel"].base + i = r.base
           /\ pool["kernel"].bitmap[i] = "allocated"
                 <=> \E r \in held : pool["kernel"].base + i \in Frames(r) \ {r.base}
           /\ pool["kernel"].bitmap[i] = "inaccessible" <=> i < Own
    BY <1>1 DEF BitmapAgrees, PoolId, Own
  <2> QED
    BY <1>1, <1>4, <2>2, <2>3 DEF BitmapAgrees, Index, PoolId, Own, Frames
<1> QED
  BY <1>5, <1>6, <1>7, <1>8, <1>9 DEF PoolsAgree

\* mark_inaccessible on a pool all of whose frames are free: its assertion holds.
LEMMA HoleAgrees ==
    ASSUME PoolsAgree, BootHole PROVE PoolsAgree' /\ held' = held /\ halted' = halted
PROOF
<1> DEFINE R == pool["process"]
           M == MarkedInaccessible(R, HoleBase, HoleSize)
           h == HoleBase - ProcessBase
           hole == h..h + HoleSize - 1
           bits == [i \in Index(R) |->
                      IF R.base + i \in HoleBase..HoleBase + HoleSize - 1 THEN "inaccessible"
                                                                          ELSE R.bitmap[i]]
<1>1. /\ boot = "hole" /\ held = {InfoSequence}
      /\ PoolsBuilt /\ SequencesInPools /\ BitmapAgrees /\ FreeCountExact /\ KernelInOrder
      /\ BootSequence /\ HaltedFor
  BY DEF BootHole, PoolsAgree, BootSequence
<1>2. /\ "process" \in PoolId /\ Built("process") /\ R \in PoolState("process")
      /\ R.base = ProcessBase /\ Index(R) = 0..ProcessSize - 1
      /\ R.bitmap \in [0..ProcessSize - 1 -> Code]
      /\ R.nFreeFrames = Cardinality(FreeOf(R))
  BY <1>1, PoolStates, PoolShape
     DEF PoolId, Built, PoolBase, PoolSize, FreeCountExact, FreeOf
<1>3. /\ ProcessBase \in Nat /\ ProcessSize \in Nat \ {0} /\ ProcessSize % 4 = 0
      /\ ProcessSize < UIntRange /\ UIntRange \in Nat
      /\ HoleSize \in Nat \ {0} /\ HoleBase \in Nat /\ h \in Nat /\ HoleBase = ProcessBase + h
      /\ h + HoleSize - 1 \in 0..ProcessSize - 1
  BY FramePoolAssumption
<1>4. \A i \in 0..ProcessSize - 1 :
         R.bitmap[i] = "free" /\ \A r \in held : ProcessBase + i # r.base
                              /\ ProcessBase + i \notin Frames(r)
  <2> TAKE i \in 0..ProcessSize - 1
  <2>1. ProcessBase + i \in RangeOf("process")
    BY <1>3 DEF RangeOf, PoolBase, PoolSize
  <2>2. ProcessBase + i \notin RangeOf("kernel")
    BY <2>1, PoolFacts DEF PoolId
  <2>3. \A r \in held : ProcessBase + i # r.base /\ ProcessBase + i \notin Frames(r)
    BY <1>1, <2>2, InfoSequenceInKernel
  <2>4. /\ R.bitmap[i] = "head" <=> \E r \in held : ProcessBase + i = r.base
        /\ R.bitmap[i] = "allocated" <=> \E r \in held : ProcessBase + i \in Frames(r) \ {r.base}
        /\ R.bitmap[i] # "inaccessible"
    <3>1. i \in Index(R) /\ "process" \in PoolId /\ boot # "up" /\ "process" # "kernel"
      BY <1>1, <1>2
    <3>2. \A j \in Index(pool["process"]) :
             /\ pool["process"].bitmap[j] = "head"
                    <=> \E r \in held : pool["process"].base + j = r.base
             /\ pool["process"].bitmap[j] = "allocated"
                    <=> \E r \in held : pool["process"].base + j \in Frames(r) \ {r.base}
             /\ pool["process"].bitmap[j] # "inaccessible"
      BY <1>1, <3>1 DEF BitmapAgrees
    <3> QED
      BY <1>2, <3>1, <3>2
  <2> QED
    BY <1>2, <2>3, <2>4 DEF Code
<1> HIDE DEF R, h
<1>5. MarkAsserts(R, HoleBase, HoleSize)
  <2> SUFFICES ASSUME NEW i \in h..h + HoleSize - 1
               PROVE  i \in Index(R) /\ LowBit(R.bitmap[4 * (i \div 4) + 3])
    BY <1>2 DEF MarkAsserts, h
  <2>1. i \in 0..ProcessSize - 1
    BY <1>3
  <2>2. 4 * (i \div 4) + 3 \in 0..ProcessSize - 1
    BY <1>3, <2>1
  <2> QED
    BY <1>2, <1>4, <2>1, <2>2 DEF LowBit
<1>6. /\ boot' = "up" /\ held' = held /\ client' = client /\ halted' = halted
      /\ pool' = [pool EXCEPT !["process"] = M]
  BY <1>5 DEF BootHole, R
<1>7. M = [R EXCEPT !.nFreeFrames = (R.nFreeFrames - HoleSize) % UIntRange, !.bitmap = bits]
  BY DEF MarkedInaccessible
<1> HIDE DEF M
<1>8. \A i \in 0..ProcessSize - 1 :
         /\ i \in hole <=> R.base + i \in HoleBase..HoleBase + HoleSize - 1
         /\ bits[i] = IF i \in hole THEN "inaccessible" ELSE "free"
  <2>1. \A i \in 0..ProcessSize - 1 :
           i \in hole <=> R.base + i \in HoleBase..HoleBase + HoleSize - 1
    BY <1>2, <1>3
  <2> QED
    BY <1>2, <1>4, <2>1
<1>9. bits \in [0..ProcessSize - 1 -> Code]
  BY <1>2 DEF Code
<1> HIDE DEF bits, hole
<1>10. FreeOf(R) = 0..ProcessSize - 1
  BY <1>2, <1>4 DEF FreeOf
<1>11. Cardinality(FreeOf(R)) = ProcessSize /\ IsFiniteSet(FreeOf(R))
  <2>1. 0 \in Int /\ ProcessSize - 1 \in Int /\ ~(0 > ProcessSize - 1)
    BY <1>3
  <2>2. /\ Cardinality(0..ProcessSize - 1) = IF 0 > ProcessSize - 1 THEN 0
                                              ELSE (ProcessSize - 1) - 0 + 1
        /\ IsFiniteSet(0..ProcessSize - 1)
    BY <2>1, FS_Interval
  <2> QED
    BY <1>3, <1>10, <2>1, <2>2
<1>12. Cardinality(hole) = HoleSize /\ IsFiniteSet(hole) /\ FreeOf(R) \cap hole = hole
  <2>1. h \in Int /\ h + HoleSize - 1 \in Int /\ ~(h > h + HoleSize - 1)
    BY <1>3
  <2>2. /\ Cardinality(h..h + HoleSize - 1) = IF h > h + HoleSize - 1 THEN 0
                                               ELSE (h + HoleSize - 1) - h + 1
        /\ IsFiniteSet(h..h + HoleSize - 1)
    BY <2>1, FS_Interval
  <2>3. h..h + HoleSize - 1 \subseteq 0..ProcessSize - 1
    BY <1>3
  <2> QED
    BY <1>3, <1>10, <2>1, <2>2, <2>3 DEF hole
<1>13. Cardinality(FreeOf(R) \ hole) = ProcessSize - HoleSize
  <2>1. Cardinality(FreeOf(R) \ hole) = Cardinality(FreeOf(R)) - Cardinality(FreeOf(R) \cap hole)
    BY <1>11, FS_Difference
  <2> QED
    BY <1>11, <1>12, <2>1
<1>14. /\ ProcessSize - HoleSize \in 0..ProcessSize
       /\ (ProcessSize - HoleSize) % UIntRange = ProcessSize - HoleSize
  <2>1. \A x, u \in Nat : x < u => x % u = x
    OBVIOUS
  <2>2. ProcessSize - HoleSize \in 0..ProcessSize /\ ProcessSize - HoleSize < UIntRange
    BY <1>3
  <2> QED
    BY <1>3, <2>1, <2>2
<1>15. /\ M \in PoolState("process") /\ M.bitmap = bits /\ M.base = ProcessBase
       /\ M.nFreeFrames = ProcessSize - HoleSize
  <2>1. R \in [base : {ProcessBase}, nframes : {ProcessSize}, nFreeFrames : 0..ProcessSize,
               bitmap : [0..ProcessSize - 1 -> Code]]
    BY <1>2 DEF PoolState, PoolBase, PoolSize
  <2>2. M = [R EXCEPT !.nFreeFrames = ProcessSize - HoleSize, !.bitmap = bits]
    BY <1>2, <1>7, <1>11, <1>14
  <2> QED
    BY <1>9, <1>14, <2>1, <2>2 DEF PoolState, PoolBase, PoolSize
<1>16. Index(M) = 0..ProcessSize - 1
  BY <1>2, <1>15, PoolShape DEF PoolSize
<1>17. FreeOf(M) = FreeOf(R) \ hole
  BY <1>8, <1>10, <1>15, <1>16 DEF FreeOf
<1>18. /\ pool' = [q \in PoolId |-> pool'[q]]
       /\ pool'["process"] = M /\ pool'["kernel"] = pool["kernel"]
  BY <1>1, <1>6 DEF PoolsBuilt, PoolId
<1>19. PoolsBuilt'
  BY <1>1, <1>6, <1>15, <1>18 DEF PoolsBuilt, PoolId, Built
<1>20. SequencesInPools'
  <2>1. \A q \in PoolId : Built(q) => Built(q)'
    BY <1>1, <1>6 DEF Built, PoolId
  <2> QED
    BY <1>1, <1>6, <2>1 DEF SequencesInPools, SequencesDisjoint, Frames
<1>21. BootSequence' /\ HaltedFor' /\ KernelInOrder'
  BY <1>1, <1>6, <1>18 DEF BootSequence, HaltedFor, KernelInOrder, FreeFrom, Index
<1>22. FreeCountExact'
  <2>1. \A q \in PoolId : pool'[q].nFreeFrames = Cardinality(FreeOf(pool'[q]))
    <3>1. pool["kernel"].nFreeFrames = Cardinality(FreeOf(pool["kernel"]))
      BY <1>1 DEF FreeCountExact, FreeOf, PoolId
    <3> QED
      BY <1>13, <1>15, <1>17, <1>18, <3>1 DEF PoolId
  <2> QED
    BY <2>1 DEF FreeCountExact, FreeOf, Index
<1>23. BitmapAgrees'
  <2>1. \A i \in Index(pool'["process"]) :
           /\ pool'["process"].bitmap[i] = "head"
                 <=> \E r \in held' : pool'["process"].base + i = r.base
           /\ pool'["process"].bitmap[i] = "allocated"
                 <=> \E r \in held' : pool'["process"].base + i \in Frames(r) \ {r.base}
           /\ pool'["process"].bitmap[i] = "inaccessible"
                 <=> pool'["process"].base + i \in HoleBase..HoleBase + HoleSize - 1
    <3>1. ASSUME NEW i \in 0..ProcessSize - 1
          PROVE  /\ bits[i] = "head" <=> \E r \in held : ProcessBase + i = r.base
                 /\ bits[i] = "allocated"
                       <=> \E r \in held : ProcessBase + i \in Frames(r) \ {r.base}
                 /\ bits[i] = "inaccessible"
                       <=> ProcessBase + i \in HoleBase..HoleBase + HoleSize - 1
      <4>1. \A r \in held : ProcessBase + i # r.base /\ ProcessBase + i \notin Frames(r)
        BY <1>4
      <4>2. /\ bits[i] # "head" /\ bits[i] # "allocated"
            /\ bits[i] = "inaccessible" <=> i \in hole
        BY <1>8
      <4>3. i \in hole <=> ProcessBase + i \in HoleBase..HoleBase + HoleSize - 1
        BY <1>2, <1>8
      <4> QED
        BY <4>1, <4>2, <4>3
    <3>2. /\ Index(pool'["process"]) = 0..ProcessSize - 1 /\ held' = held
          /\ pool'["process"].bitmap = bits /\ pool'["process"].base = ProcessBase
      BY <1>6, <1>15, <1>16, <1>18
    <3> QED
      BY <3>1, <3>2
  <2>2. \A i \in Index(pool["kernel"]) :
           /\ pool["kernel"].bitmap[i] = "head"
                 <=> \E r \in held : pool["kernel"].base + i = r.base
           /\ pool["kernel"].bitmap[i] = "allocated"
                 <=> \E r \in held : pool["kernel"].base + i \in Frames(r) \ {r.base}
           /\ pool["kernel"].bitmap[i] = "inaccessible" <=> i < Own
    BY <1>1 DEF BitmapAgrees, PoolId, Own
  <2>3. \A i \in Index(pool["kernel"]) :
           ~(pool["kernel"].base + i \in HoleBase..HoleBase + HoleSize - 1)
    <3>1. "kernel" \in PoolId /\ Built("kernel")
      BY <1>1 DEF PoolId, Built
    <3>2. \A i \in Index(pool["kernel"]) : pool["kernel"].base + i \in RangeOf("kernel")
      BY <1>1, <3>1, PoolStates
    <3>3. \A f \in RangeOf("kernel") : ~(f \in HoleBase..HoleBase + HoleSize - 1)
      <4>1. KernelBase + KernelSize <= HoleBase /\ KernelBase \in Nat /\ KernelSize \in Nat
        BY FramePoolAssumption
      <4> QED
        BY <1>3, <4>1 DEF RangeOf, PoolBase, PoolSize
    <3> QED
      BY <3>2, <3>3
  <2> QED
    BY <1>6, <1>18, <2>1, <2>2, <2>3 DEF BitmapAgrees, Index, PoolId, Own, Frames
<1> QED
  BY <1>6, <1>19, <1>20, <1>21, <1>22, <1>23 DEF PoolsAgree

-----------------------------------------------------------------------------
(* The clients.                                                            *)

\* A free frame is one the allocator may give away.
LEMMA FreeIsUsable ==
    ASSUME PoolsBuilt, BitmapAgrees, NEW p \in PoolId, Built(p), NEW i \in FreeOf(pool[p]),
           boot = "up" \/ p = "kernel"
    PROVE  pool[p].base + i \in Usable /\ KernelBase + Own <= pool[p].base + i
PROOF
<1>1. /\ i \in 0..PoolSize(p) - 1 /\ pool[p].base = PoolBase(p) /\ i \in Index(pool[p])
      /\ pool[p].bitmap[i] = "free"
  BY PoolStates DEF FreeOf
<1>2. /\ p = "kernel" => ~(i < Own)
      /\ boot = "up" => pool[p].base + i \notin HoleBase..HoleBase + HoleSize - 1
  BY <1>1 DEF BitmapAgrees, Own
<1>3. /\ KernelBase \in Nat /\ KernelSize \in Nat /\ Own \in 1..KernelSize
      /\ ProcessBase \in Nat /\ ProcessSize \in Nat /\ KernelBase + KernelSize <= ProcessBase
      /\ HoleBase \in Nat
  BY FramePoolAssumption, PoolFacts
<1>4. CASE p = "kernel"
  <2>1. i \in Own..KernelSize - 1 /\ pool[p].base = KernelBase
    BY <1>1, <1>2, <1>3, <1>4 DEF PoolSize, PoolBase
  <2>2. pool[p].base + i \in KernelBase + Own .. KernelBase + KernelSize - 1
    BY <1>3, <2>1
  <2> QED
    BY <1>3, <2>2 DEF Usable, Own
<1>5. CASE p = "process"
  <2>1. i \in 0..ProcessSize - 1 /\ pool[p].base = ProcessBase /\ boot = "up"
    BY <1>1, <1>5 DEF PoolSize, PoolBase
  <2>2. pool[p].base + i \in ProcessBase .. ProcessBase + ProcessSize - 1
    BY <1>3, <2>1
  <2>3. pool[p].base + i \in Usable
    BY <1>2, <2>1, <2>2 DEF Usable
  <2> QED
    BY <1>3, <2>2, <2>3
<1> QED
  BY <1>4, <1>5 DEF PoolId

\* A client that asks for one frame, or in stack order, is given free frames.
LEMMA ClientGetsFree ==
    ASSUME Clients \subseteq {"single", "stack"}, PoolsAgree, boot = "up",
           NEW p \in PoolId, NEW n \in Nat \ {0}, MayGet(p, n), CanGet(pool[p], n)
    PROVE  /\ Built(p)
           /\ StartOf(pool[p], n) \in FreeOf(pool[p])
           /\ StartOf(pool[p], n) .. StartOf(pool[p], n) + n - 1 \subseteq FreeOf(pool[p])
PROOF
<1> DEFINE P == pool[p]
           s == StartOf(P, n)
<1>1. /\ Built(p) /\ P \in PoolState(p) /\ P.nFreeFrames = Cardinality(FreeOf(P))
      /\ Index(P) = 0..PoolSize(p) - 1 /\ PoolSize(p) \in Nat
  BY PoolStates, PoolFacts DEF PoolsAgree, PoolId, Built, FreeCountExact, FreeOf
<1>2. client \in {"single", "stack"}
  BY DEF PoolsAgree, PoolsBuilt
<1>3. CASE client = "single"
  <2>1. n = 1
    BY <1>3 DEF MayGet
  <2>2. s \in FreeOf(P)
    BY <1>1, <2>1, ScanSingle
  <2>3. s \in Nat
    BY <1>1, <2>2, PoolShape
  <2> HIDE DEF s, P
  <2>4. s..s + n - 1 = {s}
    BY <2>1, <2>3
  <2> QED
    BY <1>1, <2>2, <2>4 DEF s, P
<1>4. CASE client = "stack"
  <2>1. p = "kernel"
    BY <1>4 DEF MayGet
  <2>2. PICK e \in 0..PoolSize(p) : FreeFrom(P, e)
    BY <1>4, <2>1 DEF PoolsAgree, KernelInOrder, PoolSize
  <2>3. s = e /\ e + n <= PoolSize(p)
    BY <1>1, <2>2, ScanInOrder
  <2>4. \A j \in e..e + n - 1 : j \in Index(P) /\ j >= e
    BY <1>1, <2>2, <2>3
  <2>5. e \in e..e + n - 1
    BY <1>1, <2>2
  <2>6. \A j \in e..e + n - 1 : j \in FreeOf(P)
    BY <2>2, <2>4 DEF FreeFrom, FreeOf
  <2> HIDE DEF s, P
  <2> QED
    BY <1>1, <2>3, <2>5, <2>6 DEF s, P
<1> QED
  BY <1>2, <1>3, <1>4

\* A client's get_frames, which grants free frames or halts.
LEMMA ClientGetAgrees ==
    ASSUME Clients \subseteq {"single", "stack"}, PoolsAgree,
           NEW p \in PoolId, NEW n \in Nat \ {0}, ClientGet(p, n)
    PROVE  PoolsAgree'
PROOF
<1> DEFINE P == pool[p]
           s == StartOf(P, n)
           g == [base |-> P.base + s, size |-> n]
<1>1. /\ PoolsBuilt /\ SequencesInPools /\ BitmapAgrees /\ FreeCountExact /\ KernelInOrder
      /\ BootSequence /\ HaltedFor
  BY DEF PoolsAgree
<1>2. boot = "up" /\ halted = Running /\ MayGet(p, n)
  BY DEF ClientGet, MayGet
<1>3. CASE CanGet(P, n)
  <2>1. /\ get_frames(p, n) /\ boot' = boot /\ client' = client /\ halted' = halted
    BY <1>3 DEF ClientGet
  <2>2. Built(p) /\ s \in FreeOf(P) /\ s..s + n - 1 \subseteq FreeOf(P)
    BY <1>2, <1>3, ClientGetsFree
  <2>3. Grants(p, n)
    BY <2>1, <2>2 DEF Grants
  <2>4. \A q \in PoolId : Built(q)' <=> Built(q)
    BY <2>1 DEF Built
  <2>5. /\ pool' = [q \in PoolId |-> pool'[q]]
        /\ \A q \in PoolId : IF Built(q)' THEN pool'[q] \in PoolState(q) ELSE pool'[q] = NoPool
        /\ SequencesInPools' /\ BitmapAgrees' /\ FreeCountExact'
        /\ FreeOf(pool'[p]) = FreeOf(P) \ (s..s + n - 1)
    BY <1>1, <2>1, <2>2, <2>3, <2>4, GrantKeepsPools
  <2>6. PoolsBuilt'
    BY <1>1, <2>1, <2>5 DEF PoolsBuilt
  <2>7. held' = held \cup {g}
    BY <1>1, <2>2, <2>3, GrantedUnheld
  <2>8. BootSequence'
    <3>1. InfoSequence.base <= g.base
      BY <1>1, <1>2, <2>2, FreeIsUsable DEF InfoSequence
    <3> HIDE DEF g
    <3>2. /\ InfoSequence \in held' /\ \A r \in held' : InfoSequence.base <= r.base
          /\ Own + InfoFrames <= KernelSize
      BY <1>1, <1>2, <2>7, <3>1 DEF BootSequence
    <3> QED
      BY <1>2, <2>1, <3>2 DEF BootSequence
  <2>9. HaltedFor'
    BY <1>2, <2>1 DEF HaltedFor
  <2>10. KernelInOrder'
    <3> SUFFICES ASSUME client = "stack"
                 PROVE  \E e \in 0..KernelSize : FreeFrom(pool'["kernel"], e)
      BY <1>2, <2>1 DEF KernelInOrder
    <3>1. p = "kernel"
      BY <1>2 DEF MayGet
    <3>2. PICK e \in 0..KernelSize : FreeFrom(P, e)
      BY <1>1, <1>2, <3>1 DEF KernelInOrder
    <3>3. P \in PoolState(p) /\ Index(P) = 0..KernelSize - 1 /\ KernelSize \in Nat
          /\ PoolSize(p) = KernelSize /\ P.nFreeFrames = Cardinality(FreeOf(P))
      BY <1>1, <2>2, <3>1, PoolStates, PoolFacts DEF PoolSize, FreeCountExact, FreeOf
    <3>4. s = e /\ e + n <= KernelSize
      BY <1>3, <3>2, <3>3, ScanInOrder
    <3>5. Index(pool'["kernel"]) = 0..KernelSize - 1
      <4>1. pool'[p] \in PoolState(p)
        BY <2>2, <2>4, <2>5
      <4> QED
        BY <3>1, <3>3, <4>1, PoolShape
    <3>6. \A j \in 0..KernelSize - 1 : j \in FreeOf(P) <=> j >= e
      BY <3>2, <3>3 DEF FreeFrom, FreeOf
    <3>7. FreeOf(pool'["kernel"]) = FreeOf(P) \ (e..e + n - 1)
      BY <2>5, <3>1, <3>4
    <3>8. \A j \in 0..KernelSize - 1 : j \in FreeOf(pool'["kernel"]) <=> j >= e + n
      BY <3>2, <3>3, <3>6, <3>7
    <3>9. FreeFrom(pool'["kernel"], e + n)
      BY <3>5, <3>8 DEF FreeFrom, FreeOf
    <3>10. e + n \in 0..KernelSize
      BY <3>2, <3>3, <3>4
    <3> QED
      BY <3>9, <3>10
  <2> QED
    BY <2>5, <2>6, <2>8, <2>9, <2>10 DEF PoolsAgree
<1>4. CASE ~CanGet(P, n)
  <2>1. /\ halted' = [pool |-> p, size |-> n]
        /\ pool' = pool /\ boot' = boot /\ held' = held /\ client' = client
    BY <1>4 DEF ClientGet, Halt
  <2>2. HaltedFor'
    BY <1>2, <1>4, <2>1 DEF HaltedFor, MayGet
  <2>3. /\ PoolsBuilt' /\ SequencesInPools' /\ BootSequence' /\ BitmapAgrees'
        /\ FreeCountExact' /\ KernelInOrder'
    BY <1>1, <2>1, SMTT(30) DEF PoolsBuilt, Built, SequencesInPools, SequencesDisjoint, Frames, BootSequence,
       BitmapAgrees, FreeCountExact, KernelInOrder, Index, FreeFrom
  <2> QED
    BY <2>2, <2>3 DEF PoolsAgree
<1> QED
  BY <1>3, <1>4

\* A client's release.
LEMMA ClientReleaseAgrees ==
    ASSUME Clients \subseteq {"single", "stack"}, PoolsAgree, NEW r \in held, ClientRelease(r)
    PROVE  PoolsAgree' /\ held' = held \ {r} /\ halted = Running /\ halted' = halted
PROOF
<1>1. /\ PoolsBuilt /\ SequencesInPools /\ BitmapAgrees /\ FreeCountExact /\ KernelInOrder
      /\ BootSequence /\ HaltedFor
  BY DEF PoolsAgree
<1>2. boot = "up"
  BY DEF ClientRelease
<1>3. /\ ~BootHeld(r) /\ MayRelease(r) /\ halted = Running
      /\ boot' = boot /\ client' = client /\ halted' = halted
  BY <1>1, <1>2, ReleaseFindsHead
<1>4. PICK p \in PoolId : Built(p) /\ Frames(r) \subseteq RangeOf(p) /\ Releases(p, r)
  BY <1>1, <1>2, ReleaseFindsHead
<1>5. /\ pool' = [q \in PoolId |-> pool'[q]]
      /\ \A q \in PoolId : IF Built(q)' THEN pool'[q] \in PoolState(q) ELSE pool'[q] = NoPool
      /\ SequencesInPools' /\ BitmapAgrees' /\ FreeCountExact'
      /\ \A q \in PoolId : q # p => pool'[q] = pool[q]
  BY <1>1, <1>3, <1>4, ReleaseKeepsPools
<1>6. PoolsBuilt'
  BY <1>1, <1>3, <1>5 DEF PoolsBuilt
<1>7. held' = held \ {r}
  BY <1>4 DEF Releases
<1>8. BootSequence'
  <2>1. InfoSequence \in held /\ \A q \in held : InfoSequence.base <= q.base
    BY <1>1, <1>2 DEF BootSequence
  <2>2. BootHeld(InfoSequence)
    <3>1. InfoSequence.base \in RangeOf("kernel")
      BY <1>1, <1>2, InfoSequenceInKernel
    <3>2. InfoSequence.base < KernelBase + KernelSize
      BY <3>1, FramePoolAssumption DEF RangeOf, PoolBase, PoolSize
    <3> QED
      BY <2>1, <3>2 DEF BootHeld
  <2>3. r # InfoSequence
    BY <1>3, <2>2
  <2> QED
    BY <1>1, <1>2, <1>3, <1>7, <2>1, <2>3 DEF BootSequence
<1>9. HaltedFor'
  BY <1>3 DEF HaltedFor
<1>10. KernelInOrder'
  <2> SUFFICES ASSUME client = "stack"
               PROVE  \E e \in 0..KernelSize : FreeFrom(pool'["kernel"], e)
    BY <1>2, <1>3 DEF KernelInOrder
  <2>1. PICK e \in 0..KernelSize : FreeFrom(pool["kernel"], e)
    BY <1>1, <1>2 DEF KernelInOrder
  <2>2. CASE p = "kernel"
    <3>1. \A q \in held : q.base <= r.base
      BY <1>3 DEF MayRelease
    <3> QED
      BY <1>1, <1>2, <1>3, <1>4, <2>1, <2>2, <3>1, ReleaseKeepsOrder
  <2>3. CASE p # "kernel"
    BY <1>5, <2>1, <2>3 DEF PoolId
  <2> QED
    BY <2>2, <2>3
<1> QED
  BY <1>3, <1>5, <1>6, <1>7, <1>8, <1>9, <1>10 DEF PoolsAgree

\* Every step keeps the pools, what is held and the kernel's reasons to halt in agreement.
LEMMA NextAgrees ==
    ASSUME Clients \subseteq {"single", "stack"}, PoolsAgree, [Next]_vars
    PROVE  PoolsAgree'
PROOF
<1>1. CASE BootKernelPool
  BY <1>1, KernelPoolAgrees
<1>2. CASE BootInfoFrames
  BY <1>2, InfoFramesAgree
<1>3. CASE BootProcessPool
  BY <1>3, ProcessPoolAgrees
<1>4. CASE BootHole
  BY <1>4, HoleAgrees
<1>5. CASE \E p \in PoolId, n \in 1..MaxRequest : ClientGet(p, n)
  <2>1. PICK p \in PoolId, n \in 1..MaxRequest : ClientGet(p, n)
    BY <1>5
  <2>2. n \in Nat \ {0}
    OBVIOUS
  <2> QED
    BY <2>1, <2>2, ClientGetAgrees
<1>6. CASE \E r \in held : ClientRelease(r)
  BY <1>6, ClientReleaseAgrees
<1>7. CASE UNCHANGED vars
  BY <1>7 DEF vars, PoolsAgree, PoolsBuilt, Built, SequencesInPools, SequencesDisjoint,
     Frames, BootSequence, BitmapAgrees, FreeCountExact, KernelInOrder, Index, FreeFrom,
     HaltedFor, MayGet
<1>8. CASE Halted
  BY <1>7, <1>8 DEF Halted
<1> QED
  BY <1>1, <1>2, <1>3, <1>4, <1>5, <1>6, <1>7, <1>8 DEF Next

-----------------------------------------------------------------------------
(* Theorems.                                                               *)

\* In every reachable state, with the repository's own clients.
THEOREM PoolsAlwaysAgree ==
    ASSUME Clients \subseteq {"single", "stack"}
    PROVE  Spec => []PoolsAgree
  BY PoolsInit, NextAgrees, PTL DEF Spec

\* The count stays within the pool's frames, every frame has one of the four codes, and
\* what is held are sequences of at least one frame (cont_frame_pool.C).
THEOREM PoolsTypeCorrect ==
    ASSUME Clients \subseteq {"single", "stack"}
    PROVE  Spec => []TypeOK
PROOF
<1>1. PoolsAgree => TypeOK
  <2> SUFFICES ASSUME PoolsAgree PROVE TypeOK
    OBVIOUS
  <2>1. ASSUME NEW p \in PoolId
        PROVE  /\ pool[p].nFreeFrames \in 0..pool[p].nframes
               /\ \A i \in Index(pool[p]) : pool[p].bitmap[i] \in Code
    <3>1. CASE Built(p)
      <4>1. pool[p] \in PoolState(p)
        BY <3>1, PoolStates DEF PoolsAgree
      <4> DEFINE P == pool[p]
      <4>2. P \in PoolState(p)
        BY <4>1
      <4> HIDE DEF P
      <4>3. P.nFreeFrames \in 0..P.nframes /\ \A i \in Index(P) : P.bitmap[i] \in Code
        BY <4>2, PoolShape
      <4> QED
        BY <4>3 DEF P
    <3>2. CASE ~Built(p)
      <4>1. pool[p] = NoPool /\ Index(pool[p]) = {}
        BY <3>2, PoolStates DEF PoolsAgree
      <4>2. NoPool.nFreeFrames = 0 /\ NoPool.nframes = 0 /\ 0 \in 0..0
        BY DEF NoPool
      <4> QED
        BY <4>1, <4>2
    <3> QED
      BY <3>1, <3>2
  <2>2. \A r \in held : r.base \in Nat /\ r.size \in Nat \ {0}
    BY DEF PoolsAgree, SequencesInPools
  <2> QED
    BY <2>1, <2>2 DEF TypeOK, PoolsAgree, PoolsBuilt
<1> QED
  BY <1>1, PoolsAlwaysAgree, PTL

\* The bitmap says what is held, where it starts, what is inaccessible, and nothing else:
\* release_frames, which knows a sequence only from its bits, frees what was granted.
THEOREM BitmapAlwaysAgrees ==
    ASSUME Clients \subseteq {"single", "stack"}
    PROVE  Spec => []BitmapAgrees
PROOF
<1>1. PoolsAgree => BitmapAgrees
  BY DEF PoolsAgree
<1> QED
  BY <1>1, PoolsAlwaysAgree, PTL

\* nFreeFrames, an unsigned counter that get_frames, release_frame and mark_inaccessible
\* each move by their own arithmetic, is the number of free frames and never wraps.
THEOREM FreeCountAlwaysExact ==
    ASSUME Clients \subseteq {"single", "stack"}
    PROVE  Spec => []FreeCountExact
PROOF
<1>1. PoolsAgree => FreeCountExact
  BY DEF PoolsAgree
<1> QED
  BY <1>1, PoolsAlwaysAgree, PTL

\* No frame is in two sequences held at the same time, which with clients of every kind
\* is not so: the scan of get_frames steps over allocated frames without a new count.
THEOREM SequencesStayDisjoint ==
    ASSUME Clients \subseteq {"single", "stack"}
    PROVE  Spec => []SequencesDisjoint
PROOF
<1>1. PoolsAgree => SequencesDisjoint
  BY DEF PoolsAgree, SequencesInPools
<1> QED
  BY <1>1, PoolsAlwaysAgree, PTL

\* The assertions of get_frames fail only when the pool has no n free frames in a row, and
\* those of release_frame and mark_inaccessible never.
THEOREM HaltsOnlyOnExhaustion ==
    ASSUME Clients \subseteq {"single", "stack"}
    PROVE  Spec => []HaltsOnlyWhenExhausted
PROOF
<1>1. PoolsAgree => HaltsOnlyWhenExhausted
  <2> DEFINE p == halted.pool
             n == halted.size
             P == pool[p]
  <2> SUFFICES ASSUME PoolsAgree, halted # Running
               PROVE  /\ n > 0
                      /\ \A i \in Index(P) : \E k \in i..i + n - 1 :
                            k \in Index(P) => P.bitmap[k] # "free"
    BY DEF HaltsOnlyWhenExhausted
  <2>1. /\ p \in PoolId /\ n \in Nat \ {0} /\ ~CanGet(P, n) /\ boot \in {"info", "up"}
        /\ boot = "info" => p = "kernel"
        /\ boot = "up" => MayGet(p, n)
    BY DEF PoolsAgree, HaltedFor
  <2>2. Built(p)
    BY <2>1 DEF Built, PoolId
  <2>3. /\ P \in PoolState(p) /\ P.nFreeFrames = Cardinality(FreeOf(P))
        /\ Index(P) = 0..PoolSize(p) - 1 /\ PoolSize(p) \in Nat
    BY <2>1, <2>2, PoolStates, PoolFacts DEF PoolsAgree, FreeCountExact, FreeOf
  <2> HIDE DEF P, p, n
  <2>4. CASE boot = "up" /\ client = "single"
    <3>1. n = 1 /\ FreeOf(P) = {}
      <4>1. n = 1
        BY <2>1, <2>4 DEF MayGet
      <4> QED
        BY <2>1, <2>3, <4>1, ScanSingle
    <3>2. \A i \in Index(P) : P.bitmap[i] # "free" /\ i \in i..i + n - 1
      BY <2>3, <3>1 DEF FreeOf
    <3> QED
      BY <2>1, <3>2
  <2>5. CASE boot # "up" \/ client = "stack"
    <3>1. p = "kernel" /\ boot # "kernel"
      BY <2>1, <2>5 DEF MayGet
    <3>2. PICK e \in 0..PoolSize(p) : FreeFrom(P, e)
      BY <2>5, <3>1 DEF PoolsAgree, KernelInOrder, PoolSize, P
    <3>3. ~(e + n <= PoolSize(p))
      BY <2>1, <2>3, <3>2, ScanInOrder
    <3>4. ASSUME NEW i \in Index(P)
          PROVE  \E k \in i..i + n - 1 : k \in Index(P) => P.bitmap[k] # "free"
      <4>1. i \in Nat /\ i \in i..i + n - 1 /\ i + n - 1 \in i..i + n - 1
        BY <2>1, <2>3
      <4>2. CASE i < e
        BY <3>2, <4>1, <4>2 DEF FreeFrom
      <4>3. CASE i >= e
        <5>1. i + n - 1 \notin Index(P)
          BY <2>1, <2>3, <3>2, <3>3, <4>1, <4>3
        <5> QED
          BY <4>1, <5>1
      <4> QED
        BY <2>3, <3>2, <4>1, <4>2, <4>3
    <3> QED
      BY <2>1, <3>4
  <2>6. client \in {"single", "stack"}
    BY DEF PoolsAgree, PoolsBuilt
  <2> QED
    BY <2>4, <2>5, <2>6
<1> QED
  BY <1>1, PoolsAlwaysAgree, PTL

-----------------------------------------------------------------------------
(* Both pools together implement RegionAllocator.tla.                      *)

\* A grant of free frames is an allocation of usable frames that nobody holds.
LEMMA GrantAllocates ==
    ASSUME PoolsAgree, NEW p \in PoolId, Built(p), NEW n \in 1..MaxRequest, Grants(p, n),
           boot = "up" \/ p = "kernel", halted = Running, halted' = halted
    PROVE  Allocator!Next
PROOF
<1> DEFINE P == pool[p]
           s == StartOf(P, n)
           b == P.base + s
           g == [base |-> b, size |-> n]
<1>1. n \in Nat \ {0}
  OBVIOUS
<1>2. PoolsBuilt /\ SequencesInPools /\ BitmapAgrees
  BY DEF PoolsAgree
<1>3. /\ s \in Nat /\ Frames(g) = P.base + s .. P.base + s + n - 1
      /\ g \in [base : Nat, size : Nat \ {0}]
      /\ \A r \in held : Frames(g) \cap Frames(r) = {}
      /\ held' = held \cup {g}
  BY <1>1, <1>2, GrantedUnheld
<1>4. s \in FreeOf(P) /\ s..s + n - 1 \subseteq FreeOf(P) /\ P.base \in Nat
  BY <1>2, PoolStates, PoolFacts DEF Grants
<1>5. \A i \in FreeOf(P) : P.base + i \in Usable
  BY <1>2, FreeIsUsable
<1>6. b \in Usable
  BY <1>4, <1>5
<1> HIDE DEF P, s
<1>7. Frames(g) \subseteq Usable
  <2> SUFFICES ASSUME NEW f \in Frames(g) PROVE f \in Usable
    OBVIOUS
  <2>1. f - P.base \in s..s + n - 1 /\ f = P.base + (f - P.base)
    BY <1>3, <1>4
  <2> QED
    BY <1>4, <1>5, <2>1
<1> HIDE DEF g, b
<1>8. Allocator!Units(g) = Frames(g) /\ \A r \in held : Allocator!Units(r) = Frames(r)
  BY DEF Allocator!Units, Frames
<1>9. Allocator!Units(g) \subseteq Usable \ Allocator!Taken
  <2>1. \A f \in Frames(g) : f \notin UNION {Allocator!Units(r) : r \in held}
    BY <1>3, <1>8
  <2> QED
    BY <1>7, <1>8, <2>1 DEF Allocator!Taken
<1>10. Allocator!Allocate(g)
  BY <1>3, <1>9 DEF Allocator!Allocate
<1>11. \E c \in Usable, m \in 1..MaxRequest : Allocator!Allocate([base |-> c, size |-> m])
  BY <1>6, <1>10 DEF g
<1> QED
  BY <1>11 DEF Allocator!Next

\* A request that cannot be met stops the allocator.
LEMMA HaltStops ==
    ASSUME NEW p, NEW n \in Nat \ {0}, Halt(p, n)
    PROVE  [Allocator!Next]_(Allocator!regionVars)
PROOF
<1>1. held' = held /\ halted' # Running
  BY DEF Halt, Running
<1> QED
  BY <1>1 DEF Allocator!Next, Allocator!regionVars

\* Every step is a step of the allocator or leaves what is held as it is.
LEMMA NextAllocates ==
    ASSUME Clients \subseteq {"single", "stack"}, InfoFrames <= MaxRequest,
           PoolsAgree, [Next]_vars
    PROVE  [Allocator!Next]_(Allocator!regionVars)
PROOF
<1>1. ASSUME held' = held, halted' = halted
      PROVE  [Allocator!Next]_(Allocator!regionVars)
  BY <1>1 DEF Allocator!regionVars
<1>2. CASE BootKernelPool
  BY <1>1, <1>2 DEF BootKernelPool
<1>3. CASE BootInfoFrames
  <2>1. "kernel" \in PoolId /\ InfoFrames \in Nat \ {0} /\ boot = "info" /\ Built("kernel")
    BY <1>3, PoolFacts DEF BootInfoFrames, PoolId, Built
  <2>2. CASE CanGet(pool["kernel"], InfoFrames)
    <3>1. Grants("kernel", InfoFrames) /\ halted = Running /\ halted' = halted
      <4>1. /\ get_frames("kernel", InfoFrames) /\ halted' = halted
        BY <1>3, <2>2 DEF BootInfoFrames
      <4>2. PICK e \in 0..KernelSize : FreeFrom(pool["kernel"], e)
        BY <2>1 DEF PoolsAgree, KernelInOrder
      <4>3. /\ pool["kernel"] \in PoolState("kernel") /\ KernelSize \in Nat
            /\ pool["kernel"].nFreeFrames = Cardinality(FreeOf(pool["kernel"]))
            /\ Index(pool["kernel"]) = 0..KernelSize - 1 /\ PoolSize("kernel") = KernelSize
        BY <2>1, PoolStates, PoolFacts
           DEF PoolsAgree, FreeCountExact, FreeOf, PoolSize
      <4>4. StartOf(pool["kernel"], InfoFrames) = e /\ e + InfoFrames <= KernelSize
        BY <2>1, <2>2, <4>2, <4>3, ScanInOrder
      <4>5. /\ \A j \in e..e + InfoFrames - 1 : j \in Index(pool["kernel"]) /\ j >= e
            /\ e \in e..e + InfoFrames - 1
        BY <2>1, <4>2, <4>3, <4>4
      <4>6. \A j \in e..e + InfoFrames - 1 : j \in FreeOf(pool["kernel"])
        BY <4>2, <4>5 DEF FreeFrom, FreeOf
      <4>7. Grants("kernel", InfoFrames)
        BY <4>1, <4>4, <4>5, <4>6 DEF Grants
      <4>8. halted = Running
        BY <2>1, <2>2 DEF PoolsAgree, HaltedFor
      <4> QED
        BY <4>1, <4>7, <4>8
    <3>2. InfoFrames \in 1..MaxRequest
      BY <2>1, FramePoolAssumption
    <3> QED
      BY <2>1, <3>1, <3>2, GrantAllocates
  <2>3. CASE ~CanGet(pool["kernel"], InfoFrames)
    BY <1>3, <2>1, <2>3, HaltStops DEF BootInfoFrames
  <2> QED
    BY <2>2, <2>3
<1>4. CASE BootProcessPool
  BY <1>1, <1>4 DEF BootProcessPool
<1>5. CASE BootHole
  BY <1>1, <1>5, HoleAgrees
<1>6. CASE \E p \in PoolId, n \in 1..MaxRequest : ClientGet(p, n)
  <2>1. PICK p \in PoolId, n \in 1..MaxRequest : ClientGet(p, n)
    BY <1>6
  <2>2. n \in Nat \ {0} /\ boot = "up" /\ halted = Running /\ MayGet(p, n)
    BY <2>1 DEF ClientGet, MayGet
  <2>3. CASE CanGet(pool[p], n)
    <3>1. get_frames(p, n) /\ halted' = halted
      BY <2>1, <2>3 DEF ClientGet
    <3>2. Built(p) /\ Grants(p, n)
      BY <2>2, <2>3, <3>1, ClientGetsFree DEF Grants
    <3> QED
      BY <2>2, <3>1, <3>2, GrantAllocates
  <2>4. CASE ~CanGet(pool[p], n)
    BY <2>1, <2>2, <2>4, HaltStops DEF ClientGet
  <2> QED
    BY <2>3, <2>4
<1>7. CASE \E r \in held : ClientRelease(r)
  <2>1. PICK r \in held : ClientRelease(r)
    BY <1>7
  <2>2. held' = held \ {r} /\ halted = Running /\ halted' = halted
    BY <2>1, ClientReleaseAgrees
  <2>3. \E q \in held : Allocator!Release(q)
    BY <2>2 DEF Allocator!Release
  <2> QED
    BY <2>2, <2>3 DEF Allocator!Next
<1>8. CASE UNCHANGED vars
  BY <1>1, <1>8 DEF vars
<1>9. CASE Halted
  BY <1>8, <1>9 DEF Halted
<1> QED
  BY <1>2, <1>3, <1>4, <1>5, <1>6, <1>7, <1>8, <1>9 DEF Next

\* Both pools are one allocator of ranges, whatever their sizes and the requests: a grant
\* is made of frames that are neither held nor inaccessible nor a bitmap's own, a release
\* gives back exactly what was granted, and after a halt nothing moves. The bound on the
\* size of a request must admit the start-up code's own.
THEOREM PoolsImplementAllocator ==
    ASSUME Clients \subseteq {"single", "stack"}, InfoFrames <= MaxRequest
    PROVE  Spec => ImplementsAllocator
PROOF
<1>1. Init => Allocator!Init
  BY DEF Init, Allocator!Init
<1>2. PoolsAgree /\ [Next]_vars => [Allocator!Next]_(Allocator!regionVars)
  BY NextAllocates
<1> QED
  BY <1>1, <1>2, PoolsAlwaysAgree, PTL DEF Spec, ImplementsAllocator, Allocator!Spec
=============================================================================
