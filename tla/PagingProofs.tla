---------------------------- MODULE PagingProofs ----------------------------
(***************************************************************************)
(* Theorems about Paging.tla for every size of page, every number of       *)
(* entries, any frames and any pools that fit between the shared memory    *)
(* and the page tables' own addresses: what the frames of the process pool *)
(* are used for, what the MMU finds, and what the pools have given out.    *)
(***************************************************************************)
EXTENDS Paging, FiniteSetTheorems, WellFoundedInduction, TLAPS

(* The page table. The operators take the memory, the directory and the    *)
(* free frames as arguments, so that a fault can be followed through the   *)
(* memories between its stores.                                            *)

\* The pages between the shared memory and the tables' own addresses.
PoolPage == ENTRIES_PER_PAGE..Last * ENTRIES_PER_PAGE - 1

WalkIn(m, dir, page) ==
    LET table == m[dir][page \div ENTRIES_PER_PAGE]
    IN  IF table = NotPresent THEN NotPresent ELSE m[table][page % ENTRIES_PER_PAGE]

TablesIn(m, dir) == {m[dir][d] : d \in 0..Last - 1} \ {NotPresent}
PagesIn(m, dir) == {page \in PoolPage : WalkIn(m, dir, page) # NotPresent}
FramesIn(m, dir) == {WalkIn(m, dir, page) : page \in PagesIn(m, dir)}

\* The directory: it points to itself, to the table of the shared memory, and to tables
\* in frames of their own.
DirectoryBuilt(m, dir, pool) ==
    /\ dir \in ProcessFrames \ pool
    /\ m[dir][Last] = dir
    /\ m[dir][0] # NotPresent
    /\ \A i \in Entry : m[m[dir][0]][i] = i
    /\ \A d \in 0..Last - 1 :
          m[dir][d] # NotPresent => m[dir][d] \in ProcessFrames \ (pool \cup {dir})
    /\ \A d, e \in 0..Last - 1 :
          m[dir][d] # NotPresent /\ m[dir][d] = m[dir][e] => d = e

\* The pages: each that has a frame has it to itself.
PagesBuilt(m, dir, pool) ==
    /\ \A page \in PagesIn(m, dir) :
          WalkIn(m, dir, page) \in ProcessFrames \ (pool \cup {dir} \cup TablesIn(m, dir))
    /\ \A page, other \in PagesIn(m, dir) :
          WalkIn(m, dir, page) = WalkIn(m, dir, other) => page = other

Built(m, dir, pool) ==
    /\ m \in [Frame -> [Entry -> Frame \cup {NotPresent}]]
    /\ pool \in SUBSET ProcessFrames
    /\ DirectoryBuilt(m, dir, pool)
    /\ PagesBuilt(m, dir, pool)
    /\ ProcessFrames = pool \cup {dir} \cup TablesIn(m, dir) \cup FramesIn(m, dir)

\* What the CPU has cached is what the tables say.
TlbCurrent ==
    /\ tlb \in SUBSET (PoolPage \X Frame)
    /\ \A e \in tlb : WalkIn(mem, page_directory, e[1]) = e[2]

\* Before load() nothing is mapped.
TableInv ==
    /\ paging_enabled \in BOOLEAN
    /\ paging_enabled => Built(mem, page_directory, free) /\ TlbCurrent
    /\ ~paging_enabled => PageTableInit

(* The pools.                                                              *)

Aligned(a) == a \in Nat /\ a = PageOf(a) * PAGE_SIZE

Region == [start_frame : Nat, size : Nat \ {0}]

\* The list of a pool: its own page first, then whole pages, in order, one behind the
\* other and inside the pool.
Listed(p, l) ==
    /\ l \in Seq(Region) /\ Len(l) >= 1
    /\ l[1] = [start_frame |-> p.base_address, size |-> PAGE_SIZE]
    /\ \A i \in 1..Len(l) :
          /\ Aligned(l[i].start_frame) /\ Aligned(RegionEnd(l[i]))
          /\ p.base_address <= l[i].start_frame /\ RegionEnd(l[i]) <= EndOf(p)
    /\ \A i, j \in 1..Len(l) : i < j => RegionEnd(l[i]) <= l[j].start_frame

\* A pool has an empty list until its constructor's first store has succeeded.
PoolInv ==
    /\ vmPools \in SUBSET Pool /\ building \in SUBSET vmPools
    /\ allocated_list = [p \in Pool |-> allocated_list[p]]
    /\ \A p \in Pool :
          IF p \in vmPools \ building THEN Listed(p, allocated_list[p])
          ELSE allocated_list[p] = <<>>
    /\ \A p \in building : building = {p} /\ access = PageOf(p.base_address)
    /\ access \in PoolPage \cup {NoAccess}

\* The kernel's stops, and the state it is in before the page table is loaded.
HaltInv ==
    /\ halted \in {"no", "assert", "frames", "abort", "space"}
    /\ ~paging_enabled => access = NoAccess /\ halted = "no" /\ vmPools = {}
    /\ halted = "space" => call[2] \in vmPools \ building /\ call[3] \in 1..MaxSize

\* Everything the theorems rest on.
PagingInv ==
    /\ TableInv
    /\ PoolInv
    /\ HaltInv
    /\ OnlyRegionsMapped
    /\ HaltsForCause

-----------------------------------------------------------------------------
(* Pages, entries and addresses as numbers.                                *)

LEMMA Sizes ==
    /\ ENTRIES_PER_PAGE \in Nat /\ ENTRIES_PER_PAGE > 2
    /\ Last \in Nat /\ Last >= 2 /\ Last = ENTRIES_PER_PAGE - 1 /\ Last # NotPresent
    /\ Entry = 0..Last /\ 0 \in Entry /\ Last \in Entry
    /\ 0..Last - 1 \in SUBSET Entry /\ Last \notin 0..Last - 1
    /\ PAGE_SIZE \in Nat \ {0} /\ MaxSize \in Nat \ {0}
BY PageTableAssumption, VMPoolAssumption DEF Last, Entry, NotPresent

LEMMA FrameFacts ==
    /\ ProcessFrames \in SUBSET Nat /\ ProcessFrames \in SUBSET Frame
    /\ Entry \in SUBSET Frame /\ NotPresent \notin Frame
    /\ \A f \in ProcessFrames : f \notin Entry
    /\ IsFiniteSet(ProcessFrames)
PROOF
<1>1. ProcessFrames \subseteq Nat \ 0..ENTRIES_PER_PAGE - 1 /\ IsFiniteSet(ProcessFrames)
  BY PageTableAssumption
<1>2. Entry = 0..ENTRIES_PER_PAGE - 1
  BY DEF Entry, Last
<1>3. ENTRIES_PER_PAGE \in Nat
  BY PageTableAssumption
<1>4. NotPresent \notin Entry /\ NotPresent \notin ProcessFrames
  BY <1>1, <1>2, <1>3 DEF NotPresent
<1> QED
  BY <1>1, <1>2, <1>3, <1>4 DEF Frame

\* The directory entry and the page table entry of a page, and back.
LEMMA PageParts ==
    ASSUME NEW page \in PoolPage
    PROVE  /\ page \in Page /\ page \in Nat
           /\ page \div ENTRIES_PER_PAGE \in 1..Last - 1
           /\ page % ENTRIES_PER_PAGE \in Entry
           /\ page = (page \div ENTRIES_PER_PAGE) * ENTRIES_PER_PAGE
                     + (page % ENTRIES_PER_PAGE)
PROOF
<1> DEFINE E == ENTRIES_PER_PAGE
<1>1. E \in Nat \ {0} /\ Last \in Nat /\ E = Last + 1 /\ Entry = 0..Last /\ Last >= 2
  BY Sizes
<1>2. page \in Nat /\ page >= E /\ page < Last * E
  <2>1. page \in E..Last * E - 1
    BY DEF PoolPage
  <2>2. Last * E \in Nat
    BY <1>1
  <2> HIDE DEF E
  <2> QED
    BY <1>1, <2>1, <2>2
<1> HIDE DEF E
<1>3. page \div E \in Nat /\ page \div E < Last /\ page \div E >= 1
  BY <1>1, <1>2
<1>4. page % E \in 0..Last
  BY <1>1, <1>2
<1>5. page = (page \div E) * E + (page % E)
  <2> DEFINE d == page \div E
             i == page - d * E
  <2>1. d \in Nat
    BY <1>3
  <2>2. i \in 0..E - 1
    <3>1. \A n \in Nat : (page < n * E => d < n) /\ (n * E <= page => n <= d)
      BY <1>1, <1>2
    <3> HIDE DEF d
    <3>2. ~(page < d * E) /\ ~((d + 1) * E <= page)
      BY <2>1, <3>1
    <3>3. (d + 1) * E = d * E + E /\ d * E \in Nat
      BY <1>1, <2>1
    <3> QED
      BY <1>1, <1>2, <3>2, <3>3
  <2>3. page = d * E + i
    BY <1>1, <1>2, <2>1
  <2> HIDE DEF d, i
  <2>4. (d * E + i) % E = i
    BY <1>1, <2>1, <2>2
  <2> QED
    BY <2>3, <2>4 DEF d
<1>6. Last * E <= E * E
  BY <1>1
<1>7. page \in 0..E * E - 1
  BY <1>1, <1>2, <1>6
<1> QED
  BY <1>1, <1>2, <1>3, <1>4, <1>5, <1>7 DEF E, Page

\* The page at entry i of table d.
LEMMA EntryPage ==
    ASSUME NEW d \in Entry, NEW i \in Entry
    PROVE  /\ (d * ENTRIES_PER_PAGE + i) \div ENTRIES_PER_PAGE = d
           /\ (d * ENTRIES_PER_PAGE + i) % ENTRIES_PER_PAGE = i
PROOF
<1> DEFINE E == ENTRIES_PER_PAGE
<1>1. E \in Nat \ {0} /\ d \in Nat /\ i \in 0..E - 1
  BY Sizes
<1> HIDE DEF E
<1>2. (d * E + i) \div E = d /\ (d * E + i) % E = i
  BY <1>1
<1> QED
  BY <1>2 DEF E

\* The pages of the shared memory.
LEMMA SharedPage ==
    ASSUME NEW i \in Entry
    PROVE  i \div ENTRIES_PER_PAGE = 0 /\ i % ENTRIES_PER_PAGE = i
PROOF
<1> DEFINE E == ENTRIES_PER_PAGE
<1>1. E \in Nat \ {0} /\ i \in 0..E - 1
  BY Sizes
<1> HIDE DEF E
<1>2. i \div E = 0 /\ i % E = i
  BY <1>1
<1> QED
  BY <1>2 DEF E

\* Pages of aligned addresses.
LEMMA PageOrder ==
    ASSUME NEW a \in Nat, NEW b \in Nat
    PROVE  /\ PageOf(a) \in Nat
           /\ a <= b => PageOf(a) <= PageOf(b)
           /\ Aligned(a) /\ Aligned(b) => Aligned(a + b) /\ PageOf(a + b) = PageOf(a) + PageOf(b)
           /\ Aligned(a) /\ Aligned(b) /\ PageOf(a) <= PageOf(b) => a <= b
PROOF
<1> DEFINE P == PAGE_SIZE
<1>1. P \in Nat \ {0}
  BY Sizes
<1> HIDE DEF P
<1>2. a \div P \in Nat
  BY <1>1
<1>3. a <= b => a \div P <= b \div P
  BY <1>1
<1>4. ASSUME a = (a \div P) * P, b = (b \div P) * P
      PROVE  (a + b) \div P = a \div P + b \div P /\ a + b = ((a + b) \div P) * P
  <2> DEFINE k == a \div P
             n == b \div P
  <2>1. k \in Nat /\ n \in Nat /\ a = k * P /\ b = n * P
    BY <1>1, <1>4
  <2> HIDE DEF k, n
  <2>2. a + b = (k + n) * P /\ k + n \in Nat
    BY <1>1, <2>1
  <2>3. ((k + n) * P) \div P = k + n
    BY <1>1, <2>1
  <2> QED
    BY <2>2, <2>3 DEF k, n
<1>5. ASSUME a = (a \div P) * P, b = (b \div P) * P, a \div P <= b \div P
      PROVE  a <= b
  <2> DEFINE k == a \div P
             n == b \div P
  <2>1. k \in Nat /\ n \in Nat /\ a = k * P /\ b = n * P /\ k <= n
    BY <1>1, <1>5
  <2> HIDE DEF k, n
  <2> QED
    BY <1>1, <2>1
<1>6. a + b \in Nat
  OBVIOUS
<1> QED
  BY <1>2, <1>3, <1>4, <1>5, <1>6 DEF PageOf, Aligned, P

\* An address of page n.
LEMMA AddressOf ==
    ASSUME NEW n \in Nat
    PROVE  Aligned(n * PAGE_SIZE) /\ PageOf(n * PAGE_SIZE) = n
PROOF
<1> DEFINE P == PAGE_SIZE
<1>1. P \in Nat \ {0}
  BY Sizes
<1> HIDE DEF P
<1>2. (n * P) \div P = n /\ n * P \in Nat
  BY <1>1
<1> QED
  BY <1>2 DEF PageOf, Aligned, P

\* Sizes are rounded up to whole pages.
LEMMA RoundedUp ==
    ASSUME NEW n \in Nat \ {0}
    PROVE  /\ RoundUp(n) \in Nat \ {0} /\ Aligned(RoundUp(n)) /\ RoundUp(n) >= n
           /\ RoundUp(n) >= PAGE_SIZE
           /\ \A k \in Nat \ {0} : n <= k => RoundUp(n) <= RoundUp(k)
PROOF
<1> DEFINE P == PAGE_SIZE
           q == (n - 1) \div P + 1
<1>1. P \in Nat \ {0} /\ n - 1 \in Nat
  BY Sizes
<1> HIDE DEF P
<1>2. q \in Nat /\ q >= 1 /\ q * P >= n
  BY <1>1
<1>3. RoundUp(n) = q * P
  BY DEF RoundUp, P
<1>4. ASSUME NEW k \in Nat \ {0}, n <= k PROVE q * P <= ((k - 1) \div P + 1) * P
  <2> DEFINE r == (k - 1) \div P + 1
  <2>1. (n - 1) \div P <= (k - 1) \div P /\ (k - 1) \div P \in Int /\ (n - 1) \div P \in Int
    BY <1>1, <1>4
  <2>2. q \in Nat /\ r \in Int /\ q <= r
    BY <1>2, <2>1
  <2> HIDE DEF q, r
  <2>3. q * P <= r * P
    BY <1>1, <2>2
  <2> QED
    BY <2>3 DEF r
<1>5. \A k \in Nat \ {0} : n <= k => RoundUp(n) <= RoundUp(k)
  BY <1>3, <1>4 DEF RoundUp, P
<1> HIDE DEF q
<1>6. q * P \in Nat \ {0} /\ q * P >= P
  BY <1>1, <1>2
<1>7. Aligned(q * P)
  BY <1>2, AddressOf DEF P
<1> QED
  BY <1>2, <1>3, <1>5, <1>6, <1>7 DEF P

-----------------------------------------------------------------------------
(* The frames behind the tables' own addresses, and what a store changes.  *)

\* The last entry of the directory makes construct_pde_address an address of the
\* directory and construct_pte_address one of the table (PageTable::construct_...).
LEMMA SelfReference ==
    ASSUME NEW m, NEW d \in Entry, page_directory \in ProcessFrames,
           m[page_directory][Last] = page_directory
    PROVE  PdeFrame(m) = page_directory /\ PteFrame(m, d) = m[page_directory][d]
PROOF
<1>1. page_directory # NotPresent
  BY FrameFacts
<1>2. ASSUME NEW e \in Entry
      PROVE  Walk(m, Last * ENTRIES_PER_PAGE + e) = m[page_directory][e]
  <2>1. /\ (Last * ENTRIES_PER_PAGE + e) \div ENTRIES_PER_PAGE = Last
        /\ (Last * ENTRIES_PER_PAGE + e) % ENTRIES_PER_PAGE = e
    BY EntryPage, Sizes
  <2> QED
    BY <1>1, <2>1 DEF Walk
<1> QED
  BY <1>2, Sizes DEF PdeFrame, PteFrame

LEMMA WalkIsWalkIn ==
    ASSUME NEW m, NEW page
    PROVE  Walk(m, page) = WalkIn(m, page_directory, page)
BY DEF Walk, WalkIn

\* Where the directory and the tables are.
LEMMA BuiltShape ==
    ASSUME NEW m, NEW dir, NEW pool, Built(m, dir, pool)
    PROVE  /\ dir \in Frame /\ dir \in ProcessFrames /\ dir \notin pool
           /\ m = [f \in Frame |-> [i \in Entry |-> m[f][i]]]
           /\ \A f \in Frame, i \in Entry : m[f][i] \in Frame \cup {NotPresent}
           /\ \A d \in 0..Last - 1 : m[dir][d] # NotPresent =>
                 /\ m[dir][d] \in ProcessFrames /\ m[dir][d] \in Frame
                 /\ m[dir][d] # dir /\ m[dir][d] \notin pool
                 /\ m[dir][d] \in TablesIn(m, dir)
           /\ \A page \in PoolPage :
                 /\ m[dir][page \div ENTRIES_PER_PAGE] = NotPresent =>
                       WalkIn(m, dir, page) = NotPresent
                 /\ m[dir][page \div ENTRIES_PER_PAGE] # NotPresent =>
                       WalkIn(m, dir, page) = m[m[dir][page \div ENTRIES_PER_PAGE]]
                                                    [page % ENTRIES_PER_PAGE]
                 /\ WalkIn(m, dir, page) \in Frame \cup {NotPresent}
PROOF
<1>1. dir \in ProcessFrames /\ dir \in Frame /\ dir \notin pool
  BY FrameFacts DEF Built, DirectoryBuilt
<1>2. m \in [Frame -> [Entry -> Frame \cup {NotPresent}]]
  BY DEF Built
<1>3. \A f \in Frame, i \in Entry : m[f][i] \in Frame \cup {NotPresent}
  BY <1>2
<1>4. m = [f \in Frame |-> [i \in Entry |-> m[f][i]]]
  BY <1>2
<1>5. ASSUME NEW d \in 0..Last - 1, m[dir][d] # NotPresent
      PROVE  /\ m[dir][d] \in ProcessFrames /\ m[dir][d] \in Frame
             /\ m[dir][d] # dir /\ m[dir][d] \notin pool
             /\ m[dir][d] \in TablesIn(m, dir)
  BY <1>5, FrameFacts DEF Built, DirectoryBuilt, TablesIn
<1>6. ASSUME NEW page \in PoolPage
      PROVE  /\ m[dir][page \div ENTRIES_PER_PAGE] = NotPresent =>
                   WalkIn(m, dir, page) = NotPresent
             /\ m[dir][page \div ENTRIES_PER_PAGE] # NotPresent =>
                   WalkIn(m, dir, page) = m[m[dir][page \div ENTRIES_PER_PAGE]]
                                                [page % ENTRIES_PER_PAGE]
             /\ WalkIn(m, dir, page) \in Frame \cup {NotPresent}
  <2> DEFINE d == page \div ENTRIES_PER_PAGE
             i == page % ENTRIES_PER_PAGE
  <2>1. d \in 0..Last - 1 /\ i \in Entry
    BY PageParts, Sizes
  <2>2. WalkIn(m, dir, page) = IF m[dir][d] = NotPresent THEN NotPresent ELSE m[m[dir][d]][i]
    BY DEF WalkIn
  <2> HIDE DEF d, i
  <2>3. m[dir][d] # NotPresent => m[m[dir][d]][i] \in Frame \cup {NotPresent}
    BY <1>3, <1>5, <2>1
  <2> QED
    BY <2>2, <2>3 DEF d, i
<1> QED
  BY <1>1, <1>3, <1>4, <1>5, <1>6

\* A store that leaves the directory, the shared memory's table and every walk alone.
LEMMA SameBuilt ==
    ASSUME NEW m, NEW new, NEW dir, NEW pool, Built(m, dir, pool),
           new \in [Frame -> [Entry -> Frame \cup {NotPresent}]],
           new[dir] = m[dir], new[m[dir][0]] = m[m[dir][0]],
           \A page \in PoolPage : WalkIn(new, dir, page) = WalkIn(m, dir, page)
    PROVE  Built(new, dir, pool)
PROOF
<1>1. TablesIn(new, dir) = TablesIn(m, dir) /\ PagesIn(new, dir) = PagesIn(m, dir)
  BY DEF TablesIn, PagesIn
<1>2. FramesIn(new, dir) = FramesIn(m, dir)
  BY <1>1 DEF FramesIn, PagesIn
<1>3. DirectoryBuilt(new, dir, pool)
  BY DEF Built, DirectoryBuilt
<1>4. PagesBuilt(new, dir, pool)
  BY <1>1 DEF Built, PagesBuilt, PagesIn
<1> QED
  BY <1>1, <1>2, <1>3, <1>4 DEF Built

\* A store of the program to the frame behind a page.
LEMMA StoredBuilt ==
    ASSUME NEW m, NEW dir, NEW pool, Built(m, dir, pool), NEW page \in PagesIn(m, dir)
    PROVE  LET new == [m EXCEPT ![WalkIn(m, dir, page)] = Data] IN
           /\ Built(new, dir, pool)
           /\ \A q \in PoolPage : WalkIn(new, dir, q) = WalkIn(m, dir, q)
PROOF
<1> DEFINE f == WalkIn(m, dir, page)
           new == [m EXCEPT ![f] = Data]
<1>1. /\ f \in Frame /\ f # dir
      /\ f \notin TablesIn(m, dir)
  BY FrameFacts DEF Built, PagesBuilt
<1>2. m \in [Frame -> [Entry -> Frame \cup {NotPresent}]]
  BY DEF Built
<1>3. Data \in [Entry -> Frame \cup {NotPresent}]
  BY Sizes, FrameFacts DEF Data
<1> HIDE DEF f
<1>4. /\ new \in [Frame -> [Entry -> Frame \cup {NotPresent}]]
      /\ \A g \in Frame : g # f => new[g] = m[g]
  BY <1>1, <1>2, <1>3
<1> HIDE DEF new
<1>5. new[dir] = m[dir]
  BY <1>1, <1>4, BuiltShape
<1>6. \A d \in 0..Last - 1 : m[dir][d] # NotPresent => new[m[dir][d]] = m[m[dir][d]]
  BY <1>1, <1>4, BuiltShape
<1>7. new[m[dir][0]] = m[m[dir][0]]
  BY <1>6, Sizes DEF Built, DirectoryBuilt
<1>8. ASSUME NEW q \in PoolPage PROVE WalkIn(new, dir, q) = WalkIn(m, dir, q)
  <2>1. q \div ENTRIES_PER_PAGE \in 0..Last - 1
    BY PageParts, Sizes
  <2> QED
    BY <1>5, <1>6, <2>1 DEF WalkIn
<1>9. Built(new, dir, pool)
  BY <1>4, <1>5, <1>7, <1>8, SameBuilt
<1> QED
  BY <1>8, <1>9 DEF new, f

\* The memory after the entry of a page has been written.
Written(m, dir, page, w) ==
    [m EXCEPT ![m[dir][page \div ENTRIES_PER_PAGE]][page % ENTRIES_PER_PAGE] = w]

\* Only one page changes.
OnePage(m, new, dir, page, w) ==
    /\ new[dir] = m[dir]
    /\ \A q \in PoolPage :
          WalkIn(new, dir, q) = IF q = page THEN w ELSE WalkIn(m, dir, q)

\* One entry of a page table is written.
LEMMA EntryWritten ==
    ASSUME NEW m, NEW dir, NEW pool, Built(m, dir, pool), NEW page \in PoolPage,
           m[dir][page \div ENTRIES_PER_PAGE] # NotPresent,
           NEW w \in Frame \cup {NotPresent}, NEW new,
           new = Written(m, dir, page, w)
    PROVE  /\ new \in [Frame -> [Entry -> Frame \cup {NotPresent}]]
           /\ new[m[dir][0]] = m[m[dir][0]]
           /\ OnePage(m, new, dir, page, w)
PROOF
<1> DEFINE E == ENTRIES_PER_PAGE
           d == page \div E
           i == page % E
           t == m[dir][d]
<1>1. d \in 0..Last - 1 /\ d # 0 /\ i \in Entry
  <2>1. d \in 1..Last - 1 /\ i \in Entry
    BY PageParts
  <2> HIDE DEF d, i
  <2> QED
    BY <2>1, Sizes
<1>2. t \in Frame /\ t # dir /\ t # NotPresent /\ dir \in Frame
  BY <1>1, BuiltShape
<1>3. m \in [Frame -> [Entry -> Frame \cup {NotPresent}]]
  BY DEF Built
<1>4. new = [m EXCEPT ![t] = [m[t] EXCEPT ![i] = w]]
  BY <1>2, <1>3 DEF Written
<1>5. /\ [m[t] EXCEPT ![i] = w] \in [Entry -> Frame \cup {NotPresent}]
      /\ \A j \in Entry : [m[t] EXCEPT ![i] = w][j] = IF j = i THEN w ELSE m[t][j]
  BY <1>1, <1>2, <1>3
<1> HIDE DEF t
<1>6. /\ new \in [Frame -> [Entry -> Frame \cup {NotPresent}]]
      /\ \A g \in Frame : g # t => new[g] = m[g]
      /\ \A j \in Entry : new[t][j] = IF j = i THEN w ELSE m[t][j]
  BY <1>2, <1>3, <1>4, <1>5
<1>7. new[dir] = m[dir]
  BY <1>2, <1>6
<1>8. /\ m[dir][0] \in Frame /\ m[dir][0] # t
      /\ \A e \in 0..Last - 1 : m[dir][e] # NotPresent /\ m[dir][e] = t => e = d
  <2>1. m[dir][0] # NotPresent /\ 0 \in 0..Last - 1
    BY Sizes DEF Built, DirectoryBuilt
  <2>2. \A e \in 0..Last - 1 : m[dir][e] # NotPresent /\ m[dir][e] = t => e = d
    BY <1>1, <1>2 DEF Built, DirectoryBuilt, t
  <2> QED
    BY <1>1, <2>1, <2>2, BuiltShape
<1>9. new[m[dir][0]] = m[m[dir][0]]
  BY <1>6, <1>8
<1>10. ASSUME NEW q \in PoolPage
       PROVE  WalkIn(new, dir, q) = IF q = page THEN w ELSE WalkIn(m, dir, q)
  <2> DEFINE e == q \div E
             j == q % E
  <2>1. e \in 0..Last - 1 /\ j \in Entry
    BY PageParts, Sizes
  <2>2. q = page <=> (e = d /\ j = i)
    <3>1. q = e * E + j /\ page = d * E + i
      BY PageParts
    <3> QED
      BY <3>1
  <2>3. WalkIn(new, dir, q) = IF m[dir][e] = NotPresent THEN NotPresent ELSE new[m[dir][e]][j]
    BY <1>7 DEF WalkIn
  <2>4. WalkIn(m, dir, q) = IF m[dir][e] = NotPresent THEN NotPresent ELSE m[m[dir][e]][j]
    BY DEF WalkIn
  <2>5. m[dir][d] = t
    BY DEF t
  <2> HIDE DEF e, j, d, i
  <2>6. CASE e = d
    BY <1>2, <1>6, <2>1, <2>2, <2>3, <2>4, <2>5, <2>6
  <2>7. CASE e # d
    <3>1. m[dir][e] # NotPresent => m[dir][e] \in Frame /\ m[dir][e] # t
      BY <1>8, <2>1, <2>7, BuiltShape
    <3> QED
      BY <1>6, <2>1, <2>2, <2>3, <2>4, <2>7, <3>1
  <2> QED
    BY <2>6, <2>7
<1> QED
  BY <1>6, <1>7, <1>9, <1>10 DEF OnePage

\* The frames behind the other pages.
OtherFrames(m, dir, page) == {WalkIn(m, dir, q) : q \in PagesIn(m, dir) \ {page}}

\* The sets that change with one page.
LEMMA PageChanged ==
    ASSUME NEW m, NEW new, NEW dir, NEW page \in PoolPage, NEW w,
           OnePage(m, new, dir, page, w)
    PROVE  /\ TablesIn(new, dir) = TablesIn(m, dir)
           /\ \A q : q \in PagesIn(new, dir) <=>
                       \/ q \in PagesIn(m, dir) /\ q # page
                       \/ w # NotPresent /\ q = page
           /\ \A g : g \in FramesIn(new, dir) <=>
                       \/ g \in OtherFrames(m, dir, page)
                       \/ w # NotPresent /\ g = w
PROOF
<1> USE DEF OnePage
<1>1. TablesIn(new, dir) = TablesIn(m, dir)
  BY DEF TablesIn
<1>2. ASSUME NEW q
      PROVE  q \in PagesIn(new, dir) <=> \/ q \in PagesIn(m, dir) /\ q # page
                                         \/ w # NotPresent /\ q = page
  BY DEF PagesIn
<1>3. ASSUME NEW g
      PROVE  g \in FramesIn(new, dir) <=> \/ g \in OtherFrames(m, dir, page)
                                          \/ w # NotPresent /\ g = w
  <2>1. g \in FramesIn(new, dir) <=> \E q \in PagesIn(new, dir) : g = WalkIn(new, dir, q)
    BY DEF FramesIn
  <2>2. PagesIn(m, dir) \subseteq PoolPage
    BY DEF PagesIn
  <2>3. \A q \in PagesIn(m, dir) \ {page} : WalkIn(new, dir, q) = WalkIn(m, dir, q)
    BY <2>2
  <2>4. WalkIn(new, dir, page) = w
    OBVIOUS
  <2> QED
    BY <1>2, <2>1, <2>3, <2>4 DEF OtherFrames
<1> QED
  BY <1>1, <1>2, <1>3

\* A page gets a frame of the pool.
LEMMA PagePlaced ==
    ASSUME NEW m, NEW dir, NEW pool, Built(m, dir, pool), NEW page \in PoolPage,
           m[dir][page \div ENTRIES_PER_PAGE] # NotPresent,
           WalkIn(m, dir, page) = NotPresent, NEW f \in pool, NEW new,
           new = Written(m, dir, page, f)
    PROVE  /\ Built(new, dir, pool \ {f})
           /\ \A q \in PoolPage :
                 WalkIn(new, dir, q) = IF q = page THEN f ELSE WalkIn(m, dir, q)
PROOF
<1>1. f \in Frame /\ f # NotPresent /\ f \in ProcessFrames
  BY FrameFacts DEF Built
<1>2. /\ new \in [Frame -> [Entry -> Frame \cup {NotPresent}]]
      /\ new[dir] = m[dir] /\ new[m[dir][0]] = m[m[dir][0]]
      /\ OnePage(m, new, dir, page, f)
      /\ \A q \in PoolPage :
            WalkIn(new, dir, q) = IF q = page THEN f ELSE WalkIn(m, dir, q)
  <2>1. /\ new \in [Frame -> [Entry -> Frame \cup {NotPresent}]]
        /\ new[m[dir][0]] = m[m[dir][0]]
        /\ OnePage(m, new, dir, page, f)
    BY <1>1, EntryWritten
  <2> QED
    BY <2>1 DEF OnePage
<1>3. page \notin PagesIn(m, dir)
  BY DEF PagesIn
<1>4. /\ TablesIn(new, dir) = TablesIn(m, dir)
      /\ PagesIn(new, dir) = PagesIn(m, dir) \cup {page}
      /\ FramesIn(new, dir) = FramesIn(m, dir) \cup {f}
  <2>1. OtherFrames(m, dir, page) = FramesIn(m, dir)
    BY <1>3 DEF OtherFrames, FramesIn
  <2>2. OnePage(m, new, dir, page, f)
    BY <1>2
  <2>3. /\ TablesIn(new, dir) = TablesIn(m, dir)
        /\ \A q : q \in PagesIn(new, dir) <=>
                    \/ q \in PagesIn(m, dir) /\ q # page
                    \/ f # NotPresent /\ q = page
        /\ \A g : g \in FramesIn(new, dir) <=>
                    \/ g \in OtherFrames(m, dir, page)
                    \/ f # NotPresent /\ g = f
    BY <2>2, PageChanged
  <2> QED
    BY <1>1, <1>3, <2>1, <2>3
<1>5. DirectoryBuilt(new, dir, pool \ {f})
  BY <1>2 DEF Built, DirectoryBuilt
<1>6. PagesBuilt(new, dir, pool \ {f})
  <2> SUFFICES ASSUME NEW v \in PagesIn(new, dir), NEW w \in PagesIn(new, dir)
               PROVE  /\ WalkIn(new, dir, v) \in
                            ProcessFrames \ ((pool \ {f}) \cup {dir} \cup TablesIn(new, dir))
                      /\ WalkIn(new, dir, v) = WalkIn(new, dir, w) => v = w
    BY DEF PagesBuilt
  <2>1. \A x \in PagesIn(m, dir) : x \in PoolPage /\ x # page
    BY <1>3 DEF PagesIn
  <2>2. /\ WalkIn(new, dir, page) = f
        /\ \A q \in PagesIn(m, dir) : WalkIn(new, dir, q) = WalkIn(m, dir, q)
    BY <1>2, <2>1
  <2>3. f # dir /\ f \notin TablesIn(m, dir)
    BY DEF Built, DirectoryBuilt, TablesIn
  <2>4. \A q \in PagesIn(m, dir) :
           WalkIn(m, dir, q) \in ProcessFrames \ (pool \cup {dir} \cup TablesIn(m, dir))
    BY DEF Built, PagesBuilt
  <2>5. \A q, r \in PagesIn(m, dir) : WalkIn(m, dir, q) = WalkIn(m, dir, r) => q = r
    BY DEF Built, PagesBuilt
  <2> QED
    BY <1>1, <1>4, <2>2, <2>3, <2>4, <2>5
<1>7. ProcessFrames = (pool \ {f}) \cup {dir} \cup TablesIn(new, dir) \cup FramesIn(new, dir)
  BY <1>4 DEF Built
<1>8. pool \ {f} \in SUBSET ProcessFrames
  BY DEF Built
<1> QED
  BY <1>2, <1>5, <1>6, <1>7, <1>8 DEF Built

\* A page's frame goes back to the pool.
LEMMA PageFreed ==
    ASSUME NEW m, NEW dir, NEW pool, Built(m, dir, pool), NEW page \in PagesIn(m, dir),
           NEW f, f = WalkIn(m, dir, page), NEW new,
           new = Written(m, dir, page, NotPresent)
    PROVE  /\ Built(new, dir, pool \cup {f})
           /\ \A q \in PoolPage :
                 WalkIn(new, dir, q) = IF q = page THEN NotPresent ELSE WalkIn(m, dir, q)
PROOF
<1>1. page \in PoolPage /\ WalkIn(m, dir, page) # NotPresent
  BY DEF PagesIn
<1>2. m[dir][page \div ENTRIES_PER_PAGE] # NotPresent
  BY <1>1, BuiltShape
<1>3. /\ new \in [Frame -> [Entry -> Frame \cup {NotPresent}]]
      /\ new[dir] = m[dir] /\ new[m[dir][0]] = m[m[dir][0]]
      /\ OnePage(m, new, dir, page, NotPresent)
      /\ \A q \in PoolPage :
            WalkIn(new, dir, q) = IF q = page THEN NotPresent ELSE WalkIn(m, dir, q)
  <2>1. /\ new \in [Frame -> [Entry -> Frame \cup {NotPresent}]]
        /\ new[m[dir][0]] = m[m[dir][0]]
        /\ OnePage(m, new, dir, page, NotPresent)
    BY <1>1, <1>2, EntryWritten
  <2> QED
    BY <2>1 DEF OnePage
<1>4. /\ TablesIn(new, dir) = TablesIn(m, dir)
      /\ PagesIn(new, dir) = PagesIn(m, dir) \ {page}
      /\ FramesIn(new, dir) = OtherFrames(m, dir, page)
  <2>1. OnePage(m, new, dir, page, NotPresent)
    BY <1>3
  <2>2. /\ TablesIn(new, dir) = TablesIn(m, dir)
        /\ \A q : q \in PagesIn(new, dir) <=>
                    \/ q \in PagesIn(m, dir) /\ q # page
                    \/ NotPresent # NotPresent /\ q = page
        /\ \A g : g \in FramesIn(new, dir) <=>
                    \/ g \in OtherFrames(m, dir, page)
                    \/ NotPresent # NotPresent /\ g = NotPresent
    BY <1>1, <2>1, PageChanged
  <2> QED
    BY <2>2
<1>5. f \in ProcessFrames /\ f \notin pool /\ f # dir /\ f \notin TablesIn(m, dir)
  BY DEF Built, PagesBuilt
<1>6. \A q \in PagesIn(m, dir) \ {page} : WalkIn(m, dir, q) # f
  BY DEF Built, PagesBuilt
<1>7. DirectoryBuilt(new, dir, pool \cup {f})
  <2>1. \A d \in 0..Last - 1 : m[dir][d] # NotPresent => m[dir][d] # f
    BY <1>5, BuiltShape
  <2> QED
    BY <1>3, <1>5, <2>1 DEF Built, DirectoryBuilt
<1>8. PagesBuilt(new, dir, pool \cup {f})
  <2>1. \A q \in PagesIn(new, dir) :
           q \in PagesIn(m, dir) \ {page} /\ WalkIn(new, dir, q) = WalkIn(m, dir, q)
    BY <1>3, <1>4 DEF PagesIn
  <2>2. \A q \in PagesIn(m, dir) :
           WalkIn(m, dir, q) \in ProcessFrames \ (pool \cup {dir} \cup TablesIn(m, dir))
    BY DEF Built, PagesBuilt
  <2>3. \A q, r \in PagesIn(m, dir) : WalkIn(m, dir, q) = WalkIn(m, dir, r) => q = r
    BY DEF Built, PagesBuilt
  <2> QED
    BY <1>4, <1>6, <2>1, <2>2, <2>3 DEF PagesBuilt
<1>9. ProcessFrames = (pool \cup {f}) \cup {dir} \cup TablesIn(new, dir) \cup FramesIn(new, dir)
  <2>1. FramesIn(m, dir) = FramesIn(new, dir) \cup {f}
    BY <1>4 DEF FramesIn, OtherFrames
  <2> QED
    BY <1>4, <2>1 DEF Built
<1>10. pool \cup {f} \in SUBSET ProcessFrames
  BY <1>5 DEF Built
<1> QED
  BY <1>3, <1>7, <1>8, <1>9, <1>10 DEF Built

\* A frame of the pool becomes page table d: no page changes.
LEMMA TableLinked ==
    ASSUME NEW m, NEW pool, Built(m, page_directory, pool), NEW d \in 1..Last - 1,
           m[page_directory][d] = NotPresent, NEW f \in pool,
           NEW new, new = WithTable(m, d, f)
    PROVE  /\ Built(new, page_directory, pool \ {f})
           /\ new[page_directory][d] = f
           /\ \A q \in PoolPage :
                 WalkIn(new, page_directory, q) = WalkIn(m, page_directory, q)
PROOF
<1> DEFINE dir == page_directory
           clear == [i \in Entry |-> NotPresent]
           linked == [m EXCEPT ![dir] = [m[dir] EXCEPT ![d] = f]]
<1>1. /\ dir \in Frame /\ dir \in ProcessFrames /\ m[dir][Last] = dir /\ dir \notin pool
      /\ m \in [Frame -> [Entry -> Frame \cup {NotPresent}]]
      /\ m[dir][0] # NotPresent
  BY FrameFacts DEF Built, DirectoryBuilt
<1>2. f \in ProcessFrames /\ f \in Frame /\ f # NotPresent /\ f # dir /\ f \notin Entry
  BY <1>1, FrameFacts DEF Built
<1>3. d \in Entry /\ d # Last /\ d # 0 /\ d \in 0..Last - 1 /\ 0 \in 0..Last - 1
  BY Sizes
<1>4. PdeFrame(m) = dir
  BY <1>1, <1>3, SelfReference
<1>5. linked = [m EXCEPT ![PdeFrame(m)][d] = f]
  BY <1>1, <1>4
<1>6. /\ linked \in [Frame -> [Entry -> Frame \cup {NotPresent}]]
      /\ \A g \in Frame : g # dir => linked[g] = m[g]
      /\ \A e \in Entry : linked[dir][e] = IF e = d THEN f ELSE m[dir][e]
  <2>1. /\ [m[dir] EXCEPT ![d] = f] \in [Entry -> Frame \cup {NotPresent}]
        /\ \A e \in Entry : [m[dir] EXCEPT ![d] = f][e] = IF e = d THEN f ELSE m[dir][e]
    BY <1>1, <1>2, <1>3
  <2> QED
    BY <1>1, <2>1
<1> HIDE DEF linked
<1>7. linked[dir][Last] = dir
  BY <1>1, <1>3, <1>6, Sizes
<1>8. PteFrame(linked, d) = f
  BY <1>1, <1>3, <1>6, <1>7, SelfReference
<1>9. new = [linked EXCEPT ![f] = clear]
  BY <1>5, <1>8 DEF WithTable
<1>10. clear \in [Entry -> Frame \cup {NotPresent}]
  OBVIOUS
<1> HIDE DEF clear
<1>11. /\ new \in [Frame -> [Entry -> Frame \cup {NotPresent}]]
       /\ new[f] = clear
       /\ \A g \in Frame : g # dir /\ g # f => new[g] = m[g]
       /\ \A e \in Entry : new[dir][e] = IF e = d THEN f ELSE m[dir][e]
  BY <1>1, <1>2, <1>6, <1>9, <1>10
<1> HIDE DEF dir
<1>12. \A e \in 0..Last - 1 : m[dir][e] # NotPresent =>
          /\ m[dir][e] \in ProcessFrames /\ m[dir][e] \in Frame
          /\ m[dir][e] # dir /\ m[dir][e] # f
          /\ new[m[dir][e]] = m[m[dir][e]]
  BY <1>11, BuiltShape DEF dir
<1>13. \A e \in 0..Last - 1 : e \in Entry
  BY Sizes
<1>14. ASSUME NEW q \in PoolPage PROVE WalkIn(new, dir, q) = WalkIn(m, dir, q)
  <2> DEFINE e == q \div ENTRIES_PER_PAGE
             j == q % ENTRIES_PER_PAGE
  <2>1. e \in 1..Last - 1 /\ j \in Entry
    BY PageParts
  <2>2. WalkIn(new, dir, q) = IF new[dir][e] = NotPresent THEN NotPresent ELSE new[new[dir][e]][j]
    BY DEF WalkIn
  <2>3. WalkIn(m, dir, q) = IF m[dir][e] = NotPresent THEN NotPresent ELSE m[m[dir][e]][j]
    BY DEF WalkIn
  <2> HIDE DEF e, j
  <2>4. e \in 0..Last - 1 /\ e \in Entry
    BY <2>1, Sizes
  <2>5. CASE e = d
    <3>1. new[dir][e] = f /\ m[dir][e] = NotPresent
      BY <1>11, <2>4, <2>5 DEF dir
    <3>2. new[f][j] = NotPresent
      BY <1>11, <2>1 DEF clear
    <3> QED
      BY <2>2, <2>3, <3>1, <3>2
  <2>6. CASE e # d
    BY <1>11, <1>12, <2>2, <2>3, <2>4, <2>6
  <2> QED
    BY <2>5, <2>6
<1>15. ASSUME NEW g
       PROVE  g \in TablesIn(new, dir) <=> g \in TablesIn(m, dir) \/ g = f
  <2>1. g \in TablesIn(new, dir) <=>
           g # NotPresent /\ \E e \in 0..Last - 1 : g = new[dir][e]
    BY DEF TablesIn
  <2>2. g \in TablesIn(m, dir) <=>
           g # NotPresent /\ \E e \in 0..Last - 1 : g = m[dir][e]
    BY DEF TablesIn
  <2>3. m[dir][d] = NotPresent
    BY DEF dir
  <2> QED
    BY <1>2, <1>3, <1>11, <1>13, <2>1, <2>2, <2>3
<1>16. PagesIn(new, dir) = PagesIn(m, dir)
  BY <1>14 DEF PagesIn
<1>17. FramesIn(new, dir) = FramesIn(m, dir)
  BY <1>14, <1>16 DEF FramesIn, PagesIn
<1>18. DirectoryBuilt(new, dir, pool \ {f})
  <2>1. DirectoryBuilt(m, dir, pool)
    BY DEF Built, dir
  <2>2. new[dir][Last] = dir /\ new[dir][0] = m[dir][0]
    BY <1>1, <1>3, <1>11, Sizes DEF dir
  <2>3. \A i \in Entry : new[new[dir][0]][i] = i
    BY <1>3, <1>12, <2>1, <2>2 DEF DirectoryBuilt
  <2>4. ASSUME NEW e \in 0..Last - 1, new[dir][e] # NotPresent
        PROVE  /\ new[dir][e] \in ProcessFrames \ ((pool \ {f}) \cup {dir})
               /\ \A k \in 0..Last - 1 : new[dir][e] = new[dir][k] => e = k
    BY <1>2, <1>11, <1>12, <1>13, <2>1, <2>4 DEF DirectoryBuilt, dir
  <2> QED
    BY <1>1, <2>1, <2>2, <2>3, <2>4 DEF DirectoryBuilt
<1>19. PagesBuilt(new, dir, pool \ {f})
  <2>1. /\ \A q \in PagesIn(m, dir) :
              WalkIn(m, dir, q) \in ProcessFrames \ (pool \cup {dir} \cup TablesIn(m, dir))
        /\ \A q, r \in PagesIn(m, dir) : WalkIn(m, dir, q) = WalkIn(m, dir, r) => q = r
    BY DEF Built, PagesBuilt, dir
  <2>2. \A q \in PagesIn(m, dir) : WalkIn(new, dir, q) = WalkIn(m, dir, q)
    BY <1>14 DEF PagesIn
  <2>3. \A q \in PagesIn(m, dir) :
           WalkIn(m, dir, q) \in
              ProcessFrames \ ((pool \ {f}) \cup {dir} \cup TablesIn(new, dir))
    BY <1>15, <2>1
  <2> QED
    BY <1>16, <2>1, <2>2, <2>3 DEF PagesBuilt
<1>20. ProcessFrames
          = (pool \ {f}) \cup {dir} \cup TablesIn(new, dir) \cup FramesIn(new, dir)
  <2>1. ProcessFrames = pool \cup {dir} \cup TablesIn(m, dir) \cup FramesIn(m, dir)
    BY DEF Built, dir
  <2> QED
    BY <1>15, <1>17, <2>1
<1>21. pool \ {f} \in SUBSET ProcessFrames
  BY DEF Built
<1>22. new[dir][d] = f
  BY <1>3, <1>11
<1> QED
  BY <1>11, <1>14, <1>18, <1>19, <1>20, <1>21, <1>22 DEF Built, dir

-----------------------------------------------------------------------------
(* The handlers.                                                           *)

\* get_frames(1) and the first gap that fits are minima.
LEMMA LeastOf ==
    ASSUME NEW S \in SUBSET Nat, S # {}
    PROVE  Min(S) \in S /\ \A y \in S : Min(S) <= y
PROOF
<1> DEFINE R == OpToRel(<, Nat)
<1>1. IsWellFoundedOn(R, Nat)
  BY NatLessThanWellFounded
<1>2. \A x, y \in S : <<x, y>> \in R <=> x < y
  BY DEF OpToRel
<1> HIDE DEF R
<1>3. PICK m \in S : \A y \in S : ~(<<y, m>> \in R)
  BY <1>1, WFMin
<1>4. \A y \in S : ~(y < m)
  BY <1>2, <1>3
<1>5. \E x \in S : \A y \in S : x <= y
  BY <1>4
<1> QED
  BY <1>5 DEF Min

LEMMA FrameGot ==
    ASSUME NEW pool \in SUBSET ProcessFrames, pool # {}
    PROVE  get_frame(pool) \in pool
BY LeastOf, FrameFacts DEF get_frame

\* Only the page of a fault gets a new translation.
SameButNew(m, new, page) ==
    \A q \in PoolPage :
        \/ WalkIn(new, page_directory, q) = WalkIn(m, page_directory, q)
        \/ q = page /\ WalkIn(m, page_directory, q) = NotPresent

\* The second half of handle_fault, when there is a page table.
LEMMA PageMapped ==
    ASSUME NEW m, NEW pool, Built(m, page_directory, pool), NEW page \in PoolPage,
           m[page_directory][page \div ENTRIES_PER_PAGE] # NotPresent,
           MapPage(page, m, pool)
    PROVE  Built(mem', page_directory, free') /\ SameButNew(m, mem', page)
PROOF
<1> DEFINE dir == page_directory
           d == page \div ENTRIES_PER_PAGE
           i == page % ENTRIES_PER_PAGE
<1>1. d \in Entry /\ i \in Entry
  <2>1. d \in 1..Last - 1 /\ i \in Entry
    BY PageParts
  <2> HIDE DEF d, i
  <2> QED
    BY <2>1, Sizes
<1>2. PteFrame(m, d) = m[dir][d]
  BY <1>1, SelfReference DEF Built, DirectoryBuilt
<1>3. WalkIn(m, dir, page) = m[m[dir][d]][i]
  BY DEF WalkIn
<1>4. \/ mem' = m /\ free' = pool
      \/ /\ WalkIn(m, dir, page) = NotPresent /\ pool # {}
         /\ mem' = Written(m, dir, page, get_frame(pool))
         /\ free' = pool \ {get_frame(pool)}
  BY <1>2, <1>3 DEF MapPage, WithPage, Written, get_first_10_bits, get_middle_10_bits
<1>5. CASE mem' = m /\ free' = pool
  BY <1>5 DEF SameButNew
<1>6. CASE /\ WalkIn(m, dir, page) = NotPresent /\ pool # {}
           /\ mem' = Written(m, dir, page, get_frame(pool))
           /\ free' = pool \ {get_frame(pool)}
  <2>1. get_frame(pool) \in pool
    BY <1>6, FrameGot DEF Built
  <2> HIDE DEF dir
  <2>2. /\ Built(mem', dir, free')
        /\ \A q \in PoolPage :
              WalkIn(mem', dir, q) = IF q = page THEN get_frame(pool) ELSE WalkIn(m, dir, q)
    BY <1>6, <2>1, PagePlaced DEF dir
  <2> QED
    BY <1>6, <2>2 DEF SameButNew, dir
<1> QED
  BY <1>4, <1>5, <1>6

LEMMA NeedsTableWhen ==
    ASSUME Built(mem, page_directory, free), NEW page \in PoolPage
    PROVE  NeedsTable(page) <=>
              mem[page_directory][page \div ENTRIES_PER_PAGE] = NotPresent
BY Sizes, SelfReference DEF Built, DirectoryBuilt, NeedsTable, get_first_10_bits

\* handle_fault.
LEMMA FaultServed ==
    ASSUME Built(mem, page_directory, free), NEW page \in PoolPage, handle_fault(page)
    PROVE  /\ Built(mem', page_directory, free') /\ SameButNew(mem, mem', page)
           /\ UNCHANGED <<page_directory, tlb>>
PROOF
<1> DEFINE d == page \div ENTRIES_PER_PAGE
           new == WithTable(mem, d, get_frame(free))
           pool == free \ {get_frame(free)}
<1>1. d \in 1..Last - 1
  BY PageParts
<1>2. UNCHANGED <<page_directory, tlb>>
  BY DEF handle_fault
<1>3. CASE NeedsTable(page)
  <2>1. free # {} /\ MapPage(page, new, pool)
    BY <1>3 DEF handle_fault, get_first_10_bits
  <2>2. get_frame(free) \in free
    BY <2>1, FrameGot DEF Built
  <2>3. mem[page_directory][d] = NotPresent
    BY <1>3, NeedsTableWhen
  <2> DEFINE f == get_frame(free)
  <2>8. new = WithTable(mem, d, f)
    OBVIOUS
  <2> HIDE DEF new, d, f
  <2>4. /\ Built(new, page_directory, free \ {f})
        /\ new[page_directory][d] = f
        /\ \A q \in PoolPage :
              WalkIn(new, page_directory, q) = WalkIn(mem, page_directory, q)
    <3>1. f \in free
      BY <2>2 DEF f
    <3> QED
      BY <1>1, <2>3, <2>8, <3>1, TableLinked
  <2> USE DEF d, f
  <2>5. new[page_directory][d] # NotPresent
    BY <2>2, <2>4, FrameFacts DEF Built
  <2>9. Built(new, page_directory, pool)
    BY <2>4
  <2> HIDE DEF pool, d, f
  <2>6. Built(mem', page_directory, free') /\ SameButNew(new, mem', page)
    BY <2>1, <2>5, <2>9, PageMapped DEF d
  <2>7. SameButNew(mem, mem', page)
    BY <2>4, <2>6 DEF SameButNew
  <2> QED
    BY <1>2, <2>6, <2>7
<1>4. CASE ~NeedsTable(page)
  <2>1. MapPage(page, mem, free)
    BY <1>4 DEF handle_fault
  <2>2. mem[page_directory][d] # NotPresent
    BY <1>4, NeedsTableWhen
  <2> QED
    BY <1>2, <2>1, <2>2, PageMapped
<1> QED
  BY <1>3, <1>4

\* handle_fault when the frames run out.
LEMMA FaultExhausted ==
    ASSUME Built(mem, page_directory, free), NEW page \in PoolPage, FaultExhausts(page)
    PROVE  /\ Built(mem', page_directory, free') /\ SameButNew(mem, mem', page)
           /\ UNCHANGED <<page_directory, tlb>> /\ free' = {}
PROOF
<1> DEFINE d == page \div ENTRIES_PER_PAGE
           new == WithTable(mem, d, get_frame(free))
<1>1. UNCHANGED <<page_directory, tlb>>
  BY DEF FaultExhausts
<1>2. CASE free = {} /\ UNCHANGED <<free, mem>>
  BY <1>1, <1>2 DEF SameButNew
<1>3. CASE /\ NeedsTable(page) /\ Cardinality(free) = 1
           /\ mem' = new /\ free' = {}
  <2>1. PICK f : free = {f}
    <3>1. IsFiniteSet(free)
      BY FrameFacts, FS_Subset DEF Built
    <3> QED
      BY <1>3, <3>1, FS_Singleton
  <2>2. get_frame(free) \in free
    BY <2>1, FrameGot DEF Built
  <2>3. free \ {get_frame(free)} = {}
    BY <2>1, <2>2
  <2>4. mem[page_directory][d] = NotPresent /\ d \in 1..Last - 1
    BY <1>3, NeedsTableWhen, PageParts
  <2>5. /\ Built(new, page_directory, {})
        /\ \A q \in PoolPage :
              WalkIn(new, page_directory, q) = WalkIn(mem, page_directory, q)
    <3> DEFINE g == get_frame(free)
    <3>1. new = WithTable(mem, d, g) /\ g \in free /\ free \ {g} = {}
      BY <2>2, <2>3
    <3> HIDE DEF new, d, g
    <3>2. /\ Built(new, page_directory, free \ {g})
          /\ \A q \in PoolPage :
                WalkIn(new, page_directory, q) = WalkIn(mem, page_directory, q)
      BY <2>4, <3>1, TableLinked
    <3> QED
      BY <3>1, <3>2
  <2> HIDE DEF new
  <2> QED
    BY <1>1, <1>3, <2>5 DEF SameButNew
<1> QED
  BY <1>2, <1>3 DEF FaultExhausts, get_first_10_bits

\* free_page.
LEMMA PageReleased ==
    ASSUME Built(mem, page_directory, free), NEW page \in PoolPage, free_page(page)
    PROVE  /\ Built(mem', page_directory, free') /\ page_directory' = page_directory
           /\ tlb' = {}
           /\ \A q \in PoolPage :
                 WalkIn(mem', page_directory, q) =
                    IF q = page THEN NotPresent ELSE WalkIn(mem, page_directory, q)
PROOF
<1> DEFINE dir == page_directory
           d == page \div ENTRIES_PER_PAGE
           i == page % ENTRIES_PER_PAGE
           f == mem[mem[dir][d]][i]
<1>1. d \in Entry /\ i \in Entry
  <2>1. d \in 1..Last - 1 /\ i \in Entry
    BY PageParts
  <2> HIDE DEF d, i
  <2> QED
    BY <2>1, Sizes
<1>2. PteFrame(mem, d) = mem[dir][d]
  BY <1>1, SelfReference DEF Built, DirectoryBuilt
<1>3. /\ ~NeedsTable(page) /\ f # NotPresent /\ free' = free \cup {f}
      /\ mem' = Written(mem, dir, page, NotPresent)
      /\ tlb' = {} /\ page_directory' = page_directory
  BY <1>2 DEF free_page, Written, get_first_10_bits, get_middle_10_bits
<1>4. mem[dir][d] # NotPresent
  BY <1>3, NeedsTableWhen
<1>5. f = WalkIn(mem, dir, page)
  BY <1>4 DEF WalkIn
<1>6. page \in PagesIn(mem, dir)
  BY <1>3, <1>5 DEF PagesIn
<1> HIDE DEF dir, f
<1>7. /\ Built(mem', dir, free \cup {f})
      /\ \A q \in PoolPage :
            WalkIn(mem', dir, q) = IF q = page THEN NotPresent ELSE WalkIn(mem, dir, q)
  BY <1>3, <1>5, <1>6, PageFreed DEF dir
<1> QED
  BY <1>3, <1>7 DEF dir

\* The constructor of the page table and load().
LEMMA TableConstructed ==
    ASSUME PageTableInit, PageTableConstruct
    PROVE  /\ Built(mem', page_directory', free') /\ tlb' = {}
           /\ PagesIn(mem', page_directory') = {}
PROOF
<1> DEFINE dir == get_frame(free)
           table == get_frame(free \ {dir})
           shared == [i \in Entry |-> i]
           root == [d \in Entry |->
                      CASE d = 0 -> table [] d = Last -> dir [] OTHER -> NotPresent]
           new == [mem EXCEPT ![table] = shared, ![dir] = root]
<1>1. free = ProcessFrames /\ mem = [f \in Frame |-> Data]
  BY DEF PageTableInit
<1>2. dir \in ProcessFrames
  <2>1. ProcessFrames # {}
    BY PageTableAssumption, FS_EmptySet
  <2> QED
    BY <1>1, <2>1, FrameGot
<1>3. table \in ProcessFrames \ {dir}
  <2>1. ProcessFrames \ {dir} # {}
    <3>1. Cardinality({dir}) = 1
      BY FS_Singleton
    <3>2. ProcessFrames = {dir} => FALSE
      BY <3>1, PageTableAssumption
    <3> QED
      BY <1>2, <3>2
  <2> HIDE DEF dir
  <2>2. get_frame(ProcessFrames \ {dir}) \in ProcessFrames \ {dir}
    BY <2>1, FrameGot
  <2> QED
    BY <1>1, <2>2
<1>4. /\ mem' = new /\ free' = free \ {dir, table}
      /\ page_directory' = dir /\ tlb' = {}
  BY DEF PageTableConstruct
<1> HIDE DEF dir, table
<1>5. /\ dir \in Frame /\ table \in Frame /\ dir # NotPresent /\ table # NotPresent
      /\ dir # table
  BY <1>2, <1>3, FrameFacts
<1>6. shared \in [Entry -> Frame \cup {NotPresent}]
  BY FrameFacts
<1>7. /\ root \in [Entry -> Frame \cup {NotPresent}]
      /\ root[0] = table /\ root[Last] = dir
      /\ \A d \in 1..Last - 1 : root[d] = NotPresent
  <2>1. 0 \in Entry /\ Last \in Entry /\ Last # 0
    BY Sizes
  <2>2. \A d \in 1..Last - 1 : d \in Entry /\ d # 0 /\ d # Last
    BY Sizes
  <2> QED
    BY <1>5, <2>1, <2>2
<1>8. mem \in [Frame -> [Entry -> Frame \cup {NotPresent}]]
  <2>1. Data \in [Entry -> Frame \cup {NotPresent}]
    BY Sizes, FrameFacts DEF Data
  <2> HIDE DEF shared, root, new
  <2> QED
    BY <1>1, <2>1
<1>9. \A i \in Entry : shared[i] = i
  OBVIOUS
<1> HIDE DEF shared, root
<1>10. /\ new \in [Frame -> [Entry -> Frame \cup {NotPresent}]]
       /\ new[dir] = root /\ new[table] = shared
  BY <1>5, <1>6, <1>7, <1>8
<1> HIDE DEF new
<1> DEFINE pool == ProcessFrames \ {dir, table}
<1>11. \A d \in 0..Last - 1 : d = 0 \/ d \in 1..Last - 1
  BY Sizes
<1>12. \A g : g \in TablesIn(new, dir) <=> g = table
  <2>1. \A g : g \in TablesIn(new, dir) <=>
           g # NotPresent /\ \E d \in 0..Last - 1 : g = root[d]
    BY <1>10 DEF TablesIn
  <2>2. 0 \in 0..Last - 1
    BY Sizes
  <2> QED
    BY <1>5, <1>7, <1>11, <2>1, <2>2
<1>13. PagesIn(new, dir) = {}
  <2>1. ASSUME NEW q \in PoolPage PROVE WalkIn(new, dir, q) = NotPresent
    <3>1. root[q \div ENTRIES_PER_PAGE] = NotPresent
      BY <1>7, PageParts
    <3> QED
      BY <1>10, <3>1 DEF WalkIn
  <2> QED
    BY <2>1 DEF PagesIn
<1>14. \A g : g \notin FramesIn(new, dir)
  BY <1>13 DEF FramesIn
<1>15. DirectoryBuilt(new, dir, pool)
  BY <1>2, <1>3, <1>5, <1>7, <1>9, <1>10, <1>11 DEF DirectoryBuilt
<1>16. PagesBuilt(new, dir, pool)
  BY <1>13 DEF PagesBuilt
<1>17. ProcessFrames = pool \cup {dir} \cup TablesIn(new, dir) \cup FramesIn(new, dir)
  BY <1>2, <1>3, <1>12, <1>14
<1>18. Built(new, dir, pool)
  BY <1>10, <1>15, <1>16, <1>17 DEF Built
<1> QED
  BY <1>1, <1>4, <1>13, <1>18

\* What an access reaches is what the tables say, cached or not.
LEMMA TranslateIsWalk ==
    ASSUME TlbCurrent, NEW page
    PROVE  Translate(page) = WalkIn(mem, page_directory, page)
PROOF
<1>1. CASE \E f \in Frame : <<page, f>> \in tlb
  <2> DEFINE g == CHOOSE f \in Frame : <<page, f>> \in tlb
  <2>1. <<page, g>> \in tlb
    BY <1>1
  <2>2. Translate(page) = g
    BY <1>1 DEF Translate
  <2> HIDE DEF g
  <2>3. WalkIn(mem, page_directory, <<page, g>>[1]) = <<page, g>>[2]
    BY <2>1 DEF TlbCurrent
  <2> QED
    BY <2>2, <2>3
<1>2. CASE ~\E f \in Frame : <<page, f>> \in tlb
  BY <1>2, WalkIsWalkIn DEF Translate
<1> QED
  BY <1>1, <1>2

\* A fault leaves every cached translation right.
LEMMA TlbKept ==
    ASSUME TlbCurrent, NEW page, SameButNew(mem, mem', page),
           UNCHANGED <<page_directory, tlb>>
    PROVE  TlbCurrent'
PROOF
<1>1. ASSUME NEW e \in tlb PROVE WalkIn(mem', page_directory, e[1]) = e[2]
  <2>1. e[1] \in PoolPage /\ e[2] \in Frame /\ WalkIn(mem, page_directory, e[1]) = e[2]
    BY DEF TlbCurrent
  <2>2. e[2] # NotPresent
    BY <2>1, FrameFacts
  <2> QED
    BY <2>1, <2>2 DEF SameButNew
<1> QED
  BY <1>1 DEF TlbCurrent

\* The store of an access that has been translated.
LEMMA AccessStored ==
    ASSUME Built(mem, page_directory, free), TlbCurrent, NEW page \in PoolPage,
           Translate(page) # NotPresent, Store(page, Translate(page))
    PROVE  /\ Built(mem', page_directory, free') /\ SameButNew(mem, mem', page)
           /\ page_directory' = page_directory /\ free' = free /\ TlbCurrent'
PROOF
<1> DEFINE f == WalkIn(mem, page_directory, page)
<1>1. Translate(page) = f
  BY TranslateIsWalk
<1>2. /\ mem' = [mem EXCEPT ![f] = Data] /\ tlb' = tlb \cup {<<page, f>>}
      /\ free' = free /\ page_directory' = page_directory
  BY <1>1 DEF Store
<1>3. f # NotPresent
  BY <1>1
<1>4. page \in PagesIn(mem, page_directory) /\ f \in Frame
  BY <1>3, FrameFacts, BuiltShape DEF PagesIn
<1>5. /\ Built(mem', page_directory, free)
      /\ \A q \in PoolPage :
            WalkIn(mem', page_directory, q) = WalkIn(mem, page_directory, q)
  BY <1>2, <1>4, StoredBuilt
<1> HIDE DEF f
<1>6. tlb' \in SUBSET (PoolPage \X Frame)
  BY <1>2, <1>4 DEF TlbCurrent
<1>7. ASSUME NEW e \in tlb' PROVE WalkIn(mem', page_directory, e[1]) = e[2]
  <2>1. CASE e \in tlb
    BY <1>5, <2>1 DEF TlbCurrent
  <2>2. CASE e = <<page, f>>
    BY <1>5, <2>2 DEF f
  <2> QED
    BY <1>2, <2>1, <2>2
<1>8. TlbCurrent'
  BY <1>2, <1>6, <1>7 DEF TlbCurrent
<1> QED
  BY <1>2, <1>5, <1>8 DEF SameButNew

-----------------------------------------------------------------------------
(* The pools and their lists.                                              *)

LEMMA PoolFacts ==
    ASSUME NEW p \in Pool
    PROVE  /\ p.base_address \in Nat /\ EndOf(p) \in Nat
           /\ Aligned(p.base_address) /\ Aligned(EndOf(p)) /\ Aligned(PAGE_SIZE)
           /\ PageOf(PAGE_SIZE) = 1
           /\ p.base_address + PAGE_SIZE <= EndOf(p)
           /\ PageOf(p.base_address) \in PoolPage
           /\ PagesOf(p) \subseteq PoolPage
PROOF
<1> DEFINE P == PAGE_SIZE
           b == p.base_address
<1>1. /\ P \in Nat \ {0} /\ b \in Nat /\ p.size \in Nat \ {0} /\ b % P = 0
  BY VMPoolAssumption
<1>2. b = (b \div P) * P
  <2> HIDE DEF P, b
  <2> DEFINE d == b \div P
             i == b - d * P
  <2>1. d \in Nat
    BY <1>1
  <2>2. i \in 0..P - 1
    <3>1. \A n \in Nat : (b < n * P => d < n) /\ (n * P <= b => n <= d)
      BY <1>1
    <3> HIDE DEF d
    <3>2. ~(b < d * P) /\ ~((d + 1) * P <= b)
      BY <2>1, <3>1
    <3>3. (d + 1) * P = d * P + P /\ d * P \in Nat
      BY <1>1, <2>1
    <3> QED
      BY <1>1, <3>2, <3>3
  <2>3. b = d * P + i
    BY <1>1, <2>1
  <2> HIDE DEF d, i
  <2>4. (d * P + i) % P = i
    BY <1>1, <2>1, <2>2
  <2>5. i = 0
    BY <1>1, <2>3, <2>4
  <2> QED
    BY <1>1, <2>1, <2>3, <2>5 DEF d
<1>3. Aligned(b) /\ PageOf(b) \in Nat
  BY <1>1, <1>2, PageOrder DEF Aligned, PageOf
<1>4. RoundUp(p.size) \in Nat /\ RoundUp(p.size) >= P /\ Aligned(RoundUp(p.size))
  BY <1>1, RoundedUp
<1>5. Aligned(P) /\ PageOf(P) = 1
  <2>1. 1 * P = P
    BY <1>1
  <2> QED
    BY <2>1, AddressOf
<1>6. EndOf(p) = b + RoundUp(p.size)
  BY DEF EndOf
<1>7. /\ Aligned(EndOf(p)) /\ EndOf(p) \in Nat /\ b + P <= EndOf(p)
      /\ PageOf(EndOf(p)) = PageOf(b) + PageOf(RoundUp(p.size))
  <2>1. Aligned(b + RoundUp(p.size)) /\ PageOf(b + RoundUp(p.size)) = PageOf(b) + PageOf(RoundUp(p.size))
    BY <1>1, <1>3, <1>4, PageOrder
  <2> HIDE DEF b, P
  <2> QED
    BY <1>1, <1>4, <1>6, <2>1
<1>8. PageOf(RoundUp(p.size)) >= 1 /\ PageOf(RoundUp(p.size)) \in Nat
  BY <1>1, <1>4, <1>5, PageOrder
<1>9. PageOf(b) >= ENTRIES_PER_PAGE /\ PageOf(EndOf(p)) <= Last * ENTRIES_PER_PAGE
  BY PagingAssumption
<1>10. ENTRIES_PER_PAGE \in Nat /\ Last * ENTRIES_PER_PAGE \in Nat
  BY Sizes
<1> HIDE DEF b, P
<1>11. PageOf(b) \in PoolPage
  BY <1>3, <1>7, <1>8, <1>9, <1>10 DEF PoolPage
<1>12. PageOf(b)..PageOf(EndOf(p)) - 1 \subseteq PoolPage
  BY <1>3, <1>7, <1>8, <1>9, <1>10 DEF PoolPage
<1>13. PagesOf(p) \subseteq PoolPage
  BY <1>12 DEF PagesOf, b
<1> QED
  BY <1>1, <1>3, <1>5, <1>7, <1>11, <1>13 DEF b, P

\* A region of a list and its pages.
LEMMA RegionFacts ==
    ASSUME NEW p \in Pool, NEW l, Listed(p, l), NEW i \in 1..Len(l)
    PROVE  /\ Len(l) \in Nat /\ DOMAIN l = 1..Len(l) /\ l[i] \in Range(l)
           /\ l[i] \in Region /\ l[i].start_frame \in Nat /\ l[i].size \in Nat \ {0}
           /\ RegionEnd(l[i]) \in Nat /\ l[i].start_frame < RegionEnd(l[i])
           /\ PageOf(l[i].start_frame)..PageOf(RegionEnd(l[i])) - 1 \subseteq PoolPage
           /\ \A page \in Nat :
                 l[i].start_frame <= page * PAGE_SIZE /\ page * PAGE_SIZE < RegionEnd(l[i])
                    <=> page \in PageOf(l[i].start_frame)..PageOf(RegionEnd(l[i])) - 1
PROOF
<1> DEFINE s == l[i].start_frame
           e == RegionEnd(l[i])
<1>1. /\ l \in Seq(Region) /\ Len(l) \in Nat /\ DOMAIN l = 1..Len(l)
      /\ l[i] \in Region /\ l[i] \in Range(l)
  BY DEF Listed, Range
<1>2. s \in Nat /\ l[i].size \in Nat \ {0} /\ e = s + l[i].size
  BY <1>1 DEF Region, RegionEnd
<1>3. e \in Nat /\ s < e
  <2> HIDE DEF s, e
  <2> QED
    BY <1>2
<1>4. Aligned(s) /\ Aligned(e) /\ p.base_address <= s /\ e <= EndOf(p)
  BY DEF Listed
<1> HIDE DEF s, e
<1>5. /\ PageOf(s) \in Nat /\ PageOf(e) \in Nat
      /\ PageOf(p.base_address) <= PageOf(s) /\ PageOf(e) <= PageOf(EndOf(p))
      /\ PageOf(p.base_address) \in Nat /\ PageOf(EndOf(p)) \in Nat
  BY <1>2, <1>3, <1>4, PoolFacts, PageOrder
<1>6. PageOf(s)..PageOf(e) - 1 \subseteq PoolPage
  <2>1. PageOf(s)..PageOf(e) - 1 \subseteq PageOf(p.base_address)..PageOf(EndOf(p)) - 1
    BY <1>5
  <2> QED
    BY <2>1, PoolFacts DEF PagesOf
<1>7. ASSUME NEW page \in Nat
      PROVE  s <= page * PAGE_SIZE /\ page * PAGE_SIZE < e
                <=> page \in PageOf(s)..PageOf(e) - 1
  <2> DEFINE a == page * PAGE_SIZE
  <2>1. a \in Nat /\ Aligned(a) /\ PageOf(a) = page
    BY AddressOf DEF Aligned
  <2> HIDE DEF a
  <2>2. s <= a <=> PageOf(s) <= page
    BY <1>2, <1>4, <2>1, PageOrder
  <2>3. e <= a <=> PageOf(e) <= page
    BY <1>3, <1>4, <2>1, PageOrder
  <2>4. s <= a /\ a < e <=> page \in PageOf(s)..PageOf(e) - 1
    BY <1>3, <1>5, <2>1, <2>2, <2>3
  <2> QED
    BY <2>4 DEF a
<1> QED
  BY <1>1, <1>2, <1>3, <1>6, <1>7 DEF s, e

\* insert_item.
Inserted(l, x, k) == SubSeq(l, 1, k) \o <<x>> \o SubSeq(l, k + 1, Len(l))

LEMMA ItemInserted ==
    ASSUME NEW l \in Seq(Region), NEW k \in 1..Len(l), NEW x \in Region, NEW new,
           new = Inserted(l, x, k)
    PROVE  /\ new \in Seq(Region) /\ Len(new) = Len(l) + 1 /\ Len(l) \in Nat
           /\ \A i \in 1..k : new[i] = l[i]
           /\ new[k + 1] = x
           /\ \A i \in k + 2..Len(l) + 1 : new[i] = l[i - 1]
PROOF
<1> DEFINE a == SubSeq(l, 1, k)
           b == SubSeq(l, k + 1, Len(l))
<1>1. Len(l) \in Nat /\ k \in Nat /\ k >= 1 /\ k <= Len(l)
  OBVIOUS
<1>2. a \in Seq(Region) /\ Len(a) = k /\ \A i \in 1..k : a[i] = l[i]
  BY <1>1
<1>3. /\ b \in Seq(Region) /\ Len(b) = Len(l) - k
      /\ \A i \in 1..Len(l) - k : b[i] = l[k + i]
  BY <1>1
<1> DEFINE c == a \o <<x>>
<1> HIDE DEF a, b
<1>4. /\ c \in Seq(Region) /\ Len(c) = k + 1 /\ c[k + 1] = x
      /\ \A i \in 1..k : c[i] = l[i]
  BY <1>1, <1>2
<1>5. new = c \o b
  BY DEF a, b, Inserted
<1> HIDE DEF c
<1>6. /\ new \in Seq(Region) /\ Len(new) = Len(l) + 1
      /\ \A i \in 1..k + 1 : new[i] = c[i]
      /\ \A i \in k + 2..Len(l) + 1 : new[i] = b[i - (k + 1)]
  <2>1. new \in Seq(Region) /\ Len(new) = Len(c) + Len(b)
    <3>1. c \in Seq(Region) /\ b \in Seq(Region)
      BY <1>3, <1>4
    <3>2. c \o b \in Seq(Region)
      BY <3>1
    <3>3. Len(c \o b) = Len(c) + Len(b)
      BY <3>1
    <3> QED
      BY <1>5, <3>2, <3>3
  <2>2. Len(c) + Len(b) = Len(l) + 1
    BY <1>1, <1>3, <1>4
  <2>3. \A i \in 1..Len(c) + Len(b) : new[i] = IF i <= Len(c) THEN c[i] ELSE b[i - Len(c)]
    BY <1>3, <1>4, <1>5
  <2>4. \A i \in 1..k + 1 : i \in 1..Len(c) + Len(b) /\ i <= Len(c)
    BY <1>1, <1>4, <2>2
  <2>5. \A i \in k + 2..Len(l) + 1 : i \in 1..Len(c) + Len(b) /\ ~(i <= Len(c))
    BY <1>1, <1>4, <2>2
  <2> QED
    BY <1>4, <2>1, <2>2, <2>3, <2>4, <2>5
<1>7. ASSUME NEW i \in k + 2..Len(l) + 1 PROVE new[i] = l[i - 1]
  <2>1. i - (k + 1) \in 1..Len(l) - k /\ k + (i - (k + 1)) = i - 1
    BY <1>1
  <2> QED
    BY <1>3, <1>6, <2>1
<1>8. \A i \in 1..k : i \in 1..k + 1
  BY <1>1
<1>9. k + 1 \in 1..k + 1
  BY <1>1
<1> QED
  BY <1>1, <1>4, <1>6, <1>7, <1>8, <1>9

\* The same, as one fact.
HasInserted(new, l, k, x) ==
    /\ new \in Seq(Region) /\ Len(new) = Len(l) + 1
    /\ \A i \in 1..k : new[i] = l[i]
    /\ new[k + 1] = x
    /\ \A i \in k + 2..Len(l) + 1 : new[i] = l[i - 1]

LEMMA InsertedItems ==
    \A l \in Seq(Region) : \A k \in 1..Len(l), x \in Region :
        HasInserted(Inserted(l, x, k), l, k, x)
  BY ItemInserted DEF HasInserted

\* The regions behind the pool's own page.
Allocations(l) == {l[i] : i \in 2..Len(l)}

\* The region allocate makes, in the gap it has found.
LEMMA RegionPlaced ==
    ASSUME NEW p \in Pool, Listed(p, allocated_list[p]), NEW n \in Nat \ {0},
           NEW k \in Fits(p, RoundUp(n)), NEW x, x = NewRegion(p, k, RoundUp(n)),
           NEW new, new = Inserted(allocated_list[p], x, k)
    PROVE  /\ Listed(p, new)
           /\ \A r : r \in Range(new) <=> r \in Range(allocated_list[p]) \/ r = x
           /\ \A r : r \in Allocations(new) <=>
                        r \in Allocations(allocated_list[p]) \/ r = x
           /\ x \in Region /\ x.size = RoundUp(n)
           /\ p.base_address + PAGE_SIZE <= x.start_frame /\ RegionEnd(x) <= EndOf(p)
           /\ \A i \in 1..Len(allocated_list[p]) :
                 \/ RegionEnd(allocated_list[p][i]) <= x.start_frame
                 \/ RegionEnd(x) <= allocated_list[p][i].start_frame
PROOF
<1> DEFINE l == allocated_list[p]
           size == RoundUp(n)
           base == p.base_address
<1>1. /\ l \in Seq(Region) /\ Len(l) \in Nat /\ Len(l) >= 1 /\ DOMAIN l = 1..Len(l)
      /\ l[1] = [start_frame |-> base, size |-> PAGE_SIZE]
      /\ \A i, j \in 1..Len(l) : i < j => RegionEnd(l[i]) <= l[j].start_frame
  BY DEF Listed
<1>2. size \in Nat \ {0} /\ Aligned(size)
  BY RoundedUp
<1>3. k \in 1..Len(l) /\ GapAfter(p, k) >= size
  BY <1>1 DEF Fits
<1>4. \A i \in 1..Len(l) :
         /\ l[i] \in Region /\ l[i].start_frame \in Nat /\ RegionEnd(l[i]) \in Nat
         /\ l[i].start_frame < RegionEnd(l[i])
         /\ Aligned(l[i].start_frame) /\ Aligned(RegionEnd(l[i]))
         /\ base <= l[i].start_frame /\ RegionEnd(l[i]) <= EndOf(p)
  BY RegionFacts DEF Listed
<1>5. base \in Nat /\ EndOf(p) \in Nat /\ PAGE_SIZE \in Nat \ {0}
  BY PoolFacts, Sizes
<1>6. x = [start_frame |-> RegionEnd(l[k]), size |-> size]
  BY DEF NewRegion
<1>7. GapAfter(p, k) = (IF k < Len(l) THEN l[k + 1].start_frame ELSE EndOf(p)) - RegionEnd(l[k])
  BY DEF GapAfter
<1>20. new = Inserted(l, x, k)
  OBVIOUS
<1> HIDE DEF l, size, base
<1>8. /\ x \in Region /\ x.start_frame = RegionEnd(l[k]) /\ x.size = size
      /\ x.start_frame \in Nat /\ RegionEnd(x) = RegionEnd(l[k]) + size
  BY <1>2, <1>3, <1>4, <1>6 DEF Region, RegionEnd
<1>9. /\ k < Len(l) => RegionEnd(x) <= l[k + 1].start_frame
      /\ k = Len(l) => RegionEnd(x) <= EndOf(p)
  <2>1. CASE k < Len(l)
    <3>1. k + 1 \in 1..Len(l)
      BY <1>1, <1>3, <2>1
    <3>2. l[k + 1].start_frame \in Nat /\ RegionEnd(l[k]) \in Nat
      BY <1>3, <1>4, <3>1
    <3>3. l[k + 1].start_frame - RegionEnd(l[k]) >= size
      BY <1>3, <1>7, <2>1
    <3>4. RegionEnd(l[k]) + size <= l[k + 1].start_frame
      BY <1>2, <3>2, <3>3
    <3> QED
      BY <1>8, <2>1, <3>4
  <2>2. CASE k = Len(l)
    BY <1>1, <1>2, <1>3, <1>4, <1>5, <1>7, <1>8, <2>2
  <2> QED
    BY <1>1, <1>3, <2>1, <2>2
<1>10. \A i \in 1..Len(l) : /\ i <= k => RegionEnd(l[i]) <= x.start_frame
                            /\ i > k => RegionEnd(x) <= l[i].start_frame
  <2> SUFFICES ASSUME NEW i \in 1..Len(l)
               PROVE  /\ i <= k => RegionEnd(l[i]) <= x.start_frame
                      /\ i > k => RegionEnd(x) <= l[i].start_frame
    OBVIOUS
  <2>1. ASSUME i <= k PROVE RegionEnd(l[i]) <= x.start_frame
    <3>1. CASE i = k
      BY <1>3, <1>4, <1>8, <3>1
    <3>2. CASE i < k
      <4>1. RegionEnd(l[i]) <= l[k].start_frame /\ l[k].start_frame < RegionEnd(l[k])
        BY <1>1, <1>3, <1>4, <3>2
      <4> QED
        BY <1>3, <1>4, <1>8, <4>1
    <3> QED
      BY <1>3, <2>1, <3>1, <3>2
  <2>2. ASSUME i > k PROVE RegionEnd(x) <= l[i].start_frame
    <3>1. k < Len(l) /\ k + 1 \in 1..Len(l)
      BY <1>1, <1>3, <2>2
    <3>2. l[k + 1].start_frame <= l[i].start_frame
      <4>1. CASE i = k + 1
        BY <1>4, <4>1
      <4>2. CASE i > k + 1
        <5>1. RegionEnd(l[k + 1]) <= l[i].start_frame
          BY <1>1, <3>1, <4>2
        <5> QED
          BY <1>4, <3>1, <5>1
      <4> QED
        BY <1>3, <2>2, <4>1, <4>2
    <3>3. RegionEnd(x) \in Nat
      BY <1>2, <1>3, <1>4, <1>8
    <3> QED
      BY <1>4, <1>9, <3>1, <3>2, <3>3
  <2> QED
    BY <2>1, <2>2
<1>11. base + PAGE_SIZE <= x.start_frame /\ RegionEnd(x) <= EndOf(p) /\ RegionEnd(x) \in Nat
  <2>1. 1 \in 1..Len(l) /\ 1 <= k /\ Len(l) \in 1..Len(l)
    BY <1>1, <1>3
  <2>2. RegionEnd(l[1]) = base + PAGE_SIZE
    BY <1>1 DEF RegionEnd
  <2>3. RegionEnd(x) \in Nat
    BY <1>2, <1>3, <1>4, <1>8
  <2>4. RegionEnd(x) <= EndOf(p)
    <3>1. CASE k = Len(l)
      BY <1>9, <3>1
    <3>2. CASE k < Len(l)
      <4>1. RegionEnd(x) <= l[Len(l)].start_frame
        BY <1>10, <2>1, <3>2
      <4> QED
        BY <1>4, <1>5, <2>1, <2>3, <4>1
    <3>3. k = Len(l) \/ k < Len(l)
      <4>1. k \in 1..Len(l) /\ Len(l) \in Nat
        BY <1>1, <1>3
      <4> QED
        BY <4>1
    <3> QED
      BY <3>1, <3>2, <3>3
  <2> QED
    BY <1>10, <2>1, <2>2, <2>3, <2>4
<1>12. Aligned(x.start_frame) /\ Aligned(RegionEnd(x))
  BY <1>2, <1>3, <1>4, <1>8, PageOrder
<1>13. /\ new \in Seq(Region) /\ Len(new) = Len(l) + 1
       /\ \A i \in 1..k : new[i] = l[i]
       /\ new[k + 1] = x
       /\ \A i \in k + 2..Len(l) + 1 : new[i] = l[i - 1]
  <2>1. l \in Seq(Region) /\ k \in 1..Len(l) /\ x \in Region /\ new = Inserted(l, x, k)
    BY <1>1, <1>3, <1>8, <1>20
  <2>2. HasInserted(new, l, k, x)
    BY <2>1, InsertedItems
  <2> QED
    BY <2>2 DEF HasInserted
<1>14. \A i \in 1..Len(new) :
          \/ i \in 1..k /\ i \in 1..Len(l) /\ new[i] = l[i]
          \/ i = k + 1 /\ new[i] = x
          \/ i > k + 1 /\ i - 1 \in 1..Len(l) /\ i - 1 > k /\ new[i] = l[i - 1]
  BY <1>1, <1>3, <1>13
<1>15. \A i \in 1..Len(l) :
          \/ i \in 1..k /\ i \in 1..Len(new) /\ new[i] = l[i]
          \/ i > k /\ i + 1 \in 1..Len(new) /\ i + 1 \in 2..Len(new) /\ new[i + 1] = l[i]
  <2> SUFFICES ASSUME NEW i \in 1..Len(l)
               PROVE  \/ i \in 1..k /\ i \in 1..Len(new) /\ new[i] = l[i]
                      \/ /\ i > k /\ i + 1 \in 1..Len(new) /\ i + 1 \in 2..Len(new)
                         /\ new[i + 1] = l[i]
    OBVIOUS
  <2>1. CASE i <= k
    BY <1>1, <1>3, <1>13, <2>1
  <2>2. CASE i > k
    <3>1. i + 1 \in k + 2..Len(l) + 1 /\ (i + 1) - 1 = i
      BY <1>1, <1>3, <2>2
    <3> QED
      BY <1>1, <1>3, <1>13, <2>2, <3>1
  <2> QED
    BY <1>3, <2>1, <2>2
<1>16. Listed(p, new)
  <2>1. Len(new) >= 1 /\ new[1] = [start_frame |-> base, size |-> PAGE_SIZE]
    BY <1>1, <1>3, <1>13
  <2>2. ASSUME NEW i \in 1..Len(new)
        PROVE  /\ Aligned(new[i].start_frame) /\ Aligned(RegionEnd(new[i]))
               /\ base <= new[i].start_frame /\ RegionEnd(new[i]) <= EndOf(p)
    <3>1. CASE new[i] = x
      BY <1>5, <1>8, <1>11, <1>12, <3>1
    <3>2. CASE \E j \in 1..Len(l) : new[i] = l[j]
      BY <1>4, <3>2
    <3> QED
      BY <1>14, <3>1, <3>2
  <2>3. ASSUME NEW i \in 1..Len(new), NEW j \in 1..Len(new), i < j
        PROVE  RegionEnd(new[i]) <= new[j].start_frame
    <3>1. CASE i \in 1..k /\ j \in 1..k
      <4>1. i \in 1..Len(l) /\ j \in 1..Len(l) /\ new[i] = l[i] /\ new[j] = l[j]
        BY <1>1, <1>3, <1>13, <3>1
      <4> QED
        BY <1>1, <2>3, <4>1
    <3>2. CASE i \in 1..k /\ j = k + 1
      BY <1>3, <1>10, <1>14, <3>2
    <3>3. CASE i \in 1..k /\ j > k + 1
      <4>1. i < j - 1 /\ new[i] = l[i] /\ new[j] = l[j - 1] /\ i \in 1..Len(l) /\ j - 1 \in 1..Len(l)
        BY <1>3, <1>14, <3>3
      <4> QED
        BY <1>1, <4>1
    <3>4. CASE i = k + 1 /\ j > k + 1
      BY <1>3, <1>10, <1>14, <3>4
    <3>5. CASE i > k + 1 /\ j > k + 1
      <4>1. /\ i - 1 < j - 1 /\ new[i] = l[i - 1] /\ new[j] = l[j - 1]
            /\ i - 1 \in 1..Len(l) /\ j - 1 \in 1..Len(l)
        BY <1>3, <1>14, <2>3, <3>5, SMTT(30)
      <4> QED
        BY <1>1, <4>1
    <3> QED
      BY <1>3, <1>14, <2>3, <3>1, <3>2, <3>3, <3>4, <3>5
  <2> QED
    BY <1>13, <2>1, <2>2, <2>3 DEF Listed, base
<1>17. ASSUME NEW r PROVE r \in Range(new) <=> r \in Range(l) \/ r = x
  <2>1. r \in Range(new) <=> \E i \in 1..Len(new) : r = new[i]
    BY <1>13 DEF Range
  <2>2. r \in Range(l) <=> \E i \in 1..Len(l) : r = l[i]
    BY <1>1 DEF Range
  <2>3. k + 1 \in 1..Len(new)
    BY <1>1, <1>3, <1>13
  <2>4. ASSUME r \in Range(new) PROVE r \in Range(l) \/ r = x
    <3>1. PICK i \in 1..Len(new) : r = new[i]
      BY <2>1, <2>4
    <3> QED
      BY <1>14, <2>2, <3>1
  <2>5. ASSUME r \in Range(l) PROVE r \in Range(new)
    <3>1. PICK i \in 1..Len(l) : r = l[i]
      BY <2>2, <2>5
    <3> QED
      BY <1>15, <2>1, <3>1
  <2>6. x \in Range(new)
    <3>1. \E i \in 1..Len(new) : x = new[i]
      BY <1>13, <2>3
    <3> QED
      BY <1>13, <3>1 DEF Range
  <2> QED
    BY <2>4, <2>5, <2>6
<1>18. ASSUME NEW r
       PROVE  r \in {new[i] : i \in 2..Len(new)} <=> r \in {l[i] : i \in 2..Len(l)} \/ r = x
  <2>1. k + 1 \in 2..Len(new)
    BY <1>1, <1>3, <1>13
  <2>2. \A i \in 2..Len(new) : new[i] = x \/ \E j \in 2..Len(l) : new[i] = l[j]
    <3> SUFFICES ASSUME NEW i \in 2..Len(new), new[i] # x
                 PROVE  \E j \in 2..Len(l) : new[i] = l[j]
      OBVIOUS
    <3>1. i \in 1..Len(new)
      BY <1>13, <1>1
    <3>2. CASE i \in 1..k
      <4>1. i \in 2..Len(l) /\ new[i] = l[i]
        BY <1>1, <1>3, <1>14, <3>1, <3>2
      <4> QED
        BY <4>1
    <3>3. CASE i > k + 1
      <4>1. i - 1 \in 2..Len(l) /\ new[i] = l[i - 1]
        BY <1>1, <1>3, <1>14, <3>1, <3>3
      <4> QED
        BY <4>1
    <3> QED
      BY <1>14, <3>1, <3>2, <3>3
  <2>3. \A j \in 2..Len(l) : \E i \in 2..Len(new) : l[j] = new[i]
    <3> SUFFICES ASSUME NEW j \in 2..Len(l) PROVE \E i \in 2..Len(new) : l[j] = new[i]
      OBVIOUS
    <3>1. j \in 1..Len(l)
      BY <1>1
    <3>2. CASE j \in 1..k
      <4>1. j \in 2..Len(new) /\ l[j] = new[j]
        BY <1>1, <1>3, <1>13, <3>2
      <4> QED
        BY <4>1
    <3>3. CASE j \notin 1..k
      <4>1. j + 1 \in 2..Len(new) /\ l[j] = new[j + 1]
        BY <1>15, <3>1, <3>3
      <4> QED
        BY <4>1
    <3> QED
      BY <3>2, <3>3
  <2> QED
    BY <1>13, <2>1, <2>2, <2>3, SMTT(30)
<1>19. \A i \in 1..Len(l) :
          RegionEnd(l[i]) <= x.start_frame \/ RegionEnd(x) <= l[i].start_frame
  BY <1>3, <1>10
<1> QED
  BY <1>8, <1>11, <1>16, <1>17, <1>18, <1>19 DEF l, size, base, Allocations

\* When no gap fits, no address does (the assert(false) that ends allocate).
LEMMA NoAddressFits ==
    ASSUME NEW p \in Pool, Listed(p, allocated_list[p]), NEW n \in Nat \ {0},
           Fits(p, RoundUp(n)) = {},
           NEW b \in p.base_address..EndOf(p) - RoundUp(n)
    PROVE  \E r \in Range(allocated_list[p]) :
              r.start_frame < b + RoundUp(n) /\ b < RegionEnd(r)
PROOF
<1> DEFINE l == allocated_list[p]
           size == RoundUp(n)
<1>1. size \in Nat \ {0} /\ EndOf(p) \in Nat /\ p.base_address \in Nat
  BY RoundedUp, PoolFacts
<1>2. b \in Nat /\ p.base_address <= b /\ b + size <= EndOf(p)
  BY <1>1
<1>3. /\ Len(l) \in Nat /\ Len(l) >= 1 /\ DOMAIN l = 1..Len(l)
      /\ l[1].start_frame = p.base_address
  BY DEF Listed
<1>4. \A i \in 1..Len(l) :
         /\ l[i] \in Range(l) /\ l[i].start_frame \in Nat /\ RegionEnd(l[i]) \in Nat
         /\ l[i].start_frame < RegionEnd(l[i])
  BY RegionFacts
<1>5. \A i \in 1..Len(l) :
         ~((IF i < Len(l) THEN l[i + 1].start_frame ELSE EndOf(p)) - RegionEnd(l[i]) >= size)
  BY <1>3 DEF Fits, GapAfter
<1> DEFINE S == {i \in 2..Len(l) + 1 : i = Len(l) + 1 \/ l[i].start_frame > b}
<1>6. S \in SUBSET Nat /\ S # {}
  <2>1. Len(l) + 1 \in 2..Len(l) + 1 /\ 2..Len(l) + 1 \subseteq Nat
    BY <1>3
  <2>2. Len(l) + 1 \in S
    BY <2>1
  <2> QED
    BY <2>1, <2>2
<1>7. PICK k \in S : \A y \in S : k <= y
  BY <1>6, LeastOf
<1>8. k - 1 \in 1..Len(l) /\ l[k - 1].start_frame <= b
  <2>1. k \in 2..Len(l) + 1 /\ k - 1 \notin S
    BY <1>3, <1>7
  <2>2. k - 1 \in 1..Len(l)
    BY <1>3, <2>1
  <2>3. CASE k - 1 = 1
    BY <1>2, <1>3, <2>2, <2>3
  <2>4. CASE k - 1 # 1
    <3>1. k - 1 \in 2..Len(l) + 1
      BY <1>3, <2>2, <2>4
    <3>2. ~(l[k - 1].start_frame > b)
      BY <2>1, <3>1
    <3> QED
      BY <1>2, <1>4, <2>2, <3>2
  <2> QED
    BY <2>3, <2>4
<1> HIDE DEF l, size
<1>9. CASE b < RegionEnd(l[k - 1])
  <2>1. l[k - 1].start_frame < b + size
    BY <1>1, <1>2, <1>4, <1>8
  <2> QED
    BY <1>4, <1>8, <1>9, <2>1 DEF l, size
<1>10. CASE ~(b < RegionEnd(l[k - 1]))
  <2>1. RegionEnd(l[k - 1]) <= b /\ RegionEnd(l[k - 1]) \in Nat
    BY <1>2, <1>4, <1>8, <1>10
  <2>2. CASE k = Len(l) + 1
    <3>1. ~(EndOf(p) - RegionEnd(l[k - 1]) >= size)
      BY <1>3, <1>5, <1>8, <2>2
    <3> QED
      BY <1>1, <1>2, <2>1, <3>1
  <2>3. CASE k # Len(l) + 1
    <3>1. k \in 1..Len(l) /\ l[k].start_frame > b /\ k - 1 < Len(l) /\ (k - 1) + 1 = k
      BY <1>3, <1>7, <2>3
    <3>2. ~(l[k].start_frame - RegionEnd(l[k - 1]) >= size)
      BY <1>5, <1>8, <3>1
    <3>3. l[k].start_frame < b + size /\ b < RegionEnd(l[k])
      BY <1>1, <1>2, <1>4, <2>1, <3>1, <3>2
    <3> QED
      BY <1>4, <3>1, <3>3 DEF l, size
  <2> QED
    BY <2>2, <2>3
<1> QED
  BY <1>9, <1>10

-----------------------------------------------------------------------------
(* The steps of the kernel.                                                *)

\* A page that may have a frame.
Owned(page) ==
    \E p \in vmPools :
        \/ page = PageOf(p.base_address)
        \/ \E r \in Range(allocated_list[p]) :
              page \in PageOf(r.start_frame)..PageOf(RegionEnd(r)) - 1

LEMMA OnlyOwnedMapped ==
    /\ OnlyRegionsMapped <=>
          (paging_enabled => \A page \in PagesIn(mem, page_directory) : Owned(page))
    /\ OnlyRegionsMapped' <=>
          (paging_enabled' => \A page \in PagesIn(mem', page_directory') : Owned(page)')
PROOF
<1>1. MappedPages = PagesIn(mem, page_directory)
  BY DEF MappedPages, PagesIn, PoolPage, Walk, WalkIn
<1>2. MappedPages' = PagesIn(mem', page_directory')
  BY DEF MappedPages, PagesIn, PoolPage, Walk, WalkIn
<1> QED
  BY <1>1, <1>2 DEF OnlyRegionsMapped, Owned

\* Pools and regions that are there stay there, and no page is mapped but an owned one.
LEMMA OwnedKept ==
    ASSUME OnlyRegionsMapped, vmPools \subseteq vmPools',
           \A p \in vmPools : \A r : r \in Range(allocated_list[p]) =>
                                        r \in Range(allocated_list'[p]),
           paging_enabled' => \A page \in PagesIn(mem', page_directory') :
              \/ paging_enabled /\ page \in PagesIn(mem, page_directory)
              \/ Owned(page)
    PROVE  OnlyRegionsMapped'
PROOF
<1>1. ASSUME NEW page, Owned(page) PROVE Owned(page)'
  BY <1>1 DEF Owned
<1> QED
  BY <1>1, OnlyOwnedMapped

\* The kernel goes on, or a constructor has stopped it.
LEMMA NotYetHalted ==
    ASSUME halted' \in {"no", "assert"} PROVE HaltsForCause'
BY DEF HaltsForCause

\* Steps that leave the page table alone, and those that leave the pools alone.
LEMMA TablesUntouched ==
    ASSUME TableInv, UNCHANGED <<pageTableVars, paging_enabled>>
    PROVE  /\ TableInv'
           /\ PagesIn(mem', page_directory') = PagesIn(mem, page_directory)
BY DEF TableInv, TlbCurrent, PageTableInit, pageTableVars

LEMMA PoolsUntouched ==
    ASSUME PoolInv, UNCHANGED <<vmPools, allocated_list>>,
           \/ UNCHANGED <<building, access>>
           \/ UNCHANGED building /\ building = {} /\ access' \in PoolPage \cup {NoAccess}
    PROVE  /\ PoolInv' /\ vmPools \subseteq vmPools'
           /\ \A p \in vmPools : \A r : r \in Range(allocated_list[p]) =>
                                           r \in Range(allocated_list'[p])
BY DEF PoolInv

\* The state of the pools between two calls of the program.
LEMMA WhenReady ==
    ASSUME PoolInv, access = NoAccess
    PROVE  /\ building = {}
           /\ \A p \in vmPools : Listed(p, allocated_list[p])
           /\ NoAccess \notin PoolPage
PROOF
<1>1. NoAccess \notin PoolPage
  BY PageParts DEF NoAccess
<1>2. \A p \in building : FALSE
  BY <1>1, PoolFacts DEF PoolInv
<1> QED
  BY <1>1, <1>2 DEF PoolInv

LEMMA EnablePagingStep == ASSUME PagingInv, EnablePaging PROVE PagingInv'
PROOF
<1>1. /\ ~paging_enabled /\ paging_enabled' = TRUE
      /\ UNCHANGED <<vmPools, allocated_list, call, building, access, halted>>
      /\ PageTableInit /\ PageTableConstruct
      /\ access = NoAccess /\ halted = "no" /\ vmPools = {}
  BY DEF EnablePaging, vmPoolVars, PagingInv, TableInv, HaltInv
<1>2. /\ Built(mem', page_directory', free') /\ tlb' = {}
      /\ PagesIn(mem', page_directory') = {}
  BY <1>1, TableConstructed
<1>3. TableInv'
  BY <1>1, <1>2 DEF TableInv, TlbCurrent
<1>4. /\ PoolInv' /\ vmPools \subseteq vmPools'
      /\ \A p \in vmPools : \A r : r \in Range(allocated_list[p]) =>
                                      r \in Range(allocated_list'[p])
  BY <1>1, PoolsUntouched DEF PagingInv
<1>5. OnlyRegionsMapped'
  BY <1>2, <1>4, OwnedKept DEF PagingInv
<1>6. HaltInv' /\ HaltsForCause'
  BY <1>1, NotYetHalted DEF HaltInv
<1> QED
  BY <1>3, <1>4, <1>5, <1>6 DEF PagingInv

LEMMA ConstructPoolStep ==
    ASSUME PagingInv, NEW p \in Pool, ConstructPool(p) PROVE PagingInv'
PROOF
<1>1. /\ paging_enabled /\ access = NoAccess /\ halted = "no" /\ p \notin vmPools
      /\ UNCHANGED <<pageTableVars, paging_enabled>>
      /\ TableInv /\ PoolInv /\ HaltInv /\ OnlyRegionsMapped
  BY DEF ConstructPool, Idle, PagingInv
<1>2. TableInv' /\ PagesIn(mem', page_directory') = PagesIn(mem, page_directory)
  BY <1>1, TablesUntouched
<1>3. building = {}
  BY <1>1, WhenReady
<1>4. CASE /\ VMPoolRegister(p) /\ building' = {p} /\ access' = PageOf(p.base_address)
           /\ UNCHANGED halted
  <2>1. vmPools' = vmPools \cup {p} /\ UNCHANGED <<allocated_list, call>>
    BY <1>4 DEF VMPoolRegister
  <2>2. PoolInv'
    <3>1. vmPools' \in SUBSET Pool /\ building' \in SUBSET vmPools'
      BY <1>1, <1>4, <2>1 DEF PoolInv
    <3>2. allocated_list' = [q \in Pool |-> allocated_list'[q]]
      BY <1>1, <2>1 DEF PoolInv
    <3>3. ASSUME NEW q \in Pool
          PROVE  IF q \in vmPools' \ building' THEN Listed(q, allocated_list'[q])
                 ELSE allocated_list'[q] = <<>>
      BY <1>1, <1>3, <1>4, <2>1 DEF PoolInv
    <3>4. access' \in PoolPage \cup {NoAccess}
      BY <1>4, PoolFacts
    <3> QED
      BY <1>4, <3>1, <3>2, <3>3, <3>4 DEF PoolInv
  <2>3. OnlyRegionsMapped'
    BY <1>1, <1>2, <2>1, OwnedKept
  <2>4. HaltInv' /\ HaltsForCause'
    BY <1>1, <1>4, <2>1, NotYetHalted DEF HaltInv
  <2> QED
    BY <1>2, <2>2, <2>3, <2>4 DEF PagingInv
<1>5. CASE halted' = "assert" /\ UNCHANGED <<vmPoolVars, building, access>>
  <2>1. UNCHANGED <<vmPools, allocated_list, call, building, access>>
    BY <1>5 DEF vmPoolVars
  <2>2. /\ PoolInv' /\ vmPools \subseteq vmPools'
        /\ \A q \in vmPools : \A r : r \in Range(allocated_list[q]) =>
                                        r \in Range(allocated_list'[q])
    BY <1>1, <2>1, PoolsUntouched
  <2>3. OnlyRegionsMapped'
    BY <1>1, <1>2, <2>2, OwnedKept
  <2>4. HaltInv' /\ HaltsForCause'
    BY <1>1, <1>5, <2>1, NotYetHalted DEF HaltInv
  <2> QED
    BY <1>2, <2>2, <2>3, <2>4 DEF PagingInv
<1> QED
  BY <1>4, <1>5 DEF ConstructPool

LEMMA TouchStep ==
    ASSUME PagingInv, NEW page \in PoolPage, Touch(page) PROVE PagingInv'
PROOF
<1>1. /\ paging_enabled /\ access = NoAccess /\ halted = "no"
      /\ access' = page
      /\ UNCHANGED <<pageTableVars, paging_enabled>>
      /\ UNCHANGED <<vmPools, allocated_list, building, halted>>
      /\ TableInv /\ PoolInv /\ HaltInv /\ OnlyRegionsMapped
  BY DEF Touch, Ready, Idle, PagingInv
<1>2. TableInv' /\ PagesIn(mem', page_directory') = PagesIn(mem, page_directory)
  BY <1>1, TablesUntouched
<1>3. building = {}
  BY <1>1, WhenReady
<1>4. /\ PoolInv' /\ vmPools \subseteq vmPools'
      /\ \A q \in vmPools : \A r : r \in Range(allocated_list[q]) =>
                                      r \in Range(allocated_list'[q])
  BY <1>1, <1>3, PoolsUntouched
<1>5. OnlyRegionsMapped'
  BY <1>1, <1>2, <1>4, OwnedKept
<1>6. HaltInv' /\ HaltsForCause'
  BY <1>1, NotYetHalted DEF HaltInv
<1> QED
  BY <1>2, <1>4, <1>5, <1>6 DEF PagingInv

\* The questions the fault handler asks about a page.
LEMMA LegitimateIsOwned ==
    ASSUME PoolInv, access \in PoolPage
    PROVE  /\ check_address(access * PAGE_SIZE) => Owned(access)
           /\ ~check_address(access * PAGE_SIZE) =>
                 \A p \in Pool : \A r \in Range(allocated_list[p]) :
                    access \notin PageOf(r.start_frame)..PageOf(RegionEnd(r)) - 1
PROOF
<1>1. access \in Nat
  BY PageParts
<1>2. ASSUME NEW p \in vmPools \ building, NEW r \in Range(allocated_list[p])
      PROVE  r.start_frame <= access * PAGE_SIZE /\ access * PAGE_SIZE < RegionEnd(r)
                <=> access \in PageOf(r.start_frame)..PageOf(RegionEnd(r)) - 1
  <2>1. p \in Pool /\ Listed(p, allocated_list[p])
    BY DEF PoolInv
  <2>2. PICK i \in 1..Len(allocated_list[p]) : r = allocated_list[p][i]
    BY <2>1 DEF Listed, Range
  <2> QED
    BY <1>1, <2>1, <2>2, RegionFacts
<1>3. ASSUME NEW p \in vmPools \ building PROVE allocated_list[p] # <<>>
  <2>1. Listed(p, allocated_list[p])
    BY DEF PoolInv
  <2>2. Len(allocated_list[p]) >= 1
    BY <2>1 DEF Listed
  <2> QED
    BY <2>2
<1>4. ASSUME NEW p \in vmPools, is_legitimate(p, access * PAGE_SIZE) PROVE Owned(access)
  <2>1. CASE p \in building
    BY <2>1 DEF PoolInv, Owned
  <2>2. CASE p \notin building
    <3>1. PICK r \in Range(allocated_list[p]) :
             r.start_frame <= access * PAGE_SIZE /\ access * PAGE_SIZE < RegionEnd(r)
      BY <1>3, <1>4, <2>2 DEF is_legitimate
    <3>2. access \in PageOf(r.start_frame)..PageOf(RegionEnd(r)) - 1
      BY <1>2, <2>2, <3>1
    <3> QED
      BY <3>2 DEF Owned
  <2> QED
    BY <2>1, <2>2
<1>5. ASSUME ~check_address(access * PAGE_SIZE), NEW p \in Pool,
             NEW r \in Range(allocated_list[p])
      PROVE  access \notin PageOf(r.start_frame)..PageOf(RegionEnd(r)) - 1
  <2>1. p \in vmPools \ building
    <3>1. allocated_list[p] # <<>>
      BY DEF Range
    <3> QED
      BY <3>1 DEF PoolInv
  <2>2. ~(r.start_frame <= access * PAGE_SIZE /\ access * PAGE_SIZE < RegionEnd(r))
    BY <1>5, <2>1 DEF check_address, is_legitimate
  <2> QED
    BY <1>2, <2>1, <2>2
<1> QED
  BY <1>4, <1>5 DEF check_address

\* After an access that faults, whether it is served or the frames run out: a page that
\* has become mapped is the one the access is to.
LEMMA NewlyMapped ==
    ASSUME NEW page \in PoolPage, SameButNew(mem, mem', page),
           UNCHANGED page_directory,
           NEW q \in PagesIn(mem', page_directory')
    PROVE  q \in PagesIn(mem, page_directory) \/ q = page
BY DEF SameButNew, PagesIn

LEMMA PageFaultStep == ASSUME PagingInv, PageFault PROVE PagingInv'
PROOF
<1>1. /\ access # NoAccess /\ halted = "no"
      /\ check_address(access * PAGE_SIZE)
      /\ UNCHANGED <<vmPools, allocated_list, call, paging_enabled, building, access>>
      /\ TableInv /\ PoolInv /\ HaltInv /\ OnlyRegionsMapped
  BY DEF PageFault, Faults, vmPoolVars, PagingInv
<1>2. access \in PoolPage /\ paging_enabled
  BY <1>1 DEF PoolInv, HaltInv
<1>3. Built(mem, page_directory, free) /\ TlbCurrent /\ Owned(access)
  BY <1>1, <1>2, LegitimateIsOwned DEF TableInv
<1>4. /\ Built(mem', page_directory, free') /\ SameButNew(mem, mem', access)
      /\ UNCHANGED <<page_directory, tlb>>
      /\ \/ halted' = "no"
         \/ halted' = "frames" /\ free' = {}
  <2>1. CASE handle_fault(access) /\ UNCHANGED halted
    <3>1. /\ Built(mem', page_directory, free') /\ SameButNew(mem, mem', access)
          /\ UNCHANGED <<page_directory, tlb>>
      BY <1>2, <1>3, <2>1, FaultServed
    <3>2. halted' = "no"
      BY <1>1, <2>1
    <3> QED
      BY <3>1, <3>2
  <2>2. CASE FaultExhausts(access) /\ halted' = "frames"
    <3>1. /\ Built(mem', page_directory, free') /\ SameButNew(mem, mem', access)
          /\ UNCHANGED <<page_directory, tlb>> /\ free' = {}
      BY <1>2, <1>3, <2>2, FaultExhausted
    <3> QED
      BY <2>2, <3>1
  <2> QED
    BY <2>1, <2>2 DEF PageFault
<1>5. TableInv'
  <2>1. TlbCurrent'
    BY <1>3, <1>4, TlbKept
  <2>2. Built(mem', page_directory', free')
    BY <1>4
  <2> QED
    BY <1>1, <1>2, <2>1, <2>2 DEF TableInv
<1>6. /\ PoolInv' /\ vmPools \subseteq vmPools'
      /\ \A q \in vmPools : \A r : r \in Range(allocated_list[q]) =>
                                      r \in Range(allocated_list'[q])
  BY <1>1, PoolsUntouched
<1>7. OnlyRegionsMapped'
  <2>1. \A q \in PagesIn(mem', page_directory') :
           q \in PagesIn(mem, page_directory) \/ q = access
    BY <1>2, <1>4, NewlyMapped
  <2> QED
    BY <1>1, <1>2, <1>3, <1>6, <2>1, OwnedKept
<1>8. HaltInv'
  BY <1>1, <1>2, <1>4 DEF HaltInv
<1>9. HaltsForCause'
  BY <1>4 DEF HaltsForCause
<1> QED
  BY <1>5, <1>6, <1>7, <1>8, <1>9 DEF PagingInv

LEMMA IllegalAccessStep == ASSUME PagingInv, IllegalAccess PROVE PagingInv'
PROOF
<1>1. /\ access # NoAccess /\ halted = "no"
      /\ ~check_address(access * PAGE_SIZE) /\ halted' = "abort"
      /\ UNCHANGED <<vmPools, allocated_list, call, paging_enabled, building, access>>
      /\ UNCHANGED <<pageTableVars, paging_enabled>>
      /\ TableInv /\ PoolInv /\ HaltInv /\ OnlyRegionsMapped
  BY DEF IllegalAccess, Faults, vmPoolVars, PagingInv
<1>2. access \in PoolPage /\ paging_enabled
  BY <1>1 DEF PoolInv, HaltInv
<1>3. TableInv' /\ PagesIn(mem', page_directory') = PagesIn(mem, page_directory)
  BY <1>1, TablesUntouched
<1>4. /\ PoolInv' /\ vmPools \subseteq vmPools'
      /\ \A q \in vmPools : \A r : r \in Range(allocated_list[q]) =>
                                      r \in Range(allocated_list'[q])
  BY <1>1, PoolsUntouched
<1>5. OnlyRegionsMapped'
  BY <1>1, <1>3, <1>4, OwnedKept
<1>6. HaltInv'
  BY <1>1, <1>2 DEF HaltInv
<1>7. HaltsForCause'
  BY <1>1, <1>2, LegitimateIsOwned DEF HaltsForCause
<1> QED
  BY <1>3, <1>4, <1>5, <1>6, <1>7 DEF PagingInv

\* The list the constructor writes with its first store.
LEMMA ListReserved ==
    ASSUME NEW p \in Pool, NEW l, l = <<[start_frame |-> p.base_address, size |-> PAGE_SIZE]>>
    PROVE  Listed(p, l)
PROOF
<1> DEFINE r == [start_frame |-> p.base_address, size |-> PAGE_SIZE]
<1>1. /\ p.base_address \in Nat /\ EndOf(p) \in Nat /\ PAGE_SIZE \in Nat \ {0}
      /\ Aligned(p.base_address) /\ Aligned(PAGE_SIZE)
      /\ p.base_address + PAGE_SIZE <= EndOf(p)
  BY PoolFacts, Sizes
<1>2. r \in Region /\ r.start_frame = p.base_address /\ RegionEnd(r) = p.base_address + PAGE_SIZE
  BY <1>1 DEF Region, RegionEnd
<1> HIDE DEF r
<1>3. Aligned(r.start_frame) /\ Aligned(RegionEnd(r))
  <2>1. Aligned(p.base_address + PAGE_SIZE)
    BY <1>1, PageOrder
  <2> QED
    BY <1>1, <1>2, <2>1
<1>4. l = <<r>>
  BY DEF r
<1>5. l \in Seq(Region) /\ Len(l) = 1 /\ l[1] = r
  BY <1>2, <1>4
<1>6. \A i \in 1..Len(l) : i = 1
  BY <1>5
<1>7. l[1] = [start_frame |-> p.base_address, size |-> PAGE_SIZE]
  BY <1>5 DEF r
<1>8. p.base_address <= r.start_frame
  BY <1>1, <1>2
<1> QED
  BY <1>1, <1>2, <1>3, <1>5, <1>6, <1>7, <1>8 DEF Listed

LEMMA AccessStep == ASSUME PagingInv, Access PROVE PagingInv'
PROOF
<1>1. /\ access # NoAccess /\ halted = "no" /\ Translate(access) # NotPresent
      /\ Store(access, Translate(access))
      /\ access' = NoAccess /\ building' = {} /\ UNCHANGED <<paging_enabled, halted>>
      /\ TableInv /\ PoolInv /\ HaltInv /\ OnlyRegionsMapped
  BY DEF Access, PagingInv
<1>2. access \in PoolPage /\ paging_enabled
  BY <1>1 DEF PoolInv, HaltInv
<1>3. Built(mem, page_directory, free) /\ TlbCurrent
  BY <1>1, <1>2 DEF TableInv
<1>4. /\ Built(mem', page_directory, free') /\ SameButNew(mem, mem', access)
      /\ page_directory' = page_directory /\ free' = free /\ TlbCurrent'
  BY <1>1, <1>2, <1>3, AccessStored
<1>5. TableInv'
  <2>1. Built(mem', page_directory', free')
    BY <1>4
  <2> QED
    BY <1>1, <1>2, <1>4, <2>1 DEF TableInv
<1>6. /\ PoolInv' /\ vmPools' = vmPools
      /\ \A q \in vmPools : \A r : r \in Range(allocated_list[q]) =>
                                      r \in Range(allocated_list'[q])
  <2>1. CASE building = {}
    <3>1. UNCHANGED <<vmPools, allocated_list>>
      BY <2>1 DEF Access, vmPoolVars
    <3>2. UNCHANGED building /\ access' \in PoolPage \cup {NoAccess}
      BY <1>1, <2>1
    <3> QED
      BY <1>1, <2>1, <3>1, <3>2, PoolsUntouched
  <2>2. CASE building # {}
    <3>1. PICK p \in building : VMPoolReserveList(p)
      BY <2>2 DEF Access
    <3> DEFINE l == <<[start_frame |-> p.base_address, size |-> PAGE_SIZE]>>
    <3>2. /\ allocated_list' = [allocated_list EXCEPT ![p] = l] /\ vmPools' = vmPools
          /\ p \in Pool /\ p \in vmPools /\ building = {p} /\ allocated_list[p] = <<>>
      BY <1>1, <3>1 DEF VMPoolReserveList, PoolInv
    <3>3. Listed(p, l)
      BY <3>2, ListReserved
    <3> HIDE DEF l
    <3>4. allocated_list' = [q \in Pool |-> IF q = p THEN l ELSE allocated_list[q]]
      BY <1>1, <3>2 DEF PoolInv
    <3>5. ASSUME NEW q \in Pool
          PROVE  IF q \in vmPools' \ building' THEN Listed(q, allocated_list'[q])
                 ELSE allocated_list'[q] = <<>>
      BY <1>1, <3>2, <3>3, <3>4 DEF PoolInv
    <3>6. PoolInv'
      <4>1. vmPools' \in SUBSET Pool /\ building' \in SUBSET vmPools'
        BY <1>1, <3>2 DEF PoolInv
      <4>2. allocated_list' = [q \in Pool |-> allocated_list'[q]]
        BY <3>4
      <4> QED
        BY <1>1, <3>5, <4>1, <4>2 DEF PoolInv
    <3>7. \A r : r \notin Range(allocated_list[p])
      BY <3>2 DEF Range
    <3>8. \A q \in vmPools : q # p => allocated_list'[q] = allocated_list[q]
      BY <1>1, <3>4 DEF PoolInv
    <3> QED
      BY <3>2, <3>6, <3>7, <3>8
  <2> QED
    BY <2>1, <2>2
<1>7. OnlyRegionsMapped'
  <2>1. ASSUME NEW q \in PagesIn(mem', page_directory')
        PROVE  q \in PagesIn(mem, page_directory)
    <3>1. \A w \in PoolPage : WalkIn(mem', page_directory, w) # NotPresent =>
             \/ WalkIn(mem, page_directory, w) # NotPresent
             \/ w = access
      BY <1>4 DEF SameButNew
    <3>2. WalkIn(mem, page_directory, access) # NotPresent
      BY <1>1, <1>3, TranslateIsWalk
    <3> QED
      BY <1>4, <3>1, <3>2 DEF PagesIn
  <2> QED
    BY <1>1, <1>2, <1>6, <2>1, OwnedKept
<1>8. HaltInv'
  BY <1>1, <1>2 DEF HaltInv
<1>9. HaltsForCause'
  BY <1>1, NotYetHalted
<1> QED
  BY <1>5, <1>6, <1>7, <1>8, <1>9 DEF PagingInv

\* A pool's list changes in one way only: a region joins it.
LEMMA AllocateStep ==
    ASSUME PagingInv, NEW p \in Pool, NEW n \in 1..MaxSize, Allocate(p, n) PROVE PagingInv'
PROOF
<1>1. /\ paging_enabled /\ access = NoAccess /\ halted = "no" /\ vmPools = Pool
      /\ UNCHANGED <<pageTableVars, paging_enabled>>
      /\ UNCHANGED <<building, access>>
      /\ TableInv /\ PoolInv /\ HaltInv /\ OnlyRegionsMapped
  BY DEF Allocate, Ready, Idle, PagingInv
<1>2. TableInv' /\ PagesIn(mem', page_directory') = PagesIn(mem, page_directory)
  BY <1>1, TablesUntouched
<1>3. building = {} /\ Listed(p, allocated_list[p])
  BY <1>1, WhenReady
<1>4. n \in Nat \ {0}
  BY Sizes
<1>5. CASE allocate(p, n) /\ UNCHANGED halted
  <2> DEFINE k == Min(Fits(p, RoundUp(n)))
             x == NewRegion(p, k, RoundUp(n))
             l == Inserted(allocated_list[p], x, k)
  <2>1. /\ Fits(p, RoundUp(n)) # {} /\ vmPools' = vmPools /\ call' = NoCall
        /\ allocated_list' = [allocated_list EXCEPT ![p] = l]
    BY <1>5 DEF allocate, insert_item, Inserted
  <2>2. k \in Fits(p, RoundUp(n))
    <3>1. DOMAIN allocated_list[p] = 1..Len(allocated_list[p])
      BY <1>3 DEF Listed
    <3>2. Fits(p, RoundUp(n)) \in SUBSET Nat
      BY <3>1 DEF Fits
    <3> QED
      BY <2>1, <3>2, LeastOf
  <2> HIDE DEF k
  <2>3. x = NewRegion(p, k, RoundUp(n)) /\ l = Inserted(allocated_list[p], x, k)
    OBVIOUS
  <2> HIDE DEF x, l
  <2>4. /\ Listed(p, l)
        /\ \A r : r \in Range(l) <=> r \in Range(allocated_list[p]) \/ r = x
    BY <1>3, <1>4, <2>2, <2>3, RegionPlaced
  <2>5. allocated_list' = [q \in Pool |-> IF q = p THEN l ELSE allocated_list[q]]
    BY <1>1, <2>1 DEF PoolInv
  <2>6. PoolInv'
    <3>1. ASSUME NEW q \in Pool
          PROVE  IF q \in vmPools' \ building' THEN Listed(q, allocated_list'[q])
                 ELSE allocated_list'[q] = <<>>
      BY <1>1, <1>3, <2>1, <2>4, <2>5 DEF PoolInv
    <3>2. allocated_list' = [q \in Pool |-> allocated_list'[q]]
      BY <2>5
    <3> QED
      BY <1>1, <1>3, <2>1, <3>1, <3>2 DEF PoolInv
  <2>7. \A q \in vmPools : \A r : r \in Range(allocated_list[q]) =>
                                     r \in Range(allocated_list'[q])
    BY <1>1, <2>4, <2>5
  <2>8. OnlyRegionsMapped'
    BY <1>1, <1>2, <2>1, <2>7, OwnedKept
  <2>9. HaltInv' /\ HaltsForCause'
    BY <1>1, <1>5, <2>1, NotYetHalted DEF HaltInv
  <2> QED
    BY <1>2, <2>6, <2>8, <2>9 DEF PagingInv
<1>6. CASE allocate_fails(p, n) /\ halted' = "space"
  <2>1. /\ Fits(p, RoundUp(n)) = {} /\ UNCHANGED <<vmPools, allocated_list>>
        /\ call' = <<"allocate", p, n>>
    BY <1>6 DEF allocate_fails
  <2>2. /\ PoolInv' /\ vmPools \subseteq vmPools'
        /\ \A q \in vmPools : \A r : r \in Range(allocated_list[q]) =>
                                        r \in Range(allocated_list'[q])
    BY <1>1, <2>1, PoolsUntouched
  <2>3. OnlyRegionsMapped'
    BY <1>1, <1>2, <2>2, OwnedKept
  <2>4. call'[2] = p /\ call'[3] = n
    BY <2>1
  <2>5. HaltInv'
    BY <1>1, <1>3, <1>6, <2>1, <2>4 DEF HaltInv
  <2>6. \A b \in p.base_address..EndOf(p) - RoundUp(n) :
           \E r \in Range(allocated_list[p]) :
              r.start_frame < b + RoundUp(n) /\ b < RegionEnd(r)
    BY <1>3, <1>4, <2>1, NoAddressFits
  <2>7. HaltsForCause'
    BY <1>6, <2>1, <2>4, <2>6 DEF HaltsForCause
  <2> QED
    BY <1>2, <2>2, <2>3, <2>5, <2>7 DEF PagingInv
<1> QED
  BY <1>5, <1>6 DEF Allocate

LEMMA ReleaseStep ==
    ASSUME PagingInv, NEW p, NEW a, Release(p, a) PROVE PagingInv'
PROOF
<1>1. /\ paging_enabled /\ access = NoAccess /\ halted = "no"
      /\ UNCHANGED <<pageTableVars, paging_enabled>>
      /\ UNCHANGED <<vmPools, allocated_list, building, access, halted>>
      /\ TableInv /\ PoolInv /\ HaltInv /\ OnlyRegionsMapped
  BY DEF Release, release, Ready, Idle, PagingInv
<1>2. TableInv' /\ PagesIn(mem', page_directory') = PagesIn(mem, page_directory)
  BY <1>1, TablesUntouched
<1>3. /\ PoolInv' /\ vmPools \subseteq vmPools'
      /\ \A q \in vmPools : \A r : r \in Range(allocated_list[q]) =>
                                      r \in Range(allocated_list'[q])
  BY <1>1, PoolsUntouched
<1>4. OnlyRegionsMapped'
  BY <1>1, <1>2, <1>3, OwnedKept
<1>5. HaltInv' /\ HaltsForCause'
  BY <1>1, NotYetHalted DEF HaltInv
<1> QED
  BY <1>2, <1>3, <1>4, <1>5 DEF PagingInv

LEMMA FreePageStep ==
    ASSUME PagingInv, NEW page \in PoolPage, FreePage(page) PROVE PagingInv'
PROOF
<1>1. /\ paging_enabled /\ access = NoAccess /\ halted = "no" /\ free_page(page)
      /\ UNCHANGED <<vmPools, allocated_list, paging_enabled, building, access, halted>>
      /\ TableInv /\ PoolInv /\ HaltInv /\ OnlyRegionsMapped
  BY DEF FreePage, Ready, Idle, PagingInv
<1>2. Built(mem, page_directory, free)
  BY <1>1 DEF TableInv
<1>3. /\ Built(mem', page_directory, free') /\ page_directory' = page_directory
      /\ tlb' = {}
      /\ \A q \in PoolPage :
            WalkIn(mem', page_directory, q) =
               IF q = page THEN NotPresent ELSE WalkIn(mem, page_directory, q)
  BY <1>1, <1>2, PageReleased
<1>4. TableInv'
  <2>1. Built(mem', page_directory', free') /\ TlbCurrent'
    BY <1>3 DEF TlbCurrent
  <2> QED
    BY <1>1, <2>1 DEF TableInv
<1>5. /\ PoolInv' /\ vmPools \subseteq vmPools'
      /\ \A q \in vmPools : \A r : r \in Range(allocated_list[q]) =>
                                      r \in Range(allocated_list'[q])
  BY <1>1, PoolsUntouched
<1>6. OnlyRegionsMapped'
  <2>1. \A q \in PagesIn(mem', page_directory') : q \in PagesIn(mem, page_directory)
    BY <1>3 DEF PagesIn
  <2> QED
    BY <1>1, <1>5, <2>1, OwnedKept
<1>7. HaltInv' /\ HaltsForCause'
  BY <1>1, NotYetHalted DEF HaltInv
<1> QED
  BY <1>4, <1>5, <1>6, <1>7 DEF PagingInv

LEMMA StutterStep == ASSUME PagingInv, UNCHANGED vars PROVE PagingInv'
PROOF
<1>1. /\ UNCHANGED <<free, mem, page_directory, tlb>>
      /\ UNCHANGED <<vmPools, allocated_list, call>>
      /\ UNCHANGED <<paging_enabled, building, access, halted>>
      /\ TableInv /\ PoolInv /\ HaltInv /\ OnlyRegionsMapped /\ HaltsForCause
  BY DEF vars, pageTableVars, vmPoolVars, PagingInv
<1>2. TableInv' /\ PagesIn(mem', page_directory') = PagesIn(mem, page_directory)
  BY <1>1, TablesUntouched DEF pageTableVars
<1>3. /\ PoolInv' /\ vmPools \subseteq vmPools'
      /\ \A q \in vmPools : \A r : r \in Range(allocated_list[q]) =>
                                      r \in Range(allocated_list'[q])
  BY <1>1, PoolsUntouched
<1>4. OnlyRegionsMapped'
  BY <1>1, <1>2, <1>3, OwnedKept
<1>5. HaltInv' /\ HaltsForCause'
  BY <1>1 DEF HaltInv, HaltsForCause
<1> QED
  BY <1>2, <1>3, <1>4, <1>5 DEF PagingInv

-----------------------------------------------------------------------------
(* The invariant.                                                          *)

LEMMA InitPaging == Init => PagingInv
PROOF
<1> SUFFICES ASSUME Init PROVE PagingInv
  OBVIOUS
<1>1. /\ PageTableInit /\ paging_enabled = FALSE /\ vmPools = {} /\ building = {}
      /\ allocated_list = [p \in Pool |-> <<>>] /\ access = NoAccess /\ halted = "no"
  BY DEF Init, VMPoolInit
<1>2. TableInv
  BY <1>1 DEF TableInv
<1>3. PoolInv
  BY <1>1 DEF PoolInv
<1>4. HaltInv /\ OnlyRegionsMapped /\ HaltsForCause
  BY <1>1 DEF HaltInv, OnlyRegionsMapped, HaltsForCause
<1> QED
  BY <1>2, <1>3, <1>4 DEF PagingInv

LEMMA NextPaging == PagingInv /\ [Next]_vars => PagingInv'
PROOF
<1> SUFFICES ASSUME PagingInv, [Next]_vars PROVE PagingInv'
  OBVIOUS
<1>1. CASE EnablePaging
  BY <1>1, EnablePagingStep
<1>2. ASSUME NEW p \in Pool, ConstructPool(p) PROVE PagingInv'
  BY <1>2, ConstructPoolStep
<1>3. ASSUME NEW p \in Pool, NEW page \in PagesOf(p), Touch(page) PROVE PagingInv'
  <2>1. page \in PoolPage
    BY PoolFacts
  <2> QED
    BY <1>3, <2>1, TouchStep
<1>4. ASSUME NEW p \in Pool, NEW n \in 1..MaxSize, Allocate(p, n) PROVE PagingInv'
  BY <1>4, AllocateStep
<1>5. ASSUME NEW p \in Pool, NEW r \in Regions(p), Release(p, r.start_frame)
      PROVE  PagingInv'
  BY <1>5, ReleaseStep
<1>6. ASSUME NEW p \in Pool, NEW r \in Regions(p),
             NEW page \in PageOf(r.start_frame)..PageOf(RegionEnd(r)) - 1, FreePage(page)
      PROVE  PagingInv'
  <2>1. Listed(p, allocated_list[p])
    BY <1>6, WhenReady DEF FreePage, Ready, Idle, PagingInv
  <2>2. PICK i \in 2..Len(allocated_list[p]) : r = allocated_list[p][i]
    BY DEF Regions
  <2>3. i \in 1..Len(allocated_list[p])
    BY <2>1, <2>2 DEF Listed
  <2>4. page \in PoolPage
    BY <2>1, <2>2, <2>3, RegionFacts
  <2> QED
    BY <1>6, <2>4, FreePageStep
<1>7. CASE PageFault
  BY <1>7, PageFaultStep
<1>8. CASE IllegalAccess
  BY <1>8, IllegalAccessStep
<1>9. CASE Access
  BY <1>9, AccessStep
<1>10. CASE UNCHANGED vars
  BY <1>10, StutterStep
<1>11. CASE Halted
  BY <1>10, <1>11 DEF Halted
<1> QED
  BY <1>1, <1>2, <1>3, <1>4, <1>5, <1>6, <1>7, <1>8, <1>9, <1>10, <1>11 DEF Next

\* Demand paging keeps its books: what the directory, the tables and the pages are, what
\* the CPU has cached, what the pools have given out, and why the kernel stops
\* (page_table.C and vm_pool.C together).
THEOREM PagingAlwaysConsistent == Spec => []PagingInv
BY InitPaging, NextPaging, PTL DEF Spec

-----------------------------------------------------------------------------
(* What the invariant says about the properties the runs check.            *)

\* The operators of the model are those of this module at the current memory.
LEMMA SameOperators ==
    /\ \A page : Walk(mem, page) = WalkIn(mem, page_directory, page)
    /\ Tables = TablesIn(mem, page_directory)
    /\ MappedPages = PagesIn(mem, page_directory)
    /\ MappedFrames = FramesIn(mem, page_directory)
PROOF
<1>1. ASSUME NEW page PROVE Walk(mem, page) = WalkIn(mem, page_directory, page)
  BY DEF Walk, WalkIn
<1>2. Tables = TablesIn(mem, page_directory)
  BY DEF Tables, TablesIn
<1>3. MappedPages = PagesIn(mem, page_directory)
  BY <1>1 DEF MappedPages, PagesIn, PoolPage
<1>4. MappedFrames = FramesIn(mem, page_directory)
  BY <1>1, <1>3 DEF MappedFrames, FramesIn
<1> QED
  BY <1>1, <1>2, <1>3, <1>4

LEMMA TypesAgree == PagingInv => TypeOK
PROOF
<1> SUFFICES ASSUME PagingInv PROVE TypeOK
  OBVIOUS
<1>1. TableInv /\ PoolInv /\ HaltInv
  BY DEF PagingInv
<1>2. /\ free \subseteq ProcessFrames
      /\ mem \in [Frame -> [Entry -> Frame \cup {NotPresent}]]
      /\ page_directory \in Frame
      /\ tlb \subseteq Page \X Frame
  <2>1. CASE paging_enabled
    <3>1. Built(mem, page_directory, free) /\ tlb \in SUBSET (PoolPage \X Frame)
      BY <1>1, <2>1 DEF TableInv, TlbCurrent
    <3>2. \A page \in PoolPage : page \in Page
      BY PageParts
    <3> QED
      BY <3>1, <3>2, FrameFacts DEF Built, DirectoryBuilt
  <2>2. CASE ~paging_enabled
    <3>1. /\ free = ProcessFrames /\ mem = [f \in Frame |-> Data]
          /\ page_directory = 0 /\ tlb = {}
      BY <1>1, <2>2 DEF TableInv, PageTableInit
    <3>2. 0 \in Frame
      BY Sizes, FrameFacts
    <3>3. Data \in [Entry -> Frame \cup {NotPresent}]
      BY <3>2 DEF Data
    <3> QED
      BY <3>1, <3>2, <3>3
  <2> QED
    BY <2>1, <2>2
<1>3. \A p \in Pool : \A r \in Range(allocated_list[p]) :
         r.start_frame \in Nat /\ r.size \in Nat \ {0}
  <2> SUFFICES ASSUME NEW p \in Pool, NEW r \in Range(allocated_list[p])
               PROVE  r.start_frame \in Nat /\ r.size \in Nat \ {0}
    OBVIOUS
  <2>1. Listed(p, allocated_list[p])
    <3>1. allocated_list[p] # <<>>
      BY DEF Range
    <3> QED
      BY <1>1, <3>1 DEF PoolInv
  <2>2. PICK i \in 1..Len(allocated_list[p]) : r = allocated_list[p][i]
    BY <2>1 DEF Listed, Range
  <2> QED
    BY <2>1, <2>2, RegionFacts
<1>4. /\ vmPools \subseteq Pool /\ paging_enabled \in BOOLEAN /\ building \subseteq Pool
      /\ halted \in {"no", "assert", "frames", "abort", "space"}
  BY <1>1 DEF PoolInv, TableInv, HaltInv
<1>5. access \in Page \cup {NoAccess}
  BY <1>1, PageParts DEF PoolInv
<1> QED
  BY <1>2, <1>3, <1>4, <1>5 DEF TypeOK

LEMMA NothingStale == PagingInv => NoStaleTranslation
PROOF
<1> SUFFICES ASSUME PagingInv, NEW e \in tlb PROVE Walk(mem, e[1]) = e[2]
  BY DEF NoStaleTranslation
<1>1. paging_enabled
  BY DEF PagingInv, TableInv, PageTableInit
<1> QED
  BY <1>1, SameOperators DEF PagingInv, TableInv, TlbCurrent

LEMMA NothingOverwritten == PagingInv => StructuresIntact
PROOF
<1> SUFFICES ASSUME PagingInv, paging_enabled
             PROVE  /\ mem[page_directory][Last] = page_directory
                    /\ \A page \in Entry : Walk(mem, page) = page
  BY DEF StructuresIntact
<1>1. DirectoryBuilt(mem, page_directory, free)
  BY DEF PagingInv, TableInv, Built
<1>2. ASSUME NEW page \in Entry PROVE Walk(mem, page) = page
  <2>1. page \div ENTRIES_PER_PAGE = 0 /\ page % ENTRIES_PER_PAGE = page
    BY SharedPage
  <2> QED
    BY <1>1, <2>1 DEF DirectoryBuilt, Walk
<1> QED
  BY <1>1, <1>2 DEF DirectoryBuilt

\* A function that takes no value twice has as many values as arguments.
LEMMA ImageSize ==
    ASSUME NEW S, IsFiniteSet(S), NEW T, NEW f \in [S -> T],
           \A x, y \in S : f[x] = f[y] => x = y,
           \A y \in T : \E x \in S : f[x] = y
    PROVE  IsFiniteSet(T) /\ Cardinality(T) = Cardinality(S)
PROOF
<1>1. f \in Bijection(S, T)
  BY DEF Bijection, Injection, Surjection, IsInjective
<1>2. ExistsBijection(S, T)
  BY <1>1 DEF ExistsBijection
<1> QED
  BY <1>2, FS_Bijection

LEMMA EveryFrameCounted == PagingInv => FramesAccounted
PROOF
<1> DEFINE dir == page_directory
           Ts == TablesIn(mem, dir)
           Fs == FramesIn(mem, dir)
           Ps == PagesIn(mem, dir)
           Ds == {d \in 0..Last - 1 : mem[dir][d] # NotPresent}
<1> SUFFICES ASSUME PagingInv, paging_enabled PROVE FramesAccounted
  BY DEF FramesAccounted
<1>1. Built(mem, dir, free)
  BY DEF PagingInv, TableInv
<1>2. ProcessFrames = free \cup {dir} \cup Ts \cup Fs
  BY <1>1 DEF Built
<1>3. /\ dir \notin free /\ dir \notin Ts /\ dir \notin Fs
      /\ free \cap Ts = {} /\ free \cap Fs = {} /\ Ts \cap Fs = {}
  <2>1. \A t \in Ts : t \in ProcessFrames \ (free \cup {dir})
    BY <1>1 DEF Built, DirectoryBuilt, TablesIn
  <2>2. \A g \in Fs : g \in ProcessFrames \ (free \cup {dir} \cup Ts)
    BY <1>1 DEF Built, PagesBuilt, FramesIn
  <2>3. dir \notin free
    BY <1>1 DEF Built, DirectoryBuilt
  <2> QED
    BY <2>1, <2>2, <2>3
<1>4. IsFiniteSet(free) /\ IsFiniteSet(Ts) /\ IsFiniteSet(Fs) /\ IsFiniteSet({dir})
  BY <1>2, FrameFacts, FS_Subset
<1>5. Cardinality(Ts) = Cardinality(Ds)
  <2>1. IsFiniteSet(Ds)
    <3>1. IsFiniteSet(0..Last - 1)
      BY Sizes, FS_Interval
    <3> QED
      BY <3>1, FS_Subset
  <2> DEFINE f == [d \in Ds |-> mem[dir][d]]
  <2>2. f \in [Ds -> Ts]
    BY DEF TablesIn
  <2>3. \A x, y \in Ds : f[x] = f[y] => x = y
    BY <1>1 DEF Built, DirectoryBuilt
  <2>4. \A t \in Ts : \E x \in Ds : f[x] = t
    BY DEF TablesIn
  <2> HIDE DEF f, Ts, Ds
  <2> QED
    BY <2>1, <2>2, <2>3, <2>4, ImageSize
<1>6. Cardinality(Fs) = Cardinality(Ps)
  <2>1. IsFiniteSet(Ps)
    <3>1. IsFiniteSet(PoolPage)
      <4>1. Last * ENTRIES_PER_PAGE - 1 \in Int
        BY Sizes
      <4> QED
        BY <4>1, Sizes, FS_Interval DEF PoolPage
    <3> QED
      BY <3>1, FS_Subset DEF PagesIn
  <2> DEFINE f == [page \in Ps |-> WalkIn(mem, dir, page)]
  <2>2. f \in [Ps -> Fs]
    BY DEF FramesIn
  <2>3. \A x, y \in Ps : f[x] = f[y] => x = y
    BY <1>1 DEF Built, PagesBuilt
  <2>4. \A t \in Fs : \E x \in Ps : f[x] = t
    BY DEF FramesIn
  <2> HIDE DEF f, Fs, Ps
  <2> QED
    BY <2>1, <2>2, <2>3, <2>4, ImageSize
<1> HIDE DEF dir, Ts, Fs, Ps, Ds
<1>7. Cardinality(ProcessFrames)
         = Cardinality(free) + 1 + Cardinality(Ts) + Cardinality(Fs)
  <2> DEFINE A == free \cup {dir}
             B == A \cup Ts
  <2>1. IsFiniteSet(A) /\ Cardinality(A) = Cardinality(free) + 1
    BY <1>3, <1>4, FS_AddElement
  <2>2. Cardinality(Ts) \in Nat /\ Cardinality(Fs) \in Nat /\ Cardinality(free) \in Nat
    BY <1>4, FS_CardinalityType
  <2>3. A \cap Ts = {} /\ B \cap Fs = {} /\ ProcessFrames = B \cup Fs
    BY <1>2, <1>3
  <2>4. Cardinality({}) = 0
    BY FS_EmptySet
  <2> HIDE DEF A
  <2>5. /\ IsFiniteSet(A \cup Ts)
        /\ Cardinality(A \cup Ts) = Cardinality(A) + Cardinality(Ts) - Cardinality(A \cap Ts)
    BY <1>4, <2>1, FS_Union
  <2>6. IsFiniteSet(B) /\ Cardinality(B) = Cardinality(free) + 1 + Cardinality(Ts)
    <3>1. Cardinality(A \cap Ts) = 0
      BY <2>3, <2>4
    <3> QED
      BY <2>1, <2>2, <2>5, <3>1
  <2> HIDE DEF B
  <2>7. Cardinality(B \cup Fs) = Cardinality(B) + Cardinality(Fs) - Cardinality(B \cap Fs)
    BY <1>4, <2>6, FS_Union
  <2>8. Cardinality(B \cap Fs) = 0 /\ Cardinality(B \cup Fs) = Cardinality(ProcessFrames)
    BY <2>3, <2>4
  <2> QED
    BY <2>2, <2>6, <2>7, <2>8
<1>8. /\ Tables = Ts /\ MappedFrames = Fs /\ MappedPages = Ps
      /\ {d \in 0..Last - 1 : mem[page_directory][d] # NotPresent} = Ds
  BY SameOperators DEF Ts, Fs, Ps, Ds, dir
<1> QED
  BY <1>2, <1>5, <1>6, <1>7, <1>8 DEF FramesAccounted, dir

\* The constants and variables of Paging.tla keep their kinds (page_table.C, vm_pool.C).
THEOREM PagingTypeCorrect == Spec => []TypeOK
BY PagingAlwaysConsistent, TypesAgree, PTL

\* The process pool loses no frame and lends none twice: each is free, or the directory,
\* or one page table, or behind one page (get_frames and release_frames of handle_fault
\* and free_page in page_table.C).
THEOREM FramesAlwaysAccounted == Spec => []FramesAccounted
BY PagingAlwaysConsistent, EveryFrameCounted, PTL

\* No store through a page of a pool reaches the directory or the shared memory's table:
\* the recursive entry stays, and the identity mapping does (the constructor of
\* PageTable in page_table.C).
THEOREM StructuresStayIntact == Spec => []StructuresIntact
BY PagingAlwaysConsistent, NothingOverwritten, PTL

\* free_page's reload of cr3 is enough: what the CPU has cached is what the tables say.
THEOREM TranslationsNeverStale == Spec => []NoStaleTranslation
BY PagingAlwaysConsistent, NothingStale, PTL

\* handle_fault gives a frame only to a page some pool owns, also while a pool's
\* constructor has not written its list yet (check_address and is_legitimate).
THEOREM OnlyRegionsEverMapped == Spec => []OnlyRegionsMapped
<1>1. PagingInv => OnlyRegionsMapped
  BY DEF PagingInv
<1> QED
  BY <1>1, PagingAlwaysConsistent, PTL

\* Frames really are gone, the address really is in no region, no start address fits the
\* request: the asserts and abort() of page_table.C and vm_pool.C stop the kernel for the
\* reason they give.
THEOREM StopsForCause == Spec => []HaltsForCause
<1>1. PagingInv => HaltsForCause
  BY DEF PagingInv
<1> QED
  BY <1>1, PagingAlwaysConsistent, PTL

-----------------------------------------------------------------------------
(* The pools are an allocator of ranges.                                   *)

\* The pools do not overlap, as main() of kernel.C lays out the code and the heap pool.
PoolsApart ==
    \A p, q \in Pool : p # q => EndOf(p) <= q.base_address \/ EndOf(q) <= p.base_address

RangeOf(r) == [base |-> r.start_frame, size |-> r.size]

Granted(list) ==
    UNION {{[base |-> r.start_frame, size |-> r.size] : r \in Allocations(list[p])} :
              p \in Pool}

\* A range is granted when it is a region of some pool.
LEMMA GrantedIs ==
    ASSUME NEW list, NEW x
    PROVE  x \in Granted(list) <=>
              \E p \in Pool : \E r \in Allocations(list[p]) : x = RangeOf(r)
BY DEF Granted, RangeOf

\* Units of a region, and those of the granted ranges.
LEMMA RegionUnits ==
    ASSUME NEW p \in Pool, NEW l, Listed(p, l), NEW r \in Allocations(l),
           NEW u \in Allocator!Units(RangeOf(r))
    PROVE  /\ u \in Int /\ r.start_frame <= u /\ u < RegionEnd(r)
           /\ p.base_address <= u /\ u < EndOf(p)
           /\ \E i \in 1..Len(l) : r = l[i]
PROOF
<1>1. PICK i \in 2..Len(l) : r = l[i]
  BY DEF Allocations
<1>2. Len(l) \in Nat
  BY DEF Listed
<1>3. i \in 1..Len(l)
  BY <1>2
<1>4. /\ r.start_frame \in Nat /\ r.size \in Nat \ {0}
      /\ p.base_address <= r.start_frame /\ RegionEnd(r) <= EndOf(p)
  BY <1>1, <1>3, RegionFacts DEF Listed
<1>5. u \in r.start_frame..r.start_frame + r.size - 1
  BY DEF Allocator!Units, RangeOf
<1>6. RegionEnd(r) = r.start_frame + r.size
  BY DEF RegionEnd
<1>7. p.base_address \in Nat /\ EndOf(p) \in Nat
  BY PoolFacts
<1>8. u \in Int /\ r.start_frame <= u /\ u < RegionEnd(r)
  BY <1>4, <1>5, <1>6
<1> QED
  BY <1>1, <1>3, <1>4, <1>6, <1>7, <1>8

\* A call that stops the kernel, one that grants nothing, and one that changes neither.
LEMMA NothingGranted ==
    ASSUME Granted(allocated_list') = Granted(allocated_list),
           halted' = halted \/ (halted = "no" /\ halted' # "no")
    PROVE  [Allocator!Next]_(Allocator!regionVars)
PROOF
<1> QED
  BY DEF Allocator!Next, Allocator!regionVars, Granted, Allocations, Regions

\* allocate, when it succeeds.
LEMMA RegionGranted ==
    ASSUME PagingInv, PoolsApart, NEW p \in Pool, NEW n \in 1..MaxSize,
           Ready, allocate(p, n), UNCHANGED halted
    PROVE  Allocator!Next
PROOF
<1> DEFINE k == Min(Fits(p, RoundUp(n)))
           x == NewRegion(p, k, RoundUp(n))
           l == Inserted(allocated_list[p], x, k)
           rec == RangeOf(x)
<1>1. /\ vmPools = Pool /\ access = NoAccess /\ halted = "no" /\ PoolInv
  BY DEF Ready, Idle, PagingInv
<1>2. \A q \in Pool : Listed(q, allocated_list[q])
  BY <1>1, WhenReady
<1>3. n \in Nat \ {0} /\ MaxSize \in Nat \ {0} /\ n <= MaxSize
  BY Sizes
<1>4. /\ Fits(p, RoundUp(n)) # {}
      /\ allocated_list' = [allocated_list EXCEPT ![p] = l]
  BY DEF allocate, insert_item, Inserted
<1>5. k \in Fits(p, RoundUp(n))
  <2>1. DOMAIN allocated_list[p] = 1..Len(allocated_list[p])
    BY <1>2 DEF Listed
  <2>2. Fits(p, RoundUp(n)) \in SUBSET Nat
    BY <2>1 DEF Fits
  <2> QED
    BY <1>4, <2>2, LeastOf
<1> HIDE DEF k
<1>6. x = NewRegion(p, k, RoundUp(n)) /\ l = Inserted(allocated_list[p], x, k)
  OBVIOUS
<1> HIDE DEF x, l
<1>7. /\ \A r : r \in Allocations(l) <=> r \in Allocations(allocated_list[p]) \/ r = x
      /\ x \in Region /\ x.size = RoundUp(n)
      /\ p.base_address + PAGE_SIZE <= x.start_frame /\ RegionEnd(x) <= EndOf(p)
      /\ \A i \in 1..Len(allocated_list[p]) :
            \/ RegionEnd(allocated_list[p][i]) <= x.start_frame
            \/ RegionEnd(x) <= allocated_list[p][i].start_frame
  <2>1. Listed(p, allocated_list[p])
    BY <1>2
  <2>2. \A r : r \in Allocations(l) <=> r \in Allocations(allocated_list[p]) \/ r = x
    BY <1>3, <1>5, <1>6, <2>1, RegionPlaced
  <2>3. /\ x \in Region /\ x.size = RoundUp(n)
        /\ p.base_address + PAGE_SIZE <= x.start_frame /\ RegionEnd(x) <= EndOf(p)
    BY <1>3, <1>5, <1>6, <2>1, RegionPlaced
  <2>4. \A i \in 1..Len(allocated_list[p]) :
           \/ RegionEnd(allocated_list[p][i]) <= x.start_frame
           \/ RegionEnd(x) <= allocated_list[p][i].start_frame
    BY <1>3, <1>5, <1>6, <2>1, RegionPlaced
  <2> QED
    BY <2>2, <2>3, <2>4
<1>8. /\ p.base_address \in Nat /\ EndOf(p) \in Nat /\ PAGE_SIZE \in Nat \ {0}
      /\ x.start_frame \in Nat /\ x.size \in Nat \ {0}
      /\ RegionEnd(x) = x.start_frame + x.size
  BY <1>7, PoolFacts, Sizes DEF Region, RegionEnd
<1>9. x.size \in 1..RoundUp(MaxSize)
  <2>1. /\ RoundUp(n) <= RoundUp(MaxSize)
        /\ RoundUp(n) \in Nat \ {0} /\ RoundUp(MaxSize) \in Nat \ {0}
    BY <1>3, RoundedUp
  <2> QED
    BY <1>7, <2>1
<1>10. ASSUME NEW u \in Allocator!Units(rec)
       PROVE  u \in Int /\ x.start_frame <= u /\ u < RegionEnd(x)
  <2>1. u \in x.start_frame..x.start_frame + x.size - 1
    BY DEF Allocator!Units, RangeOf
  <2> QED
    BY <1>8, <2>1
<1>11. ASSUME NEW u \in Int, x.start_frame <= u, u < RegionEnd(x) PROVE u \in Unit
  <2>1. u \in p.base_address + PAGE_SIZE .. EndOf(p) - 1
    BY <1>7, <1>8, <1>11
  <2> QED
    BY <2>1 DEF Unit
<1>12. ASSUME NEW u \in Allocator!Units(rec), NEW y \in Granted(allocated_list),
              u \in Allocator!Units(y)
       PROVE  FALSE
  <2>1. PICK q \in Pool : \E r \in Allocations(allocated_list[q]) : y = RangeOf(r)
    BY GrantedIs
  <2>2. PICK r \in Allocations(allocated_list[q]) : y = RangeOf(r)
    BY <2>1
  <2>3. u \in Allocator!Units(RangeOf(r))
    BY <1>12, <2>2
  <2>4. /\ u \in Int /\ r.start_frame <= u /\ u < RegionEnd(r)
        /\ q.base_address <= u /\ u < EndOf(q)
        /\ \E i \in 1..Len(allocated_list[q]) : r = allocated_list[q][i]
    BY <1>2, <2>3, RegionUnits
  <2>5. x.start_frame <= u /\ u < RegionEnd(x)
    BY <1>10
  <2>6. CASE q = p
    <3>1. RegionEnd(r) <= x.start_frame \/ RegionEnd(x) <= r.start_frame
      BY <1>7, <2>4, <2>6
    <3>2. r.start_frame \in Nat /\ RegionEnd(r) \in Nat
      BY <1>2, <2>4, RegionFacts
    <3> QED
      BY <1>8, <2>4, <2>5, <3>1, <3>2
  <2>7. CASE q # p
    <3>1. EndOf(p) <= q.base_address \/ EndOf(q) <= p.base_address
      BY <2>7 DEF PoolsApart
    <3>2. q.base_address \in Nat /\ EndOf(q) \in Nat
      BY PoolFacts
    <3> QED
      BY <1>7, <1>8, <2>4, <2>5, <3>1, <3>2
  <2> QED
    BY <2>6, <2>7
<1>13. allocated_list' = [q \in Pool |-> IF q = p THEN l ELSE allocated_list[q]]
  BY <1>1, <1>4 DEF PoolInv
<1>14. Granted(allocated_list') = Granted(allocated_list) \cup {rec}
  <2>1. ASSUME NEW y
        PROVE  y \in Granted(allocated_list') <=> y \in Granted(allocated_list) \/ y = rec
    <3>1. y \in Granted(allocated_list') <=>
             \E q \in Pool : \E r \in Allocations(allocated_list'[q]) : y = RangeOf(r)
      BY GrantedIs
    <3>2. y \in Granted(allocated_list) <=>
             \E q \in Pool : \E r \in Allocations(allocated_list[q]) : y = RangeOf(r)
      BY GrantedIs
    <3>3. ASSUME NEW q \in Pool, q # p PROVE allocated_list'[q] = allocated_list[q]
      BY <1>13, <3>3
    <3>4. \A r : r \in Allocations(allocated_list'[p]) <=>
                    r \in Allocations(allocated_list[p]) \/ r = x
      BY <1>7, <1>13
    <3> HIDE DEF rec
    <3>5. rec = RangeOf(x)
      BY DEF rec
    <3> QED
      BY <3>1, <3>2, <3>3, <3>4, <3>5
  <2> QED
    BY <2>1
<1>15. /\ x.start_frame \in Unit
       /\ rec = [base |-> x.start_frame, size |-> x.size]
  <2>1. x.start_frame < RegionEnd(x) /\ x.start_frame \in Int /\ x.start_frame <= x.start_frame
    BY <1>8
  <2> QED
    BY <1>11, <2>1 DEF RangeOf
<1>16. Allocator!Units(rec) \subseteq Unit \ Allocator!Taken
  <2>1. ASSUME NEW u \in Allocator!Units(rec) PROVE u \in Unit /\ u \notin Allocator!Taken
    <3>1. u \in Unit
      BY <1>10, <1>11
    <3>2. u \notin UNION {Allocator!Units(y) : y \in Granted(allocated_list)}
      BY <1>12
    <3> QED
      BY <3>1, <3>2 DEF Allocator!Taken, Granted, Allocations, Regions
  <2> QED
    BY <2>1
<1> HIDE DEF rec
<1>17. \E b \in Unit, m \in 1..RoundUp(MaxSize) :
          /\ Allocator!Units([base |-> b, size |-> m]) \subseteq Unit \ Allocator!Taken
          /\ Granted(allocated_list') = Granted(allocated_list) \cup {[base |-> b, size |-> m]}
  BY <1>9, <1>14, <1>15, <1>16
<1>18. \E b \in Unit, m \in 1..RoundUp(MaxSize) : Allocator!Allocate([base |-> b, size |-> m])
  BY <1>17 DEF Allocator!Allocate, Granted, Allocations, Regions
<1> QED
  BY <1>1, <1>18 DEF Allocator!Next

\* The constructor's first store ends with a list whose one region is the pool's own page.
LEMMA AccessGrantsNothing ==
    ASSUME PagingInv, Access PROVE [Allocator!Next]_(Allocator!regionVars)
PROOF
<1>1. UNCHANGED halted /\ PoolInv
  BY DEF Access, PagingInv
<1>2. CASE building = {}
  <2>1. UNCHANGED allocated_list
    BY <1>2 DEF Access, vmPoolVars
  <2> QED
    BY <1>1, <2>1, NothingGranted
<1>3. CASE building # {}
  <2>1. PICK p \in building : VMPoolReserveList(p)
    BY <1>3 DEF Access
  <2> DEFINE l == <<[start_frame |-> p.base_address, size |-> PAGE_SIZE]>>
  <2>2. allocated_list' = [allocated_list EXCEPT ![p] = l]
    BY <2>1 DEF VMPoolReserveList
  <2>3. p \in Pool /\ allocated_list[p] = <<>>
    BY <1>1 DEF PoolInv
  <2>4. Allocations(l) = {} /\ Allocations(<<>>) = {}
    <3>1. Len(l) = 1 /\ 2..1 = {} /\ 2..0 = {}
      OBVIOUS
    <3> HIDE DEF l
    <3> QED
      BY <3>1 DEF Allocations
  <2> HIDE DEF l
  <2>5. allocated_list' = [q \in Pool |-> IF q = p THEN l ELSE allocated_list[q]]
    BY <1>1, <2>2 DEF PoolInv
  <2>6. ASSUME NEW q \in Pool PROVE Allocations(allocated_list'[q]) = Allocations(allocated_list[q])
    BY <2>3, <2>4, <2>5
  <2>7. ASSUME NEW y PROVE y \in Granted(allocated_list') <=> y \in Granted(allocated_list)
    BY <2>6, GrantedIs
  <2>8. Granted(allocated_list') = Granted(allocated_list)
    BY <2>7
  <2> QED
    BY <1>1, <2>8, NothingGranted
<1> QED
  BY <1>2, <1>3

LEMMA NextGrants ==
    PoolsApart /\ PagingInv /\ [Next]_vars => [Allocator!Next]_(Allocator!regionVars)
PROOF
<1> SUFFICES ASSUME PoolsApart, PagingInv, [Next]_vars
             PROVE  [Allocator!Next]_(Allocator!regionVars)
  OBVIOUS
<1>1. ASSUME UNCHANGED allocated_list, halted' = halted \/ (halted = "no" /\ halted' # "no")
      PROVE  [Allocator!Next]_(Allocator!regionVars)
  BY <1>1, NothingGranted
<1>2. CASE EnablePaging
  BY <1>1, <1>2 DEF EnablePaging, vmPoolVars
<1>3. ASSUME NEW p \in Pool, ConstructPool(p) PROVE [Allocator!Next]_(Allocator!regionVars)
  BY <1>1, <1>3 DEF ConstructPool, Idle, VMPoolRegister, vmPoolVars
<1>4. ASSUME NEW page, Touch(page) PROVE [Allocator!Next]_(Allocator!regionVars)
  BY <1>1, <1>4 DEF Touch
<1>5. ASSUME NEW p \in Pool, NEW n \in 1..MaxSize, Allocate(p, n)
      PROVE  [Allocator!Next]_(Allocator!regionVars)
  <2>1. CASE allocate(p, n) /\ UNCHANGED halted
    <3>1. Ready
      BY <1>5 DEF Allocate
    <3>2. Allocator!Next
      BY <2>1, <3>1, RegionGranted
    <3> QED
      BY <3>2
  <2>2. CASE allocate_fails(p, n) /\ halted' = "space"
    BY <1>1, <1>5, <2>2 DEF Allocate, Ready, Idle, allocate_fails
  <2> QED
    BY <1>5, <2>1, <2>2 DEF Allocate
<1>6. ASSUME NEW p, NEW a, Release(p, a) PROVE [Allocator!Next]_(Allocator!regionVars)
  BY <1>1, <1>6 DEF Release, release
<1>7. ASSUME NEW page, FreePage(page) PROVE [Allocator!Next]_(Allocator!regionVars)
  BY <1>1, <1>7 DEF FreePage
<1>8. CASE PageFault
  BY <1>1, <1>8 DEF PageFault, Faults, vmPoolVars
<1>9. CASE IllegalAccess
  BY <1>1, <1>9 DEF IllegalAccess, Faults, vmPoolVars
<1>10. CASE Access
  BY <1>10, AccessGrantsNothing
<1>11. CASE UNCHANGED vars
  BY <1>1, <1>11 DEF vars, vmPoolVars
<1>12. CASE Halted
  BY <1>11, <1>12 DEF Halted
<1> QED
  BY <1>2, <1>3, <1>4, <1>5, <1>6, <1>7, <1>8, <1>9, <1>10, <1>11, <1>12 DEF Next

LEMMA InitGrants == Init => Allocator!Init
PROOF
<1> SUFFICES ASSUME Init PROVE Allocator!Init
  OBVIOUS
<1>1. allocated_list = [p \in Pool |-> <<>>] /\ halted = "no"
  BY DEF Init, VMPoolInit
<1>2. Allocations(<<>>) = {}
  <2>1. Len(<<>>) = 0 /\ 2..0 = {}
    OBVIOUS
  <2> QED
    BY <2>1 DEF Allocations
<1>3. \A y : y \notin Granted(allocated_list)
  BY <1>1, <1>2, GrantedIs
<1>4. Granted(allocated_list) = {}
  BY <1>3
<1> QED
  BY <1>1, <1>4 DEF Allocator!Init, Granted, Allocations, Regions

\* Pools that do not overlap are together one allocator of ranges: a region is made of
\* addresses of a pool behind its list's page that no region of any pool holds, and
\* after a stop nothing moves (allocate and insert_item in vm_pool.C). The disjointness is
\* the caller's: two overlapping pools would each hand out the common addresses.
THEOREM PoolsImplementRegions ==
    ASSUME PoolsApart
    PROVE  Spec => ImplementsAllocator
PROOF
<1>1. PagingInv /\ [Next]_vars => [Allocator!Next]_(Allocator!regionVars)
  BY NextGrants
<1> QED
  BY <1>1, InitGrants, PagingAlwaysConsistent, PTL DEF Spec, ImplementsAllocator, Allocator!Spec
=============================================================================
