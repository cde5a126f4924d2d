------------------------------ MODULE Paging ------------------------------
(***************************************************************************)
(* Demand paging: a program that uses the virtual memory pools of P4, the  *)
(* page faults of its accesses, and the page table that serves them.       *)
(* main() of P4/kernel.C loads the page table, constructs the pools and    *)
(* then allocates, uses and releases regions.                              *)
(*                                                                         *)
(* There is one flow of control.  An access may also be the constructor's  *)
(* first store to the pool's list, which faults while the pool is half     *)
(* built; every later use of the list finds its page mapped.               *)
(***************************************************************************)
EXTENDS PageTable, VMPool

VARIABLES
    paging_enabled,
    building,   \* the pool whose constructor is at its first store, if any
    access,     \* the page being accessed, or NoAccess
    halted      \* why the kernel has stopped, or "no"

vars == <<pageTableVars, vmPoolVars, paging_enabled, building, access, halted>>

NoAccess == -1

PageOf(a) == a \div PAGE_SIZE

\* The pools lie above the shared memory and below the page tables' own addresses.
ASSUME PagingAssumption ==
    \A p \in Pool :
        /\ PageOf(p.base_address) >= ENTRIES_PER_PAGE
        /\ PageOf(EndOf(p)) <= Last * ENTRIES_PER_PAGE

PagesOf(p) == PageOf(p.base_address) .. PageOf(EndOf(p)) - 1

Init ==
    /\ PageTableInit
    /\ VMPoolInit
    /\ paging_enabled = FALSE
    /\ building = {}
    /\ access = NoAccess
    /\ halted = "no"

Idle == paging_enabled /\ access = NoAccess /\ halted = "no"

Ready == Idle /\ vmPools = Pool

EnablePaging ==
    /\ ~paging_enabled
    /\ PageTableConstruct
    /\ paging_enabled' = TRUE
    /\ UNCHANGED <<vmPoolVars, building, access, halted>>

\* The constructor asserts that the member base_address is aligned before it sets it:
\* whether that holds depends on what was in that memory.
ConstructPool(p) ==
    /\ Idle /\ p \notin vmPools
    /\ \/ /\ VMPoolRegister(p)
          /\ building' = {p}
          /\ access' = PageOf(p.base_address)
          /\ UNCHANGED halted
       \/ /\ halted' = "assert"
          /\ UNCHANGED <<vmPoolVars, building, access>>
    /\ UNCHANGED <<pageTableVars, paging_enabled>>

\* An access of the program, to any page of a pool.
Touch(page) ==
    /\ Ready
    /\ access' = page
    /\ call' = NoCall
    /\ UNCHANGED <<pageTableVars, vmPools, allocated_list, paging_enabled, building, halted>>

Faults == access # NoAccess /\ halted = "no" /\ Translate(access) = NotPresent

PageFault ==
    /\ Faults
    /\ check_address(access * PAGE_SIZE)
    /\ \/ handle_fault(access) /\ UNCHANGED halted
       \/ FaultExhausts(access) /\ halted' = "frames"
    /\ UNCHANGED <<vmPoolVars, paging_enabled, building, access>>

IllegalAccess ==
    /\ Faults
    /\ ~check_address(access * PAGE_SIZE)
    /\ halted' = "abort"
    /\ UNCHANGED <<pageTableVars, vmPoolVars, paging_enabled, building, access>>

\* The access succeeds, at once or when it is tried again after the fault.
Access ==
    /\ access # NoAccess /\ halted = "no" /\ Translate(access) # NotPresent
    /\ Store(access, Translate(access))
    /\ access' = NoAccess
    /\ building' = {}
    /\ IF building = {} THEN UNCHANGED vmPoolVars
       ELSE \E p \in building : VMPoolReserveList(p)
    /\ UNCHANGED <<paging_enabled, halted>>

Allocate(p, n) ==
    /\ Ready
    /\ \/ allocate(p, n) /\ UNCHANGED halted
       \/ allocate_fails(p, n) /\ halted' = "space"
    /\ UNCHANGED <<pageTableVars, paging_enabled, building, access>>

Regions(p) == {allocated_list[p][i] : i \in 2..Len(allocated_list[p])}

Release(p, a) ==
    /\ Ready
    /\ release(p, a)
    /\ UNCHANGED <<pageTableVars, paging_enabled, building, access, halted>>

\* free_page, which is public, on a page of a region. Its one caller, release, does not
\* come to the call.
FreePage(page) ==
    /\ Ready
    /\ free_page(page)
    /\ call' = NoCall
    /\ UNCHANGED <<vmPools, allocated_list, paging_enabled, building, access, halted>>

\* abort() spins for ever.
Halted == halted # "no" /\ UNCHANGED vars

Next ==
    \/ EnablePaging
    \/ \E p \in Pool :
          \/ ConstructPool(p)
          \/ \E page \in PagesOf(p) : Touch(page)
          \/ \E n \in 1..MaxSize : Allocate(p, n)
          \/ \E r \in Regions(p) :
                \/ Release(p, r.start_frame)
                \/ \E page \in PageOf(r.start_frame)..PageOf(RegionEnd(r)) - 1 : FreePage(page)
    \/ PageFault
    \/ IllegalAccess
    \/ Access
    \/ Halted

\* The CPU tries the access again when the handler returns.
Spec == Init /\ [][Next]_vars /\ WF_vars(PageFault \/ IllegalAccess \/ Access)

-----------------------------------------------------------------------------
(* Properties.                                                             *)

TypeOK ==
    /\ free \subseteq ProcessFrames
    /\ mem \in [Frame -> [Entry -> Frame \cup {NotPresent}]]
    /\ page_directory \in Frame
    /\ tlb \subseteq Page \X Frame
    /\ vmPools \subseteq Pool
    /\ \A p \in Pool : \A r \in Range(allocated_list[p]) :
          r.start_frame \in Nat /\ r.size \in Nat \ {0}
    /\ paging_enabled \in BOOLEAN
    /\ building \subseteq Pool
    /\ access \in Page \cup {NoAccess}
    /\ halted \in {"no", "assert", "frames", "abort", "space"}

Tables == {mem[page_directory][d] : d \in 0..Last - 1} \ {NotPresent}

\* The pages with a frame of their own, between the shared memory and the tables.
MappedPages ==
    {page \in ENTRIES_PER_PAGE..Last * ENTRIES_PER_PAGE - 1 : Walk(mem, page) # NotPresent}

MappedFrames == {Walk(mem, page) : page \in MappedPages}

\* Every frame of the pool is free, or the directory, or one page table, or behind one
\* page, and only one of these: none is lost and none is shared (page_table.C).
FramesAccounted ==
    paging_enabled =>
        /\ ProcessFrames = free \cup {page_directory} \cup Tables \cup MappedFrames
        /\ Cardinality(ProcessFrames)
              = Cardinality(free) + 1
                + Cardinality({d \in 0..Last - 1 : mem[page_directory][d] # NotPresent})
                + Cardinality(MappedPages)

\* Whatever is stored through addresses, the shared memory stays mapped to itself and the
\* last entry to the directory, without which no fault could be served.
StructuresIntact ==
    paging_enabled =>
        /\ mem[page_directory][Last] = page_directory
        /\ \A page \in Entry : Walk(mem, page) = page

\* The CPU never uses a translation the tables no longer give (free_page's reload of cr3).
NoStaleTranslation == \A e \in tlb : Walk(mem, e[1]) = e[2]

\* Only pages of regions, and the list of a pool, have frames: the handler gives none for
\* an address check_address should refuse, even while a pool is half built.
OnlyRegionsMapped ==
    \A page \in IF paging_enabled THEN MappedPages ELSE {} :
        \E p \in vmPools :
            \/ page = PageOf(p.base_address)
            \/ \E r \in Range(allocated_list[p]) :
                  page \in PageOf(r.start_frame)..PageOf(RegionEnd(r)) - 1

\* The kernel stops only for a reason: no frame left, an address that is in no region, or
\* a request for which no pool address starts enough free space.
HaltsForCause ==
    /\ halted = "frames" => free = {}
    /\ halted = "abort" =>
          \A p \in Pool : \A r \in Range(allocated_list[p]) :
              access \notin PageOf(r.start_frame)..PageOf(RegionEnd(r)) - 1
    /\ halted = "space" =>
          \A b \in call[2].base_address..EndOf(call[2]) - RoundUp(call[3]) :
              \E r \in Range(allocated_list[call[2]]) :
                  r.start_frame < b + RoundUp(call[3]) /\ b < RegionEnd(r)

Unit == UNION {p.base_address + PAGE_SIZE .. EndOf(p) - 1 : p \in Pool}

Allocator ==
    INSTANCE RegionAllocator WITH
        MaxSize <- RoundUp(MaxSize),
        held <- UNION {{[base |-> r.start_frame, size |-> r.size] : r \in Regions(p)} :
                          p \in Pool},
        stopped <- (halted # "no")

\* The pools together are one allocator of ranges: every region is fresh and inside a
\* pool, clear of the page that holds the pool's list.
ImplementsAllocator == Allocator!Spec

\* An access that faults is served, or the kernel stops: the handler does not go round in
\* circles.
AccessCompletes == access # NoAccess ~> (access = NoAccess \/ halted # "no")

\* "Releases a region of previously allocated memory" (vm_pool.H:79): its addresses are
\* not legitimate any more.
ReleaseGivesBack == call[1] = "release" => ~is_legitimate(call[2], call[3])
=============================================================================
