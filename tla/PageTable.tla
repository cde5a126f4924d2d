----------------------------- MODULE PageTable -----------------------------
(***************************************************************************)
(* The page table (P4/page_table.C) in the frames that hold it: a          *)
(* directory whose last entry is the directory itself, so that the tables  *)
(* can be reached by addresses, and page tables that come with the first   *)
(* fault in their range.  The MMU's walk and its translation cache are     *)
(* external.  Frames come from the process pool of ContFramePool.tla, one  *)
(* at a time.  A module that composes it EXTENDS it.                       *)
(***************************************************************************)
EXTENDS Integers, FiniteSets, FiniteSetsExt

CONSTANTS
    ENTRIES_PER_PAGE,   \* of the directory and of each page table: 1024
    ProcessFrames       \* the usable frames of the process pool

\* One flat name space of frames: the shared memory below, the process pool above.
ASSUME PageTableAssumption ==
    /\ ENTRIES_PER_PAGE \in Nat /\ ENTRIES_PER_PAGE > 2
    /\ ProcessFrames \subseteq Nat \ 0..ENTRIES_PER_PAGE - 1
    /\ IsFiniteSet(ProcessFrames) /\ Cardinality(ProcessFrames) >= 2

VARIABLES
    free,               \* the frames of the process pool nobody holds
    mem,                \* what each frame holds, read as entries
    page_directory,     \* the frame of the directory (cr3)
    tlb                 \* the translations the CPU has cached: <<page, frame>>

pageTableVars == <<free, mem, page_directory, tlb>>

Last == ENTRIES_PER_PAGE - 1
Entry == 0..Last
Page == 0..ENTRIES_PER_PAGE * ENTRIES_PER_PAGE - 1
Frame == Entry \cup ProcessFrames

\* An entry is the frame it points to, or -1: not present. Anything else that may be in
\* memory reads as a present entry for frame 0.
NotPresent == -1
Data == [e \in Entry |-> 0]

-----------------------------------------------------------------------------
(* The MMU.                                                                *)

Walk(m, page) ==
    LET table == m[page_directory][page \div ENTRIES_PER_PAGE]
    IN  IF table = NotPresent THEN NotPresent ELSE m[table][page % ENTRIES_PER_PAGE]

\* The frame an access to page reaches, from the cache if it is there.
Translate(page) ==
    IF \E f \in Frame : <<page, f>> \in tlb
    THEN CHOOSE f \in Frame : <<page, f>> \in tlb
    ELSE Walk(mem, page)

-----------------------------------------------------------------------------
(* The code. Addresses are page numbers here, as every address that is     *)
(* taken apart or put together is used for its page and entry only.        *)

get_first_10_bits(page) == page \div ENTRIES_PER_PAGE

\* Deviation: the wrong ten bits.
get_middle_10_bits_first(page) == page \div ENTRIES_PER_PAGE

get_middle_10_bits(page) == page % ENTRIES_PER_PAGE

\* Deviation: construct_pte_address leaves out the table.
PteFrame_first(m, d) == Walk(m, Last * ENTRIES_PER_PAGE)

\* The frames that *construct_pte_address(d, _) and *construct_pde_address(_) are in.
PteFrame(m, d) == Walk(m, Last * ENTRIES_PER_PAGE + d)
PdeFrame(m) == Walk(m, Last * ENTRIES_PER_PAGE + Last)

\* get_frames(1): the first free frame.
get_frame(pool) == Min(pool)

PageTableInit ==
    /\ free = ProcessFrames
    /\ mem = [f \in Frame |-> Data]
    /\ page_directory = 0
    /\ tlb = {}

\* The constructor and load(): the first table maps the shared memory to itself.
PageTableConstruct ==
    LET dir   == get_frame(free)
        table == get_frame(free \ {dir})
    IN  /\ free' = free \ {dir, table}
        /\ mem' = [mem EXCEPT
               ![table] = [i \in Entry |-> i],
               ![dir]   = [d \in Entry |->
                   CASE d = 0 -> table [] d = Last -> dir [] OTHER -> NotPresent]]
        /\ page_directory' = dir
        /\ tlb' = {}

\* Deviation: a new page table is used as the frame came.
WithTable_uninitialized(m, d, f) == [m EXCEPT ![PdeFrame(m)][d] = f]

\* Memory after frame f has become page table d: its entry in the directory is set, and
\* only then can the table be reached and its entries cleared.
WithTable(m, d, f) ==
    LET linked == [m EXCEPT ![PdeFrame(m)][d] = f]
    IN  [linked EXCEPT ![PteFrame(linked, d)] = [i \in Entry |-> NotPresent]]

WithPage(m, d, i, f) == [m EXCEPT ![PteFrame(m, d)][i] = f]

\* handle_fault at page, an address check_address() has accepted: a frame for the page
\* table if there is none, and one for the page.
NeedsTable(page) == mem[PdeFrame(mem)][get_first_10_bits(page)] = NotPresent

MapPage(page, m, pool) ==
    LET d == get_first_10_bits(page)
        i == get_middle_10_bits(page)
    IN  IF m[PteFrame(m, d)][i] # NotPresent
        THEN mem' = m /\ free' = pool
        ELSE /\ pool # {}
             /\ mem' = WithPage(m, d, i, get_frame(pool))
             /\ free' = pool \ {get_frame(pool)}

handle_fault(page) ==
    /\ IF NeedsTable(page)
       THEN /\ free # {}
            /\ MapPage(page, WithTable(mem, get_first_10_bits(page), get_frame(free)),
                       free \ {get_frame(free)})
       ELSE MapPage(page, mem, free)
    /\ UNCHANGED <<page_directory, tlb>>

\* handle_fault when the frames run out, before or after it has a page table.
FaultExhausts(page) ==
    /\ \/ free = {} /\ UNCHANGED <<free, mem>>
       \/ /\ NeedsTable(page) /\ Cardinality(free) = 1
          /\ mem' = WithTable(mem, get_first_10_bits(page), get_frame(free))
          /\ free' = {}
    /\ UNCHANGED <<page_directory, tlb>>

\* Deviation: the translation cache is not flushed.
free_page_no_flush(page) ==
    LET d == get_first_10_bits(page)
        i == get_middle_10_bits(page)
        f == mem[PteFrame(mem, d)][i]
    IN  /\ ~NeedsTable(page) /\ f # NotPresent
        /\ free' = free \cup {f}
        /\ mem' = [mem EXCEPT ![PteFrame(mem, d)][i] = NotPresent]
        /\ UNCHANGED <<page_directory, tlb>>

\* free_page on a page that is present; on any other it only prints a warning.
free_page(page) ==
    LET d == get_first_10_bits(page)
        i == get_middle_10_bits(page)
        f == mem[PteFrame(mem, d)][i]
    IN  /\ ~NeedsTable(page) /\ f # NotPresent
        /\ free' = free \cup {f}
        /\ mem' = [mem EXCEPT ![PteFrame(mem, d)][i] = NotPresent]
        /\ tlb' = {}
        /\ UNCHANGED page_directory

\* An access that reaches frame f: the CPU caches the translation, a store leaves data.
Store(page, f) ==
    /\ mem' = [mem EXCEPT ![f] = Data]
    /\ tlb' = tlb \cup {<<page, f>>}
    /\ UNCHANGED <<free, page_directory>>
=============================================================================
