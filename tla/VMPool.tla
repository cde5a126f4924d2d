------------------------------ MODULE VMPool ------------------------------
(***************************************************************************)
(* The virtual memory pools (P4/vm_pool.C): the sorted list of regions     *)
(* each keeps in its own first page, with the first-fit search, and the    *)
(* question the page-fault handler asks, check_address of page_table.C.    *)
(* A module that composes it EXTENDS it.                                   *)
(***************************************************************************)
EXTENDS Integers, Sequences, Functions, FiniteSetsExt

CONSTANTS
    Pool,           \* the pools: [base_address, size], the size as it was asked for
    PAGE_SIZE,      \* 4 KB
    MaxSize         \* bound: the largest request

ASSUME VMPoolAssumption ==
    /\ PAGE_SIZE \in Nat \ {0} /\ MaxSize \in Nat \ {0}
    /\ \A p \in Pool :
          /\ p.base_address \in Nat \ {0} /\ p.size \in Nat \ {0}
          /\ p.base_address % PAGE_SIZE = 0

VARIABLES
    vmPools,            \* the pools registered with the page table
    allocated_list,     \* the regions of each pool, num_allocated of them
    call                \* the release that has just returned or the allocate that has
                        \* failed, <<method, pool, argument>>; or NoCall

vmPoolVars == <<vmPools, allocated_list, call>>

NoCall == <<"none">>

\* Deviation: sizes are rounded down.
RoundUp_down(n) == (n \div PAGE_SIZE) * PAGE_SIZE

RoundUp(n) == ((n - 1) \div PAGE_SIZE + 1) * PAGE_SIZE

EndOf(p) == p.base_address + RoundUp(p.size)

RegionEnd(r) == r.start_frame + r.size

VMPoolInit ==
    /\ vmPools = {}
    /\ allocated_list = [p \in Pool |-> <<>>]
    /\ call = NoCall

\* is_legitimate: any address will do while the pool is under construction.
is_legitimate(p, a) ==
    \/ allocated_list[p] = <<>>
    \/ \E r \in Range(allocated_list[p]) : r.start_frame <= a /\ a < RegionEnd(r)

\* Deviation: nobody is asked.
check_address_any(a) == TRUE

check_address(a) == \E p \in vmPools : is_legitimate(p, a)

\* The constructor up to its first store to the list, and what follows that store.
VMPoolRegister(p) ==
    /\ vmPools' = vmPools \cup {p}
    /\ UNCHANGED <<allocated_list, call>>

VMPoolReserveList(p) ==
    /\ allocated_list' = [allocated_list EXCEPT
           ![p] = <<[start_frame |-> p.base_address, size |-> PAGE_SIZE]>>]
    /\ UNCHANGED <<vmPools, call>>

\* The space between region i and the next one, or the end of the pool.
GapAfter(p, i) ==
    LET l == allocated_list[p]
    IN  (IF i < Len(l) THEN l[i + 1].start_frame ELSE EndOf(p)) - RegionEnd(l[i])

\* Deviation: a gap that fits exactly is passed over.
Fits_short(p, n) == {i \in DOMAIN allocated_list[p] : GapAfter(p, i) > n}

Fits(p, n) == {i \in DOMAIN allocated_list[p] : GapAfter(p, i) >= n}

\* Deviation: the region starts where its neighbour does.
NewRegion_on_top(p, i, n) == [start_frame |-> allocated_list[p][i].start_frame, size |-> n]

NewRegion(p, i, n) == [start_frame |-> RegionEnd(allocated_list[p][i]), size |-> n]

\* insert_item, at position i + 1.
insert_item(p, x, i) ==
    LET l == allocated_list[p]
    IN  allocated_list' = [allocated_list EXCEPT
            ![p] = SubSeq(l, 1, i) \o <<x>> \o SubSeq(l, i + 1, Len(l))]

\* allocate, when a gap is large enough: the first such one.
allocate(p, n) ==
    LET size == RoundUp(n)
    IN  /\ Fits(p, size) # {}
        /\ insert_item(p, NewRegion(p, Min(Fits(p, size)), size), Min(Fits(p, size)))
        /\ call' = NoCall
        /\ UNCHANGED vmPools

\* allocate ends in assert(false) when no gap is large enough.
allocate_fails(p, n) ==
    /\ Fits(p, RoundUp(n)) = {}
    /\ call' = <<"allocate", p, n>>
    /\ UNCHANGED <<vmPools, allocated_list>>

\* release, of an address allocate returned. The search compares region_num with the
\* index it finds instead of assigning it, so region_num stays 0 and the call returns
\* with a message; freeing the pages and remove_item are never reached.
release(p, a) ==
    /\ call' = <<"release", p, a>>
    /\ UNCHANGED <<vmPools, allocated_list>>
=============================================================================
