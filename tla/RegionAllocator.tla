-------------------------- MODULE RegionAllocator --------------------------
(***************************************************************************)
(* What an allocator of contiguous ranges promises: every range it grants  *)
(* is made of usable units nobody holds, and a released range is free      *)
(* again. ContFramePool.tla and Paging.tla are shown to implement this.    *)
(***************************************************************************)
EXTENDS Integers

CONSTANTS
    Unit,       \* the units the allocator manages, as numbers
    MaxSize     \* the largest request

VARIABLES
    held,       \* the ranges granted and not released, as [base, size]
    stopped     \* the allocator has given up

regionVars == <<held, stopped>>

Units(r) == r.base .. r.base + r.size - 1

Taken == UNION {Units(r) : r \in held}

Init == held = {} /\ stopped = FALSE

Allocate(r) ==
    /\ Units(r) \subseteq Unit \ Taken
    /\ held' = held \cup {r}

Release(r) ==
    /\ r \in held
    /\ held' = held \ {r}

Next ==
    /\ ~stopped
    /\ \/ /\ \E b \in Unit, n \in 1..MaxSize : Allocate([base |-> b, size |-> n])
          /\ UNCHANGED stopped
       \/ /\ \E r \in held : Release(r)
          /\ UNCHANGED stopped
       \/ /\ stopped' = TRUE
          /\ UNCHANGED held

Spec == Init /\ [][Next]_regionVars
=============================================================================
