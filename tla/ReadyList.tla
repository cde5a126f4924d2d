----------------------------- MODULE ReadyList -----------------------------
(***************************************************************************)
(* What LinkedList<T> (P6/linked_list.H) promises its one user, the        *)
(* scheduler: a sequence, oldest element first.  LinkedList.tla models the *)
(* chain of nodes that implements it.                                      *)
(***************************************************************************)
EXTENDS Naturals, Sequences, Functions

CONSTANT NULL   \* what front() and back() answer when the list is empty

\* front(): the data of the head node, NULL when there is none.
front(q) == IF q = <<>> THEN NULL ELSE Head(q)

\* back(): the data of the tail node, NULL when there is none.
back(q) == IF q = <<>> THEN NULL ELSE q[Len(q)]

push_back(q, x) == Append(q, x)

push_front(q, x) == <<x>> \o q

\* pop_front() on an empty list does nothing.
pop_front(q) == IF q = <<>> THEN q ELSE Tail(q)

\* remove(T): takes out every element equal to x.
remove(q, x) ==
    LET kept[i \in 0..Len(q)] ==
          IF i = 0 THEN <<>>
          ELSE IF q[i] = x THEN kept[i - 1] ELSE Append(kept[i - 1], q[i])
    IN  IF x \in Range(q) THEN kept[Len(q)] ELSE q

\* No element of the list is there twice.
NoDuplicates(q) == \A i, j \in DOMAIN q : q[i] = q[j] => i = j
=============================================================================
