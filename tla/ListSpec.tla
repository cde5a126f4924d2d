----------------------------- MODULE ListSpec -----------------------------
(***************************************************************************)
(* The list as its users see it: a sequence, and a record of the last call *)
(* with what it answered.                                                  *)
(***************************************************************************)
EXTENDS ReadyList

CONSTANT Data

VARIABLES
    q,      \* the contents
    call    \* <<method, argument or result>> of the last call

Init == q = <<>> /\ call = <<"LinkedList", NULL>>

PushBack(x)  == q' = push_back(q, x)  /\ call' = <<"push_back", x>>
PushFront(x) == q' = push_front(q, x) /\ call' = <<"push_front", x>>
PopFront     == q' = pop_front(q)     /\ call' = <<"pop_front", NULL>>
Remove(x)    == q' = remove(q, x)     /\ call' = <<"remove", x>>
Front        == UNCHANGED q           /\ call' = <<"front", front(q)>>
Back         == UNCHANGED q           /\ call' = <<"back", back(q)>>

Next ==
    \/ \E x \in Data : PushBack(x) \/ PushFront(x) \/ Remove(x)
    \/ PopFront
    \/ Front
    \/ Back

Spec == Init /\ [][Next]_<<q, call>>
=============================================================================
