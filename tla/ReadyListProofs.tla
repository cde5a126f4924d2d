-------------------------- MODULE ReadyListProofs --------------------------
(***************************************************************************)
(* What the list operations the scheduler uses do to the elements of a     *)
(* list and to its freedom from duplicates, for every list.                *)
(***************************************************************************)
EXTENDS ReadyList, TLAPS

\* push_back adds its argument and nothing else, at the end (linked_list.H:57-71).
LEMMA PushBackElements ==
    ASSUME NEW S, NEW q \in Seq(S), NEW x \in S
    PROVE  /\ push_back(q, x) \in Seq(S)
           /\ Range(push_back(q, x)) = Range(q) \cup {x}
<1>1. Len(Append(q, x)) = Len(q) + 1 /\ DOMAIN Append(q, x) = 1..Len(q) + 1
  OBVIOUS
<1>2. \A i \in 1..Len(q) : Append(q, x)[i] = q[i]
  OBVIOUS
<1>3. Append(q, x)[Len(q) + 1] = x
  OBVIOUS
<1>4. Range(Append(q, x)) = Range(q) \cup {x}
  BY <1>1, <1>2, <1>3 DEF Range
<1>5. Append(q, x) \in Seq(S)
  OBVIOUS
<1> QED
  BY <1>4, <1>5 DEF push_back

\* A thread that is not in the queue can be pushed without doubling anything.
LEMMA PushBackKeepsNoDuplicates ==
    ASSUME NEW S, NEW q \in Seq(S), NEW x \in S,
           NoDuplicates(q), x \notin Range(q)
    PROVE  NoDuplicates(push_back(q, x))
<1>1. DOMAIN Append(q, x) = 1..Len(q) + 1 /\ DOMAIN q = 1..Len(q)
  OBVIOUS
<1>2. \A i \in 1..Len(q) : Append(q, x)[i] = q[i] /\ q[i] # x
  BY <1>1 DEF Range
<1>3. Append(q, x)[Len(q) + 1] = x
  OBVIOUS
<1> QED
  BY <1>1, <1>2, <1>3 DEF push_back, NoDuplicates

\* Only the empty list has no elements.
LEMMA EmptyHasNoElements == Range(<<>>) = {}
  BY DEF Range

\* The front of a list that is not empty is one of its elements (linked_list.H:124-129).
LEMMA FrontIsAnElement ==
    ASSUME NEW S, NULL \notin S, NEW q \in Seq(S)
    PROVE  /\ q = <<>> <=> front(q) = NULL
           /\ q # <<>> => front(q) \in S /\ front(q) \in Range(q) /\ front(q) = q[1]
  BY DEF front, Range

\* pop_front on a list without duplicates takes out its front and nothing else
\* (linked_list.H:90-105).
LEMMA PopFrontElements ==
    ASSUME NEW S, NULL \notin S, NEW q \in Seq(S), q # <<>>, NoDuplicates(q)
    PROVE  /\ pop_front(q) \in Seq(S)
           /\ NoDuplicates(pop_front(q))
           /\ Range(pop_front(q)) = Range(q) \ {front(q)}
<1>1. Len(Tail(q)) = Len(q) - 1 /\ Len(q) \in Nat /\ Len(q) > 0 /\ Tail(q) \in Seq(S)
  OBVIOUS
<1>2. DOMAIN Tail(q) = 1..Len(q) - 1 /\ DOMAIN q = 1..Len(q)
  BY <1>1
<1>3. \A i \in 1..Len(q) - 1 : Tail(q)[i] = q[i + 1]
  OBVIOUS
<1>4. NoDuplicates(Tail(q))
  BY <1>1, <1>2, <1>3 DEF NoDuplicates
<1>5. \A i \in 1..Len(q) : q[i] = q[1] => i = 1
  BY <1>1, <1>2 DEF NoDuplicates
<1>6. Range(Tail(q)) \subseteq Range(q) \ {q[1]}
  BY <1>1, <1>2, <1>3, <1>5 DEF Range
<1>7. Range(q) \ {q[1]} \subseteq Range(Tail(q))
  <2> SUFFICES ASSUME NEW i \in 1..Len(q), q[i] # q[1]
               PROVE  q[i] \in Range(Tail(q))
    BY <1>2 DEF Range
  <2>1. i - 1 \in 1..Len(q) - 1 /\ Tail(q)[i - 1] = q[i]
    BY <1>1, <1>3
  <2> QED
    BY <2>1, <1>2 DEF Range
<1> QED
  BY <1>1, <1>4, <1>6, <1>7 DEF pop_front, front

\* Removing what is not in the list changes nothing (linked_list.H:174-186).
LEMMA RemoveAbsent ==
    ASSUME NEW q, NEW x, x \notin Range(q)
    PROVE  remove(q, x) = q
  BY DEF remove
=============================================================================
