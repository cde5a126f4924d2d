---------------------------- MODULE LinkedList ----------------------------
(***************************************************************************)
(* LinkedList<T> and Node<T> (P6/linked_list.H, P6/node.H): the chain of   *)
(* nodes, as the methods that compile leave it.  pop_back and get do not   *)
(* compile once instantiated ("size == 1" compares a method, "Node<T> cur  *)
(* = head" converts a pointer) and no code calls them.                     *)
(***************************************************************************)
EXTENDS Integers, Sequences, Functions

CONSTANTS
    Data,       \* what the list holds
    NULL,       \* the null pointer, which front() and back() also answer
    MaxNodes    \* bound: nodes ever allocated (P6's heap never reuses memory)

ASSUME LinkedListAssumption == MaxNodes \in Nat /\ NULL \notin Data /\ NULL \notin Nat

VARIABLES
    list,       \* [len, head, tail], the fields of the list
    node,       \* the nodes ever allocated, in allocation order: [data, prev, next]
    deleted,    \* the nodes handed to delete
    call        \* <<method, argument or result>> of the last call

vars == <<list, node, deleted, call>>

Init ==
    /\ list = [len |-> 0, head |-> NULL, tail |-> NULL]
    /\ node = <<>>
    /\ deleted = {}
    /\ call = <<"LinkedList", NULL>>

\* new Node<T>(_data): the next address of the bump allocator.
NewNode(x) == [data |-> x, prev |-> NULL, next |-> NULL]
CanAllocate == Len(node) < MaxNodes

\* a->prev = b and a->next = b.
SetPrev(n, a, b) == [n EXCEPT ![a].prev = b]
SetNext(n, a, b) == [n EXCEPT ![a].next = b]

PushBack(x) ==
    LET new == Len(node) + 1 IN
    /\ CanAllocate
    /\ IF list.len = 0
       THEN /\ node' = Append(node, NewNode(x))
            /\ list' = [len |-> 1, head |-> new, tail |-> new]
       ELSE /\ node' = SetNext(Append(node, [NewNode(x) EXCEPT !.prev = list.tail]), list.tail, new)
            /\ list' = [len |-> list.len + 1, head |-> list.head, tail |-> new]
    /\ call' = <<"push_back", x>>
    /\ UNCHANGED deleted

PushFront(x) ==
    LET new == Len(node) + 1 IN
    /\ CanAllocate
    /\ IF list.len = 0
       THEN /\ node' = Append(node, NewNode(x))
            /\ list' = [len |-> 1, head |-> new, tail |-> new]
       ELSE /\ node' = SetPrev(Append(node, [NewNode(x) EXCEPT !.next = list.head]), list.head, new)
            /\ list' = [len |-> list.len + 1, head |-> new, tail |-> list.tail]
    /\ call' = <<"push_front", x>>
    /\ UNCHANGED deleted

\* Deviation: the new head keeps its link to the node that was deleted.
PopFront_keeps_prev ==
    /\ IF list.len <= 1
       THEN /\ list' = [len |-> 0, head |-> NULL, tail |-> NULL]
            /\ UNCHANGED node
       ELSE /\ list' = [len |-> list.len - 1, head |-> node[list.head].next, tail |-> list.tail]
            /\ UNCHANGED node
    /\ deleted' = IF list.len = 0 THEN deleted ELSE deleted \cup {list.head}
    /\ call' = <<"pop_front", NULL>>

PopFront ==
    /\ CASE list.len = 0 -> UNCHANGED <<list, node, deleted>>
         [] list.len = 1 ->
              /\ list' = [len |-> 0, head |-> NULL, tail |-> NULL]
              /\ deleted' = deleted \cup {list.head}
              /\ UNCHANGED node
         [] OTHER -> LET second == node[list.head].next IN
              /\ list' = [len |-> list.len - 1, head |-> second, tail |-> list.tail]
              /\ node' = SetPrev(node, second, NULL)
              /\ deleted' = deleted \cup {list.head}
    /\ call' = <<"pop_front", NULL>>

\* remove(Node *): the fields and nodes left when node d is taken out of the chain.
Unlink(d, l, n) ==
    LET p == n[d].prev
        s == n[d].next
        first == d = l.head
        last == d = l.tail
    IN  [list |-> [len  |-> l.len - 1,
                   head |-> IF ~first THEN l.head ELSE IF last THEN NULL ELSE s,
                   tail |-> IF ~last THEN l.tail ELSE IF first THEN NULL ELSE p],
         node |-> CASE first /\ last -> n
                    [] first /\ ~last -> SetPrev(n, s, NULL)
                    [] ~first /\ last -> SetNext(n, p, NULL)
                    [] OTHER -> SetPrev(SetNext(n, p, s), s, p)]

\* Deviation: the loop stops after the first match.
Visit_first(w, x) ==
    IF w.cur = NULL THEN w
    ELSE IF w.node[w.cur].data # x THEN [w EXCEPT !.cur = w.node[w.cur].next]
    ELSE LET left == Unlink(w.cur, w.list, w.node)
         IN  [cur |-> NULL, list |-> left.list, node |-> left.node,
              deleted |-> w.deleted \cup {w.cur}]

\* One turn of the loop of remove(T): it steps past the node before it unlinks it.
Visit(w, x) ==
    IF w.cur = NULL THEN w
    ELSE IF w.node[w.cur].data # x THEN [w EXCEPT !.cur = w.node[w.cur].next]
    ELSE LET left == Unlink(w.cur, w.list, w.node)
         IN  [cur |-> w.node[w.cur].next, list |-> left.list, node |-> left.node,
              deleted |-> w.deleted \cup {w.cur}]

\* The loop from the head; a chain has no more nodes to visit than were allocated.
Walk(x) ==
    LET turn[i \in 0..Len(node)] ==
          IF i = 0 THEN [cur |-> list.head, list |-> list, node |-> node, deleted |-> deleted]
          ELSE Visit(turn[i - 1], x)
    IN  turn[Len(node)]

\* remove(T): unlinks every node that holds x.
Remove(x) ==
    LET end == Walk(x) IN
    /\ list' = end.list
    /\ node' = end.node
    /\ deleted' = end.deleted
    /\ call' = <<"remove", x>>

DataAt(n) == IF n = NULL THEN NULL ELSE node[n].data

Front == call' = <<"front", DataAt(list.head)>> /\ UNCHANGED <<list, node, deleted>>
Back  == call' = <<"back", DataAt(list.tail)>>  /\ UNCHANGED <<list, node, deleted>>

Next ==
    \/ \E x \in Data : PushBack(x) \/ PushFront(x) \/ Remove(x)
    \/ PopFront
    \/ Front
    \/ Back

Spec == Init /\ [][Next]_vars

-----------------------------------------------------------------------------
(* Properties.                                                             *)

\* The nodes of n reached by next from node a, at most one more than there are.
Following(a, n) ==
    LET at[i \in 1..Len(n) + 1] ==
          IF i = 1 THEN a
          ELSE IF at[i - 1] = NULL THEN NULL ELSE n[at[i - 1]].next
    IN  [i \in {j \in 1..Len(n) + 1 : at[j] # NULL} |-> at[i]]

Chain == Following(list.head, node)

\* The chain is sound after every call (linked_list.H): len nodes from head to tail, each
\* pointing back at the one before it, none of them deleted, and no node lost: what is
\* allocated and not in the chain was handed to delete.
WellLinked ==
    LET c == Chain IN
    /\ Len(c) = list.len
    /\ list.head = IF c = <<>> THEN NULL ELSE c[1]
    /\ list.tail = IF c = <<>> THEN NULL ELSE c[Len(c)]
    /\ \A i \in DOMAIN c : node[c[i]].prev = IF i = 1 THEN NULL ELSE c[i - 1]
    /\ Range(c) = DOMAIN node \ deleted

Contents == [i \in DOMAIN Chain |-> node[Chain[i]].data]

Abstract == INSTANCE ListSpec WITH q <- Contents

\* Every method does to the chain what the sequence it stands for says, answers what the
\* sequence says, and nothing else: the scheduler may treat the list as a FIFO queue.
ImplementsSequence == Abstract!Spec
=============================================================================
