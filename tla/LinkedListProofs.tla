------------------------- MODULE LinkedListProofs -------------------------
(***************************************************************************)
(* Theorems about LinkedList.tla, for any data and any number of nodes:    *)
(* the chain is sound after every call, and the list implements the        *)
(* sequence of ListSpec.tla, every answer included.                        *)
(*                                                                         *)
(* They rest on one inductive invariant, HasAChain: some row of different  *)
(* nodes is linked in both directions.  The row is named, not followed, so *)
(* a method's effect on it is a matter of neighbours; what following it    *)
(* from the head gives is shown once (ChainFollowed).                      *)
(***************************************************************************)
EXTENDS LinkedList, WellFoundedInduction, TLAPS

-----------------------------------------------------------------------------
(* Nodes.                                                                  *)

\* What list and nodes are made of.
Link == Nat \cup {NULL}
NodeRecord == [data : Data, prev : Link, next : Link]
ListRecord == [len : Nat, head : Link, tail : Link]

\* A sequence with one element replaced.
LEMMA ReplaceOne ==
    ASSUME NEW S, NEW n \in Seq(S), NEW a \in 1..Len(n), NEW r \in S
    PROVE  /\ [n EXCEPT ![a] = r] \in Seq(S)
           /\ Len([n EXCEPT ![a] = r]) = Len(n)
           /\ \A e \in 1..Len(n) : [n EXCEPT ![a] = r][e] = IF e = a THEN r ELSE n[e]
  OBVIOUS

\* Setting a prev link changes that field and nothing else.
LEMMA SetPrevSets ==
    ASSUME NEW n \in Seq(NodeRecord), NEW a \in 1..Len(n), NEW b \in Link
    PROVE  /\ SetPrev(n, a, b) \in Seq(NodeRecord)
           /\ Len(SetPrev(n, a, b)) = Len(n)
           /\ \A e \in 1..Len(n) :
                /\ SetPrev(n, a, b)[e].data = n[e].data
                /\ SetPrev(n, a, b)[e].prev = IF e = a THEN b ELSE n[e].prev
                /\ SetPrev(n, a, b)[e].next = n[e].next
<1> DEFINE r == [n[a] EXCEPT !.prev = b]
<1>1. SetPrev(n, a, b) = [n EXCEPT ![a] = r]
  BY DEF SetPrev
<1>2. n[a] \in NodeRecord
  OBVIOUS
<1>3. r \in NodeRecord /\ r.data = n[a].data /\ r.prev = b /\ r.next = n[a].next
  BY <1>2 DEF NodeRecord
<1> HIDE DEF r
<1> QED
  BY <1>1, <1>3, ReplaceOne

\* Setting a next link changes that field and nothing else.
LEMMA SetNextSets ==
    ASSUME NEW n \in Seq(NodeRecord), NEW a \in 1..Len(n), NEW b \in Link
    PROVE  /\ SetNext(n, a, b) \in Seq(NodeRecord)
           /\ Len(SetNext(n, a, b)) = Len(n)
           /\ \A e \in 1..Len(n) :
                /\ SetNext(n, a, b)[e].data = n[e].data
                /\ SetNext(n, a, b)[e].next = IF e = a THEN b ELSE n[e].next
                /\ SetNext(n, a, b)[e].prev = n[e].prev
<1> DEFINE r == [n[a] EXCEPT !.next = b]
<1>1. SetNext(n, a, b) = [n EXCEPT ![a] = r]
  BY DEF SetNext
<1>2. n[a] \in NodeRecord
  OBVIOUS
<1>3. r \in NodeRecord /\ r.data = n[a].data /\ r.next = b /\ r.prev = n[a].prev
  BY <1>2 DEF NodeRecord
<1> HIDE DEF r
<1> QED
  BY <1>1, <1>3, ReplaceOne

-----------------------------------------------------------------------------
(* The chain.                                                              *)

\* c[1], c[2], ... are different nodes, and all that have not been deleted.
Live(c, m, n, gone) ==
    /\ c \in [1..m -> 1..Len(n)]
    /\ \A i, j \in 1..m : c[i] = c[j] => i = j
    /\ gone \in SUBSET (1..Len(n))
    /\ \A e \in 1..Len(n) : e \in gone <=> \A i \in 1..m : c[i] # e

\* Each points back at the one before it and on to the one after it.
Neighbours(c, m, n) ==
    \A i \in 1..m : /\ n[c[i]].prev = IF i = 1 THEN NULL ELSE c[i - 1]
                    /\ n[c[i]].next = IF i = m THEN NULL ELSE c[i + 1]

\* The list's fields are its ends and its length, which is at most that of the heap.
Ends(c, l, n) ==
    /\ l \in ListRecord
    /\ l.len <= Len(n)
    /\ l.head = IF l.len = 0 THEN NULL ELSE c[1]
    /\ l.tail = IF l.len = 0 THEN NULL ELSE c[l.len]

\* The list l is the chain c of nodes of n, gone those deleted.
ChainIs(c, l, n, gone) ==
    /\ n \in Seq(NodeRecord)
    /\ Live(c, l.len, n, gone)
    /\ Neighbours(c, l.len, n)
    /\ Ends(c, l, n)

\* The first m nodes of c but the k-th.
Without(c, m, k) == [i \in 1..m - 1 |-> IF i < k THEN c[i] ELSE c[i + 1]]

\* The nodes of n hold in N what they held.
SameData(N, n) == Len(N) = Len(n) /\ \A e \in 1..Len(n) : N[e].data = n[e].data

\* The nodes N are the nodes n with the neighbours of the chain's k-th node joined.
Joined(N, n, c, m, k) ==
    /\ N \in Seq(NodeRecord) /\ SameData(N, n)
    /\ \A e \in 1..Len(n) :
         /\ N[e].prev = IF k < m /\ e = c[k + 1] THEN IF k = 1 THEN NULL ELSE c[k - 1]
                        ELSE n[e].prev
         /\ N[e].next = IF k > 1 /\ e = c[k - 1] THEN IF k = m THEN NULL ELSE c[k + 1]
                        ELSE n[e].next

\* remove(Node *) joins the neighbours of the node, in each of its four cases
\* (linked_list.H:156-169).
LEMMA UnlinkJoins ==
    ASSUME NEW c, NEW l, NEW n, NEW gone, ChainIs(c, l, n, gone), NEW k \in 1..l.len
    PROVE  Joined(Unlink(c[k], l, n).node, n, c, l.len, k)
<1> DEFINE m == l.len
           p == n[c[k]].prev
           s == n[c[k]].next
           N == Unlink(c[k], l, n).node
<1>1. /\ m \in Nat /\ n \in Seq(NodeRecord) /\ c \in [1..m -> 1..Len(n)]
      /\ \A i, j \in 1..m : c[i] = c[j] => i = j
  BY DEF ChainIs, Ends, Live, ListRecord
<1>2. /\ p = IF k = 1 THEN NULL ELSE c[k - 1]
      /\ s = IF k = m THEN NULL ELSE c[k + 1]
  BY DEF ChainIs, Neighbours
<1>3. l.head = c[1] /\ l.tail = c[m] /\ 1 \in 1..m /\ m \in 1..m /\ k \in Nat
  BY <1>1 DEF ChainIs, Ends
<1>4. (c[k] = l.head <=> k = 1) /\ (c[k] = l.tail <=> k = m)
  BY <1>1, <1>3
<1>5. N = CASE k = 1 /\ k = m -> n
            [] k = 1 /\ k # m -> SetPrev(n, s, NULL)
            [] k # 1 /\ k = m -> SetNext(n, p, NULL)
            [] OTHER -> SetPrev(SetNext(n, p, s), s, p)
  <2> HIDE DEF m
  <2> QED
    BY <1>4 DEF Unlink
<1>6. /\ k # m => k + 1 \in 1..m /\ c[k + 1] \in 1..Len(n)
      /\ k # 1 => k - 1 \in 1..m /\ c[k - 1] \in 1..Len(n)
  <2>1. (k # m => k + 1 \in 1..m) /\ (k # 1 => k - 1 \in 1..m)
    BY <1>1
  <2>2. \A i \in 1..m : c[i] \in 1..Len(n)
    BY <1>1
  <2> HIDE DEF m
  <2> QED
    BY <2>1, <2>2
<1>7. /\ NULL \in Link
      /\ k # m => c[k + 1] \in Link
      /\ k # 1 => c[k - 1] \in Link
  BY <1>1, <1>6 DEF Link
<1>8. (k < m <=> k # m) /\ (k > 1 <=> k # 1)
  BY <1>1, <1>3
<1> HIDE DEF m, p, s, N
<1>9. CASE k = 1 /\ k = m
  <2>1. N = n
    BY <1>5, <1>9
  <2> QED
    BY <1>1, <1>8, <1>9, <2>1 DEF Joined, SameData, N, m
<1>10. CASE k = 1 /\ k # m
  <2>1. N = SetPrev(n, c[k + 1], NULL)
    BY <1>2, <1>5, <1>10
  <2>2. /\ N \in Seq(NodeRecord) /\ Len(N) = Len(n)
        /\ \A e \in 1..Len(n) :
             /\ N[e].data = n[e].data
             /\ N[e].prev = IF e = c[k + 1] THEN NULL ELSE n[e].prev
             /\ N[e].next = n[e].next
    <3>1. n \in Seq(NodeRecord) /\ c[k + 1] \in 1..Len(n) /\ NULL \in Link
      BY <1>1, <1>6, <1>7, <1>10
    <3> QED
      BY <2>1, <3>1, SetPrevSets, SMTT(30)
  <2>3. Joined(N, n, c, m, k)
    BY <1>8, <1>10, <2>2 DEF Joined, SameData
  <2> QED
    BY <2>3 DEF N, m
<1>11. CASE k # 1 /\ k = m
  <2>1. N = SetNext(n, c[k - 1], NULL)
    BY <1>2, <1>5, <1>11
  <2>2. /\ N \in Seq(NodeRecord) /\ Len(N) = Len(n)
        /\ \A e \in 1..Len(n) :
             /\ N[e].data = n[e].data
             /\ N[e].next = IF e = c[k - 1] THEN NULL ELSE n[e].next
             /\ N[e].prev = n[e].prev
    <3>1. n \in Seq(NodeRecord) /\ c[k - 1] \in 1..Len(n) /\ NULL \in Link
      BY <1>1, <1>6, <1>7, <1>11
    <3> QED
      BY <2>1, <3>1, SetNextSets, SMTT(30)
  <2>3. Joined(N, n, c, m, k)
    BY <1>8, <1>11, <2>2 DEF Joined, SameData
  <2> QED
    BY <2>3 DEF N, m
<1>12. CASE k # 1 /\ k # m
  <2> DEFINE M == SetNext(n, c[k - 1], c[k + 1])
  <2>1. N = SetPrev(M, c[k + 1], c[k - 1])
    BY <1>2, <1>5, <1>12
  <2>2. /\ M \in Seq(NodeRecord) /\ Len(M) = Len(n)
        /\ \A e \in 1..Len(n) :
             /\ M[e].data = n[e].data
             /\ M[e].prev = n[e].prev
             /\ M[e].next = IF e = c[k - 1] THEN c[k + 1] ELSE n[e].next
    <3>1. n \in Seq(NodeRecord) /\ c[k - 1] \in 1..Len(n) /\ c[k + 1] \in Link
      BY <1>1, <1>6, <1>7, <1>12
    <3>2. M = SetNext(n, c[k - 1], c[k + 1])
      OBVIOUS
    <3> HIDE DEF M
    <3> QED
      BY <3>1, <3>2, SetNextSets, SMTT(30)
  <2> HIDE DEF M
  <2>3. /\ N \in Seq(NodeRecord) /\ Len(N) = Len(M)
        /\ \A e \in 1..Len(M) :
             /\ N[e].data = M[e].data
             /\ N[e].prev = IF e = c[k + 1] THEN c[k - 1] ELSE M[e].prev
             /\ N[e].next = M[e].next
    <3> DEFINE a == c[k + 1]
               b == c[k - 1]
    <3>1. M \in Seq(NodeRecord) /\ a \in 1..Len(M) /\ b \in Link
      BY <1>6, <1>7, <1>12, <2>2
    <3>2. N = SetPrev(M, a, b)
      BY <2>1
    <3> HIDE DEF a, b, N
    <3>3. /\ N \in Seq(NodeRecord) /\ Len(N) = Len(M)
          /\ \A e \in 1..Len(M) :
               /\ N[e].data = M[e].data
               /\ N[e].prev = IF e = a THEN b ELSE M[e].prev
               /\ N[e].next = M[e].next
      BY <3>1, <3>2, SetPrevSets, SMTT(30)
    <3> QED
      BY <3>3 DEF a, b
  <2>4. Joined(N, n, c, m, k)
    BY <1>8, <1>12, <2>2, <2>3 DEF Joined, SameData
  <2> QED
    BY <2>4 DEF N, m
<1> QED
  BY <1>9, <1>10, <1>11, <1>12

\* What ChainIs says, written out.
LEMMA ChainFacts ==
    ASSUME NEW c, NEW l, NEW n, NEW gone, ChainIs(c, l, n, gone)
    PROVE  /\ l.len \in Nat /\ Len(n) \in Nat /\ l.len <= Len(n)
           /\ l.head \in Link /\ l.tail \in Link /\ n \in Seq(NodeRecord)
           /\ c \in [1..l.len -> 1..Len(n)] /\ gone \in SUBSET (1..Len(n))
           /\ \A i \in 1..l.len : c[i] \in 1..Len(n)
           /\ \A i, j \in 1..l.len : c[i] = c[j] => i = j
           /\ \A e \in 1..Len(n) : e \in gone <=> \A i \in 1..l.len : c[i] # e
           /\ \A i \in 1..l.len : /\ n[c[i]].prev = IF i = 1 THEN NULL ELSE c[i - 1]
                                  /\ n[c[i]].next = IF i = l.len THEN NULL ELSE c[i + 1]
           /\ l.head = IF l.len = 0 THEN NULL ELSE c[1]
           /\ l.tail = IF l.len = 0 THEN NULL ELSE c[l.len]
<1>1. /\ l.len \in Nat /\ Len(n) \in Nat /\ l.len <= Len(n)
      /\ l.head \in Link /\ l.tail \in Link /\ n \in Seq(NodeRecord)
  BY DEF ChainIs, Ends, ListRecord
<1>2. /\ l.head = IF l.len = 0 THEN NULL ELSE c[1]
      /\ l.tail = IF l.len = 0 THEN NULL ELSE c[l.len]
  BY DEF ChainIs, Ends
<1>3. \A i \in 1..l.len : /\ n[c[i]].prev = IF i = 1 THEN NULL ELSE c[i - 1]
                          /\ n[c[i]].next = IF i = l.len THEN NULL ELSE c[i + 1]
  BY DEF ChainIs, Neighbours
<1>4. /\ c \in [1..l.len -> 1..Len(n)] /\ gone \in SUBSET (1..Len(n))
      /\ \A i, j \in 1..l.len : c[i] = c[j] => i = j
      /\ \A e \in 1..Len(n) : e \in gone <=> \A i \in 1..l.len : c[i] # e
  BY Zenon DEF ChainIs, Live
<1>5. \A i \in 1..l.len : c[i] \in 1..Len(n)
  BY <1>4
<1> QED
  BY <1>1, <1>2, <1>3, <1>4, <1>5

\* The chain without its k-th node has the others, each once.
LEMMA WithoutIsLive ==
    ASSUME NEW m \in Nat, NEW c, NEW n, NEW N, NEW gone, Live(c, m, n, gone), NEW k \in 1..m,
           Len(N) = Len(n)
    PROVE  Live(Without(c, m, k), m - 1, N, gone \cup {c[k]})
<1> DEFINE d == Without(c, m, k)
<1>1. /\ c \in [1..m -> 1..Len(n)]
      /\ \A i, j \in 1..m : c[i] = c[j] => i = j
      /\ gone \in SUBSET (1..Len(n))
      /\ \A e \in 1..Len(n) : e \in gone <=> \A i \in 1..m : c[i] # e
  BY DEF Live
<1>2. \A i \in 1..m - 1 : i \in 1..m /\ i + 1 \in 1..m /\ d[i] = IF i < k THEN c[i] ELSE c[i + 1]
  BY DEF Without
<1>3. d \in [1..m - 1 -> 1..Len(n)]
  <2>1. d = [i \in 1..m - 1 |-> IF i < k THEN c[i] ELSE c[i + 1]]
    BY DEF Without
  <2> HIDE DEF d
  <2> QED
    BY <1>1, <1>2, <2>1
<1> HIDE DEF d
<1>4. ASSUME NEW i \in 1..m - 1, NEW j \in 1..m - 1, d[i] = d[j] PROVE i = j
  <2> DEFINE a == IF i < k THEN i ELSE i + 1
             b == IF j < k THEN j ELSE j + 1
  <2>1. a \in 1..m /\ b \in 1..m /\ d[i] = c[a] /\ d[j] = c[b]
    BY <1>2
  <2>2. a = b
    <3> HIDE DEF a, b
    <3> QED
      BY <1>1, <1>4, <2>1
  <2> QED
    BY <2>2
<1>5. ASSUME NEW e \in 1..Len(n)
      PROVE  e \in gone \cup {c[k]} <=> \A i \in 1..m - 1 : d[i] # e
  <2>1. ASSUME NEW i \in 1..m - 1, d[i] = e PROVE e \notin gone \cup {c[k]}
    <3>1. PICK a \in 1..m : a # k /\ c[a] = e
      <4>1. i < k => i # k
        OBVIOUS
      <4>2. ~(i < k) => i + 1 # k
        OBVIOUS
      <4> QED
        BY <1>2, <2>1, <4>1, <4>2
    <3>2. e # c[k]
      BY <1>1, <3>1
    <3> QED
      BY <1>1, <3>1, <3>2
  <2>2. ASSUME e \notin gone \cup {c[k]} PROVE \E i \in 1..m - 1 : d[i] = e
    <3>1. PICK j \in 1..m : c[j] = e
      BY <1>1, <2>2
    <3>2. j # k
      BY <2>2, <3>1
    <3>3. CASE j < k
      BY <1>2, <3>1, <3>3
    <3>4. CASE j > k
      <4>1. j - 1 \in 1..m - 1 /\ ~(j - 1 < k) /\ j - 1 + 1 = j
        BY <3>4
      <4> QED
        BY <1>2, <3>1, <4>1
    <3> QED
      BY <3>2, <3>3, <3>4
  <2> QED
    BY <2>1, <2>2
<1>6. gone \cup {c[k]} \in SUBSET (1..Len(n))
  <2>1. c[k] \in 1..Len(n)
    BY <1>1
  <2> QED
    BY <1>1, <2>1
<1>7. Live(d, m - 1, N, gone \cup {c[k]})
  BY <1>3, <1>4, <1>5, <1>6 DEF Live
<1> QED
  BY <1>7 DEF d

\* The neighbours that remain point to each other.
LEMMA WithoutIsLinked ==
    ASSUME NEW m \in Nat, NEW c, NEW n, NEW N, NEW gone, Live(c, m, n, gone),
           Neighbours(c, m, n), NEW k \in 1..m, Joined(N, n, c, m, k)
    PROVE  Neighbours(Without(c, m, k), m - 1, N)
<1> DEFINE d == Without(c, m, k)
<1>1. /\ \A i \in 1..m : c[i] \in 1..Len(n)
      /\ \A i, j \in 1..m : c[i] = c[j] => i = j
  BY DEF Live
<1>2. \A i \in 1..m - 1 : i \in 1..m /\ i + 1 \in 1..m /\ d[i] = IF i < k THEN c[i] ELSE c[i + 1]
  BY DEF Without
<1>3. \A i \in 1..m : /\ n[c[i]].prev = IF i = 1 THEN NULL ELSE c[i - 1]
                      /\ n[c[i]].next = IF i = m THEN NULL ELSE c[i + 1]
  BY DEF Neighbours
<1>4. ASSUME NEW j \in 1..m
      PROVE  /\ N[c[j]].prev = IF j = k + 1 THEN IF k = 1 THEN NULL ELSE c[k - 1]
                               ELSE IF j = 1 THEN NULL ELSE c[j - 1]
             /\ N[c[j]].next = IF j = k - 1 THEN IF k = m THEN NULL ELSE c[k + 1]
                               ELSE IF j = m THEN NULL ELSE c[j + 1]
  <2>1. k < m => k + 1 \in 1..m /\ (c[j] = c[k + 1] <=> j = k + 1)
    BY <1>1
  <2>2. k > 1 => k - 1 \in 1..m /\ (c[j] = c[k - 1] <=> j = k - 1)
    BY <1>1
  <2>3. (j = k + 1 => k < m) /\ (j = k - 1 => k > 1)
    OBVIOUS
  <2>4. /\ N[c[j]].prev = IF k < m /\ c[j] = c[k + 1] THEN IF k = 1 THEN NULL ELSE c[k - 1]
                          ELSE n[c[j]].prev
        /\ N[c[j]].next = IF k > 1 /\ c[j] = c[k - 1] THEN IF k = m THEN NULL ELSE c[k + 1]
                          ELSE n[c[j]].next
    BY <1>1 DEF Joined
  <2> QED
    BY <1>3, <2>1, <2>2, <2>3, <2>4
<1> HIDE DEF d
<1>5. SUFFICES ASSUME NEW i \in 1..m - 1
               PROVE  /\ N[d[i]].prev = IF i = 1 THEN NULL ELSE d[i - 1]
                      /\ N[d[i]].next = IF i = m - 1 THEN NULL ELSE d[i + 1]
  BY DEF Neighbours, d
<1>6. CASE i < k
  <2>1. d[i] = c[i] /\ i \in 1..m
    BY <1>2, <1>6
  <2>2. i # 1 => i - 1 \in 1..m - 1 /\ d[i - 1] = c[i - 1]
    BY <1>2, <1>6
  <2>3. i # m - 1 => i + 1 \in 1..m - 1 /\ d[i + 1] = IF i = k - 1 THEN c[k + 1] ELSE c[i + 1]
    <3>1. i + 1 < k <=> i # k - 1
      BY <1>6
    <3>2. i = k - 1 => i + 1 + 1 = k + 1
      OBVIOUS
    <3>3. i # m - 1 => i + 1 \in 1..m - 1
      OBVIOUS
    <3> QED
      BY <1>2, <3>1, <3>2, <3>3
  <2>4. N[c[i]].prev = IF i = 1 THEN NULL ELSE c[i - 1]
    BY <1>4, <1>6
  <2>5. N[c[i]].next = IF i = k - 1 THEN IF k = m THEN NULL ELSE c[k + 1] ELSE c[i + 1]
    BY <1>4, <1>6
  <2>6. i = m - 1 => i = k - 1 /\ k = m
    BY <1>6
  <2>7. i # m - 1 /\ i = k - 1 => k # m
    OBVIOUS
  <2> QED
    BY <2>1, <2>2, <2>3, <2>4, <2>5, <2>6, <2>7
<1>7. CASE ~(i < k)
  <2>1. d[i] = c[i + 1] /\ i + 1 \in 1..m
    BY <1>2, <1>7
  <2>2. i # 1 => i - 1 \in 1..m - 1 /\ d[i - 1] = IF i = k THEN c[k - 1] ELSE c[i]
    <3>1. i # 1 => i - 1 \in 1..m - 1 /\ i - 1 + 1 = i
      OBVIOUS
    <3>2. i - 1 < k <=> i = k
      BY <1>7
    <3> QED
      BY <1>2, <3>1, <3>2
  <2>3. i # m - 1 => i + 1 \in 1..m - 1 /\ d[i + 1] = c[i + 1 + 1]
    BY <1>2, <1>7
  <2>4. N[c[i + 1]].prev = IF i = k THEN IF k = 1 THEN NULL ELSE c[k - 1] ELSE c[i]
    <3>1. i + 1 # 1 /\ i + 1 - 1 = i /\ (i + 1 = k + 1 <=> i = k)
      OBVIOUS
    <3> QED
      BY <1>4, <2>1, <3>1
  <2>5. N[c[i + 1]].next = IF i = m - 1 THEN NULL ELSE c[i + 1 + 1]
    <3>1. i + 1 # k - 1 /\ (i + 1 = m <=> i = m - 1)
      BY <1>7
    <3> QED
      BY <1>4, <2>1, <3>1
  <2>6. i = 1 => i = k
    BY <1>7
  <2> QED
    BY <2>1, <2>2, <2>3, <2>4, <2>5, <2>6
<1> QED
  BY <1>6, <1>7

\* remove(Node *) takes the node out of the chain and nothing else (linked_list.H:155-172).
LEMMA UnlinkShortens ==
    ASSUME NEW c, NEW l, NEW n, NEW gone, ChainIs(c, l, n, gone), NEW k \in 1..l.len
    PROVE  LET u == Unlink(c[k], l, n)
           IN  /\ ChainIs(Without(c, l.len, k), u.list, u.node, gone \cup {c[k]})
               /\ SameData(u.node, n)
               /\ u.list.len = l.len - 1
<1> DEFINE m == l.len
           d == Without(c, m, k)
           u == Unlink(c[k], l, n)
<1>1. Joined(u.node, n, c, m, k)
  BY UnlinkJoins
<1>2. /\ m \in Nat /\ l \in ListRecord /\ n \in Seq(NodeRecord) /\ m <= Len(n)
      /\ Live(c, m, n, gone) /\ Neighbours(c, m, n)
  BY DEF ChainIs, Ends, ListRecord
<1>3. u.node \in Seq(NodeRecord) /\ SameData(u.node, n) /\ Len(u.node) = Len(n)
  BY <1>1 DEF Joined, SameData
<1>4. u.list = [len  |-> m - 1,
                head |-> IF k # 1 THEN l.head ELSE IF k = m THEN NULL ELSE n[c[k]].next,
                tail |-> IF k # m THEN l.tail ELSE IF k = 1 THEN NULL ELSE n[c[k]].prev]
  <2>1. l.head = c[1] /\ l.tail = c[m] /\ 1 \in 1..m /\ m \in 1..m
    BY <1>2 DEF ChainIs, Ends
  <2>2. (c[k] = l.head <=> k = 1) /\ (c[k] = l.tail <=> k = m)
    BY <1>2, <2>1 DEF Live
  <2> QED
    BY <2>2 DEF Unlink
<1>5. /\ n[c[k]].prev = IF k = 1 THEN NULL ELSE c[k - 1]
      /\ n[c[k]].next = IF k = m THEN NULL ELSE c[k + 1]
  BY <1>2 DEF Neighbours
<1>6. \A i \in 1..m : c[i] \in 1..Len(n) /\ c[i] \in Link
  <2>1. \A i \in 1..m : c[i] \in 1..Len(n)
    BY ChainFacts
  <2>2. \A e \in 1..Len(n) : e \in Link
    BY <1>2 DEF Link
  <2> QED
    BY <2>1, <2>2
<1>7. \A i \in 1..m - 1 : d[i] = IF i < k THEN c[i] ELSE c[i + 1]
  BY DEF Without
<1>8. l.head = c[1] /\ l.tail = c[m] /\ m > 0 /\ NULL \in Link
  BY <1>2 DEF ChainIs, Ends, Link
<1> HIDE DEF d, u
<1>9. u.list.head = IF m - 1 = 0 THEN NULL ELSE d[1]
  <2>1. m - 1 = 0 => k = 1 /\ k = m
    BY <1>2
  <2>2. m - 1 # 0 => 1 \in 1..m - 1
    BY <1>2
  <2>3. m - 1 # 0 => d[1] = IF k # 1 THEN c[1] ELSE c[2]
    BY <1>7, <2>2
  <2> QED
    BY <1>2, <1>4, <1>5, <1>8, <2>1, <2>3
<1>10. u.list.tail = IF m - 1 = 0 THEN NULL ELSE d[m - 1]
  <2>1. m - 1 = 0 => k = 1 /\ k = m
    BY <1>2
  <2>2. m - 1 # 0 => m - 1 \in 1..m - 1 /\ m - 1 + 1 = m /\ (m - 1 < k <=> k = m)
    BY <1>2
  <2>3. m - 1 # 0 => d[m - 1] = IF k = m THEN c[m - 1] ELSE c[m]
    BY <1>7, <2>2
  <2>4. m - 1 # 0 => ~(k = m /\ k = 1)
    BY <1>2
  <2> QED
    BY <1>2, <1>4, <1>5, <1>8, <2>1, <2>3, <2>4
<1>11. u.list.len = m - 1 /\ m - 1 \in Nat /\ m - 1 <= Len(u.node)
  BY <1>2, <1>3, <1>4, <1>8
<1>12. u.list \in ListRecord
  <2>1. m - 1 # 0 => d[1] \in Link /\ d[m - 1] \in Link
    BY <1>2, <1>6, <1>7
  <2>2. u.list.head \in Link /\ u.list.tail \in Link
    BY <1>8, <1>9, <1>10, <2>1
  <2> QED
    BY <1>4, <1>11, <2>2 DEF ListRecord
<1>13. Ends(d, u.list, u.node)
  BY <1>9, <1>10, <1>11, <1>12 DEF Ends
<1>14. Live(d, m - 1, u.node, gone \cup {c[k]})
  BY <1>2, <1>3, WithoutIsLive DEF d
<1>15. Neighbours(d, m - 1, u.node)
  BY <1>1, <1>2, WithoutIsLinked DEF d
<1>16. ChainIs(d, u.list, u.node, gone \cup {c[k]})
  BY <1>3, <1>11, <1>13, <1>14, <1>15 DEF ChainIs
<1> QED
  BY <1>3, <1>11, <1>16 DEF d, u

-----------------------------------------------------------------------------
(* push_back, push_front and pop_front.                                    *)

\* A node allocated at the end of the heap.
LEMMA Allocated ==
    ASSUME NEW n \in Seq(NodeRecord), NEW r \in NodeRecord
    PROVE  /\ Append(n, r) \in Seq(NodeRecord)
           /\ Len(Append(n, r)) = Len(n) + 1 /\ Len(n) \in Nat
           /\ \A e \in 1..Len(n) : e \in 1..Len(n) + 1 /\ Append(n, r)[e] = n[e]
           /\ Append(n, r)[Len(n) + 1] = r
  OBVIOUS

\* The nodes of n are still there in N, with the same data, and one more that holds x.
OneMore(N, n, x) ==
    /\ N \in Seq(NodeRecord) /\ Len(N) = Len(n) + 1
    /\ \A e \in 1..Len(n) : N[e].data = n[e].data
    /\ N[Len(n) + 1].data = x

\* The first m nodes of c with node a after them, and before them.
AtEnd(c, m, a) == [i \in 1..m + 1 |-> IF i = m + 1 THEN a ELSE c[i]]
AtFront(c, m, a) == [i \in 1..m + 1 |-> IF i = 1 THEN a ELSE c[i - 1]]

\* What push_back does to the heap (linked_list.H:57-71).
LEMMA PushBackNodes ==
    ASSUME NEW c, ChainIs(c, list, node, deleted), NEW x \in Data, PushBack(x)
    PROVE  /\ OneMore(node', node, x)
           /\ node'[Len(node) + 1].prev = list.tail
           /\ node'[Len(node) + 1].next = NULL
           /\ \A e \in 1..Len(node) :
                /\ node'[e].prev = node[e].prev
                /\ node'[e].next = IF list.len # 0 /\ e = list.tail THEN Len(node) + 1
                                   ELSE node[e].next
<1> DEFINE new == Len(node) + 1
<1>1. /\ node \in Seq(NodeRecord) /\ list \in ListRecord /\ list.tail \in Link
      /\ Len(node) \in Nat /\ NULL \in Link /\ new \in Link
  BY DEF ChainIs, Ends, ListRecord, Link
<1>2. list.len # 0 => list.tail \in 1..Len(node)
  BY <1>1 DEF ChainIs, Ends, Live, ListRecord
<1>3. list.len = 0 => list.tail = NULL
  BY DEF ChainIs, Ends
<1>4. CASE list.len = 0
  <2> DEFINE r == NewNode(x)
  <2>1. r \in NodeRecord /\ r.data = x /\ r.prev = NULL /\ r.next = NULL
    BY <1>1 DEF NewNode, NodeRecord
  <2>2. node' = Append(node, r)
    BY <1>4 DEF PushBack
  <2> HIDE DEF r
  <2>3. /\ node' \in Seq(NodeRecord) /\ Len(node') = Len(node) + 1
        /\ \A e \in 1..Len(node) : node'[e] = node[e]
        /\ node'[Len(node) + 1] = r
    BY <1>1, <2>1, <2>2, Allocated
  <2> QED
    BY <1>3, <1>4, <2>1, <2>3 DEF OneMore
<1>5. CASE list.len # 0
  <2> DEFINE r == [NewNode(x) EXCEPT !.prev = list.tail]
             M == Append(node, r)
  <2>1. r \in NodeRecord /\ r.data = x /\ r.prev = list.tail /\ r.next = NULL
    BY <1>1 DEF NewNode, NodeRecord
  <2>2. node' = SetNext(M, list.tail, new)
    BY <1>5 DEF PushBack
  <2> HIDE DEF r
  <2>3. /\ M \in Seq(NodeRecord) /\ Len(M) = Len(node) + 1
        /\ \A e \in 1..Len(node) : e \in 1..Len(node) + 1 /\ M[e] = node[e]
        /\ M[Len(node) + 1] = r
    BY <1>1, <2>1, Allocated
  <2> HIDE DEF M
  <2>4. list.tail \in 1..Len(M) /\ list.tail # Len(node) + 1 /\ Len(node) + 1 \in 1..Len(M)
    BY <1>1, <1>2, <1>5, <2>3
  <2>5. /\ node' \in Seq(NodeRecord) /\ Len(node') = Len(M)
        /\ \A e \in 1..Len(M) :
             /\ node'[e].data = M[e].data
             /\ node'[e].prev = M[e].prev
             /\ node'[e].next = IF e = list.tail THEN new ELSE M[e].next
    <3>1. M \in Seq(NodeRecord) /\ list.tail \in 1..Len(M) /\ new \in Link
      BY <1>1, <2>3, <2>4
    <3> HIDE DEF new
    <3> QED
      BY <2>2, <3>1, SetNextSets, SMTT(30)
  <2>6. OneMore(node', node, x)
    BY <2>1, <2>3, <2>4, <2>5 DEF OneMore
  <2> QED
    BY <1>5, <2>1, <2>3, <2>4, <2>5, <2>6
<1> QED
  BY <1>4, <1>5

\* What push_front does to the heap (linked_list.H:74-88).
LEMMA PushFrontNodes ==
    ASSUME NEW c, ChainIs(c, list, node, deleted), NEW x \in Data, PushFront(x)
    PROVE  /\ OneMore(node', node, x)
           /\ node'[Len(node) + 1].prev = NULL
           /\ node'[Len(node) + 1].next = list.head
           /\ \A e \in 1..Len(node) :
                /\ node'[e].prev = IF list.len # 0 /\ e = list.head THEN Len(node) + 1
                                   ELSE node[e].prev
                /\ node'[e].next = node[e].next
<1> DEFINE new == Len(node) + 1
<1>1. /\ node \in Seq(NodeRecord) /\ list \in ListRecord /\ list.head \in Link
      /\ Len(node) \in Nat /\ NULL \in Link /\ new \in Link
  BY DEF ChainIs, Ends, ListRecord, Link
<1>2. list.len # 0 => list.head \in 1..Len(node)
  BY <1>1 DEF ChainIs, Ends, Live, ListRecord
<1>3. list.len = 0 => list.head = NULL
  BY DEF ChainIs, Ends
<1>4. CASE list.len = 0
  <2> DEFINE r == NewNode(x)
  <2>1. r \in NodeRecord /\ r.data = x /\ r.prev = NULL /\ r.next = NULL
    BY <1>1 DEF NewNode, NodeRecord
  <2>2. node' = Append(node, r)
    BY <1>4 DEF PushFront
  <2> HIDE DEF r
  <2>3. /\ node' \in Seq(NodeRecord) /\ Len(node') = Len(node) + 1
        /\ \A e \in 1..Len(node) : node'[e] = node[e]
        /\ node'[Len(node) + 1] = r
    BY <1>1, <2>1, <2>2, Allocated
  <2> QED
    BY <1>3, <1>4, <2>1, <2>3 DEF OneMore
<1>5. CASE list.len # 0
  <2> DEFINE r == [NewNode(x) EXCEPT !.next = list.head]
             M == Append(node, r)
  <2>1. r \in NodeRecord /\ r.data = x /\ r.prev = NULL /\ r.next = list.head
    BY <1>1 DEF NewNode, NodeRecord
  <2>2. node' = SetPrev(M, list.head, new)
    BY <1>5 DEF PushFront
  <2> HIDE DEF r
  <2>3. /\ M \in Seq(NodeRecord) /\ Len(M) = Len(node) + 1
        /\ \A e \in 1..Len(node) : e \in 1..Len(node) + 1 /\ M[e] = node[e]
        /\ M[Len(node) + 1] = r
    BY <1>1, <2>1, Allocated
  <2> HIDE DEF M
  <2>4. list.head \in 1..Len(M) /\ list.head # Len(node) + 1 /\ Len(node) + 1 \in 1..Len(M)
    BY <1>1, <1>2, <1>5, <2>3
  <2>5. /\ node' \in Seq(NodeRecord) /\ Len(node') = Len(M)
        /\ \A e \in 1..Len(M) :
             /\ node'[e].data = M[e].data
             /\ node'[e].prev = IF e = list.head THEN new ELSE M[e].prev
             /\ node'[e].next = M[e].next
    <3>1. M \in Seq(NodeRecord) /\ list.head \in 1..Len(M) /\ new \in Link
      BY <1>1, <2>3, <2>4
    <3> HIDE DEF new
    <3> QED
      BY <2>2, <3>1, SetPrevSets, SMTT(30)
  <2>6. OneMore(node', node, x)
    BY <2>1, <2>3, <2>4, <2>5 DEF OneMore
  <2> QED
    BY <1>5, <2>1, <2>3, <2>4, <2>5, <2>6
<1> QED
  BY <1>4, <1>5

\* push_back puts the new node at the end of the chain.
LEMMA PushBackLengthens ==
    ASSUME NEW c, ChainIs(c, list, node, deleted), NEW x \in Data, PushBack(x)
    PROVE  ChainIs(AtEnd(c, list.len, Len(node) + 1), list', node', deleted')
<1> DEFINE m == list.len
           N == Len(node)
           d == AtEnd(c, m, N + 1)
<1>1. /\ m \in Nat /\ N \in Nat /\ m <= N /\ list.head \in Link
      /\ c \in [1..m -> 1..N] /\ deleted \in SUBSET (1..N)
      /\ \A i, j \in 1..m : c[i] = c[j] => i = j
      /\ \A e \in 1..N : e \in deleted <=> \A i \in 1..m : c[i] # e
      /\ \A i \in 1..m : /\ node[c[i]].prev = IF i = 1 THEN NULL ELSE c[i - 1]
                         /\ node[c[i]].next = IF i = m THEN NULL ELSE c[i + 1]
      /\ list.head = IF m = 0 THEN NULL ELSE c[1]
      /\ list.tail = IF m = 0 THEN NULL ELSE c[m]
  BY ChainFacts
<1>2. /\ node' \in Seq(NodeRecord) /\ Len(node') = N + 1
      /\ node'[N + 1].prev = list.tail /\ node'[N + 1].next = NULL
      /\ \A e \in 1..N : /\ node'[e].prev = node[e].prev
                         /\ node'[e].next = IF m # 0 /\ e = list.tail THEN N + 1 ELSE node[e].next
  BY PushBackNodes DEF OneMore
<1>3. /\ list' = [len |-> m + 1, head |-> IF m = 0 THEN N + 1 ELSE list.head, tail |-> N + 1]
      /\ deleted' = deleted
  BY <1>1 DEF PushBack
<1>4. /\ d[m + 1] = N + 1
      /\ \A i \in 1..m : i \in 1..m + 1 /\ i # m + 1 /\ d[i] = c[i]
  BY <1>1 DEF AtEnd
<1>5. d \in [1..m + 1 -> 1..N + 1]
  <2>1. d = [i \in 1..m + 1 |-> IF i = m + 1 THEN N + 1 ELSE c[i]]
    BY DEF AtEnd
  <2>2. \A i \in 1..m + 1 : d[i] \in 1..N + 1
    <3> HIDE DEF d, N, m
    <3>1. \A i \in 1..m + 1 : i = m + 1 \/ i \in 1..m
      BY <1>1
    <3>2. N + 1 \in 1..N + 1 /\ \A i \in 1..m : c[i] \in 1..N + 1
      BY <1>1
    <3> QED
      BY <1>4, <3>1, <3>2
  <2> HIDE DEF d, N, m
  <2> QED
    BY <2>1, <2>2
<1> HIDE DEF d, N, m
<1>6. \A i \in 1..m + 1 : i = m + 1 \/ i \in 1..m
  BY <1>1
<1>7. Live(d, m + 1, node', deleted')
  <2>1. \A i, j \in 1..m + 1 : d[i] = d[j] => i = j
    BY <1>1, <1>4, <1>6
  <2>2. \A e \in 1..N + 1 : e \in deleted <=> \A i \in 1..m + 1 : d[i] # e
    <3>1. ASSUME NEW e \in 1..N
          PROVE  e \in deleted <=> \A i \in 1..m + 1 : d[i] # e
      <4>1. (\A i \in 1..m + 1 : d[i] # e) => \A i \in 1..m : c[i] # e
        BY <1>4
      <4>2. (\A i \in 1..m : c[i] # e) => \A i \in 1..m + 1 : d[i] # e
        BY <1>1, <1>4, <1>6
      <4> QED
        BY <1>1, <4>1, <4>2
    <3>2. N + 1 \notin deleted /\ m + 1 \in 1..m + 1
      BY <1>1
    <3>3. \A e \in 1..N + 1 : e = N + 1 \/ e \in 1..N
      BY <1>1
    <3> QED
      BY <1>4, <3>1, <3>2, <3>3
  <2>3. deleted \in SUBSET (1..N + 1)
    BY <1>1
  <2> QED
    BY <1>2, <1>3, <1>5, <2>1, <2>2, <2>3 DEF Live
<1>8. Neighbours(d, m + 1, node')
  <2>1. node'[d[m + 1]].prev = IF m = 0 THEN NULL ELSE d[m]
    <3>1. m # 0 => m \in 1..m
      BY <1>1
    <3> QED
      BY <1>1, <1>2, <1>4, <3>1
  <2>2. node'[d[m + 1]].next = NULL
    BY <1>2, <1>4
  <2>3. ASSUME NEW i \in 1..m
        PROVE  /\ node'[d[i]].prev = IF i = 1 THEN NULL ELSE d[i - 1]
               /\ node'[d[i]].next = d[i + 1]
    <3>1. /\ d[i] = c[i] /\ c[i] \in 1..N /\ m # 0 /\ m \in 1..m
          /\ i # 1 => i - 1 \in 1..m
          /\ i # m => i + 1 \in 1..m
      BY <1>1, <1>4
    <3>2. c[i] = list.tail <=> i = m
      BY <1>1, <3>1
    <3>3. /\ node'[c[i]].prev = node[c[i]].prev
          /\ node'[c[i]].next = IF i = m THEN N + 1 ELSE node[c[i]].next
      BY <1>2, <3>1, <3>2
    <3> QED
      BY <1>1, <1>4, <3>1, <3>3
  <2>4. ASSUME NEW i \in 1..m + 1
        PROVE  /\ node'[d[i]].prev = IF i = 1 THEN NULL ELSE d[i - 1]
               /\ node'[d[i]].next = IF i = m + 1 THEN NULL ELSE d[i + 1]
    <3>1. CASE i = m + 1
      <4>1. node'[d[i]].prev = IF i = 1 THEN NULL ELSE d[i - 1]
        <5>1. (i = 1 <=> m = 0) /\ i - 1 = m
          BY <1>1, <3>1
        <5> QED
          BY <2>1, <3>1, <5>1
      <4>2. node'[d[i]].next = NULL
        BY <2>2, <3>1
      <4> QED
        BY <3>1, <4>1, <4>2
    <3>2. CASE i # m + 1
      <4>1. i \in 1..m
        BY <1>6, <3>2
      <4> QED
        BY <2>3, <3>2, <4>1
    <3> QED
      BY <3>1, <3>2
  <2> QED
    BY <2>4 DEF Neighbours
<1>9. Ends(d, list', node')
  <2>1. m + 1 \in Nat /\ m + 1 # 0 /\ N + 1 \in Link /\ m + 1 <= N + 1
    BY <1>1 DEF Link
  <2>2. list' \in ListRecord
    BY <1>1, <1>3, <2>1 DEF ListRecord
  <2>3. list'.head = d[1]
    BY <1>1, <1>3, <1>4
  <2> QED
    BY <1>2, <1>3, <1>4, <2>1, <2>2, <2>3 DEF Ends
<1>10. ChainIs(d, list', node', deleted')
  <2>1. list'.len = m + 1
    BY <1>3
  <2> QED
    BY <1>2, <1>7, <1>8, <1>9, <2>1 DEF ChainIs
<1> QED
  BY <1>10 DEF d, m, N

\* push_front puts the new node at the front of the chain.
LEMMA PushFrontLengthens ==
    ASSUME NEW c, ChainIs(c, list, node, deleted), NEW x \in Data, PushFront(x)
    PROVE  ChainIs(AtFront(c, list.len, Len(node) + 1), list', node', deleted')
<1> DEFINE m == list.len
           N == Len(node)
           d == AtFront(c, m, N + 1)
<1>1. /\ m \in Nat /\ N \in Nat /\ m <= N /\ list.tail \in Link
      /\ c \in [1..m -> 1..N] /\ deleted \in SUBSET (1..N)
      /\ \A i, j \in 1..m : c[i] = c[j] => i = j
      /\ \A e \in 1..N : e \in deleted <=> \A i \in 1..m : c[i] # e
      /\ \A i \in 1..m : /\ node[c[i]].prev = IF i = 1 THEN NULL ELSE c[i - 1]
                         /\ node[c[i]].next = IF i = m THEN NULL ELSE c[i + 1]
      /\ list.head = IF m = 0 THEN NULL ELSE c[1]
      /\ list.tail = IF m = 0 THEN NULL ELSE c[m]
  BY ChainFacts
<1>2. /\ node' \in Seq(NodeRecord) /\ Len(node') = N + 1
      /\ node'[N + 1].prev = NULL /\ node'[N + 1].next = list.head
      /\ \A e \in 1..N : /\ node'[e].prev = IF m # 0 /\ e = list.head THEN N + 1 ELSE node[e].prev
                         /\ node'[e].next = node[e].next
  BY PushFrontNodes DEF OneMore
<1>3. /\ list' = [len |-> m + 1, head |-> N + 1, tail |-> IF m = 0 THEN N + 1 ELSE list.tail]
      /\ deleted' = deleted
  BY <1>1 DEF PushFront
<1>4. /\ d[1] = N + 1
      /\ \A i \in 1..m : i + 1 \in 1..m + 1 /\ i + 1 # 1 /\ d[i + 1] = c[i]
  <2>1. \A i \in 1..m : i + 1 \in 1..m + 1 /\ i + 1 # 1 /\ i + 1 - 1 = i
    BY <1>1
  <2>2. 1 \in 1..m + 1
    BY <1>1
  <2>3. \A i \in 1..m + 1 : d[i] = IF i = 1 THEN N + 1 ELSE c[i - 1]
    BY DEF AtFront
  <2> HIDE DEF d, N, m
  <2> QED
    BY <2>1, <2>2, <2>3
<1>5. \A i \in 1..m + 1 : i = 1 \/ (i - 1 \in 1..m /\ i - 1 + 1 = i)
  BY <1>1
<1>6. d \in [1..m + 1 -> 1..N + 1]
  <2>1. d = [i \in 1..m + 1 |-> IF i = 1 THEN N + 1 ELSE c[i - 1]]
    BY DEF AtFront
  <2>2. ASSUME NEW i \in 1..m + 1 PROVE d[i] \in 1..N + 1
    <3> HIDE DEF d, N, m
    <3>1. CASE i = 1
      BY <1>1, <1>4, <3>1
    <3>2. CASE i # 1
      <4>1. i - 1 \in 1..m /\ d[i] = c[i - 1]
        BY <1>4, <1>5, <3>2
      <4> QED
        BY <1>1, <4>1
    <3> QED
      BY <3>1, <3>2
  <2> HIDE DEF d, N, m
  <2> QED
    BY <2>1, <2>2
<1> HIDE DEF d, N, m
<1>7. Live(d, m + 1, node', deleted')
  <2>1. ASSUME NEW i \in 1..m + 1, NEW j \in 1..m + 1, d[i] = d[j] PROVE i = j
    <3>1. \A k \in 1..m : d[k + 1] = c[k] /\ c[k] # N + 1
      <4>1. N + 1 \notin 1..N
        BY <1>1
      <4>2. \A k \in 1..m : c[k] \in 1..N
        BY <1>1
      <4> QED
        BY <1>4, <4>1, <4>2
    <3>2. CASE i = 1
      BY <1>4, <1>5, <2>1, <3>1, <3>2
    <3>3. CASE j = 1
      BY <1>4, <1>5, <2>1, <3>1, <3>3
    <3>4. CASE i # 1 /\ j # 1
      <4>1. i - 1 \in 1..m /\ j - 1 \in 1..m /\ d[i] = c[i - 1] /\ d[j] = c[j - 1]
        BY <1>4, <1>5, <3>4
      <4>2. i - 1 = j - 1
        <5>1. c[i - 1] = c[j - 1]
          BY <2>1, <4>1
        <5> HIDE DEF d
        <5> QED
          BY <1>1, <4>1, <5>1
      <4> QED
        BY <1>5, <3>4, <4>2
    <3> QED
      BY <3>2, <3>3, <3>4
  <2>2. \A e \in 1..N + 1 : e \in deleted <=> \A i \in 1..m + 1 : d[i] # e
    <3>1. ASSUME NEW e \in 1..N
          PROVE  e \in deleted <=> \A i \in 1..m + 1 : d[i] # e
      <4>1. (\A i \in 1..m + 1 : d[i] # e) => \A i \in 1..m : c[i] # e
        BY <1>4
      <4>2. (\A i \in 1..m : c[i] # e) => \A i \in 1..m + 1 : d[i] # e
        BY <1>1, <1>4, <1>5
      <4> QED
        BY <1>1, <4>1, <4>2
    <3>2. N + 1 \notin deleted /\ 1 \in 1..m + 1
      BY <1>1
    <3>3. \A e \in 1..N + 1 : e = N + 1 \/ e \in 1..N
      BY <1>1
    <3> QED
      BY <1>4, <3>1, <3>2, <3>3
  <2>3. deleted \in SUBSET (1..N + 1)
    BY <1>1
  <2> QED
    BY <1>2, <1>3, <1>6, <2>1, <2>2, <2>3 DEF Live
<1>8. Neighbours(d, m + 1, node')
  <2>1. /\ node'[d[1]].prev = NULL
        /\ node'[d[1]].next = IF 1 = m + 1 THEN NULL ELSE d[1 + 1]
    <3>1. (m = 0 <=> 1 = m + 1) /\ (m # 0 => 1 \in 1..m)
      BY <1>1
    <3> QED
      BY <1>1, <1>2, <1>4, <3>1
  <2>2. ASSUME NEW i \in 1..m
        PROVE  /\ node'[d[i + 1]].prev = d[i]
               /\ node'[d[i + 1]].next = IF i = m THEN NULL ELSE d[i + 1 + 1]
    <3>1. /\ d[i + 1] = c[i] /\ c[i] \in 1..N /\ m # 0 /\ 1 \in 1..m
          /\ i # 1 => i - 1 \in 1..m /\ i - 1 + 1 = i
          /\ i # m => i + 1 \in 1..m
      BY <1>1, <1>4
    <3>2. c[i] = list.head <=> i = 1
      BY <1>1, <3>1
    <3>3. /\ node'[c[i]].prev = IF i = 1 THEN N + 1 ELSE node[c[i]].prev
          /\ node'[c[i]].next = node[c[i]].next
      BY <1>2, <3>1, <3>2
    <3>4. i # 1 => d[i] = c[i - 1]
      BY <1>4, <3>1
    <3>5. i # m => d[i + 1 + 1] = c[i + 1]
      BY <1>4, <3>1
    <3> QED
      BY <1>1, <1>4, <3>1, <3>3, <3>4, <3>5, SMTT(30)
  <2>3. ASSUME NEW i \in 1..m + 1
        PROVE  /\ node'[d[i]].prev = IF i = 1 THEN NULL ELSE d[i - 1]
               /\ node'[d[i]].next = IF i = m + 1 THEN NULL ELSE d[i + 1]
    <3>1. CASE i = 1
      BY <2>1, <3>1
    <3>2. CASE i # 1
      <4>1. i - 1 \in 1..m /\ i - 1 + 1 = i /\ (i - 1 = m <=> i = m + 1)
        BY <1>1, <1>5, <3>2
      <4> QED
        BY <2>2, <3>2, <4>1
    <3> QED
      BY <3>1, <3>2
  <2> QED
    BY <2>3 DEF Neighbours
<1>9. Ends(d, list', node')
  <2>1. m + 1 \in Nat /\ m + 1 # 0 /\ N + 1 \in Link /\ m + 1 <= N + 1
    BY <1>1 DEF Link
  <2>2. list' \in ListRecord
    BY <1>1, <1>3, <2>1 DEF ListRecord
  <2>3. list'.tail = d[m + 1]
    <3>1. m # 0 => m \in 1..m
      BY <1>1
    <3>2. m = 0 => m + 1 = 1
      BY <1>1
    <3> QED
      BY <1>1, <1>3, <1>4, <3>1, <3>2
  <2> QED
    BY <1>2, <1>3, <1>4, <2>1, <2>2, <2>3 DEF Ends
<1>10. ChainIs(d, list', node', deleted')
  <2>1. list'.len = m + 1
    BY <1>3
  <2> QED
    BY <1>2, <1>7, <1>8, <1>9, <2>1 DEF ChainIs
<1> QED
  BY <1>10 DEF d, m, N

\* pop_front takes the first node out of the chain, as remove(Node *) would (linked_list.H:90-105).
LEMMA PopFrontShortens ==
    ASSUME NEW c, ChainIs(c, list, node, deleted), PopFront, list.len # 0
    PROVE  /\ ChainIs(Without(c, list.len, 1), list', node', deleted')
           /\ SameData(node', node) /\ list'.len = list.len - 1
<1> DEFINE u == Unlink(c[1], list, node)
<1>1. list.len \in Nat /\ 1 \in 1..list.len /\ list.len \in 1..list.len
  BY DEF ChainIs, Ends, ListRecord
<1>2. list.head = c[1] /\ list.tail = c[list.len]
  BY DEF ChainIs, Ends
<1>3. c[1] = list.tail <=> list.len = 1
  BY <1>1, <1>2 DEF ChainIs, Live
<1>4. u.list = list' /\ u.node = node' /\ deleted \cup {c[1]} = deleted'
  <2>1. CASE list.len = 1
    BY <1>2, <1>3, <2>1 DEF PopFront, Unlink
  <2>2. CASE list.len # 1
    BY <1>2, <1>3, <2>2 DEF PopFront, Unlink
  <2> QED
    BY <2>1, <2>2
<1> QED
  BY <1>1, <1>4, UnlinkShortens

-----------------------------------------------------------------------------
(* Loops: induction over the turns of a loop, and the function that a      *)
(* recursive definition over them denotes.                                 *)

\* Every set of naturals that is not empty has a least element.
LEMMA SomeLeast ==
    ASSUME NEW S \in SUBSET Nat, S # {}
    PROVE  \E x \in S : \A y \in S : x <= y
<1> DEFINE R == OpToRel(<, Nat)
<1>1. IsWellFoundedOn(R, Nat)
  BY NatLessThanWellFounded
<1>2. \A x, y \in S : <<x, y>> \in R <=> x < y
  BY DEF OpToRel
<1> HIDE DEF R
<1>3. PICK m \in S : \A y \in S : ~(<<y, m>> \in R)
  BY <1>1, WFMin
<1>4. \A y \in S : ~(y < m)
  BY <1>2, <1>3
<1> QED
  BY <1>4

\* What is reached at 0, and after each turn when it was before it, is reached throughout.
LEMMA Reached ==
    ASSUME NEW n \in Nat, NEW K \in SUBSET (0..n), 0 \in K,
           \A i \in 1..n : i - 1 \in K => i \in K
    PROVE  \A i \in 0..n : i \in K
<1> DEFINE Bad == (0..n) \ K
<1>1. SUFFICES ASSUME Bad # {} PROVE FALSE
  OBVIOUS
<1>2. PICK m \in Bad : \A y \in Bad : m <= y
  <2>1. Bad \in SUBSET Nat
    OBVIOUS
  <2> HIDE DEF Bad
  <2> QED
    BY <1>1, <2>1, SomeLeast
<1>3. m \in 1..n /\ m - 1 \in 0..n /\ ~(m <= m - 1)
  OBVIOUS
<1> QED
  BY <1>2, <1>3

\* g takes the steps of a loop that starts from a.
Loops(g, a, step, n) == g[0] = a /\ \A i \in 1..n : g[i] = step[<<i, g[i - 1]>>]

\* Every loop has a run.
LEMMA LoopRuns ==
    ASSUME NEW n \in Nat, NEW S, NEW a \in S, NEW step \in [(1..n) \X S -> S]
    PROVE  \E g \in [0..n -> S] : Loops(g, a, step, n)
<1> DEFINE K == {k \in 0..n : \E g \in [0..k -> S] : Loops(g, a, step, k)}
<1>1. 0 \in K
  <2> DEFINE g == [i \in 0..0 |-> a]
  <2>1. g \in [0..0 -> S] /\ g[0] = a /\ 0 \in 0..n
    OBVIOUS
  <2>2. Loops(g, a, step, 0)
    BY <2>1 DEF Loops
  <2> QED
    BY <2>1, <2>2
<1>2. ASSUME NEW i \in 1..n, i - 1 \in K PROVE i \in K
  <2>1. PICK g \in [0..i - 1 -> S] : Loops(g, a, step, i - 1)
    BY <1>2
  <2>2. i \in 0..n /\ i - 1 \in 0..i - 1 /\ g[i - 1] \in S
    BY <2>1
  <2>3. step[<<i, g[i - 1]>>] \in S
    BY <2>2
  <2> DEFINE h == [j \in 0..i |-> IF j = i THEN step[<<i, g[i - 1]>>] ELSE g[j]]
  <2>4. \A j \in 0..i : j = i \/ j \in 0..i - 1
    OBVIOUS
  <2>5. h \in [0..i -> S]
    BY <2>1, <2>3, <2>4
  <2>6. \A j \in 0..i - 1 : j \in 0..i /\ j # i /\ h[j] = g[j]
    OBVIOUS
  <2>7. i \in 0..i /\ h[i] = step[<<i, g[i - 1]>>] /\ h[i - 1] = g[i - 1]
    BY <2>2, <2>6
  <2> HIDE DEF h
  <2>8. h[0] = a
    <3>1. 0 \in 0..i - 1
      OBVIOUS
    <3> QED
      BY <2>1, <2>6, <3>1 DEF Loops
  <2>9. ASSUME NEW j \in 1..i PROVE h[j] = step[<<j, h[j - 1]>>]
    <3>1. CASE j = i
      BY <2>7, <3>1
    <3>2. CASE j # i
      <4>1. j \in 1..i - 1 /\ j \in 0..i - 1 /\ j - 1 \in 0..i - 1
        BY <3>2
      <4> QED
        BY <2>1, <2>6, <4>1 DEF Loops
    <3> QED
      BY <3>1, <3>2
  <2>10. Loops(h, a, step, i)
    BY <2>8, <2>9 DEF Loops
  <2> QED
    BY <2>2, <2>5, <2>10
<1>3. \A i \in 0..n : i \in K
  <2>1. K \in SUBSET (0..n)
    OBVIOUS
  <2> HIDE DEF K
  <2> QED
    BY <1>1, <1>2, <2>1, Reached
<1>4. n \in K
  <2>1. n \in 0..n
    OBVIOUS
  <2> QED
    BY <1>3, <2>1
<1> QED
  BY <1>4

-----------------------------------------------------------------------------
(* remove(T).                                                              *)

\* The loop of remove(T) is at the k-th node of the chain c, or past its end.
At(w, c, k) ==
    /\ k \in 1..w.list.len + 1
    /\ w.cur = IF k = w.list.len + 1 THEN NULL ELSE c[k]

\* Between two turns the nodes form a chain, and the loop is at one of them or at its end.
Walking(w, c, k, N) ==
    /\ ChainIs(c, w.list, w.node, w.deleted)
    /\ Len(w.node) = N
    /\ At(w, c, k)

Turns(N) ==
    {w \in [cur : Link, list : ListRecord, node : Seq(NodeRecord), deleted : SUBSET (1..N)] :
        \E c, k : Walking(w, c, k, N)}

\* A turn past the end does nothing.
LEMMA VisitNothing ==
    ASSUME NEW w, NEW x, w.cur = NULL
    PROVE  Visit(w, x) = w
  BY DEF Visit

\* A turn at a node that does not hold x goes on to the next node (linked_list.H:182-184).
LEMMA VisitOther ==
    ASSUME NEW N \in Nat, NEW w \in Turns(N), NEW c, NEW k, Walking(w, c, k, N),
           k # w.list.len + 1, NEW x, w.node[c[k]].data # x
    PROVE  /\ Visit(w, x) \in Turns(N)
           /\ Walking(Visit(w, x), c, k + 1, N)
           /\ Visit(w, x).node = w.node /\ Visit(w, x).list = w.list
<1> DEFINE v == Visit(w, x)
           m == w.list.len
<1>1. w \in [cur : Link, list : ListRecord, node : Seq(NodeRecord), deleted : SUBSET (1..N)]
  BY DEF Turns
<1>2. /\ m \in Nat /\ Len(w.node) = N /\ \A i \in 1..m : c[i] \in 1..N
      /\ \A i \in 1..m : w.node[c[i]].next = IF i = m THEN NULL ELSE c[i + 1]
  <2>1. ChainIs(c, w.list, w.node, w.deleted) /\ Len(w.node) = N
    BY DEF Walking
  <2>2. /\ w.list.len \in Nat /\ \A i \in 1..w.list.len : c[i] \in 1..Len(w.node)
        /\ \A i \in 1..w.list.len : w.node[c[i]].next = IF i = w.list.len THEN NULL ELSE c[i + 1]
    BY <2>1, ChainFacts
  <2> QED
    BY <2>1, <2>2
<1>3. k \in 1..m /\ k + 1 \in 1..m + 1 /\ w.cur = c[k] /\ (k + 1 = m + 1 <=> k = m)
  BY <1>2 DEF Walking, At
<1>4. w.cur # NULL
  BY <1>2, <1>3, LinkedListAssumption
<1>5. v = [w EXCEPT !.cur = w.node[c[k]].next]
  BY <1>3, <1>4 DEF Visit
<1>6. /\ v.cur = IF k = m THEN NULL ELSE c[k + 1]
      /\ v.list = w.list /\ v.node = w.node /\ v.deleted = w.deleted
  BY <1>1, <1>2, <1>3, <1>5
<1>7. v.cur \in Link
  <2>1. k # m => k + 1 \in 1..m
    BY <1>2, <1>3
  <2> QED
    BY <1>2, <1>6, <2>1 DEF Link
<1>8. v \in [cur : Link, list : ListRecord, node : Seq(NodeRecord), deleted : SUBSET (1..N)]
  BY <1>1, <1>5, <1>6, <1>7
<1> HIDE DEF v, m
<1>9. Walking(v, c, k + 1, N)
  BY <1>3, <1>6 DEF Walking, At, m
<1> QED
  BY <1>6, <1>8, <1>9 DEF Turns, v

\* A turn at a node that holds x takes it out; the next node moves up into its place
\* (linked_list.H:178-181).
LEMMA VisitMatch ==
    ASSUME NEW N \in Nat, NEW w \in Turns(N), NEW c, NEW k, Walking(w, c, k, N),
           k # w.list.len + 1, NEW x, w.node[c[k]].data = x
    PROVE  /\ Visit(w, x) \in Turns(N)
           /\ Walking(Visit(w, x), Without(c, w.list.len, k), k, N)
           /\ SameData(Visit(w, x).node, w.node)
           /\ Visit(w, x).list.len = w.list.len - 1
<1> DEFINE v == Visit(w, x)
           m == w.list.len
           d == Without(c, m, k)
           u == Unlink(c[k], w.list, w.node)
<1>1. w \in [cur : Link, list : ListRecord, node : Seq(NodeRecord), deleted : SUBSET (1..N)]
  BY DEF Turns
<1>2. /\ m \in Nat /\ Len(w.node) = N /\ \A i \in 1..m : c[i] \in 1..N
      /\ \A i \in 1..m : w.node[c[i]].next = IF i = m THEN NULL ELSE c[i + 1]
  <2>1. ChainIs(c, w.list, w.node, w.deleted) /\ Len(w.node) = N
    BY DEF Walking
  <2>2. /\ w.list.len \in Nat /\ \A i \in 1..w.list.len : c[i] \in 1..Len(w.node)
        /\ \A i \in 1..w.list.len : w.node[c[i]].next = IF i = w.list.len THEN NULL ELSE c[i + 1]
    BY <2>1, ChainFacts
  <2> QED
    BY <2>1, <2>2
<1>3. k \in 1..m /\ w.cur = c[k]
  BY <1>2 DEF Walking, At
<1>4. w.cur # NULL
  BY <1>2, <1>3, LinkedListAssumption
<1>5. v = [cur |-> w.node[c[k]].next, list |-> u.list, node |-> u.node,
           deleted |-> w.deleted \cup {c[k]}]
  BY <1>3, <1>4 DEF Visit
<1>6. /\ ChainIs(d, u.list, u.node, w.deleted \cup {c[k]})
      /\ SameData(u.node, w.node) /\ u.list.len = m - 1
  <2>1. ChainIs(c, w.list, w.node, w.deleted) /\ k \in 1..w.list.len
    BY <1>3 DEF Walking
  <2> HIDE <1>1
  <2> QED
    BY <2>1, UnlinkShortens
<1>7. Len(u.node) = N /\ u.node \in Seq(NodeRecord) /\ u.list \in ListRecord
  BY <1>2, <1>6 DEF SameData, ChainIs, Ends
<1>8. v.cur = IF k = m THEN NULL ELSE d[k]
  <2>1. k # m => k \in 1..m - 1 /\ ~(k < k)
    BY <1>2, <1>3
  <2>2. k # m => d[k] = c[k + 1]
    BY <2>1 DEF Without
  <2> HIDE DEF d
  <2> QED
    BY <1>2, <1>3, <1>5, <2>2
<1>9. v.cur \in Link
  <2>1. k # m => k + 1 \in 1..m
    BY <1>2, <1>3
  <2> QED
    BY <1>2, <1>3, <1>5, <2>1 DEF Link
<1>10. v.list = u.list /\ v.node = u.node /\ v.deleted = w.deleted \cup {c[k]}
  BY <1>5
<1>11. k \in 1..(m - 1) + 1 /\ (k = (m - 1) + 1 <=> k = m)
  BY <1>2, <1>3
<1>12. w.deleted \cup {c[k]} \in SUBSET (1..N)
  <2>1. c[k] \in 1..N /\ w.deleted \in SUBSET (1..N)
    BY <1>1, <1>2, <1>3
  <2> QED
    BY <2>1
<1> HIDE DEF v, m, d, u
<1>13. v \in [cur : Link, list : ListRecord, node : Seq(NodeRecord), deleted : SUBSET (1..N)]
  BY <1>5, <1>7, <1>9, <1>10, <1>12
<1>14. Walking(v, d, k, N)
  BY <1>6, <1>7, <1>8, <1>10, <1>11 DEF Walking, At
<1> QED
  BY <1>6, <1>10, <1>13, <1>14 DEF Turns, v, d, m

\* Where the loop of remove(T) starts.
Start == [cur |-> list.head, list |-> list, node |-> node, deleted |-> deleted]

\* The loop starts at the first node.
LEMMA StartIsATurn ==
    ASSUME NEW c, ChainIs(c, list, node, deleted)
    PROVE  /\ Start \in Turns(Len(node))
           /\ Walking(Start, c, 1, Len(node))
<1>1. /\ list.len \in Nat /\ Len(node) \in Nat /\ list.head \in Link
      /\ list.head = IF list.len = 0 THEN NULL ELSE c[1]
      /\ node \in Seq(NodeRecord) /\ deleted \in SUBSET (1..Len(node))
  BY ChainFacts
<1>2. list \in ListRecord
  BY DEF ChainIs, Ends
<1>3. /\ Start.cur = list.head /\ Start.list = list
      /\ Start.node = node /\ Start.deleted = deleted
      /\ Start \in [cur : Link, list : ListRecord, node : Seq(NodeRecord),
                    deleted : SUBSET (1..Len(node))]
  BY <1>1, <1>2 DEF Start
<1>4. 1 \in 1..list.len + 1 /\ (1 = list.len + 1 <=> list.len = 0)
  BY <1>1
<1>5. Walking(Start, c, 1, Len(node))
  BY <1>1, <1>3, <1>4 DEF Walking, At
<1> QED
  BY <1>3, <1>5 DEF Turns

\* A turn of the loop of remove(T) leaves a chain.
LEMMA VisitCloses ==
    ASSUME NEW N \in Nat, NEW w \in Turns(N), NEW x
    PROVE  Visit(w, x) \in Turns(N)
<1>1. PICK c, k : Walking(w, c, k, N)
  BY DEF Turns
<1>2. CASE k = w.list.len + 1
  <2>1. w.cur = NULL
    BY <1>1, <1>2 DEF Walking, At
  <2> QED
    BY <2>1, VisitNothing
<1>3. CASE k # w.list.len + 1
  <2>1. CASE w.node[c[k]].data # x
    BY <1>1, <1>3, <2>1, VisitOther
  <2>2. CASE w.node[c[k]].data = x
    BY <1>1, <1>3, <2>2, VisitMatch
  <2> QED
    BY <2>1, <2>2
<1> QED
  BY <1>2, <1>3

\* The turns of the loop, one by one (linked_list.H:175-185).
LEMMA WalkTurnByTurn ==
    ASSUME NEW c, ChainIs(c, list, node, deleted), NEW x
    PROVE  \E h : /\ h[0] = Start /\ h[Len(node)] = Walk(x)
                  /\ \A i \in 1..Len(node) : h[i] = Visit(h[i - 1], x)
                  /\ \A i \in 0..Len(node) : h[i] \in Turns(Len(node))
<1> DEFINE N == Len(node)
           S == Turns(N)
           step == [p \in (1..N) \X S |-> Visit(p[2], x)]
           Eq(g) == g = [i \in 0..N |-> IF i = 0 THEN Start ELSE Visit(g[i - 1], x)]
           turn == CHOOSE g : Eq(g)
<1>1. N \in Nat /\ Start \in S
  BY ChainFacts, StartIsATurn
<1>2. Walk(x) = turn[N]
  BY DEF Walk, Start
<1>3. \A i \in 1..N, w \in S : step[<<i, w>>] = Visit(w, x) /\ Visit(w, x) \in S
  <2>1. \A w \in S : Visit(w, x) \in S
    BY <1>1, VisitCloses
  <2> HIDE DEF S, N
  <2> QED
    BY <2>1
<1>4. step \in [(1..N) \X S -> S]
  <2>1. \A w \in S : Visit(w, x) \in S
    BY <1>1, VisitCloses
  <2> HIDE DEF S, N
  <2> QED
    BY <2>1
<1>5. PICK g \in [0..N -> S] : Loops(g, Start, step, N)
  <2> HIDE DEF S, N, step
  <2> QED
    BY <1>1, <1>4, LoopRuns
<1>6. Eq(g)
  <2> HIDE DEF S, N, step
  <2>1. \A i \in 0..N : i = 0 \/ (i \in 1..N /\ i - 1 \in 0..N)
    BY <1>1
  <2>2. \A i \in 0..N : g[i] = IF i = 0 THEN Start ELSE Visit(g[i - 1], x)
    BY <1>3, <1>5, <2>1 DEF Loops
  <2> QED
    BY <1>5, <2>2
<1>7. Eq(turn)
  <2> HIDE DEF Eq
  <2> QED
    BY <1>6
<1>8. turn[0] = Start /\ \A i \in 1..N : turn[i] = Visit(turn[i - 1], x)
  <2> HIDE DEF turn, N
  <2>1. 0 \in 0..N /\ \A i \in 1..N : i \in 0..N /\ i # 0
    BY <1>1
  <2> QED
    BY <1>7, <2>1
<1> HIDE DEF turn, N, S, step
<1>9. \A i \in 0..N : turn[i] \in S
  <2> DEFINE K == {i \in 0..N : turn[i] \in S}
  <2>1. 0 \in K
    BY <1>1, <1>8
  <2>2. ASSUME NEW i \in 1..N, i - 1 \in K PROVE i \in K
    <3>1. turn[i] = Visit(turn[i - 1], x) /\ turn[i - 1] \in S /\ i \in 0..N
      BY <1>1, <1>8, <2>2
    <3> QED
      BY <1>1, <3>1, VisitCloses DEF S
  <2>3. K \in SUBSET (0..N)
    OBVIOUS
  <2>4. \A i \in 0..N : i \in K
    <3> HIDE DEF K
    <3> QED
      BY <1>1, <2>1, <2>2, <2>3, Reached
  <2> QED
    BY <2>4
<1> QED
  BY <1>2, <1>8, <1>9 DEF N, S

\* remove(T) leaves a chain (linked_list.H:174-186).
LEMMA RemoveKeepsAChain ==
    ASSUME NEW c, ChainIs(c, list, node, deleted), NEW x, Remove(x)
    PROVE  \E d : ChainIs(d, list', node', deleted')
<1>1. Len(node) \in 0..Len(node)
  BY ChainFacts
<1>2. Walk(x) \in Turns(Len(node))
  BY <1>1, WalkTurnByTurn
<1>3. PICK d, k : Walking(Walk(x), d, k, Len(node))
  BY <1>2 DEF Turns
<1>4. ChainIs(d, list', node', deleted')
  BY <1>3 DEF Walking, Remove
<1> QED
  BY <1>4

-----------------------------------------------------------------------------
(* The invariant.                                                          *)

\* The list is a chain.
HasAChain == \E c : ChainIs(c, list, node, deleted)

\* An empty list is (linked_list.H:48-52).
LEMMA InitHasAChain == Init => HasAChain
<1> SUFFICES ASSUME Init PROVE HasAChain
  OBVIOUS
<1> DEFINE c == [i \in 1..0 |-> 1]
<1>1. node = <<>> /\ Len(node) = 0 /\ node \in Seq(NodeRecord) /\ deleted = {}
  BY DEF Init
<1>2. list \in ListRecord /\ list.len = 0 /\ list.head = NULL /\ list.tail = NULL
  BY DEF Init, ListRecord, Link
<1>3. c \in [1..0 -> 1..Len(node)] /\ 1..0 = {}
  BY <1>1
<1>4. \A e \in 1..Len(node) : FALSE
  BY <1>1
<1> HIDE DEF c
<1>5. Live(c, 0, node, deleted)
  BY <1>1, <1>3, <1>4 DEF Live
<1>6. Neighbours(c, 0, node) /\ Ends(c, list, node)
  BY <1>1, <1>2, <1>3 DEF Neighbours, Ends
<1>7. ChainIs(c, list, node, deleted)
  BY <1>1, <1>2, <1>5, <1>6 DEF ChainIs
<1> QED
  BY <1>7 DEF HasAChain

\* Every method leaves one.
LEMMA NextKeepsAChain == HasAChain /\ [Next]_vars => HasAChain'
<1> SUFFICES ASSUME HasAChain, [Next]_vars PROVE HasAChain'
  OBVIOUS
<1>1. PICK c : ChainIs(c, list, node, deleted)
  BY DEF HasAChain
<1>2. SUFFICES \E d : ChainIs(d, list', node', deleted')
  BY DEF HasAChain
<1>3. ASSUME UNCHANGED <<list, node, deleted>> PROVE ChainIs(c, list', node', deleted')
  BY <1>1, <1>3
<1>4. ASSUME NEW x \in Data, PushBack(x) PROVE \E d : ChainIs(d, list', node', deleted')
  BY <1>1, <1>4, PushBackLengthens
<1>5. ASSUME NEW x \in Data, PushFront(x) PROVE \E d : ChainIs(d, list', node', deleted')
  BY <1>1, <1>5, PushFrontLengthens
<1>6. ASSUME NEW x \in Data, Remove(x) PROVE \E d : ChainIs(d, list', node', deleted')
  BY <1>1, <1>6, RemoveKeepsAChain
<1>7. ASSUME PopFront PROVE \E d : ChainIs(d, list', node', deleted')
  <2>1. CASE list.len = 0
    BY <1>3, <1>7, <2>1 DEF PopFront
  <2>2. CASE list.len # 0
    BY <1>1, <1>7, <2>2, PopFrontShortens
  <2> QED
    BY <2>1, <2>2
<1>8. ASSUME Front \/ Back \/ UNCHANGED vars PROVE \E d : ChainIs(d, list', node', deleted')
  BY <1>3, <1>8 DEF Front, Back, vars
<1> QED
  BY <1>4, <1>5, <1>6, <1>7, <1>8 DEF Next

\* Following next from the head gives the chain.
LEMMA ChainFollowed ==
    ASSUME NEW c, NEW l, NEW n, NEW gone, ChainIs(c, l, n, gone)
    PROVE  Following(l.head, n) = c
<1> DEFINE N == Len(n)
           m == l.len
           Eq(g) == g = [i \in 1..N + 1 |-> IF i = 1 THEN l.head
                                            ELSE IF g[i - 1] = NULL THEN NULL
                                            ELSE n[g[i - 1]].next]
           at == CHOOSE g : Eq(g)
           f == [i \in 1..N + 1 |-> IF i <= m THEN c[i] ELSE NULL]
<1>1. /\ m \in Nat /\ N \in Nat /\ m <= N /\ c \in [1..m -> 1..N]
      /\ \A i \in 1..m : c[i] \in 1..N
      /\ \A i \in 1..m : n[c[i]].next = IF i = m THEN NULL ELSE c[i + 1]
      /\ l.head = IF m = 0 THEN NULL ELSE c[1]
  BY ChainFacts
<1>2. Following(l.head, n) = [i \in {j \in 1..N + 1 : at[j] # NULL} |-> at[i]]
  BY DEF Following
<1>3. /\ \A i \in 1..m : i \in 1..N + 1 /\ f[i] = c[i] /\ c[i] # NULL
      /\ \A i \in 1..N + 1 : i \notin 1..m => f[i] = NULL
  <2>1. \A i \in 1..m : i \in 1..N + 1 /\ i <= m /\ c[i] # NULL
    BY <1>1, LinkedListAssumption
  <2>2. \A i \in 1..N + 1 : i \notin 1..m => ~(i <= m)
    BY <1>1
  <2> HIDE DEF m, N
  <2> QED
    BY <2>1, <2>2
<1>4. \A i \in 1..N + 1 : f[i] = IF i = 1 THEN l.head
                                 ELSE IF f[i - 1] = NULL THEN NULL
                                 ELSE n[f[i - 1]].next
  <2> SUFFICES ASSUME NEW i \in 1..N + 1
               PROVE  f[i] = IF i = 1 THEN l.head
                             ELSE IF f[i - 1] = NULL THEN NULL
                             ELSE n[f[i - 1]].next
    OBVIOUS
  <2> HIDE DEF f, m, N
  <2>1. CASE i = 1
    <3>1. (m = 0 => i \notin 1..m) /\ (m # 0 => i \in 1..m)
      BY <1>1, <2>1
    <3> QED
      BY <1>1, <1>3, <2>1, <3>1
  <2>2. CASE i # 1 /\ i - 1 \notin 1..m
    <3>1. i - 1 \in 1..N + 1 /\ i \notin 1..m
      BY <1>1, <2>2
    <3> QED
      BY <1>3, <2>2, <3>1
  <2>3. CASE i # 1 /\ i - 1 \in 1..m
    <3>1. f[i - 1] = c[i - 1] /\ c[i - 1] # NULL
      BY <1>3, <2>3
    <3>2. n[c[i - 1]].next = IF i - 1 = m THEN NULL ELSE c[i]
      <4>1. i - 1 + 1 = i
        BY <1>1
      <4> QED
        BY <1>1, <2>3, <4>1
    <3>3. (i - 1 = m => i \notin 1..m) /\ (i - 1 # m => i \in 1..m)
      BY <1>1, <2>3
    <3> QED
      BY <1>3, <2>3, <3>1, <3>2, <3>3
  <2> QED
    BY <2>1, <2>2, <2>3
<1>5. Eq(f)
  <2>1. f = [i \in 1..N + 1 |-> f[i]]
    OBVIOUS
  <2> HIDE DEF f, m, N
  <2> QED
    BY <1>4, <2>1
<1>6. Eq(at)
  <2> HIDE DEF Eq
  <2> QED
    BY <1>5
<1> HIDE DEF at, f, N, m
<1>7. \A i \in 1..N + 1 : at[i] = IF i = 1 THEN l.head
                                  ELSE IF at[i - 1] = NULL THEN NULL
                                  ELSE n[at[i - 1]].next
  BY <1>6
<1>8. \A i \in 1..N + 1 : at[i] = f[i]
  <2> DEFINE K == {i \in 0..N : at[i + 1] = f[i + 1]}
  <2>1. 0 \in K
    <3>1. 1 \in 1..N + 1 /\ 0 \in 0..N /\ 0 + 1 = 1
      BY <1>1
    <3> QED
      BY <1>4, <1>7, <3>1
  <2>2. ASSUME NEW i \in 1..N, i - 1 \in K PROVE i \in K
    <3>1. i - 1 + 1 = i /\ i + 1 \in 1..N + 1 /\ i + 1 - 1 = i /\ i + 1 # 1 /\ i \in 0..N
      BY <1>1
    <3>2. at[i] = f[i]
      BY <2>2, <3>1
    <3>3. at[i + 1] = f[i + 1]
      BY <1>4, <1>7, <3>1, <3>2
    <3> QED
      BY <3>1, <3>3
  <2>3. \A i \in 0..N : i \in K
    <3>1. K \in SUBSET (0..N)
      OBVIOUS
    <3> HIDE DEF K
    <3> QED
      BY <1>1, <2>1, <2>2, <3>1, Reached
  <2>4. ASSUME NEW i \in 1..N + 1 PROVE at[i] = f[i]
    <3>1. i - 1 \in 0..N /\ i - 1 + 1 = i
      BY <1>1
    <3> QED
      BY <2>3, <3>1
  <2> QED
    BY <2>4
<1>9. {j \in 1..N + 1 : at[j] # NULL} = 1..m
  BY <1>3, <1>8
<1>10. Following(l.head, n) = [i \in 1..m |-> at[i]]
  BY <1>2, <1>9
<1>11. \A i \in 1..m : at[i] = c[i]
  BY <1>3, <1>8
<1> QED
  BY <1>1, <1>10, <1>11

\* What the list's invariant says of it.
LEMMA AChainIsWellLinked == HasAChain => WellLinked
<1> SUFFICES ASSUME HasAChain PROVE WellLinked
  OBVIOUS
<1>1. PICK c : ChainIs(c, list, node, deleted)
  BY DEF HasAChain
<1> DEFINE m == list.len
<1>2. /\ m \in Nat /\ Len(node) \in Nat /\ c \in [1..m -> 1..Len(node)]
      /\ node \in Seq(NodeRecord)
      /\ \A i \in 1..m : c[i] \in 1..Len(node)
      /\ \A e \in 1..Len(node) : e \in deleted <=> \A i \in 1..m : c[i] # e
      /\ list.head = IF m = 0 THEN NULL ELSE c[1]
      /\ list.tail = IF m = 0 THEN NULL ELSE c[m]
      /\ \A i \in 1..m : node[c[i]].prev = IF i = 1 THEN NULL ELSE c[i - 1]
  BY <1>1, ChainFacts
<1>3. Chain = c
  BY <1>1, ChainFollowed DEF Chain
<1> HIDE DEF m
<1>4. c \in Seq(1..Len(node)) /\ Len(c) = m /\ DOMAIN c = 1..m /\ (c = <<>> <=> m = 0)
  <2>1. c \in Seq(1..Len(node)) /\ DOMAIN c = 1..m
    BY <1>2
  <2>2. Len(c) = m
    BY <1>2, <2>1
  <2> QED
    BY <2>1, <2>2
<1>5. Range(c) = DOMAIN node \ deleted
  <2>1. DOMAIN node = 1..Len(node)
    BY <1>2
  <2>2. \A e : e \in Range(c) <=> \E i \in 1..m : c[i] = e
    BY <1>4 DEF Range
  <2>3. \A e : e \in Range(c) <=> e \in DOMAIN node \ deleted
    BY <1>2, <2>1, <2>2
  <2> QED
    BY <2>3
<1> QED
  BY <1>2, <1>3, <1>4, <1>5 DEF WellLinked, m

\* The chain is sound after every call of push_back, push_front, pop_front and remove
\* (linked_list.H:57-186), however many nodes are ever allocated.
THEOREM ListWellLinked == Spec => []WellLinked
<1>1. Init => HasAChain
  BY InitHasAChain
<1>2. HasAChain /\ [Next]_vars => HasAChain'
  BY NextKeepsAChain
<1>3. HasAChain => WellLinked
  BY AChainIsWellLinked
<1> QED
  BY <1>1, <1>2, <1>3, PTL DEF Spec

-----------------------------------------------------------------------------
(* The list implements the sequence.                                       *)

\* What the nodes of a chain hold, in order.
DataOf(c, m, n) == [i \in 1..m |-> n[c[i]].data]

\* The contents are the data along the chain.
LEMMA ContentsAlongChain ==
    ASSUME NEW c, NEW l, NEW n, NEW gone, ChainIs(c, l, n, gone)
    PROVE  /\ [i \in DOMAIN Following(l.head, n) |-> n[Following(l.head, n)[i]].data]
                 = DataOf(c, l.len, n)
           /\ DataOf(c, l.len, n) \in Seq(Data) /\ Len(DataOf(c, l.len, n)) = l.len
<1>1. /\ l.len \in Nat /\ n \in Seq(NodeRecord) /\ c \in [1..l.len -> 1..Len(n)]
      /\ \A i \in 1..l.len : c[i] \in 1..Len(n)
  BY ChainFacts
<1>2. \A i \in 1..l.len : n[c[i]].data \in Data
  <2>1. \A e \in 1..Len(n) : n[e] \in NodeRecord
    BY <1>1
  <2>2. \A e \in 1..Len(n) : n[e].data \in Data
    BY <2>1 DEF NodeRecord
  <2> QED
    BY <1>1, <2>2
<1>3. Following(l.head, n) = c /\ DOMAIN c = 1..l.len
  BY <1>1, ChainFollowed
<1>4. DataOf(c, l.len, n) \in Seq(Data) /\ Len(DataOf(c, l.len, n)) = l.len
  <2> DEFINE m == l.len
             s == DataOf(c, m, n)
  <2>1. m \in Nat /\ s = [i \in 1..m |-> n[c[i]].data]
    BY <1>1 DEF DataOf
  <2>2. \A i \in 1..m : n[c[i]].data \in Data
    BY <1>2
  <2> HIDE DEF m, s
  <2>3. s \in [1..m -> Data]
    BY <2>1, <2>2
  <2>4. s \in Seq(Data) /\ Len(s) = m
    BY <2>1, <2>3
  <2> QED
    BY <2>4 DEF m, s
<1> QED
  BY <1>3, <1>4 DEF DataOf

\* The same before and after a step.
LEMMA ContentsBeforeAndAfter ==
    ASSUME NEW c, ChainIs(c, list, node, deleted), NEW d, ChainIs(d, list', node', deleted')
    PROVE  /\ Contents = DataOf(c, list.len, node) /\ Contents \in Seq(Data)
           /\ Len(Contents) = list.len
           /\ Contents' = DataOf(d, list'.len, node') /\ Contents' \in Seq(Data)
           /\ Len(Contents') = list'.len
  BY ContentsAlongChain DEF Contents, Chain

\* push_back appends to the sequence.
LEMMA PushBackAppends ==
    ASSUME NEW c, ChainIs(c, list, node, deleted), NEW x \in Data, PushBack(x)
    PROVE  Abstract!PushBack(x)
<1> DEFINE m == list.len
           N == Len(node)
           d == AtEnd(c, m, N + 1)
<1>1. ChainIs(d, list', node', deleted')
  BY PushBackLengthens
<1>2. list'.len = m + 1 /\ call' = <<"push_back", x>>
  <2>1. list.len = 0 => list.len + 1 = 1
    OBVIOUS
  <2> QED
    BY <2>1 DEF PushBack
<1>3. /\ m \in Nat /\ N \in Nat /\ \A i \in 1..m : c[i] \in 1..N
  BY ChainFacts
<1>4. /\ node'[N + 1].data = x
      /\ \A e \in 1..N : node'[e].data = node[e].data
  BY PushBackNodes DEF OneMore
<1>5. /\ d[m + 1] = N + 1
      /\ \A i \in 1..m : d[i] = c[i]
  BY <1>3 DEF AtEnd
<1>6. /\ Contents = DataOf(c, m, node) /\ Contents \in Seq(Data) /\ Len(Contents) = m
      /\ Contents' = DataOf(d, m + 1, node') /\ Contents' \in Seq(Data) /\ Len(Contents') = m + 1
  <2> HIDE DEF d
  <2> QED
    BY <1>1, <1>2, ContentsBeforeAndAfter
<1> HIDE DEF d, m, N
<1>7. \A i \in 1..m : Contents'[i] = Contents[i]
  <2>1. \A i \in 1..m : i \in 1..m + 1
    BY <1>3
  <2> QED
    BY <1>3, <1>4, <1>5, <1>6, <2>1 DEF DataOf
<1>8. Contents'[m + 1] = x
  <2>1. m + 1 \in 1..m + 1
    BY <1>3
  <2> QED
    BY <1>4, <1>5, <1>6, <2>1 DEF DataOf
<1>9. Contents' = Append(Contents, x)
  BY <1>3, <1>6, <1>7, <1>8
<1> QED
  BY <1>2, <1>9 DEF Abstract!PushBack, Abstract!push_back

\* push_front puts its argument before the sequence.
LEMMA PushFrontPrepends ==
    ASSUME NEW c, ChainIs(c, list, node, deleted), NEW x \in Data, PushFront(x)
    PROVE  Abstract!PushFront(x)
<1> DEFINE m == list.len
           N == Len(node)
           d == AtFront(c, m, N + 1)
<1>1. ChainIs(d, list', node', deleted')
  BY PushFrontLengthens
<1>2. list'.len = m + 1 /\ call' = <<"push_front", x>>
  <2>1. list.len = 0 => list.len + 1 = 1
    OBVIOUS
  <2> QED
    BY <2>1 DEF PushFront
<1>3. /\ m \in Nat /\ N \in Nat /\ \A i \in 1..m : c[i] \in 1..N
  BY ChainFacts
<1>4. /\ node'[N + 1].data = x
      /\ \A e \in 1..N : node'[e].data = node[e].data
  BY PushFrontNodes DEF OneMore
<1>5. /\ d[1] = N + 1
      /\ \A i \in 1..m : d[i + 1] = c[i]
  <2>1. \A i \in 1..m : i + 1 \in 1..m + 1 /\ i + 1 # 1 /\ i + 1 - 1 = i
    BY <1>3
  <2>2. 1 \in 1..m + 1
    BY <1>3
  <2>3. \A i \in 1..m + 1 : d[i] = IF i = 1 THEN N + 1 ELSE c[i - 1]
    BY DEF AtFront
  <2> HIDE DEF d, N, m
  <2> QED
    BY <2>1, <2>2, <2>3
<1>6. /\ Contents = DataOf(c, m, node) /\ Contents \in Seq(Data) /\ Len(Contents) = m
      /\ Contents' = DataOf(d, m + 1, node') /\ Contents' \in Seq(Data) /\ Len(Contents') = m + 1
  <2> HIDE DEF d
  <2> QED
    BY <1>1, <1>2, ContentsBeforeAndAfter
<1> HIDE DEF d, m, N
<1>7. \A i \in 1..m : Contents'[i + 1] = Contents[i]
  <2>1. \A i \in 1..m : i + 1 \in 1..m + 1
    BY <1>3
  <2> QED
    BY <1>3, <1>4, <1>5, <1>6, <2>1 DEF DataOf
<1>8. Contents'[1] = x
  <2>1. 1 \in 1..m + 1
    BY <1>3
  <2> QED
    BY <1>4, <1>5, <1>6, <2>1 DEF DataOf
<1>9. Contents' = <<x>> \o Contents
  <2> DEFINE s == <<x>> \o Contents
  <2>1. s \in Seq(Data) /\ Len(s) = m + 1 /\ s[1] = x
    BY <1>3, <1>6
  <2>2. \A i \in 1..m : s[i + 1] = Contents[i]
    BY <1>3, <1>6
  <2> HIDE DEF s
  <2>3. ASSUME NEW i \in 1..m + 1 PROVE Contents'[i] = s[i]
    <3>1. CASE i = 1
      BY <1>8, <2>1, <3>1
    <3>2. CASE i # 1
      <4>1. i - 1 \in 1..m /\ i - 1 + 1 = i
        BY <1>3, <3>2
      <4> QED
        BY <1>7, <2>2, <4>1
    <3> QED
      BY <3>1, <3>2
  <2>4. Contents' = s
    BY <1>3, <1>6, <2>1, <2>3
  <2> QED
    BY <2>4 DEF s
<1> QED
  BY <1>2, <1>9 DEF Abstract!PushFront, Abstract!push_front

\* pop_front takes the first element off the sequence, if it has one.
LEMMA PopFrontTakesTail ==
    ASSUME NEW c, ChainIs(c, list, node, deleted), PopFront
    PROVE  Abstract!PopFront
<1> DEFINE m == list.len
           d == Without(c, m, 1)
<1>1. call' = <<"pop_front", NULL>>
  BY DEF PopFront
<1>2. /\ m \in Nat /\ Len(node) \in Nat /\ \A i \in 1..m : c[i] \in 1..Len(node)
  BY ChainFacts
<1>3. Contents \in Seq(Data) /\ Len(Contents) = m /\ Contents = DataOf(c, m, node)
  BY ContentsAlongChain DEF Contents, Chain
<1>4. Contents = <<>> <=> m = 0
  BY <1>2, <1>3
<1>5. CASE m = 0
  <2>1. list' = list /\ node' = node
    BY <1>5 DEF PopFront
  <2>2. Contents' = Contents
    BY <2>1 DEF Contents, Chain
  <2> QED
    BY <1>1, <1>4, <1>5, <2>2 DEF Abstract!PopFront, Abstract!pop_front
<1>6. CASE m # 0
  <2>1. /\ ChainIs(d, list', node', deleted') /\ list'.len = m - 1
        /\ \A e \in 1..Len(node) : node'[e].data = node[e].data
    BY <1>6, PopFrontShortens DEF SameData
  <2>2. \A i \in 1..m - 1 : d[i] = c[i + 1] /\ i + 1 \in 1..m
    BY <1>2 DEF Without
  <2> HIDE DEF d, m
  <2>3. /\ Contents' = DataOf(d, m - 1, node') /\ Contents' \in Seq(Data)
        /\ Len(Contents') = m - 1
    BY <2>1, ContentsBeforeAndAfter
  <2>4. \A i \in 1..m - 1 : Contents'[i] = Contents[i + 1]
    BY <1>2, <1>3, <2>1, <2>2, <2>3 DEF DataOf
  <2>5. Contents' = Tail(Contents)
    BY <1>2, <1>3, <1>6, <2>3, <2>4
  <2> QED
    BY <1>1, <1>4, <1>6, <2>5 DEF Abstract!PopFront, Abstract!pop_front
<1> QED
  BY <1>5, <1>6

\* front and back answer with the ends of the sequence.
LEMMA FrontAndBackAnswer ==
    ASSUME NEW c, ChainIs(c, list, node, deleted)
    PROVE  (Front => Abstract!Front) /\ (Back => Abstract!Back)
<1> DEFINE m == list.len
<1>1. /\ m \in Nat /\ \A i \in 1..m : c[i] \in 1..Len(node)
      /\ list.head = IF m = 0 THEN NULL ELSE c[1]
      /\ list.tail = IF m = 0 THEN NULL ELSE c[m]
  BY ChainFacts
<1>2. Contents \in Seq(Data) /\ Len(Contents) = m /\ Contents = DataOf(c, m, node)
  BY ContentsAlongChain DEF Contents, Chain
<1> HIDE DEF m
<1>3. Contents = <<>> <=> m = 0
  BY <1>1, <1>2
<1>4. m # 0 => Contents[1] = node[c[1]].data /\ Contents[m] = node[c[m]].data
  BY <1>1, <1>2 DEF DataOf
<1>5. m # 0 => c[1] # NULL /\ c[m] # NULL
  BY <1>1, LinkedListAssumption
<1>6. m # 0 => Head(Contents) = Contents[1]
  BY <1>1, <1>2
<1>7. DataAt(list.head) = Abstract!front(Contents)
  BY <1>1, <1>3, <1>4, <1>5, <1>6 DEF DataAt, Abstract!front
<1>8. DataAt(list.tail) = Abstract!back(Contents)
  BY <1>1, <1>2, <1>3, <1>4, <1>5 DEF DataAt, Abstract!back
<1>9. list' = list /\ node' = node => Contents' = Contents
  BY DEF Contents, Chain
<1> QED
  BY <1>7, <1>8, <1>9 DEF Front, Back, Abstract!Front, Abstract!Back

-----------------------------------------------------------------------------
(* remove(T) takes every x out of the sequence.                            *)

\* What ReadyList's remove keeps of the first i elements of q, i from 0 on.
Keeps(p, q, x) ==
    /\ p[0] = <<>>
    /\ \A i \in 1..Len(q) : p[i] = IF q[i] = x THEN p[i - 1] ELSE Append(p[i - 1], q[i])
    /\ \A i \in 0..Len(q) : p[i] \in Seq(Data)

LEMMA RemoveOneByOne ==
    ASSUME NEW q \in Seq(Data), NEW x
    PROVE  \E p : /\ Keeps(p, q, x)
                  /\ Abstract!remove(q, x) = IF x \in Range(q) THEN p[Len(q)] ELSE q
<1> DEFINE n == Len(q)
           S == Seq(Data)
           step == [a \in (1..n) \X S |-> IF q[a[1]] = x THEN a[2] ELSE Append(a[2], q[a[1]])]
           Eq(g) == g = [i \in 0..n |-> IF i = 0 THEN <<>>
                                        ELSE IF q[i] = x THEN g[i - 1]
                                        ELSE Append(g[i - 1], q[i])]
           kept == CHOOSE g : Eq(g)
<1>1. n \in Nat /\ <<>> \in S /\ \A i \in 1..n : q[i] \in Data
  OBVIOUS
<1>2. Abstract!remove(q, x) = IF x \in Range(q) THEN kept[n] ELSE q
  BY DEF Abstract!remove, Abstract!Range, Range
<1>3. \A i \in 1..n, s \in S : (IF q[i] = x THEN s ELSE Append(s, q[i])) \in S
  BY <1>1
<1> HIDE DEF n, S
<1>4. /\ step \in [(1..n) \X S -> S]
      /\ \A i \in 1..n, s \in S : step[<<i, s>>] = IF q[i] = x THEN s ELSE Append(s, q[i])
  BY <1>3
<1>5. PICK g \in [0..n -> S] : Loops(g, <<>>, step, n)
  <2> HIDE DEF step
  <2> QED
    BY <1>1, <1>4, LoopRuns
<1>6. Eq(g)
  <2> HIDE DEF step
  <2>1. \A i \in 0..n : i = 0 \/ (i \in 1..n /\ i - 1 \in 0..n)
    BY <1>1
  <2>2. \A i \in 0..n : g[i] = IF i = 0 THEN <<>>
                               ELSE IF q[i] = x THEN g[i - 1] ELSE Append(g[i - 1], q[i])
    BY <1>4, <1>5, <2>1 DEF Loops
  <2> QED
    BY <1>5, <2>2
<1>7. Eq(kept)
  <2> HIDE DEF Eq
  <2> QED
    BY <1>6
<1> HIDE DEF kept, step
<1>8. /\ kept[0] = <<>>
      /\ \A i \in 1..n : kept[i] = IF q[i] = x THEN kept[i - 1] ELSE Append(kept[i - 1], q[i])
  <2>1. 0 \in 0..n /\ \A i \in 1..n : i \in 0..n /\ i # 0
    BY <1>1
  <2> QED
    BY <1>7, <2>1
<1>9. \A i \in 0..n : kept[i] \in S
  <2> DEFINE K == {i \in 0..n : kept[i] \in S}
  <2>1. 0 \in K
    BY <1>1, <1>8
  <2>2. ASSUME NEW i \in 1..n, i - 1 \in K PROVE i \in K
    <3>1. kept[i - 1] \in S /\ i \in 0..n
      BY <1>1, <2>2
    <3> QED
      BY <1>3, <1>8, <3>1
  <2>3. K \in SUBSET (0..n)
    OBVIOUS
  <2>4. \A i \in 0..n : i \in K
    <3> HIDE DEF K
    <3> QED
      BY <1>1, <2>1, <2>2, <2>3, Reached
  <2> QED
    BY <2>4
<1>10. Keeps(kept, q, x)
  BY <1>8, <1>9 DEF Keeps, n, S
<1> QED
  BY <1>2, <1>10 DEF n

\* A sequence that has no x is kept whole.
LEMMA AbsentKeepsAll ==
    ASSUME NEW q \in Seq(Data), NEW x, x \notin Range(q), NEW p, Keeps(p, q, x)
    PROVE  p[Len(q)] = q
<1> DEFINE n == Len(q)
           K == {i \in 0..n : Len(p[i]) = i /\ \A j \in 1..i : p[i][j] = q[j]}
<1>1. n \in Nat /\ \A i \in 1..n : q[i] \in Data /\ q[i] # x
  <2>1. \A i \in 1..n : q[i] \in Range(q)
    BY DEF Range
  <2> QED
    BY <2>1
<1>2. /\ p[0] = <<>> /\ \A i \in 0..n : p[i] \in Seq(Data)
      /\ \A i \in 1..n : p[i] = Append(p[i - 1], q[i])
  BY <1>1 DEF Keeps
<1> HIDE DEF n
<1>3. 0 \in K
  <2>1. Len(p[0]) = 0 /\ 0 \in 0..n
    BY <1>1, <1>2
  <2> QED
    BY <2>1
<1>4. ASSUME NEW i \in 1..n, i - 1 \in K PROVE i \in K
  <2> DEFINE s == p[i - 1]
  <2>1. s \in Seq(Data) /\ Len(s) = i - 1 /\ \A j \in 1..i - 1 : s[j] = q[j]
    <3>1. i - 1 \in 0..n /\ Len(p[i - 1]) = i - 1 /\ \A j \in 1..i - 1 : p[i - 1][j] = q[j]
      BY <1>4
    <3> QED
      BY <1>2, <3>1
  <2>2. p[i] = Append(s, q[i]) /\ q[i] \in Data /\ i \in 0..n
    BY <1>1, <1>2
  <2> HIDE DEF s
  <2>3. Len(p[i]) = i /\ p[i][i] = q[i] /\ \A j \in 1..i - 1 : p[i][j] = s[j]
    BY <2>1, <2>2
  <2>4. \A j \in 1..i : j = i \/ j \in 1..i - 1
    OBVIOUS
  <2> QED
    BY <2>1, <2>2, <2>3, <2>4
<1>5. n \in K
  <2>1. K \in SUBSET (0..n) /\ n \in 0..n
    BY <1>1
  <2> HIDE DEF K
  <2> QED
    BY <1>1, <1>3, <1>4, <2>1, Reached
<1>6. p[n] \in Seq(Data) /\ Len(p[n]) = n /\ \A j \in 1..n : p[n][j] = q[j]
  BY <1>1, <1>2, <1>5
<1>7. p[n] = q
  BY <1>6 DEF n
<1> QED
  BY <1>7 DEF n

\* remove(q, x) is what is kept of the whole of q.
LEMMA RemoveKeeps ==
    ASSUME NEW q \in Seq(Data), NEW x
    PROVE  \E p : Keeps(p, q, x) /\ Abstract!remove(q, x) = p[Len(q)]
  BY RemoveOneByOne, AbsentKeepsAll

\* The loop of remove(T) after i turns, p[i] kept: the chain d is what is kept of the
\* first i nodes of the chain c, then the others of c, and the loop is at the first of these.
Progress(w, d, c, kept, i) ==
    /\ Walking(w, d, Len(kept) + 1, Len(node))
    /\ SameData(w.node, node)
    /\ w.list.len = Len(kept) + (list.len - i)
    /\ \A j \in 1..Len(kept) : node[d[j]].data = kept[j]
    /\ \A j \in 1..list.len - i : d[Len(kept) + j] = c[i + j]

\* How far the loop has come.
LEMMA TurnCounts ==
    ASSUME NEW m \in Nat, NEW i \in 1..m, NEW k \in Nat, k >= 1, NEW n, n = (k - 1) + (m - (i - 1))
    PROVE  /\ k # n + 1 /\ n - 1 = (k - 1) + (m - i) /\ n = k + (m - i) /\ k <= n
           /\ \A j \in 1..m - i : /\ (k - 1) + j \in 1..n - 1 /\ ~((k - 1) + j < k)
                                  /\ ((k - 1) + j) + 1 = k + j
  OBVIOUS

\* A turn of the loop keeps the node or takes it out, as remove on the sequence does.
LEMMA VisitProgresses ==
    ASSUME NEW c, ChainIs(c, list, node, deleted), NEW i \in 1..list.len, NEW s \in Seq(Data),
           NEW w \in Turns(Len(node)), NEW d, Progress(w, d, c, s, i - 1), NEW x
    PROVE  IF node[c[i]].data = x
           THEN Progress(Visit(w, x), Without(d, w.list.len, Len(s) + 1), c, s, i)
           ELSE Progress(Visit(w, x), d, c, Append(s, node[c[i]].data), i)
<1> DEFINE m == list.len
           N == Len(node)
           k == Len(s) + 1
           v == Visit(w, x)
           y == node[c[i]].data
<1>1. /\ m \in Nat /\ N \in Nat /\ k \in Nat /\ k >= 1 /\ i \in Nat /\ Len(s) = k - 1
      /\ i <= m /\ i >= 1
      /\ c[i] \in 1..N /\ node[c[i]] \in NodeRecord
  <2>1. m \in Nat /\ N \in Nat /\ c[i] \in 1..N /\ node \in Seq(NodeRecord)
    BY ChainFacts
  <2> QED
    BY <2>1
<1>2. /\ Walking(w, d, k, N) /\ SameData(w.node, node)
      /\ w.list.len = (k - 1) + (m - (i - 1))
      /\ \A j \in 1..k - 1 : node[d[j]].data = s[j]
      /\ \A j \in 1..m - (i - 1) : d[(k - 1) + j] = c[(i - 1) + j]
  BY <1>1 DEF Progress
<1>3. /\ k # w.list.len + 1 /\ w.list.len - 1 = (k - 1) + (m - i)
      /\ w.list.len = k + (m - i) /\ k <= w.list.len
      /\ \A j \in 1..m - i : /\ (k - 1) + j \in 1..w.list.len - 1 /\ ~((k - 1) + j < k)
                             /\ ((k - 1) + j) + 1 = k + j
  <2>1. i \in 1..m
    OBVIOUS
  <2> DEFINE n == w.list.len
  <2>2. n = (k - 1) + (m - (i - 1)) /\ m \in Nat /\ k \in Nat /\ k >= 1
    BY <1>1, <1>2
  <2> HIDE DEF k, m, N, n
  <2>3. /\ k # n + 1 /\ n - 1 = (k - 1) + (m - i) /\ n = k + (m - i) /\ k <= n
        /\ \A j \in 1..m - i : /\ (k - 1) + j \in 1..n - 1 /\ ~((k - 1) + j < k)
                               /\ ((k - 1) + j) + 1 = k + j
    BY <2>1, <2>2, TurnCounts
  <2> QED
    BY <2>3 DEF n
<1>4. d[k] = c[i]
  <2>1. 1 \in 1..m - (i - 1) /\ (k - 1) + 1 = k /\ (i - 1) + 1 = i
    BY <1>1
  <2> HIDE DEF k, m, N
  <2> QED
    BY <1>2, <2>1
<1>5. \A j \in 1..m - i : d[k + j] = c[i + j]
  <2> SUFFICES ASSUME NEW j \in 1..m - i PROVE d[k + j] = c[i + j]
    OBVIOUS
  <2> HIDE DEF k, m, N
  <2>1. j + 1 \in 1..m - (i - 1) /\ (k - 1) + (j + 1) = k + j /\ (i - 1) + (j + 1) = i + j
    BY <1>1
  <2> QED
    BY <1>2, <2>1
<1>6. w.node[d[k]].data = y
  BY <1>1, <1>2, <1>4 DEF SameData
<1>7. y \in Data
  BY <1>1 DEF NodeRecord
<1> HIDE DEF m, N, k, v, y
<1>8. CASE y = x
  <2> DEFINE e == Without(d, w.list.len, k)
  <2>1. /\ Walking(v, e, k, N) /\ SameData(v.node, w.node) /\ v.list.len = w.list.len - 1
    BY <1>1, <1>2, <1>3, <1>6, <1>8, VisitMatch, SMTT(30) DEF v, N
  <2>2. \A j \in 1..w.list.len - 1 : e[j] = IF j < k THEN d[j] ELSE d[j + 1]
    BY DEF Without
  <2> HIDE DEF e
  <2>3. SameData(v.node, node)
    BY <1>2, <2>1 DEF SameData
  <2>4. v.list.len = (k - 1) + (m - i)
    BY <1>3, <2>1
  <2>5. \A j \in 1..k - 1 : node[e[j]].data = s[j]
    <3>1. \A j \in 1..k - 1 : j \in 1..w.list.len - 1 /\ j < k
      BY <1>1, <1>3
    <3> QED
      BY <1>2, <2>2, <3>1
  <2>6. \A j \in 1..m - i : e[(k - 1) + j] = c[i + j]
    <3> SUFFICES ASSUME NEW j \in 1..m - i PROVE e[(k - 1) + j] = c[i + j]
      OBVIOUS
    <3>1. /\ (k - 1) + j \in 1..w.list.len - 1 /\ ~((k - 1) + j < k)
          /\ ((k - 1) + j) + 1 = k + j
      BY <1>3
    <3> QED
      BY <1>5, <2>2, <3>1
  <2>7. Progress(v, e, c, s, i)
    BY <1>1, <2>1, <2>3, <2>4, <2>5, <2>6 DEF Progress, m, N, k
  <2> QED
    BY <1>8, <2>7 DEF v, e, k, y
<1>9. CASE y # x
  <2> DEFINE t == Append(s, y)
  <2>1. Walking(v, d, k + 1, N) /\ v.node = w.node /\ v.list = w.list
    BY <1>1, <1>2, <1>3, <1>6, <1>9, VisitOther DEF v, N
  <2>2. Len(t) = k /\ t[k] = y /\ \A j \in 1..k - 1 : t[j] = s[j]
    BY <1>1, <1>7
  <2> HIDE DEF t
  <2>3. SameData(v.node, node)
    BY <1>2, <2>1
  <2>4. v.list.len = k + (m - i)
    BY <1>3, <2>1
  <2>5. \A j \in 1..k : node[d[j]].data = t[j]
    <3>1. \A j \in 1..k : j = k \/ j \in 1..k - 1
      BY <1>1
    <3> QED
      BY <1>2, <1>4, <2>2, <3>1 DEF y
  <2>6. Progress(v, d, c, t, i)
    BY <1>5, <2>1, <2>2, <2>3, <2>4, <2>5 DEF Progress, m, N
  <2> QED
    BY <1>9, <2>6 DEF v, t, y
<1> QED
  BY <1>8, <1>9 DEF v, y, k

\* When the loop has gone through the chain, what is left of it is what is kept.
LEMMA WalkKeeps ==
    ASSUME NEW c, ChainIs(c, list, node, deleted), NEW x,
           NEW p, Keeps(p, Contents, x)
    PROVE  \E d : /\ ChainIs(d, Walk(x).list, Walk(x).node, Walk(x).deleted)
                  /\ DataOf(d, Walk(x).list.len, Walk(x).node) = p[Len(Contents)]
<1> DEFINE m == list.len
           N == Len(node)
<1>1. PICK h : /\ h[0] = Start /\ h[N] = Walk(x)
               /\ \A i \in 1..N : h[i] = Visit(h[i - 1], x)
               /\ \A i \in 0..N : h[i] \in Turns(N)
  BY WalkTurnByTurn
<1>2. m \in Nat /\ N \in Nat /\ m <= N /\ \A i \in 1..m : c[i] \in 1..N
  BY ChainFacts
<1>3. /\ Contents \in Seq(Data) /\ Len(Contents) = m
      /\ \A i \in 1..m : Contents[i] = node[c[i]].data
  <2>1. Contents \in Seq(Data) /\ Len(Contents) = m /\ Contents = DataOf(c, m, node)
    BY ContentsAlongChain DEF Contents, Chain
  <2> QED
    BY <2>1 DEF DataOf
<1>4. /\ p[0] = <<>> /\ \A i \in 0..m : p[i] \in Seq(Data)
      /\ \A i \in 1..m : p[i] = IF node[c[i]].data = x THEN p[i - 1]
                                ELSE Append(p[i - 1], node[c[i]].data)
  BY <1>3 DEF Keeps
<1> HIDE DEF m, N
<1>5. \A i \in 0..m : \E d : Progress(h[i], d, c, p[i], i)
  <2> DEFINE K == {i \in 0..m : \E d : Progress(h[i], d, c, p[i], i)}
  <2>1. 0 \in K
    <3>1. Walking(Start, c, 1, N) /\ Start.node = node /\ Start.list = list
      BY StartIsATurn DEF Start, N
    <3>2. SameData(node, node) /\ Len(p[0]) = 0
      BY <1>4 DEF SameData
    <3>3. 0 + 1 = 1 /\ m = 0 + (m - 0) /\ m - 0 = m /\ \A j \in 1..m : 0 + j = j
      BY <1>2
    <3>4. Progress(Start, c, c, p[0], 0)
      BY <3>1, <3>2, <3>3 DEF Progress, m, N
    <3>5. 0 \in 0..m
      BY <1>2
    <3> QED
      BY <1>1, <3>4, <3>5
  <2>2. ASSUME NEW i \in 1..m, i - 1 \in K PROVE i \in K
    <3>1. PICK d : Progress(h[i - 1], d, c, p[i - 1], i - 1)
      BY <2>2
    <3>2. /\ i \in 0..m /\ i \in 1..N /\ i - 1 \in 0..m /\ i - 1 \in 0..N
      BY <1>2
    <3>3. h[i] = Visit(h[i - 1], x) /\ h[i - 1] \in Turns(N) /\ p[i - 1] \in Seq(Data)
      BY <1>1, <1>4, <3>2
    <3>4. IF node[c[i]].data = x
          THEN \E e : Progress(h[i], e, c, p[i - 1], i)
          ELSE \E e : Progress(h[i], e, c, Append(p[i - 1], node[c[i]].data), i)
      BY <3>1, <3>3, VisitProgresses DEF m, N
    <3>5. \E e : Progress(h[i], e, c, p[i], i)
      BY <1>4, <3>4
    <3> QED
      BY <3>2, <3>5
  <2>3. K \in SUBSET (0..m)
    OBVIOUS
  <2>4. \A i \in 0..m : i \in K
    <3> HIDE DEF K
    <3> QED
      BY <1>2, <2>1, <2>2, <2>3, Reached
  <2> QED
    BY <2>4
<1>6. PICK d : Progress(h[m], d, c, p[m], m)
  <2>1. m \in 0..m
    BY <1>2
  <2> QED
    BY <1>5, <2>1
<1> DEFINE w == h[m]
           n == Len(p[m])
<1>7. n \in Nat /\ p[m] \in Seq(Data)
  BY <1>2, <1>4
<1>8. /\ Walking(w, d, n + 1, N) /\ SameData(w.node, node) /\ w.list.len = n
      /\ \A j \in 1..n : node[d[j]].data = p[m][j]
  <2>1. n + (m - m) = n
    BY <1>2, <1>7
  <2> HIDE DEF w, n
  <2> QED
    BY <1>6, <2>1 DEF Progress, m, N, w, n
<1> HIDE DEF w, n
<1>9. w.cur = NULL
  BY <1>7, <1>8 DEF Walking, At
<1>10. h[N] = w
  <2> DEFINE K == {i \in 0..N : i >= m => h[i] = w}
  <2>1. 0 \in K
    BY <1>2 DEF w
  <2>2. ASSUME NEW i \in 1..N, i - 1 \in K PROVE i \in K
    <3>1. CASE i <= m
      <4>1. i \in 0..N /\ (i >= m => i = m)
        BY <1>2, <3>1
      <4> QED
        BY <4>1 DEF w
    <3>2. CASE ~(i <= m)
      <4>1. i \in 0..N /\ i - 1 >= m
        BY <1>2, <3>2
      <4>2. h[i - 1] = w
        BY <2>2, <4>1
      <4>3. h[i] = w
        BY <1>1, <1>9, <4>2, VisitNothing
      <4> QED
        BY <4>1, <4>3
    <3> QED
      BY <3>1, <3>2
  <2>3. N \in K
    <3>1. K \in SUBSET (0..N) /\ N \in 0..N
      BY <1>2
    <3> HIDE DEF K
    <3> QED
      BY <1>2, <2>1, <2>2, <3>1, Reached
  <2> QED
    BY <1>2, <2>3
<1>11. Walk(x) = w
  BY <1>1, <1>10
<1>12. ChainIs(d, w.list, w.node, w.deleted)
  BY <1>8 DEF Walking
<1>13. DataOf(d, w.list.len, w.node) = p[m]
  <2>1. \A j \in 1..n : d[j] \in 1..Len(w.node)
    BY <1>8, <1>12, ChainFacts
  <2>2. \A j \in 1..n : w.node[d[j]].data = p[m][j]
    BY <1>8, <2>1 DEF SameData
  <2>3. DataOf(d, n, w.node) = p[m]
    <3>1. p[m] = [j \in 1..n |-> p[m][j]]
      BY <1>7 DEF n
    <3> QED
      BY <2>2, <3>1 DEF DataOf
  <2> QED
    BY <1>8, <2>3
<1> QED
  BY <1>3, <1>11, <1>12, <1>13

\* remove(T) leaves the sequence without x.
LEMMA RemoveFilters ==
    ASSUME NEW c, ChainIs(c, list, node, deleted), NEW x \in Data, Remove(x)
    PROVE  Abstract!Remove(x)
<1>1. /\ list' = Walk(x).list /\ node' = Walk(x).node /\ deleted' = Walk(x).deleted
      /\ call' = <<"remove", x>>
  BY DEF Remove
<1>2. Contents \in Seq(Data)
  BY ContentsAlongChain DEF Contents, Chain
<1>3. PICK p : Keeps(p, Contents, x) /\ Abstract!remove(Contents, x) = p[Len(Contents)]
  BY <1>2, RemoveKeeps
<1>4. PICK d : /\ ChainIs(d, list', node', deleted')
               /\ DataOf(d, list'.len, node') = p[Len(Contents)]
  BY <1>1, <1>3, WalkKeeps
<1>5. Contents' = p[Len(Contents)]
  BY <1>4, ContentsBeforeAndAfter
<1> QED
  BY <1>1, <1>3, <1>5 DEF Abstract!Remove

\* Every method of linked_list.H does to the chain, and answers, what the sequence says, for
\* any data and any number of nodes: the scheduler has a FIFO queue.
THEOREM ListImplementsSequence == Spec => ImplementsSequence
<1>1. Init => Abstract!Init
  <2> SUFFICES ASSUME Init PROVE Abstract!Init
    OBVIOUS
  <2>1. PICK c : ChainIs(c, list, node, deleted)
    BY InitHasAChain DEF HasAChain
  <2>2. Contents \in Seq(Data) /\ Len(Contents) = list.len
    BY <2>1, ContentsAlongChain DEF Contents, Chain
  <2>3. Contents = <<>> /\ call = <<"LinkedList", NULL>>
    BY <2>2 DEF Init
  <2> QED
    BY <2>3 DEF Abstract!Init
<1>2. HasAChain /\ [Next]_vars => [Abstract!Next]_<<Contents, call>>
  <2> SUFFICES ASSUME HasAChain, [Next]_vars PROVE [Abstract!Next]_<<Contents, call>>
    OBVIOUS
  <2>1. PICK c : ChainIs(c, list, node, deleted)
    BY DEF HasAChain
  <2>2. ASSUME NEW x \in Data, PushBack(x) PROVE Abstract!Next
    BY <2>1, <2>2, PushBackAppends DEF Abstract!Next
  <2>3. ASSUME NEW x \in Data, PushFront(x) PROVE Abstract!Next
    BY <2>1, <2>3, PushFrontPrepends DEF Abstract!Next
  <2>4. ASSUME NEW x \in Data, Remove(x) PROVE Abstract!Next
    BY <2>1, <2>4, RemoveFilters DEF Abstract!Next
  <2>5. ASSUME PopFront PROVE Abstract!Next
    BY <2>1, <2>5, PopFrontTakesTail DEF Abstract!Next
  <2>6. ASSUME Front \/ Back PROVE Abstract!Next
    BY <2>1, <2>6, FrontAndBackAnswer DEF Abstract!Next
  <2>7. ASSUME UNCHANGED vars PROVE UNCHANGED <<Contents, call>>
    BY <2>7 DEF vars, Contents, Chain
  <2> QED
    BY <2>2, <2>3, <2>4, <2>5, <2>6, <2>7 DEF Next
<1>3. Spec => []HasAChain
  BY InitHasAChain, NextKeepsAChain, PTL DEF Spec
<1> QED
  BY <1>1, <1>2, <1>3, PTL DEF Spec, ImplementsSequence, Abstract!Spec
=============================================================================
