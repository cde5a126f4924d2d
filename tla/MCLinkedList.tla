--------------------------- MODULE MCLinkedList ---------------------------
(***************************************************************************)
(* LinkedList.tla holding two thread pointers, four nodes ever allocated:  *)
(* enough for a chain with two interior nodes and repeated data.           *)
(***************************************************************************)
EXTENDS LinkedList
=============================================================================
