----------------------------- MODULE MCPaging -----------------------------
(***************************************************************************)
(* Paging.tla with four entries to a page: two pools of three pages each,  *)
(* the second asked for with an odd size and reaching into a page table    *)
(* that its list is not in.                                                *)
(***************************************************************************)
EXTENDS Paging

TwoPools ==
    {[base_address |-> 8, size |-> 6], [base_address |-> 14, size |-> 5]}

\* Directory, shared table, first table, two lists, and three for what comes with the
\* regions: four pages and another table.
EightFrames == 4..11
=============================================================================
