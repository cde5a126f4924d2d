-------------------------- MODULE MCThreadSwitch --------------------------
(***************************************************************************)
(* ThreadSwitch.tla on three threads: the one that leaves, the one that    *)
(* comes, and one already suspended.                                       *)
(***************************************************************************)
EXTENDS ThreadSwitch
CONSTANTS t1, t2, t3
=============================================================================
