-------------------------- MODULE MCBlockingDisk --------------------------
(***************************************************************************)
(* BlockingDisk.tla on three blocks and five iterations: fun2 goes round   *)
(* the blocks more than once, and rereads blocks it has written.           *)
(***************************************************************************)
EXTENDS BlockingDisk
CONSTANTS t1, t2, t3
=============================================================================
