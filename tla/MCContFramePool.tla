-------------------------- MODULE MCContFramePool --------------------------
(***************************************************************************)
(* ContFramePool.tla on a kernel pool of two bitmap bytes and a process    *)
(* pool of three, the middle one the hole.                                 *)
(***************************************************************************)
EXTENDS ContFramePool
=============================================================================
