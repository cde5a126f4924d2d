----------------------------- MODULE MCThreads -----------------------------
(***************************************************************************)
(* Threads.tla on four threads, as in kernel.C, with two bursts each.      *)
(***************************************************************************)
EXTENDS Threads
CONSTANTS t1, t2, t3, t4

\* kernel.C of P6: thread1 runs for ever.
P6Forever == {t1}

\* kernel.C of P5 with _TERMINATING_FUNCTIONS_: fun3 and fun4 run for ever.
P5Forever == {t3, t4}
=============================================================================
