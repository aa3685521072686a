----------------------------- MODULE MCDmStack ------------------------------
(* main() on a target of two threads.                                      *)
EXTENDS DmStack

CONSTANTS t1, t2

TwoThreads == {t1, t2}
=============================================================================
