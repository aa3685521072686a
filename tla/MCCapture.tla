----------------------------- MODULE MCCapture ------------------------------
(* Capture on a target of two or three threads, the first its leader.      *)
EXTENDS Capture

CONSTANTS t1, t2, t3

TwoThreads   == {t1, t2}
ThreeThreads == {t1, t2, t3}
=============================================================================
