------------------------------ MODULE MCRtmSeq ------------------------------
(* RtmSeq on a small instance.  Threads are interchangeable.               *)
EXTENDS RtmSeq, TLC

Symmetry == Permutations(Thread)

(* All logs are closed and all stores are in memory: recording is over.    *)
Terminating ==
    /\ \A t \in Thread : Closed(thr[t]) /\ Drained(t)
    /\ UNCHANGED txVars

MCSpec == TxInit /\ [][RtmNext \/ Terminating]_txVars
=============================================================================
