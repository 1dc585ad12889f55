----------------------------- MODULE MCSeqlock ------------------------------
(* Seqlock on a small instance                                             *)
EXTENDS Seqlock

(* All logs are closed and all stores are in memory: recording is over.    *)
Terminating ==
    /\ \A t \in Thread : Closed(thr[t]) /\ Drained(t)
    /\ UNCHANGED vars

MCNext == Next \/ Terminating
MCSpec == Init /\ [][MCNext]_vars
MCFairSpec == MCSpec /\ Fairness
=============================================================================
