---------------------------- MODULE MCRtmCluster ----------------------------
(* RtmCluster on a small instance.  Threads are interchangeable.           *)
EXTENDS RtmCluster

CONSTANT MaxAccesses        \* bound: accesses of all threads together

Symmetry == Permutations(Thread)

(* All logs are closed and all stores are in memory: recording is over.    *)
Terminating ==
    /\ \A t \in Thread : Closed(thr[t]) /\ Drained(t)
    /\ UNCHANGED clusterVars

(* Accesses made and begun                                                 *)
Begun(t) == thr[t].memop + (IF pc[t] \in {"idle", "x_log", "finish"} THEN 0 ELSE 1)
BegunAccesses == FoldSet(LAMBDA t, n : n + Begun(t), 0, Thread)

MCNext == ClusterNext /\ BegunAccesses' <= MaxAccesses

MCSpec == ClusterInit /\ [][MCNext \/ Terminating]_clusterVars
=============================================================================
