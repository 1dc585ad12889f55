--------------------------- MODULE MCRecordReplay ---------------------------
(* RecordReplay on small instances.  Threads are interchangeable.          *)
EXTENDS RecordReplay, FiniteSetsExt, TLC

CONSTANT MaxAccesses        \* bound: accesses of all threads together

Symmetry == Permutations(Thread)

MadeAccesses == FoldSet(LAMBDA t, n : n + Len(thr[t].access), 0, Thread)

MCSpec == Init /\ [][Next /\ MadeAccesses' <= MaxAccesses]_rrVars
MCFairSpec == MCSpec /\ Fairness
=============================================================================
