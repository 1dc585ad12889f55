----------------------------- MODULE MCSeqBatch -----------------------------
(* SeqBatch on a small instance.  Threads are interchangeable.             *)
EXTENDS SeqBatch

Symmetry == Permutations(Thread)

(* A recording whose threads have all closed their logs is over.           *)
Terminating == AllClosed /\ UNCHANGED batchVars

MCSpec == BatchInit /\ [][BatchNext \/ Terminating]_batchVars
=============================================================================
