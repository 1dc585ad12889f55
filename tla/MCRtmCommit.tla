----------------------------- MODULE MCRtmCommit ----------------------------
(* RtmCommit on a small instance.  Threads are interchangeable.            *)
EXTENDS RtmCommit, TLC

Symmetry == Permutations(Thread)

(* The recording is over when every thread has committed its last block.   *)
Terminating == Recorded /\ UNCHANGED commitVars

MCSpec == CommitInit /\ [][CommitNext \/ Terminating]_commitVars
=============================================================================
