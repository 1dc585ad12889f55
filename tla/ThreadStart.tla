---------------------------- MODULE ThreadStart -----------------------------
(***************************************************************************)
(* What racey.c, addcnt.c and relay.c have in common: main creates the     *)
(* threads one after the other, and they meet at a barrier, flag, before   *)
(* they start their work.                                                  *)
(***************************************************************************)
EXTENDS Integers

CONSTANT NumProcs       \* threads

Thread == 0 .. NumProcs - 1

VARIABLES created,      \* threads main has created
          flag,         \* the start barrier
          tpc           \* where every thread is

Goto(t, here, there) == tpc[t] = here /\ tpc' = [tpc EXCEPT ![t] = there]

pthread_create(start) ==
    /\ created < NumProcs
    /\ Goto(created, "new", start)
    /\ created' = created + 1
    /\ UNCHANGED flag
=============================================================================
