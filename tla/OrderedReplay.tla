--------------------------- MODULE OrderedReplay ----------------------------
(***************************************************************************)
(* What replay (mem-replay.c) promises: the accesses of the program happen *)
(* one at a time, each at the version of its object it had when it was     *)
(* recorded, and a write only after every recorded read of the version it  *)
(* replaces.  Replay is shown to refine this module, and the test programs *)
(* are replayed on it.                                                     *)
(***************************************************************************)
EXTENDS Integers, Sequences

CONSTANTS Thread, Obj

VARIABLES access_log,   \* input: the recorded accesses of every thread
          done,         \* accesses every thread has replayed
          value,        \* the objects
          ver           \* their versions

ordVars == <<done, value, ver>>

(* Mutant: a later version will do                                         *)
MayHappen_version_reached(t, acc, o) ==
    LET n == done[t] + 1
    IN  n \in DOMAIN access_log[t] => ver[o] >= access_log[t][n].version

(* What an access of t to o waits for: its recorded version                *)
(* (wait_object_version), and as a write the other threads' recorded reads *)
(* of it (wait_reader).  Replay knows an access by its number only.        *)
MayHappen(t, acc, o) ==
    LET n == done[t] + 1
        ReadsHere(a) == a.acc = "R" /\ a.objid = o /\ a.version = ver[o]
    IN  /\ n \in DOMAIN access_log[t] => ver[o] = access_log[t][n].version
        /\ acc = "W" => \A u \in Thread \ {t} : \A i \in DOMAIN access_log[u] :
                            ReadsHere(access_log[u][i]) => i <= done[u]

(* The access changes the object, if it is a write, and is counted         *)
Happens(t, acc, o, val) ==
    /\ value' = IF acc = "W" THEN [value EXCEPT ![o] = val] ELSE value
    /\ ver' = IF acc = "W" THEN [ver EXCEPT ![o] = @ + 2] ELSE ver
    /\ done' = [done EXCEPT ![t] = @ + 1]

(* The recorded access happens again, with the recorded value              *)
Repeat(t) ==
    LET a == access_log[t][done[t] + 1]
    IN  /\ done[t] < Len(access_log[t])
        /\ MayHappen(t, a.acc, a.objid)
        /\ a.acc = "R" => value[a.objid] = a.val
        /\ Happens(t, a.acc, a.objid, a.val)

OrdInit == done = [t \in Thread |-> 0] /\ ver = [o \in Obj |-> 0]

OrdSpec == OrdInit /\ [][\E t \in Thread : Repeat(t)]_ordVars
=============================================================================
