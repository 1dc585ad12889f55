------------------------------ MODULE MCMerge -------------------------------
(* MemopMerge on every set of small logs a recording can leave: closed,    *)
(* with the versions of one object increasing along a thread's log.        *)
EXTENDS MemopMerge, TLC

CONSTANT MaxEntries     \* bound: entries per thread

Versions == {0, 2}

LogsOf(n) ==
    {log \in [1 .. n -> [objid : Obj, version : Versions, memop : {0}]] :
        \A i, j \in 1 .. n : i < j /\ log[i].objid = log[j].objid => log[i].version < log[j].version}

(* The reads of a log are different accesses                               *)
Close(log) ==
    Append([i \in DOMAIN log |-> [log[i] EXCEPT !.memop = i - 1]], EndOfMemops)

Logs == {Close(log) : log \in UNION {LogsOf(n) : n \in 0 .. MaxEntries}}

Symmetry == Permutations(Thread)

mvars == <<wait_memop, mergeVars>>

Terminating == mpc = "done" /\ UNCHANGED mergeVars

MCInit == wait_memop \in [Thread -> Logs] /\ MergeInit

MCSpec == MCInit /\ [][(MergeNext \/ Terminating) /\ UNCHANGED wait_memop]_mvars

=============================================================================
