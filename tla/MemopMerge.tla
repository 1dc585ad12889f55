---------------------------- MODULE MemopMerge ------------------------------
(***************************************************************************)
(* Processing of the wait_memop logs between recording and replay:         *)
(* reorder-memop groups each thread's log by object, merge-memop merges    *)
(* the threads' logs with a priority queue into one log ordered by object  *)
(* and version, and writes an index of (first entry, count) per object.    *)
(* A file that was not written (there was nothing to write) is << >>.      *)
(***************************************************************************)
EXTENDS OrderLog, Functions, FiniteSets

VARIABLES wait_memop,   \* input: the "memop" log of every thread
          wmlog,        \* entries of it reorder-memop has read
          all,          \* those it keeps, by object
          objit,        \* objects it has written out
          sorted,       \* "sorted-memop" file of every thread
          buf,          \* merge-memop's read position in it: entries enqueued
          pq,           \* priority queue
          memop_log,    \* output "memop"
          indexbuf,     \* output "memop-index", two ints per object
          prev_id, cnt, prev_cnt,
          mpc           \* "load", "write", "enqueue", "merge", "done"

reorderVars == <<wmlog, all, objit>>
mergeVars == <<reorderVars, sorted, buf, pq, memop_log, indexbuf, prev_id, cnt, prev_cnt, mpc>>

MergeTypeOK ==
    /\ \A t \in Thread : wmlog[t] < Len(wait_memop[t])
    /\ all \in [Thread -> [Obj -> Seq(WaitMemop)]]
    /\ objit \in 0 .. NObj
    /\ sorted \in [Thread -> Seq(WaitMemop)]
    /\ \A t \in Thread : buf[t] \in 0 .. Len(sorted[t])
    /\ \A q \in pq : q.tid \in Thread /\ q.wop \in WaitMemop
    /\ memop_log \in Seq([version : Nat, memop : Nat, tid : Thread])
    /\ indexbuf \in Seq(Nat \cup {-1})
    /\ prev_id \in Obj \cup {-1}
    /\ cnt \in Nat /\ prev_cnt \in Nat
    /\ mpc \in {"load", "write", "enqueue", "merge", "done"}

MergeInit ==
    /\ wmlog = [t \in Thread |-> 0]
    /\ all = [t \in Thread |-> [o \in Obj |-> << >>]]
    /\ objit = 0
    /\ sorted = [t \in Thread |-> << >>]
    /\ buf = [t \in Thread |-> 0]
    /\ pq = {}
    /\ memop_log = << >> /\ indexbuf = << >>
    /\ prev_id = -1 /\ cnt = 0 /\ prev_cnt = 0
    /\ mpc = "load"

-----------------------------------------------------------------------------
(* reorder-memop: a process per thread, which share nothing, so that their *)
(* steps are taken together: an entry of every log, then an object of      *)
(* every output file.                                                      *)
Ended(t) == wait_memop[t][wmlog[t] + 1].objid = -1

push_back(kept, e) ==
    IF e.memop = NoMemop THEN kept ELSE [kept EXCEPT ![e.objid] = Append(@, e)]

load_wait_memop_log ==
    /\ mpc = "load"
    /\ all' = [t \in Thread |->
                  IF Ended(t) THEN all[t] ELSE push_back(all[t], wait_memop[t][wmlog[t] + 1])]
    /\ wmlog' = [t \in Thread |-> IF Ended(t) THEN wmlog[t] ELSE wmlog[t] + 1]
    /\ mpc' = IF \A t \in Thread : Ended(t) THEN "write" ELSE "load"
    /\ UNCHANGED <<objit, sorted, buf, pq, memop_log, indexbuf, prev_id, cnt, prev_cnt>>

write_out_memop_log ==
    /\ mpc = "write"
    /\ sorted' = [t \in Thread |-> sorted[t] \o all[t][objit]]
    /\ objit' = objit + 1
    /\ mpc' = IF objit + 1 = NObj THEN "enqueue" ELSE "write"
    /\ UNCHANGED <<wmlog, all, buf, pq, memop_log, indexbuf, prev_id, cnt, prev_cnt>>

-----------------------------------------------------------------------------
(* merge-memop                                                             *)

(* Mutant: entries of one object in any order                              *)
Greater_object_only(a, b) == a.wop.objid > b.wop.objid

(* QueEnt::operator>                                                       *)
Greater(a, b) ==
    IF a.wop.objid = b.wop.objid THEN a.wop.version > b.wop.version
    ELSE a.wop.objid > b.wop.objid

NextOf(t) ==
    IF buf[t] < Len(sorted[t]) THEN {[tid |-> t, wop |-> sorted[t][buf[t] + 1]]} ELSE {}

BufAfter(t) == IF buf[t] < Len(sorted[t]) THEN buf[t] + 1 ELSE buf[t]

EmptyIndex(n) == [i \in 1 .. 2 * n |-> IF i % 2 = 1 THEN -1 ELSE 0]

(* With nothing to merge no output file is created.  Otherwise the queue   *)
(* starts with the first entry of every thread that has one.               *)
enqueue_first ==
    /\ mpc = "enqueue"
    /\ pq' = UNION {NextOf(t) : t \in Thread}
    /\ buf' = [t \in Thread |-> BufAfter(t)]
    /\ mpc' = IF \A t \in Thread : sorted[t] = << >> THEN "done" ELSE "merge"
    /\ UNCHANGED <<reorderVars, sorted, memop_log, indexbuf, prev_id, cnt, prev_cnt>>

(* Start of another object's entries: close the previous object's index    *)
(* pair, write (-1, 0) for the objects skipped, open this one's.           *)
IndexFor(o) ==
    (IF prev_id # -1 THEN <<cnt - prev_cnt>> ELSE << >>)
        \o EmptyIndex(o - (prev_id + 1)) \o <<cnt>>

(* pq.top() is any entry with no smaller one: std::priority_queue leaves   *)
(* the order of equal entries open.                                        *)
merge_top ==
    /\ mpc = "merge"
    /\ \E q \in pq :
        /\ \A r \in pq : ~Greater(q, r)
        /\ IF prev_id # q.wop.objid
           THEN /\ indexbuf' = indexbuf \o IndexFor(q.wop.objid)
                /\ prev_cnt' = cnt
                /\ prev_id' = q.wop.objid
           ELSE UNCHANGED <<indexbuf, prev_cnt, prev_id>>
        /\ memop_log' = Append(memop_log,
               [version |-> q.wop.version, memop |-> q.wop.memop, tid |-> q.tid])
        /\ pq' = (pq \ {q}) \cup NextOf(q.tid)
        /\ buf' = [buf EXCEPT ![q.tid] = BufAfter(q.tid)]
    /\ cnt' = cnt + 1
    /\ UNCHANGED <<reorderVars, sorted, mpc>>

(* Mutant: no index for the objects after the last one with entries        *)
merge_end_unpadded ==
    /\ mpc = "merge" /\ pq = {}
    /\ indexbuf' = indexbuf \o <<cnt - prev_cnt>>
    /\ mpc' = "done"
    /\ UNCHANGED <<reorderVars, sorted, buf, pq, memop_log, prev_id, cnt, prev_cnt>>

merge_end ==
    /\ mpc = "merge" /\ pq = {}
    /\ indexbuf' = indexbuf \o (<<cnt - prev_cnt>> \o EmptyIndex(NObj - (prev_id + 1)))
    /\ mpc' = "done"
    /\ UNCHANGED <<reorderVars, sorted, buf, pq, memop_log, prev_id, cnt, prev_cnt>>

MergeNext ==
    load_wait_memop_log \/ write_out_memop_log \/ enqueue_first \/ merge_top \/ merge_end

-----------------------------------------------------------------------------
(* The merged entries of object o, as replay finds them through the index  *)
IndexedLog(o) ==
    IF memop_log = << >> \/ indexbuf[2 * o + 1] = -1 THEN << >>
    ELSE SubSeq(memop_log, indexbuf[2 * o + 1] + 1, indexbuf[2 * o + 1] + indexbuf[2 * o + 2])

(* What the recording threads logged about o                               *)
LoggedReads(o) ==
    UNION {{[version |-> e.version, memop |-> e.memop, tid |-> t] :
               e \in {d \in Range(wait_memop[t]) : d.objid = o}} : t \in Thread}

(* merge_memop leaves in the index, for every object, exactly the reads    *)
(* logged about it, each once, by version: no entry goes to another        *)
(* object's segment, whatever objects have no entries and however equal    *)
(* versions are ordered.                                                   *)
IndexedLogsExact ==
    mpc = "done" =>
        \A o \in Obj :
            LET log == IndexedLog(o)
            IN  /\ Range(log) = LoggedReads(o)
                /\ Len(log) = Cardinality(LoggedReads(o))
                /\ \A i, j \in 1 .. Len(log) : i < j => log[i].version <= log[j].version

(* Both output files are created with their final size and written through *)
(* a bare pointer: entries and index pairs never run past it, and end      *)
(* exactly there, and no thread's input is read past its end.  An index    *)
(* pair is only closed with a positive count (the assert in merge_memop).  *)
OutputFits ==
    LET total == Cardinality(UNION {{t} \X (1 .. Len(sorted[t])) : t \in Thread})
    IN  /\ MergeTypeOK
        /\ Len(indexbuf) <= 2 * NObj /\ Len(memop_log) <= total
        /\ mpc = "done" /\ total > 0 => Len(indexbuf) = 2 * NObj /\ Len(memop_log) = total
        /\ prev_id # -1 => cnt > prev_cnt
=============================================================================
