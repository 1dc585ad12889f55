------------------------------ MODULE SeqBatch ------------------------------
(***************************************************************************)
(* mem-record-seqbatch.c: the accesses of the seqlock recorder, with the   *)
(* order logs taken later, a batch at a time.  mem_read and mem_write make *)
(* the same shared accesses as mem-record-seqlock.c and are atomic here as *)
(* in Recorder; the queue and the logs are thread-local.                   *)
(***************************************************************************)
EXTENDS OrderLog, SequencesExt

CONSTANTS MaxOps,           \* bound: accesses per thread
          BATCH_LOG_SIZE

ASSUME BatchAssumption == MaxOps \in Nat /\ BATCH_LOG_SIZE \in Nat \ {0}

VARIABLES version,      \* g_objinfo[o].version
          mem,          \* the object's value
          thr,          \* thread-local record of every thread (OrderLog)
          g_batch_q     \* accesses whose logs are not taken yet

batchVars == <<version, mem, thr, g_batch_q>>

(* "Use negative objid to mark write"                                      *)
Complement(o) == -o - 1
BatMemAcc == [objid : Obj \cup {Complement(o) : o \in Obj}, version : Nat]

(* Every variable has its type, and no entry is stored past the end of     *)
(* g_batch_q: batch_add_log always finds a free slot.                      *)
BatchTypeOK ==
    /\ version \in [Obj -> Nat]
    /\ mem \in [Obj -> Val]
    /\ thr \in [Thread -> OrderLogs]
    /\ g_batch_q \in [Thread -> Seq(BatMemAcc)]
    /\ \A t \in Thread : Len(g_batch_q[t]) < BATCH_LOG_SIZE

BatchInit ==
    /\ version = [o \in Obj |-> 0]
    /\ mem = [o \in Obj |-> InitVal]
    /\ thr = [t \in Thread |-> mem_init_thr]
    /\ g_batch_q = [t \in Thread |-> << >>]

-----------------------------------------------------------------------------
(* Mutant: object 0 is taken for a write                                   *)
process_1log_zero(l, a) ==
    LET is_write == a.objid <= 0
        o == IF a.objid < 0 THEN Complement(a.objid) ELSE a.objid
        m == IF l.last[o].version # a.version
             THEN [log_order(l, o, a.version) EXCEPT !.last[o].version = a.version]
             ELSE l
    IN  [m EXCEPT !.last[o].memop = IF is_write THEN NoMemop ELSE m.memop, !.memop = @ + 1]

(* Unlike mem-record-seqlock.c, a write updates last->version too          *)
process_1log(l, a) ==
    LET is_write == a.objid < 0
        o == IF is_write THEN Complement(a.objid) ELSE a.objid
        m == IF l.last[o].version # a.version
             THEN [log_order(l, o, a.version) EXCEPT !.last[o].version = a.version]
             ELSE l
    IN  [m EXCEPT !.last[o].memop = IF is_write THEN NoMemop ELSE m.memop, !.memop = @ + 1]

batch_process_log(l, q) == FoldLeft(process_1log, l, q)

(* Mutant: the batch is processed one entry late                           *)
batch_add_log_late(t, l, objid) ==
    LET o == IF objid < 0 THEN Complement(objid) ELSE objid
        q == Append(g_batch_q[t], [objid |-> objid, version |-> version[o]])
        full == Len(q) > BATCH_LOG_SIZE
    IN  /\ thr' = [thr EXCEPT ![t] = IF full THEN batch_process_log(l, q) ELSE l]
        /\ g_batch_q' = [g_batch_q EXCEPT ![t] = IF full THEN << >> ELSE q]

(* l is the thread's record with the access in its access log              *)
batch_add_log(t, l, objid) ==
    LET o == IF objid < 0 THEN Complement(objid) ELSE objid
        q == Append(g_batch_q[t], [objid |-> objid, version |-> version[o]])
        full == Len(q) = BATCH_LOG_SIZE
    IN  /\ thr' = [thr EXCEPT ![t] = IF full THEN batch_process_log(l, q) ELSE l]
        /\ g_batch_q' = [g_batch_q EXCEPT ![t] = IF full THEN << >> ELSE q]

MayAccess(t) == Running(thr[t]) /\ Len(thr[t].access) < MaxOps

mem_read(t, o) ==
    /\ MayAccess(t)
    /\ batch_add_log(t, log_access(thr[t], "R", o, version[o], mem[o]), o)
    /\ UNCHANGED <<version, mem>>

mem_write(t, o) ==
    LET val == Value(t, Len(thr[t].access))
    IN  /\ MayAccess(t)
        /\ mem' = [mem EXCEPT ![o] = val]
        /\ version' = [version EXCEPT ![o] = @ + 2]
        /\ batch_add_log(t, log_access(thr[t], "W", o, version[o], val), Complement(o))

(* mem_finish_thr: before_finish_thr empties the queue ahead of the loop   *)
mem_finish_thr(t) ==
    /\ \/ /\ Finishing(thr[t])
          /\ thr' = [thr EXCEPT ![t] = finish_object(batch_process_log(@, g_batch_q[t]))]
       \/ Closing(thr[t]) /\ thr' = [thr EXCEPT ![t] = mark_log_end(@)]
    /\ g_batch_q' = [g_batch_q EXCEPT ![t] = << >>]
    /\ UNCHANGED <<version, mem>>

AllClosed == \A t \in Thread : Closed(thr[t])

BatchNext ==
    \/ \E t \in Thread, o \in Obj : mem_read(t, o) \/ mem_write(t, o)
    \/ \E t \in Thread : mem_finish_thr(t)

-----------------------------------------------------------------------------
(* What the unbatched recorder logs for the same accesses, as far into     *)
(* mem_finish_thr as the thread is.                                        *)
NoteAccess(l, a) ==
    IF a.acc = "R" THEN note_read(l, a.objid, a.version, a.val)
    ELSE note_write(l, a.objid, a.version, a.val)

Unbatched(l) ==
    LET noted == FoldLeft(NoteAccess, mem_init_thr, l.access)
        finished == FoldLeft(LAMBDA m, o : finish_object(m), noted,
                             [k \in 1 .. IF Closed(l) THEN NObj ELSE l.fin |-> k])
    IN  IF Closed(l) THEN mark_log_end(finished) ELSE finished

(* "Same with mem-record-seqlock, except batches log taking": once the     *)
(* queue is worked off, a thread's memop and order logs are those the      *)
(* seqlock recorder would have written for the same accesses, at every     *)
(* fill level of the queue, although memop lags behind and g_last is       *)
(* updated differently by writes.                                          *)
BatchedLogsSame ==
    \A t \in Thread :
        LET l == batch_process_log(thr[t], g_batch_q[t])
            u == Unbatched(thr[t])
        IN  /\ l.memop = u.memop
            /\ l.wait_version = u.wait_version
            /\ l.wait_memop = u.wait_memop
=============================================================================
