----------------------------- MODULE RtmCluster -----------------------------
(***************************************************************************)
(* mem-record-rtmcluster.c: a transaction protects a simulated basic block *)
(* of RTM_BATCH_N accesses, and the order logs are taken from a queue.  An *)
(* abort takes the whole block back, queue and counter included, and its   *)
(* accesses are made again one by one by the code of the seqlock recorder, *)
(* with no lock held between them.                                         *)
(*                                                                         *)
(* thr is a history variable here: the accesses made, and the logs an      *)
(* unbatched recorder takes of them.  Its memop is g_sim_bbcnt.  The       *)
(* thread's own memop, g_last and logs are in log.                         *)
(***************************************************************************)
EXTENDS Tsx, SequencesExt

CONSTANT RTM_BATCH_N

ASSUME ClusterAssumption == MaxOps \in Nat /\ RTM_BATCH_N \in Nat \ {0}

VARIABLES log, g_batch_q

clusterVars == <<txVars, log, g_batch_q>>

Bat == INSTANCE SeqBatch WITH BATCH_LOG_SIZE <- RTM_BATCH_N

ClusterInit ==
    /\ TxInit
    /\ log = [t \in Thread |-> mem_init_thr]
    /\ g_batch_q = [t \in Thread |-> << >>]

-----------------------------------------------------------------------------
process_1log(l, a) == Bat!process_1log(l, a)
batch_process_log(l, q) == FoldLeft(process_1log, l, q)

(* Mutant: mem_write calls batch_read_log                                  *)
NewEntry_always_read(l) == [objid |-> Last(l.access).objid, version |-> Last(l.access).version]

(* The queue entry of the access last made: batch_read_log,                *)
(* batch_write_log                                                         *)
NewEntry(l) ==
    LET a == Last(l.access)
    IN  [objid |-> IF a.acc = "W" THEN Bat!Complement(a.objid) ELSE a.objid, version |-> a.version]

(* l is the history with the access in it                                  *)
batch_add_log(t, l) ==
    LET q == Append(g_batch_q[t], NewEntry(l))
        full == Len(q) = RTM_BATCH_N
    IN  /\ log' = [log EXCEPT ![t] = IF full THEN batch_process_log(@, q) ELSE @]
        /\ g_batch_q' = [g_batch_q EXCEPT ![t] = IF full THEN << >> ELSE q]

(* Mutant: the block is one access longer                                  *)
BlockEnd_late(t) == thr[t].memop % RTM_BATCH_N = 0

BlockBegin(t) == thr[t].memop % RTM_BATCH_N = 0
BlockEnd(t) == thr[t].memop % RTM_BATCH_N = RTM_BATCH_N - 1

(* The first access of a block asserts !_xtest() and starts a transaction; *)
(* the others go on in whichever mode the block is.                        *)
enter(t, o, entry, fallback) ==
    /\ At(t, "idle") /\ Running(thr[t]) /\ thr[t].memop < MaxOps
    /\ IF BlockBegin(t)
       THEN ~tx[t].on /\ xbegin(t, o, entry, fallback)
       ELSE /\ tx[t] # Doomed
            /\ loc' = [loc EXCEPT ![t].objid = o]
            /\ Goto(t, IF tx[t].on THEN entry ELSE fallback)
            /\ UNCHANGED <<shared, buf, thr, tx, checkpoint>>
    /\ UNCHANGED <<log, g_batch_q>>

(* An abort also takes back what the transaction has queued                *)
cluster_abort(t) ==
    LET queued == thr[t].memop - checkpoint[t].thr.memop
    IN  /\ xabort(t)
        /\ g_batch_q' = [g_batch_q EXCEPT ![t] = SubSeq(@, 1, Len(@) - queued)]
        /\ UNCHANGED log

(* The end of an access in a transaction; l is the history with it         *)
tx_access_end(t, here, l) ==
    /\ At(t, here) /\ tx[t].live
    /\ thr' = [thr EXCEPT ![t] = l]
    /\ IF BlockEnd(t)
       THEN xend(t) /\ Goto(t, "x_log") /\ UNCHANGED <<log, g_batch_q>>
       ELSE batch_add_log(t, l) /\ Goto(t, "idle") /\ UNCHANGED <<shared, buf, loc, tx, checkpoint>>

(* "Avoid taking log inside transaction."                                  *)
log_block(t) ==
    /\ At(t, "x_log")
    /\ log' = [log EXCEPT ![t] = batch_process_log(@, Append(g_batch_q[t], NewEntry(thr[t])))]
    /\ g_batch_q' = [g_batch_q EXCEPT ![t] = << >>]
    /\ Goto(t, "idle")
    /\ UNCHANGED <<shared, buf, loc, thr, tx, checkpoint>>

-----------------------------------------------------------------------------
(* Mutant: the version may be odd but for the last access of a block       *)
tx_read_value_checks_last(t) ==
    /\ At(t, "xr_value")
    /\ IF BlockEnd(t) => Even(loc[t].version)
       THEN tx_load(t, "xr_value", "mem", "xr_end") /\ UNCHANGED <<log, g_batch_q>>
       ELSE cluster_abort(t)

tx_read_value(t) ==
    /\ At(t, "xr_value")
    /\ IF Even(loc[t].version)
       THEN tx_load(t, "xr_value", "mem", "xr_end") /\ UNCHANGED <<log, g_batch_q>>
       ELSE cluster_abort(t)

tx_read(t) ==
    \/ tx_load(t, "xr_version", "version", "xr_value") /\ UNCHANGED <<log, g_batch_q>>
    \/ tx_read_value(t)
    \/ tx_access_end(t, "xr_end", note_read(thr[t], loc[t].objid, loc[t].version, loc[t].val))

tx_check_lock(t) ==
    /\ At(t, "xw_lock") /\ tx[t].live
    /\ IF TxLoad(t, "lock") = 0
       THEN /\ Conflict(t, Loading(t, "lock"), {Here(t, "lock")}, {})
            /\ Goto(t, "xw_value")
            /\ UNCHANGED <<shared, buf, loc, thr, checkpoint, log, g_batch_q>>
       ELSE cluster_abort(t)

tx_write(t) ==
    \/ /\ \/ tx_load(t, "xw_version", "version", "xw_lock")
          \/ tx_store_value(t, "xw_value", "xw_inc")
          \/ tx_store_version(t, "xw_inc", "xw_end")
       /\ UNCHANGED <<log, g_batch_q>>
    \/ tx_check_lock(t)
    \/ tx_access_end(t, "xw_end", note_write(thr[t], loc[t].objid, loc[t].version, loc[t].val))

(* The step of the fallback that completes an access also queues it        *)
fallback_access(t) ==
    /\ fallback_step(t)
    /\ IF thr' = thr THEN UNCHANGED <<log, g_batch_q>> ELSE batch_add_log(t, thr'[t])

(* before_finish_thr commits an unfinished block, and then works off the   *)
(* queue, which is done here with the first iteration of mem_finish_thr.   *)
before_finish_thr(t) ==
    /\ At(t, "idle") /\ Running(thr[t])
    /\ Goto(t, "finish")
    /\ IF ~BlockBegin(t) /\ tx[t].on THEN xend(t) ELSE UNCHANGED <<shared, buf, loc, tx, checkpoint>>
    /\ UNCHANGED <<thr, log, g_batch_q>>

cluster_finish_thr(t) ==
    /\ At(t, "finish")
    /\ \/ /\ Finishing(thr[t])
          /\ thr' = [thr EXCEPT ![t] = finish_object(@)]
          /\ log' = [log EXCEPT ![t] = finish_object(batch_process_log(@, g_batch_q[t]))]
       \/ /\ Closing(thr[t])
          /\ thr' = [thr EXCEPT ![t] = mark_log_end(@)]
          /\ log' = [log EXCEPT ![t] = mark_log_end(@)]
    /\ g_batch_q' = [g_batch_q EXCEPT ![t] = << >>]
    /\ UNCHANGED <<shared, buf, pc, loc, tx, checkpoint>>

ClusterStep(t) ==
    \/ \E o \in Obj : enter(t, o, "xr_version", "r_version") \/ enter(t, o, "xw_version", "w_lock")
    \/ tx_read(t) \/ tx_write(t) \/ log_block(t) \/ (tx[t] = Doomed /\ cluster_abort(t))
    \/ fallback_access(t) \/ before_finish_thr(t) \/ cluster_finish_thr(t)

ClusterNext ==
    \E t \in Thread :
        \/ ClusterStep(t) \/ cluster_abort(t)
        \/ flush_store(t) /\ UNCHANGED <<log, g_batch_q>>

-----------------------------------------------------------------------------
(* Queue, counter and transaction stay in step through commits, aborts and *)
(* blocks left half done: between accesses the queue holds the accesses of *)
(* the current block, so that batch_add_log always finds a free slot, and  *)
(* a transaction is open only inside a block (assert(!_xtest()) at its     *)
(* first access).                                                          *)
BlocksAligned ==
    \A t \in Thread : At(t, "idle") =>
        /\ Len(g_batch_q[t]) = thr[t].memop % RTM_BATCH_N
        /\ tx[t].on => ~BlockBegin(t)

(* Once the queue is worked off, the logs are those an unbatched recorder  *)
(* takes of the same accesses, also after aborts.                          *)
ClusterLogsSame ==
    \A t \in Thread :
        LET q == IF At(t, "x_log") THEN Append(g_batch_q[t], NewEntry(thr[t])) ELSE g_batch_q[t]
            l == batch_process_log(log[t], q)
        IN  /\ l.memop = thr[t].memop
            /\ l.wait_version = thr[t].wait_version
            /\ l.wait_memop = thr[t].wait_memop

(* Accesses that have happened: not those of open transactions             *)
accessBar == [t \in Thread |-> IF tx[t].on THEN checkpoint[t].thr.access ELSE thrBar[t].access]

(* s after access a, if a can happen atomically in s                       *)
Apply(s, a) ==
    [ok |-> s.ok /\ a.version = s.version[a.objid] /\ (a.acc = "R" => a.val = s.mem[a.objid]),
     version |-> IF a.acc = "W" THEN [s.version EXCEPT ![a.objid] = @ + 2] ELSE s.version,
     mem |-> IF a.acc = "W" THEN [s.mem EXCEPT ![a.objid] = a.val] ELSE s.mem]

HappenAtOnce(t) ==
    LET made == SubSeq(accessBar'[t], Len(accessBar[t]) + 1, Len(accessBar'[t]))
        s == FoldLeft(Apply, [ok |-> TRUE, version |-> versionBar, mem |-> mem], made)
    IN  /\ accessBar' = [accessBar EXCEPT ![t] = @ \o made]
        /\ s.ok /\ versionBar' = s.version /\ mem' = s.mem

(* "Provide atomic version & memory access by RTM, each transaction will   *)
(* protect multiple memory accesses": the accesses of a transaction happen *)
(* one after the other at one instant, and those of a block in fallback at *)
(* an instant each, although transactions and fallbacks of other threads   *)
(* run in between.                                                         *)
AtomicBlocks == [][\E t \in Thread : HappenAtOnce(t)]_<<versionBar, mem, accessBar>>
=============================================================================
