------------------------------- MODULE RtmSeq -------------------------------
(***************************************************************************)
(* mem-record-rtmseq.c: every access runs as one transaction; if that      *)
(* aborts, it is made again by the code of the seqlock recorder.  Nothing  *)
(* keeps transactions and fallback code of different threads apart but the *)
(* odd version a read looks for and the write_lock a write looks at.       *)
(***************************************************************************)
EXTENDS Tsx

access_begin(t, o) ==
    /\ At(t, "idle") /\ Running(thr[t]) /\ thr[t].memop < MaxOps
    /\ xbegin(t, o, "xr_version", "r_version") \/ xbegin(t, o, "xw_version", "w_lock")

(* What follows an access, when the transaction has committed              *)
after_read(t) ==
    /\ thr' = [thr EXCEPT ![t] = note_read(@, loc[t].objid, loc[t].version, loc[t].val)]
    /\ Goto(t, "idle")

after_write(t) ==
    /\ thr' = [thr EXCEPT ![t] = note_write(@, loc[t].objid, loc[t].version, loc[t].val)]
    /\ Goto(t, "idle")

(* Mutant: the version may be odd                                          *)
tx_read_end_any_version(t) ==
    /\ At(t, "xr_end")
    /\ xend(t) /\ after_read(t)

(* mem_read's transaction: version, value, the test for an odd version     *)
tx_read_end(t) ==
    /\ At(t, "xr_end")
    /\ IF Even(loc[t].version)
       THEN xend(t) /\ after_read(t)
       ELSE xabort(t)

tx_read(t) ==
    \/ tx_load(t, "xr_version", "version", "xr_value")
    \/ tx_load(t, "xr_value", "mem", "xr_end")
    \/ tx_read_end(t)

(* Mutant: write_lock is not looked at                                     *)
tx_check_lock_skipped(t) ==
    /\ At(t, "xw_lock") /\ tx[t].live
    /\ Goto(t, "xw_end")
    /\ UNCHANGED <<shared, buf, loc, thr, tx, checkpoint>>

tx_check_lock(t) ==
    /\ At(t, "xw_lock") /\ tx[t].live
    /\ IF TxLoad(t, "lock") = 0
       THEN /\ Conflict(t, Loading(t, "lock"), {Here(t, "lock")}, {})
            /\ Goto(t, "xw_end")
            /\ UNCHANGED <<shared, buf, loc, thr, checkpoint>>
       ELSE xabort(t)

(* mem_write's transaction: version, value, the new version, the test of   *)
(* write_lock                                                              *)
tx_write(t) ==
    \/ tx_load(t, "xw_version", "version", "xw_value")
    \/ tx_store_value(t, "xw_value", "xw_inc")
    \/ tx_store_version(t, "xw_inc", "xw_lock")
    \/ tx_check_lock(t)
    \/ At(t, "xw_end") /\ xend(t) /\ after_write(t)

rtm_finish_thr(t) == mem_finish_thr(t) /\ UNCHANGED <<tx, checkpoint>>

RtmStep(t) ==
    \/ \E o \in Obj : access_begin(t, o)
    \/ tx_read(t) \/ tx_write(t) \/ (tx[t] = Doomed /\ xabort(t))
    \/ fallback_step(t) \/ rtm_finish_thr(t)

RtmNext == \E t \in Thread : RtmStep(t) \/ flush_store(t) \/ xabort(t)

-----------------------------------------------------------------------------
(* Exclusive writes ("we must check for lock being taken since we need to  *)
(* ensure exclusive write"): in memory a version moves by one and only     *)
(* while its lock is taken, or by two at once and only while it is free.   *)
(* A transaction never slips between a fallback writer's load of the       *)
(* version and its first increment.                                        *)
VersionStepsExclusive ==
    [][\A o \in Obj : version'[o] # version[o] =>
          \/ version'[o] = version[o] + 1 /\ write_lock[o] = BUSY
          \/ version'[o] = version[o] + 2 /\ Even(version[o]) /\ write_lock[o] # BUSY]_txVars
=============================================================================
