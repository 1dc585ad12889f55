-------------------------------- MODULE Tsx ---------------------------------
(***************************************************************************)
(* Hardware transactions (the intrinsics of tsx/rtm.h) beside the seqlock  *)
(* code, which the RTM recorders keep as their fallback.  The processor is *)
(* external: a transaction loads and stores privately and commits at once, *)
(* unless another thread's load or store, transactional or not, conflicts  *)
(* with it; then, or for no reason at all, it aborts.  A plain store       *)
(* conflicts when it leaves its store buffer.  A conflict dooms the other  *)
(* transaction (the requester wins): all it can still do is abort.         *)
(***************************************************************************)
EXTENDS Seqlock

VARIABLES tx,           \* every thread's transaction
          checkpoint    \* what an abort returns it to

txVars == <<vars, tx, checkpoint>>

NoTx == [on |-> FALSE, live |-> FALSE, rset |-> {}, wbuf |-> << >>]
Doomed == [NoTx EXCEPT !.on = TRUE]
NoCheckpoint == [pc |-> "idle", loc |-> [objid |-> 0, version |-> 0, val |-> InitVal], thr |-> mem_init_thr]

TxInit ==
    /\ Init
    /\ tx = [t \in Thread |-> NoTx]
    /\ checkpoint = [t \in Thread |-> NoCheckpoint]

-----------------------------------------------------------------------------
(* Other threads' transactions that loads of rd or stores to wr abort      *)
Victims(t, rd, wr) ==
    {u \in Thread \ {t} : \/ DOMAIN tx[u].wbuf \cap (rd \cup wr) # {}
                          \/ tx[u].rset \cap wr # {}}

Conflict(t, mine, rd, wr) ==
    tx' = [u \in Thread |-> IF u = t THEN mine ELSE IF u \in Victims(t, rd, wr) THEN Doomed ELSE tx[u]]

Here(t, to) == <<to, loc[t].objid>>

TxLoad(t, to) ==
    IF Here(t, to) \in DOMAIN tx[t].wbuf THEN tx[t].wbuf[Here(t, to)] ELSE Load(t, to, loc[t].objid)

Loading(t, to) == [tx[t] EXCEPT !.rset = @ \cup {Here(t, to)}]

Storing(t, to, val) ==
    [tx[t] EXCEPT !.wbuf = [k \in DOMAIN @ \cup {Here(t, to)} |-> IF k = Here(t, to) THEN val ELSE @[k]]]

(* _xbegin: an abort will return from it again and continue in `fallback'  *)
xbegin(t, o, entry, fallback) ==
    /\ loc' = [loc EXCEPT ![t].objid = o]
    /\ tx' = [tx EXCEPT ![t] = [NoTx EXCEPT !.on = TRUE, !.live = TRUE]]
    /\ checkpoint' = [checkpoint EXCEPT ![t] = [pc |-> fallback, loc |-> loc'[t], thr |-> thr[t]]]
    /\ Goto(t, entry)
    /\ UNCHANGED <<shared, buf, thr>>

(* Registers and memory are again what they were at _xbegin                *)
xabort(t) ==
    /\ tx[t].on
    /\ pc' = [pc EXCEPT ![t] = checkpoint[t].pc]
    /\ loc' = [loc EXCEPT ![t] = checkpoint[t].loc]
    /\ thr' = [thr EXCEPT ![t] = checkpoint[t].thr]
    /\ tx' = [tx EXCEPT ![t] = NoTx]
    /\ checkpoint' = [checkpoint EXCEPT ![t] = NoCheckpoint]
    /\ UNCHANGED <<shared, buf>>

(* _xend: the earlier stores are out, and all of wbuf appears in memory    *)
xend(t) ==
    LET wbuf == tx[t].wbuf
        New(to, old) == [o \in Obj |-> IF <<to, o>> \in DOMAIN wbuf THEN wbuf[<<to, o>>] ELSE old[o]]
    IN  /\ tx[t].live /\ Drained(t)
        /\ version' = New("version", version)
        /\ mem' = New("mem", mem)
        /\ tx' = [tx EXCEPT ![t] = NoTx]
        /\ checkpoint' = [checkpoint EXCEPT ![t] = NoCheckpoint]
        /\ UNCHANGED <<write_lock, buf, loc>>

(* One load or store of a live transaction                                 *)
tx_load(t, here, to, there) ==
    /\ At(t, here) /\ tx[t].live
    /\ loc' = IF to = "version" THEN [loc EXCEPT ![t].version = TxLoad(t, to)]
              ELSE [loc EXCEPT ![t].val = TxLoad(t, to)]
    /\ Conflict(t, Loading(t, to), {Here(t, to)}, {})
    /\ Goto(t, there)
    /\ UNCHANGED <<shared, buf, thr, checkpoint>>

tx_store_value(t, here, there) ==
    LET val == Value(t, thr[t].memop)
    IN  /\ At(t, here) /\ tx[t].live
        /\ loc' = [loc EXCEPT ![t].val = val]
        /\ Conflict(t, Storing(t, "mem", val), {}, {Here(t, "mem")})
        /\ Goto(t, there)
        /\ UNCHANGED <<shared, buf, thr, checkpoint>>

(* info->version += 2 next to __sync_synchronize                           *)
tx_store_version(t, here, there) ==
    /\ At(t, here) /\ tx[t].live /\ Drained(t)
    /\ Conflict(t, [Storing(t, "version", TxLoad(t, "version") + 2) EXCEPT !.rset = @ \cup {Here(t, "version")}],
                {}, {Here(t, "version")})
    /\ Goto(t, there)
    /\ UNCHANGED <<shared, buf, loc, thr, checkpoint>>

-----------------------------------------------------------------------------
(* The fallback code runs outside transactions, and conflicts with them    *)
fallback_read(t) ==
    \/ (read_version(t) \/ read_validate(t)) /\ Conflict(t, tx[t], {Here(t, "version")}, {})
    \/ read_value(t) /\ Conflict(t, tx[t], {Here(t, "mem")}, {})

fallback_write(t) ==
    \/ spin_lock(t) /\ Conflict(t, tx[t], {}, {Here(t, "lock")})
    \/ (write_odd(t) \/ write_even(t)) /\ Conflict(t, tx[t], {Here(t, "version")}, {})
    \/ (write_value(t) \/ write_fence(t) \/ spin_unlock(t)) /\ UNCHANGED tx

fallback_step(t) == (fallback_read(t) \/ fallback_write(t)) /\ UNCHANGED checkpoint

flush_store(t) ==
    /\ Flush(t)
    /\ Conflict(t, tx[t], {}, {<<Head(buf[t]).to, Head(buf[t]).objid>>})
    /\ UNCHANGED checkpoint
=============================================================================
