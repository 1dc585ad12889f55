------------------------------ MODULE RtmCommit -----------------------------
(***************************************************************************)
(* mem-record-rtmcommit.c: basic blocks of RTM_BATCH_N accesses run as     *)
(* hardware transactions, or under one global ticket lock once aborted,    *)
(* and every block logs the time at which it committed.                    *)
(*                                                                         *)
(* The processor's transactions are external.  A transaction buffers its   *)
(* stores and is aborted when another thread's load or store, inside a     *)
(* transaction or not, conflicts with what it has read or written; it may  *)
(* also abort at any time for no reason.  An abort takes back the thread's *)
(* accesses since _xbegin and continues in the fallback of bb_start.       *)
(***************************************************************************)
EXTENDS OrderLog, FiniteSets

CONSTANTS MaxOps,       \* bound: accesses per thread
          RTM_BATCH_N,
          TicketMod     \* number of tickets (2^16: unsigned short)

(* No more threads than tickets can wait for the lock                      *)
ASSUME CommitAssumption ==
    /\ MaxOps \in Nat \ {0} /\ RTM_BATCH_N \in Nat \ {0}
    /\ IsFiniteSet(Thread)
    /\ TicketMod \in Nat /\ Cardinality(Thread) < TicketMod

VARIABLES mem,          \* objects' values
          g_time,       \* the next time stamp
          ticket, users,    \* g_lock
          nops,         \* accesses the thread's program makes
          access,       \* accesses made; their number is g_sim_bbcnt
          commit_log,   \* time stamps of the thread's blocks
          cpc,          \* where the thread is
          tx,           \* its transaction: read set and buffered stores
          reg           \* its local: me in ticket_lock, ts in bb_end

lockVars == <<ticket, users>>
commitVars == <<mem, g_time, lockVars, nops, access, commit_log, cpc, tx, reg>>

(* Locations a transaction can conflict on: the objects and two globals    *)
LockLoc == -1
TimeLoc == -2

NoTx == [on |-> FALSE, rset |-> {}, wbuf |-> << >>]
Block == [acc : {"R", "W"}, objid : Obj, val : Val]

(* Every variable has its type                                             *)
CommitTypeOK ==
    /\ mem \in [Obj -> Val] /\ g_time \in Nat
    /\ ticket \in 0 .. TicketMod - 1 /\ users \in 0 .. TicketMod - 1
    /\ nops \in [Thread -> 1 .. MaxOps]
    /\ \A t \in Thread :
        /\ access[t] \in Seq(Block) /\ Len(access[t]) <= nops[t]
        /\ commit_log[t] \in Seq(Nat)
        /\ cpc[t] \in {"out", "run", "end", "time", "commit", "lock", "spin", "store", "unlock"}
        /\ tx[t].rset \subseteq Obj \cup {LockLoc, TimeLoc}
        /\ DOMAIN tx[t].wbuf \subseteq Obj \cup {TimeLoc}
        /\ cpc[t] \in {"time", "commit"} => tx[t].on
        /\ cpc[t] \in {"out", "lock", "spin", "store", "unlock"} => tx[t] = NoTx
        /\ reg[t] \in Nat

CommitInit ==
    /\ mem = [o \in Obj |-> InitVal]
    /\ g_time = 0 /\ ticket = 0 /\ users = 0
    /\ nops \in [Thread -> 1 .. MaxOps]
    /\ access = [t \in Thread |-> << >>]
    /\ commit_log = [t \in Thread |-> << >>]
    /\ cpc = [t \in Thread |-> "out"]
    /\ tx = [t \in Thread |-> NoTx]
    /\ reg = [t \in Thread |-> 0]

-----------------------------------------------------------------------------
(* Transactions                                                            *)
Readers(l) == {u \in Thread : l \in tx[u].rset}
Writers(l) == {u \in Thread : l \in DOMAIN tx[u].wbuf}

(* Accesses of the blocks a thread has finished; all but the last block of *)
(* a thread are full.                                                      *)
Committed(t) == RTM_BATCH_N * Len(commit_log[t])

(* t moves on to `there' with transaction `mine' and log `acc'; every      *)
(* other transaction in `victims' aborts.                                  *)
Step(t, there, mine, acc, victims) ==
    LET lost == victims \ {t}
    IN  /\ cpc' = [u \in Thread |-> IF u = t THEN there ELSE IF u \in lost THEN "lock" ELSE cpc[u]]
        /\ tx' = [u \in Thread |-> IF u = t THEN mine ELSE IF u \in lost THEN NoTx ELSE tx[u]]
        /\ access' = [u \in Thread |-> IF u = t THEN acc
                                       ELSE IF u \in lost THEN SubSeq(access[u], 1, Committed(u))
                                       ELSE access[u]]

Loading(t, l) == [tx[t] EXCEPT !.rset = IF tx[t].on THEN @ \cup {l} ELSE @]

Storing(t, l, val) ==
    [tx[t] EXCEPT !.wbuf = [k \in DOMAIN @ \cup {l} |-> IF k = l THEN val ELSE @[k]]]

(* Mutant: the transaction is tried again                                  *)
Abort_retries(t) ==
    /\ tx[t].on
    /\ Step(t, "out", NoTx, SubSeq(access[t], 1, Committed(t)), {})
    /\ UNCHANGED <<mem, g_time, lockVars, nops, commit_log, reg>>

(* _xbegin returns a second time, and bb_start goes for the lock           *)
Abort(t) ==
    /\ tx[t].on
    /\ Step(t, "lock", NoTx, SubSeq(access[t], 1, Committed(t)), {})
    /\ UNCHANGED <<mem, g_time, lockVars, nops, commit_log, reg>>

-----------------------------------------------------------------------------
(* bb_start                                                                *)
xbegin(t) ==
    /\ cpc[t] = "out" /\ Len(access[t]) < nops[t]
    /\ Step(t, "run", [NoTx EXCEPT !.on = TRUE], access[t], {})
    /\ UNCHANGED <<mem, g_time, lockVars, nops, commit_log, reg>>

(* ticket_lock: the ticket, then the wait for it                           *)
take_ticket(t) ==
    /\ cpc[t] = "lock"
    /\ users' = (users + 1) % TicketMod
    /\ reg' = [reg EXCEPT ![t] = users]
    /\ Step(t, "spin", NoTx, access[t], Readers(LockLoc))
    /\ UNCHANGED <<mem, g_time, ticket, nops, commit_log>>

(* Mutant: nobody waits                                                    *)
ticket_wait_ignored(t) ==
    /\ cpc[t] = "spin"
    /\ reg' = [reg EXCEPT ![t] = 0]
    /\ Step(t, "run", NoTx, access[t], {})
    /\ UNCHANGED <<mem, g_time, lockVars, nops, commit_log>>

ticket_wait(t) ==
    /\ cpc[t] = "spin" /\ ticket = reg[t]
    /\ reg' = [reg EXCEPT ![t] = 0]
    /\ Step(t, "run", NoTx, access[t], {})
    /\ UNCHANGED <<mem, g_time, lockVars, nops, commit_log>>

-----------------------------------------------------------------------------
(* bb_end is called after the last access of a block, and by               *)
(* mem_finish_thr if the program ends inside a block.                      *)
BlockEnds(t, n) == n % RTM_BATCH_N = 0 \/ n = nops[t]
AfterAccess(t) == IF BlockEnds(t, Len(access[t]) + 1) THEN "end" ELSE "run"

mem_read(t, o) ==
    LET val == IF o \in DOMAIN tx[t].wbuf THEN tx[t].wbuf[o] ELSE mem[o]
    IN  /\ cpc[t] = "run"
        /\ Step(t, AfterAccess(t), Loading(t, o),
                Append(access[t], [acc |-> "R", objid |-> o, val |-> val]), Writers(o))
        /\ UNCHANGED <<mem, g_time, lockVars, nops, commit_log, reg>>

mem_write(t, o) ==
    LET val == Value(t, Len(access[t]))
    IN  /\ cpc[t] = "run"
        /\ mem' = IF tx[t].on THEN mem ELSE [mem EXCEPT ![o] = val]
        /\ Step(t, AfterAccess(t), IF tx[t].on THEN Storing(t, o, val) ELSE tx[t],
                Append(access[t], [acc |-> "W", objid |-> o, val |-> val]),
                Readers(o) \cup Writers(o))
        /\ UNCHANGED <<g_time, lockVars, nops, commit_log, reg>>

-----------------------------------------------------------------------------
(* bb_end inside a transaction: spin_lockable or _xabort, gettime, _xend   *)

(* Mutant: the fallback lock is not looked at                              *)
check_lockable_skipped(t) ==
    /\ cpc[t] = "end" /\ tx[t].on
    /\ Step(t, "time", tx[t], access[t], {})
    /\ UNCHANGED <<mem, g_time, lockVars, nops, commit_log, reg>>

check_lockable(t) ==
    /\ cpc[t] = "end" /\ tx[t].on
    /\ IF ticket = users
       THEN Step(t, "time", Loading(t, LockLoc), access[t], {})
       ELSE Step(t, "lock", NoTx, SubSeq(access[t], 1, Committed(t)), {})
    /\ UNCHANGED <<mem, g_time, lockVars, nops, commit_log, reg>>

tx_gettime(t) ==
    /\ cpc[t] = "time"
    /\ Step(t, "commit", [Storing(t, TimeLoc, g_time + 1) EXCEPT !.rset = @ \cup {TimeLoc}],
            access[t], Readers(TimeLoc) \cup Writers(TimeLoc))
    /\ UNCHANGED <<mem, g_time, lockVars, nops, commit_log, reg>>

xend(t) ==
    LET wbuf == tx[t].wbuf
    IN  /\ cpc[t] = "commit"
        /\ mem' = [o \in Obj |-> IF o \in DOMAIN wbuf THEN wbuf[o] ELSE mem[o]]
        /\ g_time' = wbuf[TimeLoc]
        /\ commit_log' = [commit_log EXCEPT ![t] = Append(@, g_time)]
        /\ Step(t, "out", NoTx, access[t], {})
        /\ UNCHANGED <<lockVars, nops, reg>>

(* bb_end under the lock: gettime's load and store, spin_unlock            *)
load_time(t) ==
    /\ cpc[t] = "end" /\ ~tx[t].on
    /\ reg' = [reg EXCEPT ![t] = g_time]
    /\ Step(t, "store", NoTx, access[t], Writers(TimeLoc))
    /\ UNCHANGED <<mem, g_time, lockVars, nops, commit_log>>

(* Mutant: g_time is not moved                                             *)
store_time_lost(t) ==
    /\ cpc[t] = "store"
    /\ Step(t, "unlock", NoTx, access[t], {})
    /\ UNCHANGED <<mem, g_time, lockVars, nops, commit_log, reg>>

store_time(t) ==
    /\ cpc[t] = "store"
    /\ g_time' = reg[t] + 1
    /\ Step(t, "unlock", NoTx, access[t], Readers(TimeLoc) \cup Writers(TimeLoc))
    /\ UNCHANGED <<mem, lockVars, nops, commit_log, reg>>

unlock(t) ==
    /\ cpc[t] = "unlock"
    /\ ticket' = (ticket + 1) % TicketMod
    /\ commit_log' = [commit_log EXCEPT ![t] = Append(@, reg[t])]
    /\ reg' = [reg EXCEPT ![t] = 0]
    /\ Step(t, "out", NoTx, access[t], Readers(LockLoc))
    /\ UNCHANGED <<mem, g_time, users, nops>>

CommitStep(t) ==
    \/ xbegin(t) \/ take_ticket(t) \/ ticket_wait(t)
    \/ \E o \in Obj : mem_read(t, o) \/ mem_write(t, o)
    \/ check_lockable(t) \/ tx_gettime(t) \/ xend(t)
    \/ load_time(t) \/ store_time(t) \/ unlock(t)

CommitNext == \E t \in Thread : CommitStep(t) \/ Abort(t)

CommitSpec == CommitInit /\ [][CommitNext]_commitVars

Recorded == \A t \in Thread : cpc[t] = "out" /\ Len(access[t]) = nops[t]

-----------------------------------------------------------------------------
(* The fallback path: at most one thread is past spin_lock, although       *)
(* tickets wrap around.                                                    *)
FallbackExclusive ==
    Cardinality({t \in Thread : cpc[t] \in {"run", "end", "store", "unlock"} /\ ~tx[t].on}) <= 1

(* When access i of t committed, and the committed writes of o             *)
Time(t, i) == <<commit_log[t][((i - 1) \div RTM_BATCH_N) + 1], i>>
Earlier(a, b) == a[1] < b[1] \/ (a[1] = b[1] /\ a[2] < b[2])
Done(t) == {i \in 1 .. Len(access[t]) : i <= Committed(t)}
WritesOf(o) ==
    {w \in UNION {{t} \X Done(t) : t \in Thread} :
        access[w[1]][w[2]].acc = "W" /\ access[w[1]][w[2]].objid = o}

(* The commit order is total: no two blocks log the same time, so that     *)
(* merge-commit has no ties to break.                                      *)
TimesUnique ==
    \A t, u \in Thread :
        \A i \in 1 .. Len(commit_log[t]), j \in 1 .. Len(commit_log[u]) :
            commit_log[t][i] = commit_log[u][j] => t = u /\ i = j

(* "Record RTM commit order": every read of a committed block returned     *)
(* the value of the last write before it in the order of the logged times, *)
(* whether the blocks ran as transactions or under the lock.               *)
CommitOrderSerial ==
    \A t \in Thread : \A i \in Done(t) :
        access[t][i].acc = "R" =>
            LET before == {w \in WritesOf(access[t][i].objid) :
                             Earlier(Time(w[1], w[2]), Time(t, i))}
            IN  \/ before = {} /\ access[t][i].val = InitVal
                \/ \E w \in before :
                     /\ access[w[1]][w[2]].val = access[t][i].val
                     /\ \A x \in before : ~Earlier(Time(w[1], w[2]), Time(x[1], x[2]))
=============================================================================
