--------------------------- MODULE RtmCommitOrder ---------------------------
(***************************************************************************)
(* The invariants of mem-record-rtmcommit.c, for any number of threads,    *)
(* objects, accesses and tickets, and what they have in common with each   *)
(* other: what one step does to its own thread, to the transactions it     *)
(* aborts and to the other threads.  A step keeps Base, and outside the    *)
(* ticket lock's queue also the lock's invariant and that of the times.    *)
(***************************************************************************)
EXTENDS RtmCommit, TLAPS

(* A leaf that names no prover is for Zenon.                               *)
USE ZenonT(60)

Locs == Obj \cup {LockLoc, TimeLoc}
Spots == {"out", "run", "end", "time", "commit", "lock", "spin", "store", "unlock"}

(* Buffered stores: values of objects, and g_time                          *)
Wbufs ==
    {w \in UNION {[D -> Val \cup Nat] : D \in SUBSET (Obj \cup {TimeLoc})} :
        \A l \in DOMAIN w : w[l] \in IF l = TimeLoc THEN Nat ELSE Val}

Txs == [on : BOOLEAN, rset : SUBSET Locs, wbuf : Wbufs]

Types ==
    /\ mem \in [Obj -> Val] /\ g_time \in Nat
    /\ ticket \in 0 .. TicketMod - 1 /\ users \in 0 .. TicketMod - 1
    /\ nops \in [Thread -> 1 .. MaxOps]
    /\ access \in [Thread -> Seq(Block)]
    /\ commit_log \in [Thread -> Seq(Nat)]
    /\ cpc \in [Thread -> Spots] /\ tx \in [Thread -> Txs] /\ reg \in [Thread -> Nat]

(* A transaction lives between _xbegin and _xend.  From spin_lockable on   *)
(* it watches the lock, which is free; from gettime on it is the only one  *)
(* that has touched g_time.                                                *)
TxInv(t) ==
    /\ ~tx[t].on => tx[t] = NoTx
    /\ tx[t].on => cpc[t] \in {"run", "end", "time", "commit"}
    /\ cpc[t] \in {"time", "commit"} => tx[t].on /\ LockLoc \in tx[t].rset
    /\ LockLoc \in tx[t].rset => ticket = users
    /\ cpc[t] = "commit" => TimeLoc \in DOMAIN tx[t].wbuf /\ tx[t].wbuf[TimeLoc] = g_time + 1

(* What one transaction has written no other has read or written           *)
Isolated ==
    \A t, u \in Thread : t # u =>
        \A l \in DOMAIN tx[u].wbuf : l \notin tx[t].rset /\ l \notin DOMAIN tx[t].wbuf

-----------------------------------------------------------------------------
(* The ticket lock.  A thread's place in the queue is the distance of its  *)
(* ticket from the one being served; the holder's is 0.                    *)
Dist(a, b) == IF a <= b THEN b - a ELSE b - a + TicketMod

Holder(t) == cpc[t] \in {"run", "end", "store", "unlock"} /\ ~tx[t].on
Queue == {t \in Thread : cpc[t] = "spin" \/ Holder(t)}
Place(t) == IF cpc[t] = "spin" THEN Dist(ticket, reg[t]) ELSE 0

LockInv ==
    /\ Dist(ticket, users) = Cardinality(Queue)
    /\ \A t \in Queue : Place(t) < Cardinality(Queue)
    /\ \A t \in Thread : cpc[t] = "spin" => reg[t] < TicketMod
    /\ \A t, u \in Queue : Place(t) = Place(u) => t = u

(* Every logged time is in the past, also of a thread that has taken its   *)
(* time under the lock and not logged it yet.                              *)
LoggedBefore(n) == \A t \in Thread : \A i \in 1 .. Len(commit_log[t]) : commit_log[t][i] < n

TimeInv ==
    /\ LoggedBefore(g_time)
    /\ \A t \in Thread :
        /\ cpc[t] = "store" => reg[t] = g_time
        /\ cpc[t] = "unlock" => g_time = reg[t] + 1 /\ LoggedBefore(reg[t])

-----------------------------------------------------------------------------
(* Where a thread is in its program: between blocks it has made the        *)
(* accesses of the finished ones, at a block's end it has filled the block *)
(* or come to the end of the program.                                      *)
BlockInv(t) ==
    LET n == Len(access[t])
        b == Committed(t)
    IN  /\ n <= nops[t] /\ b < n + RTM_BATCH_N
        /\ cpc[t] = "out" => n = b \/ (n = nops[t] /\ n <= b)
        /\ cpc[t] \in {"lock", "spin"} => n = b /\ n < nops[t]
        /\ cpc[t] = "run" => b <= n /\ n < b + RTM_BATCH_N /\ n < nops[t]
        /\ cpc[t] \in {"end", "time", "commit", "store", "unlock"} =>
             b < n /\ n <= b + RTM_BATCH_N /\ (n = b + RTM_BATCH_N \/ n = nops[t])

(* In a log whose first b accesses are committed, the writes of o in the   *)
(* unfinished block before access k, and the value the last of them stored *)
Own(acc, b, k, o) ==
    {j \in b + 1 .. k - 1 : j <= Len(acc) /\ acc[j].acc = "W" /\ acc[j].objid = o}

LastOwn(acc, b, k, o, val) ==
    \E j \in Own(acc, b, k, o) : acc[j].val = val /\ \A i \in Own(acc, b, k, o) : i <= j

OwnAll(t, o) == Own(access[t], Committed(t), Len(access[t]) + 1, o)
LastOwnAll(t, o, val) == LastOwn(access[t], Committed(t), Len(access[t]) + 1, o, val)

(* val is what the last of the committed writes S stored                   *)
Latest(S, val) ==
    \/ S = {} /\ val = InitVal
    \/ \E w \in S :
         /\ access[w[1]][w[2]].val = val
         /\ \A x \in S : ~Earlier(Time(w[1], w[2]), Time(x[1], x[2]))

(* Memory holds the last committed value, but for what the lock's holder   *)
(* has written in its block.                                               *)
MemInv ==
    \A o \in Obj :
        /\ (\A t \in Thread : Holder(t) => OwnAll(t, o) = {}) => Latest(WritesOf(o), mem[o])
        /\ \A t \in Thread : Holder(t) /\ OwnAll(t, o) # {} => LastOwnAll(t, o, mem[o])

(* A transaction's stores are in its buffer                                *)
BufferInv(t) ==
    tx[t].on =>
        \A o \in Obj : IF o \in DOMAIN tx[t].wbuf THEN LastOwnAll(t, o, tx[t].wbuf[o])
                       ELSE OwnAll(t, o) = {}

(* A read in an unfinished block returned the block's own last write, or   *)
(* else, in a transaction, what memory still holds, and under the lock,    *)
(* what the last committed write stored.                                   *)
Good(t, k, o, val) ==
    IF Own(access[t], Committed(t), k, o) # {} THEN LastOwn(access[t], Committed(t), k, o, val)
    ELSE IF tx[t].on THEN o \in tx[t].rset /\ val = mem[o]
    ELSE Latest(WritesOf(o), val)

ReadInv(t) ==
    tx[t].on \/ Holder(t) =>
        \A k \in Committed(t) + 1 .. Len(access[t]) :
            access[t][k].acc = "R" => Good(t, k, access[t][k].objid, access[t][k].val)

Serial == MemInv /\ CommitOrderSerial /\ \A t \in Thread : BufferInv(t) /\ ReadInv(t)

(* Blocks follow each other every RTM_BATCH_N accesses.                    *)
LEMMA Blocks ==
    /\ RTM_BATCH_N \in Nat /\ RTM_BATCH_N > 0
    /\ \A n \in Nat : RTM_BATCH_N * n \in Nat
    /\ \A n \in Nat : RTM_BATCH_N * (n + 1) = RTM_BATCH_N * n + RTM_BATCH_N
<1>1. RTM_BATCH_N \in Nat /\ RTM_BATCH_N > 0
    BY CommitAssumption, SMTT(60)
<1>2. \A n \in Nat : RTM_BATCH_N * n \in Nat
    BY <1>1, SMTT(60)
<1>3. \A n \in Nat : RTM_BATCH_N * (n + 1) = RTM_BATCH_N * n + RTM_BATCH_N
    BY <1>1, SMTT(60)
<1> QED BY <1>1, <1>2, <1>3

LEMMA BlockFull ==
    ASSUME NEW k \in Nat, NEW n \in Nat, RTM_BATCH_N * k <= n, n < RTM_BATCH_N * k + RTM_BATCH_N
    PROVE  (n + 1) % RTM_BATCH_N = 0 <=> n + 1 = RTM_BATCH_N * k + RTM_BATCH_N
<1>1. ASSUME NEW j \in Nat, NEW r \in 0 .. RTM_BATCH_N - 1
      PROVE  (RTM_BATCH_N * j + r) % RTM_BATCH_N = r
    BY Blocks, SMTT(60)
<1>2. CASE n + 1 = RTM_BATCH_N * k + RTM_BATCH_N
  <2>1. n + 1 = RTM_BATCH_N * (k + 1) + 0
      BY <1>2, Blocks, SMTT(60)
  <2>2. k + 1 \in Nat /\ 0 \in 0 .. RTM_BATCH_N - 1
      BY Blocks, SMTT(60)
  <2>3. (RTM_BATCH_N * (k + 1) + 0) % RTM_BATCH_N = 0
      BY <1>1, <2>2
  <2> QED BY <1>2, <2>1, <2>3
<1>3. CASE n + 1 # RTM_BATCH_N * k + RTM_BATCH_N
  <2> DEFINE r == n + 1 - RTM_BATCH_N * k
  <2>1. r \in 1 .. RTM_BATCH_N - 1 /\ n + 1 = RTM_BATCH_N * k + r
      BY <1>3, Blocks, SMTT(60)
  <2>2. (RTM_BATCH_N * k + r) % RTM_BATCH_N = r
      BY <1>1, <2>1, SMTT(60)
  <2> QED BY <1>3, <2>1, <2>2, SMTT(60)
<1> QED BY <1>2, <1>3

LEMMA CommittedNat ==
    ASSUME Types, NEW t \in Thread
    PROVE  Committed(t) \in Nat /\ Len(access[t]) \in Nat /\ Len(commit_log[t]) \in Nat
BY Blocks, SMTT(60) DEF Types, Committed

-----------------------------------------------------------------------------
(* Transactions                                                            *)
On == {u \in Thread : tx[u].on}

Base == Types /\ Isolated /\ \A t \in Thread : TxInv(t) /\ BlockInv(t)

LEMMA EmptyWbuf == << >> \in Wbufs /\ DOMAIN << >> = {}
<1>1. DOMAIN << >> = {}
    BY SMTT(60)
<1>2. << >> \in [{} -> Val \cup Nat]
    BY SMTT(60)
<1>3. << >> \in UNION {[D -> Val \cup Nat] : D \in SUBSET (Obj \cup {TimeLoc})}
    BY <1>2
<1> QED BY <1>1, <1>3 DEF Wbufs

LEMMA NoTxFacts ==
    /\ NoTx \in Txs /\ ~NoTx.on /\ NoTx.rset = {} /\ NoTx.wbuf = << >>
    /\ DOMAIN NoTx.wbuf = {}
<1>1. ~NoTx.on /\ NoTx.rset = {} /\ NoTx.wbuf = << >>
    BY DEF NoTx
<1>2. NoTx \in Txs
    BY EmptyWbuf DEF NoTx, Txs
<1> QED BY <1>1, <1>2, EmptyWbuf

LEMMA BegunFacts ==
    LET begun == [NoTx EXCEPT !.on = TRUE]
    IN  begun \in Txs /\ begun.on /\ begun.rset = {} /\ begun.wbuf = << >> /\ DOMAIN begun.wbuf = {}
<1> DEFINE begun == [NoTx EXCEPT !.on = TRUE]
<1>1. begun \in Txs
    BY NoTxFacts DEF Txs
<1>2. begun.on = TRUE /\ begun.rset = NoTx.rset /\ begun.wbuf = NoTx.wbuf
    BY NoTxFacts DEF Txs
<1> HIDE DEF begun
<1>3. begun \in Txs /\ begun.on /\ begun.rset = {} /\ begun.wbuf = << >> /\ DOMAIN begun.wbuf = {}
    BY <1>1, <1>2, NoTxFacts
<1> QED BY <1>3 DEF begun

LEMMA WbufFacts ==
    ASSUME NEW w \in Wbufs
    PROVE  /\ DOMAIN w \subseteq Obj \cup {TimeLoc}
           /\ \A l \in DOMAIN w : w[l] \in IF l = TimeLoc THEN Nat ELSE Val
BY DEF Wbufs

Storable(l, val) == (l = TimeLoc => val \in Nat) /\ (l # TimeLoc => val \in Val)

LEMMA StoredWbuf ==
    ASSUME NEW w \in Wbufs, NEW l \in Obj \cup {TimeLoc}, NEW val, Storable(l, val)
    PROVE  [k \in DOMAIN w \cup {l} |-> IF k = l THEN val ELSE w[k]] \in Wbufs
<1> DEFINE D == DOMAIN w \cup {l}
           x == [k \in D |-> IF k = l THEN val ELSE w[k]]
<1>1. D \in SUBSET (Obj \cup {TimeLoc})
    BY WbufFacts
<1>2. \A k \in D : x[k] \in IF k = TimeLoc THEN Nat ELSE Val
    BY WbufFacts DEF Storable
<1>3. x \in [D -> Val \cup Nat]
    BY <1>2
<1>4. DOMAIN x = D
    OBVIOUS
<1> HIDE DEF x, D
<1>5. x \in UNION {[E -> Val \cup Nat] : E \in SUBSET (Obj \cup {TimeLoc})}
    BY <1>1, <1>3
<1>6. x \in Wbufs
    BY <1>2, <1>4, <1>5 DEF Wbufs
<1> QED BY <1>6 DEF x, D

LEMMA TxFields ==
    ASSUME Types, NEW t \in Thread
    PROVE  /\ tx[t] \in Txs /\ tx[t].on \in BOOLEAN
           /\ tx[t].rset \subseteq Locs /\ tx[t].wbuf \in Wbufs
BY DEF Types, Txs

LEMMA LoadingFacts ==
    ASSUME Types, NEW t \in Thread, NEW l \in Locs
    PROVE  /\ Loading(t, l) \in Txs
           /\ Loading(t, l).on = tx[t].on /\ Loading(t, l).wbuf = tx[t].wbuf
           /\ Loading(t, l).rset = IF tx[t].on THEN tx[t].rset \cup {l} ELSE tx[t].rset
BY TxFields DEF Loading, Txs

LEMMA StoringFacts ==
    ASSUME Types, NEW t \in Thread, NEW l \in Obj \cup {TimeLoc}, NEW val, Storable(l, val)
    PROVE  /\ Storing(t, l, val) \in Txs
           /\ Storing(t, l, val).on = tx[t].on /\ Storing(t, l, val).rset = tx[t].rset
           /\ DOMAIN Storing(t, l, val).wbuf = DOMAIN tx[t].wbuf \cup {l}
           /\ \A k \in DOMAIN tx[t].wbuf \cup {l} :
                Storing(t, l, val).wbuf[k] = IF k = l THEN val ELSE tx[t].wbuf[k]
<1> DEFINE w == [k \in DOMAIN tx[t].wbuf \cup {l} |-> IF k = l THEN val ELSE tx[t].wbuf[k]]
<1>1. w \in Wbufs
  <2>1. tx[t].wbuf \in Wbufs
      BY TxFields
  <2> QED BY <2>1, StoredWbuf
<1>2. Storing(t, l, val) = [tx[t] EXCEPT !.wbuf = w]
    BY DEF Storing
<1>3. /\ DOMAIN w = DOMAIN tx[t].wbuf \cup {l}
      /\ \A k \in DOMAIN tx[t].wbuf \cup {l} : w[k] = IF k = l THEN val ELSE tx[t].wbuf[k]
    OBVIOUS
<1> HIDE DEF w
<1> QED BY <1>1, <1>2, <1>3, TxFields DEF Txs

(* Only a transaction can be aborted.                                      *)
LEMMA Conflicting ==
    ASSUME Base, NEW l
    PROVE  Readers(l) \subseteq On /\ Writers(l) \subseteq On
BY NoTxFacts DEF Base, TxInv, Readers, Writers, On

(* What aborts leave of a log: the accesses of the finished blocks         *)
LEMMA Truncated ==
    ASSUME Base, NEW u \in On
    PROVE  /\ Committed(u) <= Len(access[u]) /\ Committed(u) < nops[u]
           /\ SubSeq(access[u], 1, Committed(u)) \in Seq(Block)
           /\ Len(SubSeq(access[u], 1, Committed(u))) = Committed(u)
           /\ \A i \in 1 .. Committed(u) : SubSeq(access[u], 1, Committed(u))[i] = access[u][i]
<1>1. u \in Thread /\ tx[u].on /\ access[u] \in Seq(Block) /\ nops[u] \in Nat
    BY SMTT(60) DEF On, Base, Types
<1>2. Committed(u) \in Nat /\ Len(access[u]) \in Nat
    BY <1>1, CommittedNat DEF Base
<1>3. cpc[u] \in {"run", "end", "time", "commit"}
    BY <1>1 DEF Base, TxInv
<1>4. Committed(u) <= Len(access[u]) /\ Committed(u) < nops[u]
    BY <1>1, <1>2, <1>3, SMTT(60) DEF Base, BlockInv
<1> HIDE DEF Committed
<1> QED BY <1>1, <1>2, <1>4, SMTT(60)

-----------------------------------------------------------------------------
(* What Step does to its thread and to the others                          *)
LEMMA StepSelf ==
    ASSUME NEW t \in Thread, NEW there, NEW mine, NEW acc, NEW victims,
           Step(t, there, mine, acc, victims)
    PROVE  cpc'[t] = there /\ tx'[t] = mine /\ access'[t] = acc
BY DEF Step

Kept(u) == cpc'[u] = cpc[u] /\ tx'[u] = tx[u] /\ access'[u] = access[u]
Aborted(u) ==
    /\ tx[u].on /\ cpc'[u] = "lock" /\ tx'[u] = NoTx
    /\ access'[u] = SubSeq(access[u], 1, Committed(u))

(* A step of t aborts its victims and leaves the other threads alone.       *)
Elsewhere(t, victims) ==
    \A u \in Thread : u # t => (u \in victims => Aborted(u)) /\ (u \notin victims => Kept(u))

LEMMA StepOther ==
    ASSUME NEW t \in Thread, NEW there, NEW mine, NEW acc, NEW victims,
           Step(t, there, mine, acc, victims), victims \subseteq On
    PROVE  Elsewhere(t, victims)
BY DEF Step, On, Kept, Aborted, Elsewhere

-----------------------------------------------------------------------------
(* Facts about the stepping thread that every action needs                 *)
LEMMA Here ==
    ASSUME Base, NEW t \in Thread
    PROVE  /\ Types /\ TxInv(t) /\ BlockInv(t)
           /\ access[t] \in Seq(Block) /\ Len(access[t]) \in Nat /\ nops[t] \in Nat
           /\ Committed(t) \in Nat /\ RTM_BATCH_N \in Nat /\ RTM_BATCH_N > 0
           /\ commit_log[t] \in Seq(Nat) /\ tx[t] \in Txs
BY CommittedNat, Blocks, SMTT(60) DEF Base, Types

(* mem_read and mem_write add one access, and go to bb_end if the block is *)
(* full or the program over.                                               *)
LEMMA AccessBlock ==
    ASSUME Base, NEW t \in Thread, cpc[t] = "run", NEW a \in Block,
           cpc'[t] = AfterAccess(t), access'[t] = Append(access[t], a),
           nops' = nops, commit_log' = commit_log
    PROVE  /\ BlockInv(t)' /\ cpc'[t] \in {"run", "end"}
           /\ Append(access[t], a) \in Seq(Block)
<1> DEFINE n == Len(access[t])
<1>1. Committed(t)' = Committed(t) /\ nops'[t] = nops[t]
    BY DEF Committed
<1>2. Committed(t) <= n /\ n < Committed(t) + RTM_BATCH_N /\ n < nops[t]
    BY Here DEF BlockInv
<1>3. access'[t] \in Seq(Block) /\ Len(access'[t]) = n + 1
    BY Here, SMTT(60)
<1>4. BlockEnds(t, n + 1) <=> n + 1 = Committed(t) + RTM_BATCH_N \/ n + 1 = nops[t]
  <2>1. Len(commit_log[t]) \in Nat /\ n \in Nat
      BY Here, SMTT(60)
  <2>2. (n + 1) % RTM_BATCH_N = 0 <=> n + 1 = RTM_BATCH_N * Len(commit_log[t]) + RTM_BATCH_N
      BY <1>2, <2>1, BlockFull DEF Committed
  <2> QED BY <2>2 DEF BlockEnds, Committed
<1>5. \/ cpc'[t] = "end" /\ (n + 1 = Committed(t) + RTM_BATCH_N \/ n + 1 = nops[t])
      \/ cpc'[t] = "run" /\ n + 1 # Committed(t) + RTM_BATCH_N /\ n + 1 # nops[t]
    BY <1>4 DEF AfterAccess
<1>6. n \in Nat /\ nops[t] \in Nat /\ Committed(t) \in Nat /\ RTM_BATCH_N \in Nat
      /\ RTM_BATCH_N > 0
    BY Here
<1> HIDE DEF n
<1>7. BlockInv(t)'
    BY <1>1, <1>2, <1>3, <1>5, <1>6, SMTT(60) DEF BlockInv
<1> QED BY <1>3, <1>5, <1>7

LEMMA ObjLocs == Obj \subseteq Locs /\ Obj \subseteq Obj \cup {TimeLoc} /\ TimeLoc \notin Obj
BY NObjAssumption, SMTT(60) DEF Locs, TimeLoc, Obj

(* A block that commits: the thread's log grows by one time stamp, and the *)
(* program goes on with the next block, or is over.                        *)
LEMMA CommitBlock ==
    ASSUME Base, NEW t \in Thread, cpc[t] \in {"commit", "unlock"}, cpc'[t] = "out",
           access'[t] = access[t], nops' = nops, NEW n \in Nat,
           commit_log' = [commit_log EXCEPT ![t] = Append(@, n)]
    PROVE  /\ BlockInv(t)' /\ commit_log' \in [Thread -> Seq(Nat)]
           /\ Committed(t)' = Committed(t) + RTM_BATCH_N
           /\ \A u \in Thread \ {t} : commit_log'[u] = commit_log[u]
<1>1. commit_log'[t] = Append(commit_log[t], n) /\ commit_log' \in [Thread -> Seq(Nat)]
    BY SMTT(60) DEF Base, Types
<1>2. Len(commit_log'[t]) = Len(commit_log[t]) + 1
    BY <1>1, Here, SMTT(60)
<1>3. Committed(t)' = Committed(t) + RTM_BATCH_N
    BY <1>2, Blocks, Here, SMTT(60) DEF Committed
<1>4. BlockInv(t)'
    BY <1>3, Here, SMTT(60) DEF BlockInv
<1>5. \A u \in Thread \ {t} : commit_log'[u] = commit_log[u]
    BY DEF Base, Types
<1> QED BY <1>1, <1>3, <1>4, <1>5

-----------------------------------------------------------------------------
(* The ticket lock                                                         *)
LEMMA TicketFacts ==
    ASSUME Types
    PROVE  /\ TicketMod \in Nat /\ TicketMod > 0 /\ ticket \in Nat /\ users \in Nat
           /\ ticket < TicketMod /\ users < TicketMod
BY CommitAssumption, SMTT(60) DEF Types

(* The lock has one holder, and while it has no transaction can pass       *)
(* spin_lockable or commit.                                                *)
LEMMA OneHolder ==
    ASSUME Base, LockInv, NEW t \in Thread, Holder(t)
    PROVE  /\ \A u \in Thread : Holder(u) => u = t
           /\ \A u \in Thread : cpc[u] \notin {"time", "commit"}
<1>1. t \in Queue /\ Place(t) = 0
    BY DEF Queue, Holder, Place
<1>2. \A u \in Thread : Holder(u) => u \in Queue /\ Place(u) = 0
    BY DEF Queue, Holder, Place
<1>3. \A u \in Thread : Holder(u) => u = t
    BY <1>1, <1>2 DEF LockInv
<1>4. ticket # users
  <2>1. Dist(ticket, users) > 0
      BY <1>1, TicketFacts DEF LockInv, Dist, Base, Queue
  <2> QED BY <2>1, TicketFacts, SMTT(60) DEF Dist, Base
<1>5. \A u \in Thread : cpc[u] \notin {"time", "commit"}
    BY <1>4 DEF Base, TxInv
<1> QED BY <1>3, <1>5

Ordered == Base /\ LockInv /\ TimeInv /\ TimesUnique

-----------------------------------------------------------------------------
(* A ticket number after another wraps around at TicketMod.                *)
LEMMA NextTicket ==
    ASSUME NEW a \in 0 .. TicketMod - 1
    PROVE  (a + 1) % TicketMod = IF a + 1 = TicketMod THEN 0 ELSE a + 1
<1>1. TicketMod \in Nat /\ TicketMod > 0
    BY CommitAssumption, SMT
<1> QED BY <1>1, SMT

LEMMA StepTypes ==
    ASSUME Base, NEW t \in Thread, NEW there \in Spots, NEW mine \in Txs, NEW acc \in Seq(Block),
           NEW victims, Step(t, there, mine, acc, victims), victims \subseteq On
    PROVE  cpc' \in [Thread -> Spots] /\ tx' \in [Thread -> Txs] /\ access' \in [Thread -> Seq(Block)]
<1>1. \A u \in Thread : cpc'[u] \in Spots /\ tx'[u] \in Txs /\ access'[u] \in Seq(Block)
  <2> SUFFICES ASSUME NEW u \in Thread
               PROVE  cpc'[u] \in Spots /\ tx'[u] \in Txs /\ access'[u] \in Seq(Block)
      OBVIOUS
  <2>1. CASE u = t
      BY <2>1, StepSelf
  <2>2. CASE u # t /\ u \notin victims
    <3>1. Kept(u)
        BY <2>2, StepOther DEF Elsewhere
    <3> QED BY <3>1 DEF Kept, Base, Types
  <2>3. CASE u # t /\ u \in victims
    <3>1. Aborted(u)
        BY <2>3, StepOther DEF Elsewhere
    <3>2. SubSeq(access[u], 1, Committed(u)) \in Seq(Block)
        BY <2>3, Truncated
    <3> QED BY <3>1, <3>2, NoTxFacts DEF Aborted, Spots
  <2> QED BY <2>1, <2>2, <2>3
<1>2. cpc' = [u \in Thread |-> cpc'[u]] /\ tx' = [u \in Thread |-> tx'[u]]
      /\ access' = [u \in Thread |-> access'[u]]
    BY DEF Step
<1> QED BY <1>1, <1>2

(* Of another thread, only an abort changes anything.                      *)
LEMMA OtherBlock ==
    ASSUME Base, NEW t \in Thread, NEW there, NEW mine, NEW acc, NEW victims,
           Step(t, there, mine, acc, victims), victims \subseteq On,
           NEW u \in Thread, u # t, nops' = nops, commit_log'[u] = commit_log[u]
    PROVE  BlockInv(u)'
<1>1. Committed(u)' = Committed(u) /\ nops'[u] = nops[u]
    BY DEF Committed
<1>2. CASE u \in victims
  <2>1. Aborted(u)
      BY <1>2, StepOther DEF Elsewhere
  <2>2. Len(access'[u]) = Committed(u) /\ Committed(u) < nops[u]
      BY <1>2, <2>1, Truncated DEF Aborted
  <2>3. Committed(u) \in Nat /\ RTM_BATCH_N \in Nat /\ RTM_BATCH_N > 0 /\ nops[u] \in Nat
      BY CommittedNat, Blocks, SMTT(60) DEF Base, Types
  <2>4. cpc'[u] = "lock"
      BY <2>1 DEF Aborted
  <2> QED BY <1>1, <2>2, <2>3, <2>4, SMTT(60) DEF BlockInv
<1>3. CASE u \notin victims
  <2>1. Kept(u)
      BY <1>3, StepOther DEF Elsewhere
  <2> QED BY <1>1, <2>1 DEF BlockInv, Base, Kept
<1> QED BY <1>2, <1>3

LEMMA OtherTx ==
    ASSUME Base, NEW t \in Thread, NEW there, NEW mine, NEW acc, NEW victims,
           Step(t, there, mine, acc, victims), victims \subseteq On,
           NEW u \in Thread, u # t,
           (ticket' = ticket /\ users' = users) \/ Readers(LockLoc) \subseteq victims \cup {t},
           g_time' = g_time \/ Writers(TimeLoc) \subseteq victims \cup {t}
    PROVE  TxInv(u)'
<1>1. CASE u \in victims
  <2>1. Aborted(u)
      BY <1>1, StepOther DEF Elsewhere
  <2> QED BY <2>1, NoTxFacts DEF TxInv, Aborted
<1>2. CASE u \notin victims
  <2>1. Kept(u)
      BY <1>2, StepOther DEF Elsewhere
  <2>2. TxInv(u)
      BY DEF Base
  <2>3. LockLoc \in tx[u].rset => ticket' = users'
      BY <1>2, <2>2 DEF TxInv, Readers
  <2>4. cpc[u] = "commit" => g_time' = g_time
      BY <1>2, <2>2 DEF TxInv, Writers
  <2> QED BY <2>1, <2>2, <2>3, <2>4 DEF TxInv, Kept
<1> QED BY <1>1, <1>2

(* What a step newly reads or writes, the transactions it leaves alive     *)
(* have not written, or touched.                                           *)
Apart(t, mine, victims) ==
    /\ \A l \in DOMAIN mine.wbuf :
          l \in DOMAIN tx[t].wbuf \/ Readers(l) \cup Writers(l) \subseteq victims \cup {t}
    /\ \A l \in mine.rset : l \in tx[t].rset \/ Writers(l) \subseteq victims \cup {t}

LEMMA StepIsolated ==
    ASSUME Base, NEW t \in Thread, NEW there, NEW mine, NEW acc, NEW victims,
           Step(t, there, mine, acc, victims), victims \subseteq On, Apart(t, mine, victims)
    PROVE  Isolated'
<1>1. ASSUME NEW y \in Thread, y # t
      PROVE  /\ y \in victims => tx'[y].rset = {} /\ DOMAIN tx'[y].wbuf = {}
             /\ y \notin victims => tx'[y] = tx[y]
  <2>1. (y \in victims => Aborted(y)) /\ (y \notin victims => Kept(y))
      BY <1>1, StepOther DEF Elsewhere
  <2> QED BY <2>1, NoTxFacts DEF Kept, Aborted
<1>2. tx'[t] = mine
    BY StepSelf
<1>3. \A y, z \in Thread : y # z =>
          \A k \in DOMAIN tx[z].wbuf : k \notin tx[y].rset /\ k \notin DOMAIN tx[y].wbuf
    BY DEF Base, Isolated
<1>4. ASSUME NEW u \in Thread, u # t, u \notin victims
      PROVE  /\ \A l \in DOMAIN mine.wbuf : l \notin tx[u].rset /\ l \notin DOMAIN tx[u].wbuf
             /\ \A l \in mine.rset : l \notin DOMAIN tx[u].wbuf
    BY <1>3, <1>4, SMTT(60) DEF Apart, Readers, Writers
<1>5. ASSUME NEW u \in Thread, NEW x \in Thread, u # x, NEW l \in DOMAIN tx'[x].wbuf
      PROVE  l \notin tx'[u].rset /\ l \notin DOMAIN tx'[u].wbuf
  <2>1. CASE x = t
      BY <1>1, <1>2, <1>4, <1>5, <2>1
  <2>2. CASE u = t
      BY <1>1, <1>2, <1>4, <1>5, <2>2
  <2>3. CASE x # t /\ u # t
      BY <1>1, <1>3, <1>5, <2>3
  <2> QED BY <2>1, <2>2, <2>3
<1> QED BY <1>5 DEF Isolated

(* The variables Step leaves to the action                                 *)
OtherTypes ==
    /\ mem' \in [Obj -> Val] /\ g_time' \in Nat
    /\ ticket' \in 0 .. TicketMod - 1 /\ users' \in 0 .. TicketMod - 1
    /\ commit_log' \in [Thread -> Seq(Nat)] /\ reg' \in [Thread -> Nat]

(* A step keeps Base if its own thread's part of it is kept and it aborts  *)
(* the transactions it conflicts with.                                     *)
LEMMA BaseStep ==
    ASSUME Base, NEW t \in Thread, NEW there \in Spots, NEW mine \in Txs, NEW acc \in Seq(Block),
           NEW victims, Step(t, there, mine, acc, victims), victims \subseteq On,
           OtherTypes, nops' = nops,
           \A u \in Thread \ {t} : commit_log'[u] = commit_log[u],
           (ticket' = ticket /\ users' = users) \/ Readers(LockLoc) \subseteq victims \cup {t},
           g_time' = g_time \/ Writers(TimeLoc) \subseteq victims \cup {t},
           Apart(t, mine, victims), TxInv(t)', BlockInv(t)'
    PROVE  Base'
<1>1. Types'
    BY StepTypes DEF Base, Types, OtherTypes
<1>2. \A u \in Thread \ {t} : TxInv(u)'
    BY OtherTx
<1>3. \A u \in Thread \ {t} : BlockInv(u)'
    BY OtherBlock
<1>4. Isolated'
    BY StepIsolated
<1> QED BY <1>1, <1>2, <1>3, <1>4 DEF Base

(* Variables an action leaves unchanged keep their types.                  *)
LEMMA SameTypes ==
    ASSUME Base, UNCHANGED <<mem, g_time, lockVars, commit_log, reg>>
    PROVE  OtherTypes
BY DEF Base, Types, OtherTypes, lockVars

LEMMA AbortBase ==
    ASSUME Base, NEW t \in Thread, Abort(t)
    PROVE  Base'
<1>1. Step(t, "lock", NoTx, SubSeq(access[t], 1, Committed(t)), {})
    BY DEF Abort
<1>2. UNCHANGED <<mem, g_time, lockVars, nops, commit_log, reg>>
    BY DEF Abort
<1>3. t \in On
    BY DEF Abort, On
<1>4. cpc'[t] = "lock" /\ tx'[t] = NoTx /\ access'[t] = SubSeq(access[t], 1, Committed(t))
    BY <1>1, StepSelf
<1>5. TxInv(t)'
    BY <1>4, NoTxFacts DEF TxInv
<1>6. Committed(t)' = Committed(t)
    BY <1>2 DEF Committed
<1>7. BlockInv(t)'
    BY <1>2, <1>3, <1>4, <1>6, Truncated, Here, SMTT(60) DEF BlockInv
<1>8. Apart(t, NoTx, {})
    BY NoTxFacts DEF Apart
<1>9. SubSeq(access[t], 1, Committed(t)) \in Seq(Block)
    BY <1>3, Truncated
<1> QED
    BY <1>1, <1>2, <1>5, <1>7, <1>8, <1>9, BaseStep, SameTypes, NoTxFacts DEF Spots, lockVars

LEMMA XbeginBase ==
    ASSUME Base, NEW t \in Thread, xbegin(t)
    PROVE  Base'
<1> DEFINE mine == [NoTx EXCEPT !.on = TRUE]
<1>1. Step(t, "run", mine, access[t], {}) /\ cpc[t] = "out" /\ Len(access[t]) < nops[t]
    BY DEF xbegin
<1>2. UNCHANGED <<mem, g_time, lockVars, nops, commit_log, reg>>
    BY DEF xbegin
<1>3. mine \in Txs /\ mine.on /\ mine.rset = {} /\ DOMAIN mine.wbuf = {}
    BY BegunFacts
<1> HIDE DEF mine
<1>4. cpc'[t] = "run" /\ tx'[t] = mine /\ access'[t] = access[t]
    BY <1>1, StepSelf
<1>5. TxInv(t)'
    BY <1>3, <1>4 DEF TxInv
<1>6. Committed(t)' = Committed(t)
    BY <1>2 DEF Committed
<1>7. BlockInv(t)'
    BY <1>1, <1>2, <1>4, <1>6, Here, SMTT(60) DEF BlockInv
<1>8. Apart(t, mine, {})
    BY <1>3 DEF Apart
<1> QED
    BY <1>1, <1>2, <1>3, <1>5, <1>7, <1>8, BaseStep, SameTypes, Here DEF Spots, lockVars

LEMMA TakeTicketBase ==
    ASSUME Base, NEW t \in Thread, take_ticket(t)
    PROVE  Base'
<1>1. Step(t, "spin", NoTx, access[t], Readers(LockLoc)) /\ cpc[t] = "lock"
    BY DEF take_ticket
<1>2. UNCHANGED <<mem, g_time, ticket, nops, commit_log>>
    BY DEF take_ticket
<1>3. OtherTypes
  <2>1. users \in 0 .. TicketMod - 1 /\ users' = (users + 1) % TicketMod
      BY DEF take_ticket, Base, Types
  <2>2. users' \in 0 .. TicketMod - 1
      BY <2>1, NextTicket, CommitAssumption, SMTT(60)
  <2>3. reg' \in [Thread -> Nat]
      BY <2>1, SMTT(60) DEF take_ticket, Base, Types
  <2> QED BY <1>2, <2>2, <2>3 DEF OtherTypes, Base, Types
<1>4. cpc'[t] = "spin" /\ tx'[t] = NoTx /\ access'[t] = access[t]
    BY <1>1, StepSelf
<1>5. TxInv(t)'
    BY <1>4, NoTxFacts DEF TxInv
<1>6. Committed(t)' = Committed(t)
    BY <1>2 DEF Committed
<1>7. BlockInv(t)'
    BY <1>1, <1>2, <1>4, <1>6, Here DEF BlockInv
<1>8. Apart(t, NoTx, Readers(LockLoc))
    BY NoTxFacts DEF Apart
<1>9. Readers(LockLoc) \subseteq On
    BY Conflicting
<1> QED
    BY <1>1, <1>2, <1>3, <1>5, <1>7, <1>8, <1>9, BaseStep, NoTxFacts, Here DEF Spots

LEMMA TicketWaitBase ==
    ASSUME Base, NEW t \in Thread, ticket_wait(t)
    PROVE  Base'
<1>1. Step(t, "run", NoTx, access[t], {}) /\ cpc[t] = "spin"
    BY DEF ticket_wait
<1>2. UNCHANGED <<mem, g_time, lockVars, nops, commit_log>>
    BY DEF ticket_wait
<1>3. OtherTypes
    BY <1>2 DEF OtherTypes, Base, Types, ticket_wait, lockVars
<1>4. cpc'[t] = "run" /\ tx'[t] = NoTx /\ access'[t] = access[t]
    BY <1>1, StepSelf
<1>5. TxInv(t)'
    BY <1>4, NoTxFacts DEF TxInv
<1>6. Committed(t)' = Committed(t)
    BY <1>2 DEF Committed
<1>7. BlockInv(t)'
    BY <1>1, <1>2, <1>4, <1>6, Here, SMTT(60) DEF BlockInv
<1>8. Apart(t, NoTx, {})
    BY NoTxFacts DEF Apart
<1> QED
    BY <1>1, <1>2, <1>3, <1>5, <1>7, <1>8, BaseStep, NoTxFacts, Here DEF Spots, lockVars

(* Inside a block the transaction, if there is one, goes on.               *)
LEMMA AccessTx ==
    ASSUME Base, NEW t \in Thread, cpc[t] = "run", cpc'[t] \in {"run", "end"},
           UNCHANGED <<ticket, users>>,
           NEW o \in Obj, tx[t].on \/ tx'[t] = tx[t],
           tx'[t].on <=> tx[t].on, tx'[t].rset \subseteq tx[t].rset \cup {o}
    PROVE  TxInv(t)'
<1>1. TxInv(t)
    BY DEF Base
<1>2. LockLoc # o
    BY NObjAssumption, SMTT(60) DEF LockLoc, Obj
<1> QED BY <1>1, <1>2 DEF TxInv

LEMMA MemReadBase ==
    ASSUME Base, NEW t \in Thread, NEW o \in Obj, mem_read(t, o)
    PROVE  Base'
<1> DEFINE val == IF o \in DOMAIN tx[t].wbuf THEN tx[t].wbuf[o] ELSE mem[o]
           a == [acc |-> "R", objid |-> o, val |-> val]
           mine == Loading(t, o)
<1>1. Step(t, AfterAccess(t), mine, Append(access[t], a), Writers(o)) /\ cpc[t] = "run"
    BY DEF mem_read
<1>2. UNCHANGED <<mem, g_time, lockVars, nops, commit_log, reg>>
    BY DEF mem_read
<1>3. a \in Block
  <2>1. mem[o] \in Val
      BY DEF Base, Types
  <2>2. o \in DOMAIN tx[t].wbuf => tx[t].wbuf[o] \in Val
      BY Here, TxFields, WbufFacts, ObjLocs
  <2> QED BY <2>1, <2>2 DEF Block
<1>4. /\ mine \in Txs /\ (mine.on <=> tx[t].on) /\ mine.wbuf = tx[t].wbuf
      /\ mine.rset \subseteq tx[t].rset \cup {o} /\ (tx[t].on \/ mine = tx[t])
  <2>1. tx[t].on \/ mine = tx[t]
      BY Here DEF Loading, Txs
  <2> QED BY <2>1, Here, LoadingFacts, ObjLocs
<1> HIDE DEF mine, a
<1>5. cpc'[t] = AfterAccess(t) /\ tx'[t] = mine /\ access'[t] = Append(access[t], a)
    BY <1>1, StepSelf
<1>6. /\ BlockInv(t)' /\ cpc'[t] \in {"run", "end"}
      /\ Append(access[t], a) \in Seq(Block)
    BY <1>1, <1>2, <1>3, <1>5, AccessBlock
<1>7. TxInv(t)'
    BY <1>1, <1>2, <1>4, <1>5, <1>6, AccessTx DEF lockVars
<1>8. Apart(t, mine, Writers(o))
    BY <1>4 DEF Apart
<1>9. Writers(o) \subseteq On /\ AfterAccess(t) \in Spots
    BY <1>5, <1>6, Conflicting DEF Spots
<1> QED
    BY <1>1, <1>2, <1>4, <1>6, <1>7, <1>8, <1>9, BaseStep, SameTypes DEF lockVars

LEMMA MemWriteBase ==
    ASSUME Base, NEW t \in Thread, NEW o \in Obj, mem_write(t, o)
    PROVE  Base'
<1> DEFINE val == Value(t, Len(access[t]))
           a == [acc |-> "W", objid |-> o, val |-> val]
           mine == IF tx[t].on THEN Storing(t, o, val) ELSE tx[t]
           victims == Readers(o) \cup Writers(o)
<1>1. Step(t, AfterAccess(t), mine, Append(access[t], a), victims) /\ cpc[t] = "run"
    BY DEF mem_write
<1>2. UNCHANGED <<g_time, lockVars, nops, commit_log, reg>>
    BY DEF mem_write
<1>3. val \in Val /\ a \in Block
    BY Here DEF Block, Val, Value
<1>4. /\ mine \in Txs /\ (mine.on <=> tx[t].on) /\ mine.rset = tx[t].rset
      /\ DOMAIN mine.wbuf \subseteq DOMAIN tx[t].wbuf \cup {o} /\ (tx[t].on \/ mine = tx[t])
  <2>1. Storable(o, val) /\ Types /\ o \in Obj \cup {TimeLoc}
      BY <1>3, Here, ObjLocs DEF Storable
  <2> HIDE DEF val
  <2> QED BY <2>1, Here, StoringFacts, SMTT(60)
<1>5. OtherTypes
    BY <1>2, <1>3 DEF OtherTypes, Base, Types, mem_write, lockVars
<1> HIDE DEF mine, a
<1>6. cpc'[t] = AfterAccess(t) /\ tx'[t] = mine /\ access'[t] = Append(access[t], a)
    BY <1>1, StepSelf
<1>7. /\ BlockInv(t)' /\ cpc'[t] \in {"run", "end"}
      /\ Append(access[t], a) \in Seq(Block)
    BY <1>1, <1>2, <1>3, <1>6, AccessBlock
<1>8. TxInv(t)'
    BY <1>1, <1>2, <1>4, <1>6, <1>7, AccessTx DEF lockVars
<1>9. Apart(t, mine, victims)
    BY <1>4 DEF Apart
<1>10. victims \subseteq On /\ AfterAccess(t) \in Spots
    BY <1>6, <1>7, Conflicting DEF Spots
<1> HIDE DEF victims
<1> QED
    BY <1>1, <1>2, <1>4, <1>5, <1>7, <1>8, <1>9, <1>10, BaseStep DEF lockVars

LEMMA CheckLockableBase ==
    ASSUME Base, NEW t \in Thread, check_lockable(t)
    PROVE  Base'
<1>1. cpc[t] = "end" /\ tx[t].on
    BY DEF check_lockable
<1>2. UNCHANGED <<mem, g_time, lockVars, nops, commit_log, reg>>
    BY DEF check_lockable
<1>3. Committed(t)' = Committed(t)
    BY <1>2 DEF Committed
<1>4. CASE ticket = users
  <2> DEFINE mine == Loading(t, LockLoc)
  <2>1. Step(t, "time", mine, access[t], {})
      BY <1>4 DEF check_lockable
  <2>2. LockLoc \in Locs
      BY DEF Locs
  <2>3. /\ mine \in Txs /\ mine.on /\ mine.wbuf = tx[t].wbuf
        /\ mine.rset = tx[t].rset \cup {LockLoc}
      BY <1>1, <2>2, Here, LoadingFacts
  <2> HIDE DEF mine
  <2>4. cpc'[t] = "time" /\ tx'[t] = mine /\ access'[t] = access[t]
      BY <2>1, StepSelf
  <2>5. TxInv(t)'
      BY <1>2, <1>4, <2>3, <2>4 DEF TxInv, lockVars
  <2>6. BlockInv(t)'
      BY <1>1, <1>2, <1>3, <2>4, Here DEF BlockInv
  <2>7. Writers(LockLoc) = {}
    <3>1. LockLoc \notin Obj \cup {TimeLoc}
        BY NObjAssumption, SMTT(60) DEF LockLoc, TimeLoc, Obj
    <3>2. \A u \in Thread : DOMAIN tx[u].wbuf \subseteq Obj \cup {TimeLoc}
        BY TxFields, WbufFacts DEF Base
    <3> QED BY <3>1, <3>2 DEF Writers
  <2>8. Apart(t, mine, {})
      BY <2>3, <2>7 DEF Apart
  <2> QED
      BY <1>2, <2>1, <2>3, <2>5, <2>6, <2>8, BaseStep, SameTypes, Here, SMTT(60) DEF Spots, lockVars
<1>5. CASE ticket # users
  <2>1. Step(t, "lock", NoTx, SubSeq(access[t], 1, Committed(t)), {})
      BY <1>5 DEF check_lockable
  <2>2. Abort(t)
      BY <1>1, <1>2, <2>1 DEF Abort
  <2> QED BY <2>2, AbortBase
<1> QED BY <1>4, <1>5

LEMMA GettimeBase ==
    ASSUME Base, NEW t \in Thread, tx_gettime(t)
    PROVE  Base'
<1> DEFINE stored == Storing(t, TimeLoc, g_time + 1)
           mine == [stored EXCEPT !.rset = @ \cup {TimeLoc}]
           victims == Readers(TimeLoc) \cup Writers(TimeLoc)
<1>1. Step(t, "commit", mine, access[t], victims) /\ cpc[t] = "time"
    BY DEF tx_gettime
<1>2. UNCHANGED <<mem, g_time, lockVars, nops, commit_log, reg>>
    BY DEF tx_gettime
<1>3. Committed(t)' = Committed(t)
    BY <1>2 DEF Committed
<1>4. Types /\ TimeLoc \in Obj \cup {TimeLoc} /\ Storable(TimeLoc, g_time + 1)
    BY SMTT(60) DEF Base, Types, Storable
<1>5. /\ stored \in Txs /\ stored.on = tx[t].on /\ stored.rset = tx[t].rset
      /\ DOMAIN stored.wbuf = DOMAIN tx[t].wbuf \cup {TimeLoc}
      /\ stored.wbuf[TimeLoc] = g_time + 1
    BY <1>4, StoringFacts, SMTT(60)
<1> HIDE DEF stored
<1>6. /\ mine \in Txs /\ mine.on = tx[t].on /\ mine.wbuf = stored.wbuf
      /\ mine.rset = tx[t].rset \cup {TimeLoc}
    BY <1>5 DEF Txs, Locs
<1> HIDE DEF mine
<1>7. cpc'[t] = "commit" /\ tx'[t] = mine /\ access'[t] = access[t]
    BY <1>1, StepSelf
<1>8. TxInv(t)'
  <2>1. tx[t].on /\ LockLoc \in tx[t].rset /\ ticket = users
      BY <1>1, Here DEF TxInv
  <2> QED BY <1>2, <1>5, <1>6, <1>7, <2>1 DEF TxInv, lockVars
<1>9. BlockInv(t)'
    BY <1>1, <1>2, <1>3, <1>7, Here DEF BlockInv
<1>10. Apart(t, mine, victims)
    BY <1>5, <1>6 DEF Apart
<1>11. victims \subseteq On
    BY Conflicting
<1> HIDE DEF victims
<1> QED
    BY <1>1, <1>2, <1>6, <1>8, <1>9, <1>10, <1>11, BaseStep, SameTypes, Here DEF Spots, lockVars

LEMMA XendBase ==
    ASSUME Base, NEW t \in Thread, xend(t)
    PROVE  Base'
<1>1. Step(t, "out", NoTx, access[t], {}) /\ cpc[t] = "commit"
    BY DEF xend
<1>2. UNCHANGED <<lockVars, nops, reg>>
    BY DEF xend
<1>3. cpc'[t] = "out" /\ tx'[t] = NoTx /\ access'[t] = access[t]
    BY <1>1, StepSelf
<1>4. commit_log' = [commit_log EXCEPT ![t] = Append(@, g_time)] /\ g_time \in Nat
    BY DEF xend, Base, Types
<1>5. /\ BlockInv(t)' /\ commit_log' \in [Thread -> Seq(Nat)]
      /\ \A u \in Thread \ {t} : commit_log'[u] = commit_log[u]
    BY <1>1, <1>2, <1>3, <1>4, CommitBlock
<1>6. g_time' = g_time + 1 /\ TimeLoc \in DOMAIN tx[t].wbuf
    BY <1>1, Here DEF xend, TxInv
<1>7. mem' \in [Obj -> Val]
  <2>1. mem' = [o \in Obj |-> IF o \in DOMAIN tx[t].wbuf THEN tx[t].wbuf[o] ELSE mem[o]]
      BY DEF xend
  <2>2. \A o \in Obj : mem[o] \in Val /\ (o \in DOMAIN tx[t].wbuf => tx[t].wbuf[o] \in Val)
      BY Here, TxFields, WbufFacts, ObjLocs DEF Types
  <2> QED BY <2>1, <2>2
<1>8. OtherTypes
    BY <1>2, <1>4, <1>5, <1>6, <1>7, SMTT(60) DEF OtherTypes, Base, Types, lockVars
<1>9. TxInv(t)'
    BY <1>3, NoTxFacts DEF TxInv
<1>10. Apart(t, NoTx, {})
    BY NoTxFacts DEF Apart
<1>11. Writers(TimeLoc) \subseteq {} \cup {t}
    BY <1>6 DEF Writers, Base, Isolated
<1> QED
    BY <1>1, <1>2, <1>5, <1>8, <1>9, <1>10, <1>11, BaseStep, NoTxFacts, Here DEF Spots, lockVars

LEMMA LoadTimeBase ==
    ASSUME Base, NEW t \in Thread, load_time(t)
    PROVE  Base'
<1>1. Step(t, "store", NoTx, access[t], Writers(TimeLoc)) /\ cpc[t] = "end"
    BY DEF load_time
<1>2. UNCHANGED <<mem, g_time, lockVars, nops, commit_log>>
    BY DEF load_time
<1>3. OtherTypes
    BY <1>2 DEF OtherTypes, Base, Types, load_time, lockVars
<1>4. cpc'[t] = "store" /\ tx'[t] = NoTx /\ access'[t] = access[t]
    BY <1>1, StepSelf
<1>5. TxInv(t)'
    BY <1>4, NoTxFacts DEF TxInv
<1>6. Committed(t)' = Committed(t)
    BY <1>2 DEF Committed
<1>7. BlockInv(t)'
    BY <1>1, <1>2, <1>4, <1>6, Here DEF BlockInv
<1>8. Apart(t, NoTx, Writers(TimeLoc))
    BY NoTxFacts DEF Apart
<1>9. Writers(TimeLoc) \subseteq On
    BY Conflicting
<1> QED
    BY <1>1, <1>2, <1>3, <1>5, <1>7, <1>8, <1>9, BaseStep, NoTxFacts, Here DEF Spots, lockVars

LEMMA StoreTimeBase ==
    ASSUME Base, NEW t \in Thread, store_time(t)
    PROVE  Base'
<1> DEFINE victims == Readers(TimeLoc) \cup Writers(TimeLoc)
<1>1. Step(t, "unlock", NoTx, access[t], victims) /\ cpc[t] = "store"
    BY DEF store_time
<1>2. UNCHANGED <<mem, lockVars, nops, commit_log, reg>>
    BY DEF store_time
<1>3. OtherTypes
    BY <1>2, SMTT(60) DEF OtherTypes, Base, Types, store_time, lockVars
<1>4. cpc'[t] = "unlock" /\ tx'[t] = NoTx /\ access'[t] = access[t]
    BY <1>1, StepSelf
<1>5. TxInv(t)'
    BY <1>4, NoTxFacts DEF TxInv
<1>6. Committed(t)' = Committed(t)
    BY <1>2 DEF Committed
<1>7. BlockInv(t)'
    BY <1>1, <1>2, <1>4, <1>6, Here DEF BlockInv
<1>8. Apart(t, NoTx, victims) /\ Writers(TimeLoc) \subseteq victims \cup {t}
    BY NoTxFacts DEF Apart
<1>9. victims \subseteq On
    BY Conflicting
<1> HIDE DEF victims
<1> QED
    BY <1>1, <1>2, <1>3, <1>5, <1>7, <1>8, <1>9, BaseStep, NoTxFacts, Here DEF Spots, lockVars

LEMMA UnlockBase ==
    ASSUME Base, NEW t \in Thread, unlock(t)
    PROVE  Base'
<1>1. Step(t, "out", NoTx, access[t], Readers(LockLoc)) /\ cpc[t] = "unlock"
    BY DEF unlock
<1>2. UNCHANGED <<mem, g_time, users, nops>>
    BY DEF unlock
<1>3. cpc'[t] = "out" /\ tx'[t] = NoTx /\ access'[t] = access[t]
    BY <1>1, StepSelf
<1>4. commit_log' = [commit_log EXCEPT ![t] = Append(@, reg[t])] /\ reg[t] \in Nat
    BY DEF unlock, Base, Types
<1>5. /\ BlockInv(t)' /\ commit_log' \in [Thread -> Seq(Nat)]
      /\ \A u \in Thread \ {t} : commit_log'[u] = commit_log[u]
    BY <1>1, <1>2, <1>3, <1>4, CommitBlock
<1>6. ticket' \in 0 .. TicketMod - 1
  <2>1. ticket \in 0 .. TicketMod - 1 /\ ticket' = (ticket + 1) % TicketMod
      BY DEF unlock, Base, Types
  <2> QED BY <2>1, NextTicket, CommitAssumption, SMTT(60)
<1>7. OtherTypes
    BY <1>2, <1>5, <1>6 DEF OtherTypes, Base, Types, unlock
<1>8. TxInv(t)'
    BY <1>3, NoTxFacts DEF TxInv
<1>9. Apart(t, NoTx, Readers(LockLoc))
    BY NoTxFacts DEF Apart
<1>10. Readers(LockLoc) \subseteq On
    BY Conflicting
<1> QED
    BY <1>1, <1>2, <1>5, <1>7, <1>8, <1>9, <1>10, BaseStep, NoTxFacts, Here DEF Spots

(* One thread's step                                                       *)
LEMMA BaseNext == Base /\ [CommitNext]_commitVars => Base'
<1> SUFFICES ASSUME Base, [CommitNext]_commitVars PROVE Base'
    OBVIOUS
<1>1. ASSUME NEW t \in Thread, CommitStep(t) PROVE Base'
    BY <1>1, XbeginBase, TakeTicketBase, TicketWaitBase, MemReadBase, MemWriteBase,
       CheckLockableBase, GettimeBase, XendBase, LoadTimeBase, StoreTimeBase, UnlockBase
       DEF CommitStep
<1>2. ASSUME NEW t \in Thread, Abort(t) PROVE Base'
    BY <1>2, AbortBase
<1>3. CASE UNCHANGED commitVars
    BY <1>3 DEF commitVars, lockVars, Base, Types, Isolated, TxInv, BlockInv, Committed
<1> QED BY <1>1, <1>2, <1>3 DEF CommitNext

LEMMA PlaceInt ==
    ASSUME Types, NEW t \in Thread
    PROVE  Place(t) \in Int
<1>1. reg[t] \in Nat
    BY DEF Types
<1> QED BY <1>1, TicketFacts, SMTT(60) DEF Place, Dist

-----------------------------------------------------------------------------
(* No transaction is in the queue: aborts do not change it.                *)
LEMMA QueueOthers ==
    ASSUME Base, NEW t \in Thread, NEW victims, Elsewhere(t, victims), NEW u \in Thread, u # t
    PROVE  (u \in Queue' <=> u \in Queue) /\ (cpc'[u] = "spin" <=> cpc[u] = "spin")
<1>1. CASE u \in victims
  <2>1. Aborted(u)
      BY <1>1 DEF Elsewhere
  <2>2. cpc[u] \in {"run", "end", "time", "commit"}
      BY <2>1 DEF Aborted, Base, TxInv
  <2> QED BY <2>1, <2>2 DEF Aborted, Queue, Holder
<1>2. CASE u \notin victims
  <2>1. Kept(u)
      BY <1>2 DEF Elsewhere
  <2> QED BY <2>1 DEF Kept, Queue, Holder
<1> QED BY <1>1, <1>2

(* Steps that take a ticket or pass the lock on, and steps that take, store *)
(* or log a time; what the other steps leave alone                         *)
Queueing(t) == take_ticket(t) \/ unlock(t)
Timing(t) == xend(t) \/ load_time(t) \/ store_time(t) \/ unlock(t)

NoTicket(t) ==
    /\ ticket' = ticket /\ users' = users /\ cpc'[t] # "spin"
    /\ t \in Queue' <=> t \in Queue
    /\ t \in Queue => Place(t) = 0

NoTime(t) == g_time' = g_time /\ commit_log' = commit_log /\ cpc'[t] \notin {"store", "unlock"}

Moved(t) ==
    /\ \E victims : Elsewhere(t, victims)
    /\ \A u \in Thread \ {t} : reg'[u] = reg[u]
    /\ Queueing(t) \/ NoTicket(t)
    /\ Timing(t) \/ NoTime(t)

(* Between cpc = "run" and the end of the block nobody joins or leaves the *)
(* queue.                                                                  *)
LEMMA InBlockQueue ==
    ASSUME NEW t \in Thread, cpc[t] \in {"run", "end", "store"}, tx'[t].on = tx[t].on,
           cpc'[t] \in {"run", "end", "store", "unlock"}, ticket' = ticket, users' = users
    PROVE  NoTicket(t)
BY DEF NoTicket, Queue, Place, Holder

(* Neither does a transaction, or a thread between blocks.                 *)
LEMMA OutOfQueue ==
    ASSUME NEW t \in Thread, cpc[t] \in {"out", "time", "commit"} \/ (tx[t].on /\ cpc[t] # "spin"),
           cpc'[t] \in {"out", "lock", "time", "commit"} \/ (tx'[t].on /\ cpc'[t] # "spin"),
           ticket' = ticket, users' = users
    PROVE  NoTicket(t)
BY DEF NoTicket, Queue, Holder

LEMMA ActionMoves ==
    ASSUME Base, NEW t \in Thread, CommitStep(t) \/ Abort(t)
    PROVE  Moved(t)
<1>1. CASE Abort(t)
  <2>1. /\ Step(t, "lock", NoTx, SubSeq(access[t], 1, Committed(t)), {}) /\ tx[t].on
        /\ UNCHANGED <<g_time, lockVars, commit_log, reg>>
      BY <1>1 DEF Abort
  <2>2. cpc'[t] = "lock" /\ Elsewhere(t, {})
      BY <2>1, StepSelf, StepOther, SMTT(60)
  <2>3. cpc[t] # "spin"
      BY <2>1, Here DEF TxInv
  <2> QED BY <2>1, <2>2, <2>3, OutOfQueue DEF Moved, NoTime, lockVars
<1>2. CASE xbegin(t)
  <2> DEFINE mine == [NoTx EXCEPT !.on = TRUE]
  <2>1. /\ Step(t, "run", mine, access[t], {}) /\ cpc[t] = "out"
        /\ UNCHANGED <<g_time, lockVars, commit_log, reg>>
      BY <1>2 DEF xbegin
  <2>2. mine.on
      BY BegunFacts
  <2> HIDE DEF mine
  <2>3. cpc'[t] = "run" /\ tx'[t].on /\ Elsewhere(t, {})
      BY <2>1, <2>2, StepSelf, StepOther, SMTT(60)
  <2> QED BY <2>1, <2>3, OutOfQueue DEF Moved, NoTime, lockVars
<1>3. CASE take_ticket(t)
  <2>1. Step(t, "spin", NoTx, access[t], Readers(LockLoc)) /\ UNCHANGED <<g_time, commit_log>>
      BY <1>3 DEF take_ticket
  <2>2. cpc'[t] = "spin" /\ Elsewhere(t, Readers(LockLoc))
      BY <2>1, StepSelf, StepOther, Conflicting
  <2>3. \A u \in Thread \ {t} : reg'[u] = reg[u]
      BY <1>3 DEF take_ticket, Base, Types
  <2> QED BY <1>3, <2>1, <2>2, <2>3 DEF Moved, NoTime, Queueing
<1>4. CASE ticket_wait(t)
  <2>1. /\ Step(t, "run", NoTx, access[t], {}) /\ cpc[t] = "spin" /\ ticket = reg[t]
        /\ UNCHANGED <<g_time, lockVars, commit_log>>
      BY <1>4 DEF ticket_wait
  <2>2. cpc'[t] = "run" /\ ~tx'[t].on /\ Elsewhere(t, {})
      BY <2>1, StepSelf, StepOther, NoTxFacts
  <2>3. Place(t) = 0
      BY <2>1, TicketFacts, SMTT(60) DEF Base, Place, Dist
  <2>4. t \in Queue /\ t \in Queue'
      BY <2>1, <2>2 DEF Queue, Holder
  <2>5. \A u \in Thread \ {t} : reg'[u] = reg[u]
      BY <1>4 DEF ticket_wait, Base, Types
  <2> QED BY <2>1, <2>2, <2>3, <2>4, <2>5 DEF Moved, NoTime, NoTicket, lockVars
<1>5. ASSUME NEW o \in Obj, mem_read(t, o) PROVE Moved(t)
  <2> DEFINE val == IF o \in DOMAIN tx[t].wbuf THEN tx[t].wbuf[o] ELSE mem[o]
             acc == Append(access[t], [acc |-> "R", objid |-> o, val |-> val])
             mine == Loading(t, o)
  <2>1. /\ Step(t, AfterAccess(t), mine, acc, Writers(o)) /\ cpc[t] = "run"
        /\ UNCHANGED <<g_time, lockVars, commit_log, reg>>
      BY <1>5 DEF mem_read
  <2>2. mine.on = tx[t].on
      BY Here, LoadingFacts, ObjLocs
  <2> HIDE DEF mine, acc
  <2>3. cpc'[t] \in {"run", "end"} /\ tx'[t].on = tx[t].on /\ Elsewhere(t, Writers(o))
      BY <2>1, <2>2, StepSelf, StepOther, Conflicting DEF AfterAccess
  <2> QED BY <2>1, <2>3, InBlockQueue DEF Moved, NoTime, lockVars
<1>6. ASSUME NEW o \in Obj, mem_write(t, o) PROVE Moved(t)
  <2> DEFINE val == Value(t, Len(access[t]))
             acc == Append(access[t], [acc |-> "W", objid |-> o, val |-> val])
             mine == IF tx[t].on THEN Storing(t, o, val) ELSE tx[t]
             victims == Readers(o) \cup Writers(o)
  <2>1. /\ Step(t, AfterAccess(t), mine, acc, victims) /\ cpc[t] = "run"
        /\ UNCHANGED <<g_time, lockVars, commit_log, reg>>
      BY <1>6 DEF mem_write
  <2>2. mine.on = tx[t].on
    <3>1. Storable(o, val) /\ o \in Obj \cup {TimeLoc}
        BY Here, ObjLocs DEF Storable, Val, Value
    <3> HIDE DEF val
    <3> QED BY <3>1, Here, StoringFacts
  <2> HIDE DEF mine, acc
  <2>3. victims \subseteq On
      BY Conflicting
  <2> HIDE DEF victims
  <2>4. cpc'[t] \in {"run", "end"} /\ tx'[t].on = tx[t].on /\ Elsewhere(t, victims)
      BY <2>1, <2>2, <2>3, StepSelf, StepOther DEF AfterAccess
  <2> QED BY <2>1, <2>4, InBlockQueue DEF Moved, NoTime, lockVars
<1>7. CASE check_lockable(t)
  <2>1. cpc[t] = "end" /\ tx[t].on /\ UNCHANGED <<g_time, lockVars, commit_log, reg>>
      BY <1>7 DEF check_lockable
  <2>2. cpc'[t] \in {"time", "lock"} /\ Elsewhere(t, {})
    <3>1. \E mine, acc : Step(t, "time", mine, acc, {}) \/ Step(t, "lock", mine, acc, {})
        BY <1>7 DEF check_lockable
    <3> QED BY <3>1, StepSelf, StepOther, SMTT(60)
  <2> QED BY <2>1, <2>2, OutOfQueue DEF Moved, NoTime, lockVars
<1>8. CASE tx_gettime(t)
  <2> DEFINE mine == [Storing(t, TimeLoc, g_time + 1) EXCEPT !.rset = @ \cup {TimeLoc}]
             victims == Readers(TimeLoc) \cup Writers(TimeLoc)
  <2>1. /\ Step(t, "commit", mine, access[t], victims) /\ cpc[t] = "time"
        /\ UNCHANGED <<g_time, lockVars, commit_log, reg>>
      BY <1>8 DEF tx_gettime
  <2>2. victims \subseteq On
      BY Conflicting
  <2> HIDE DEF mine, victims
  <2>3. cpc'[t] = "commit" /\ Elsewhere(t, victims)
      BY <2>1, <2>2, StepSelf, StepOther
  <2> QED BY <2>1, <2>3, OutOfQueue DEF Moved, NoTime, lockVars
<1>9. CASE xend(t)
  <2>1. /\ Step(t, "out", NoTx, access[t], {}) /\ cpc[t] = "commit"
        /\ UNCHANGED <<lockVars, reg>>
      BY <1>9 DEF xend
  <2>2. cpc'[t] = "out" /\ Elsewhere(t, {})
      BY <2>1, StepSelf, StepOther, SMTT(60)
  <2> QED BY <1>9, <2>1, <2>2, OutOfQueue DEF Moved, Timing, lockVars
<1>10. CASE load_time(t)
  <2>1. /\ Step(t, "store", NoTx, access[t], Writers(TimeLoc)) /\ cpc[t] = "end" /\ ~tx[t].on
        /\ UNCHANGED lockVars
      BY <1>10 DEF load_time
  <2>2. cpc'[t] = "store" /\ ~tx'[t].on /\ Elsewhere(t, Writers(TimeLoc))
      BY <2>1, StepSelf, StepOther, Conflicting, NoTxFacts
  <2>3. \A u \in Thread \ {t} : reg'[u] = reg[u]
      BY <1>10 DEF load_time, Base, Types
  <2>4. tx'[t].on = tx[t].on
      BY <2>1, <2>2, Here, NoTxFacts, StepSelf DEF TxInv
  <2> QED BY <1>10, <2>1, <2>2, <2>3, <2>4, InBlockQueue DEF Moved, Timing, lockVars
<1>11. CASE store_time(t)
  <2> DEFINE victims == Readers(TimeLoc) \cup Writers(TimeLoc)
  <2>1. /\ Step(t, "unlock", NoTx, access[t], victims) /\ cpc[t] = "store"
        /\ UNCHANGED <<lockVars, reg>>
      BY <1>11 DEF store_time
  <2>2. victims \subseteq On
      BY Conflicting
  <2> HIDE DEF victims
  <2>3. cpc'[t] = "unlock" /\ tx'[t] = NoTx /\ Elsewhere(t, victims)
      BY <2>1, <2>2, StepSelf, StepOther
  <2>4. tx[t] = NoTx
      BY <2>1, Here DEF TxInv
  <2> QED BY <1>11, <2>1, <2>3, <2>4, InBlockQueue DEF Moved, Timing, lockVars
<1>12. CASE unlock(t)
  <2>1. Step(t, "out", NoTx, access[t], Readers(LockLoc))
      BY <1>12 DEF unlock
  <2>2. Elsewhere(t, Readers(LockLoc))
      BY <2>1, StepOther, Conflicting
  <2>3. \A u \in Thread \ {t} : reg'[u] = reg[u]
      BY <1>12 DEF unlock, Base, Types
  <2> QED BY <1>12, <2>2, <2>3 DEF Moved, Timing, Queueing
<1> QED
    BY <1>1, <1>2, <1>3, <1>4, <1>5, <1>6, <1>7, <1>8, <1>9, <1>10, <1>11, <1>12 DEF CommitStep

(* A step that neither enters nor leaves the queue keeps the lock's        *)
(* invariant.                                                              *)
LEMMA LockKept ==
    ASSUME Base, LockInv, NEW t \in Thread, Moved(t), NoTicket(t)
    PROVE  LockInv'
<1>1. PICK victims : Elsewhere(t, victims)
    BY DEF Moved
<1>2. Queue' = Queue
    BY <1>1, QueueOthers DEF Queue, NoTicket
<1>3. ASSUME NEW u \in Thread, u # t
      PROVE  (cpc'[u] = "spin" <=> cpc[u] = "spin") /\ reg'[u] = reg[u]
    BY <1>1, <1>3, QueueOthers DEF Moved
<1>4. ASSUME NEW u \in Queue PROVE Place(u)' = Place(u)
  <2>1. u \in Thread
      BY DEF Queue
  <2>2. CASE u = t
      BY <2>2 DEF NoTicket, Place
  <2>3. CASE u # t
      BY <1>3, <2>1, <2>3 DEF NoTicket, Place, Dist
  <2> QED BY <2>2, <2>3
<1>5. ASSUME NEW u \in Thread, cpc'[u] = "spin" PROVE reg'[u] < TicketMod
    BY <1>3, <1>5 DEF LockInv, NoTicket
<1>6. Dist(ticket, users)' = Dist(ticket, users)
    BY DEF NoTicket, Dist
<1> QED BY <1>2, <1>4, <1>5, <1>6, SMTT(60) DEF LockInv

(* A time that is later than all logged ones makes the log no less unique. *)
LEMMA LogTime ==
    ASSUME Types, TimesUnique, NEW t \in Thread, NEW n \in Nat, LoggedBefore(n),
           commit_log' = [commit_log EXCEPT ![t] = Append(@, n)]
    PROVE  TimesUnique' /\ \A m \in Nat : n < m => LoggedBefore(m)'
<1>1. \A u \in Thread : commit_log[u] \in Seq(Nat) /\ Len(commit_log[u]) \in Nat
    BY SMTT(60) DEF Types
<1>2. ASSUME NEW u \in Thread, u # t PROVE commit_log'[u] = commit_log[u]
    BY <1>2 DEF Types
<1>3. Len(commit_log'[t]) = Len(commit_log[t]) + 1
    BY <1>1, SMTT(60) DEF Types
<1>4. /\ commit_log'[t][Len(commit_log[t]) + 1] = n
      /\ \A i \in 1 .. Len(commit_log[t]) : commit_log'[t][i] = commit_log[t][i]
    BY <1>1, SMTT(60) DEF Types
<1>5. \A u \in Thread : \A i \in 1 .. Len(commit_log[u]) :
         commit_log[u][i] \in Nat /\ commit_log[u][i] < n
    BY <1>1, SMTT(60) DEF LoggedBefore
<1>6. ASSUME NEW u \in Thread, NEW i \in 1 .. Len(commit_log'[u])
      PROVE  \/ i \in 1 .. Len(commit_log[u]) /\ commit_log'[u][i] = commit_log[u][i]
             \/ u = t /\ i = Len(commit_log[t]) + 1 /\ commit_log'[u][i] = n
  <2>1. CASE u = t
    <3>1. i \in 1 .. Len(commit_log[t]) \/ i = Len(commit_log[t]) + 1
        BY <1>1, <1>3, <1>6, <2>1, SMTT(60)
    <3> QED BY <1>4, <2>1, <3>1
  <2>2. CASE u # t
      BY <1>2, <1>6, <2>2
  <2> QED BY <2>1, <2>2
<1>7. TimesUnique'
  <2> SUFFICES ASSUME NEW u \in Thread, NEW v \in Thread,
                      NEW i \in 1 .. Len(commit_log'[u]), NEW j \in 1 .. Len(commit_log'[v]),
                      commit_log'[u][i] = commit_log'[v][j]
               PROVE  u = v /\ i = j
      BY DEF TimesUnique
  <2>1. \A x, y \in Thread : \A k \in 1 .. Len(commit_log[x]), m \in 1 .. Len(commit_log[y]) :
           commit_log[x][k] = commit_log[y][m] => x = y /\ k = m
      BY DEF TimesUnique
  <2>2. \A m \in Nat : ~(m < m)
      BY SMTT(60)
  <2> QED BY <1>5, <1>6, <2>1, <2>2, SMTT(60)
<1>8. \A m \in Nat : n < m => LoggedBefore(m)'
  <2> SUFFICES ASSUME NEW m \in Nat, n < m, NEW u \in Thread, NEW i \in 1 .. Len(commit_log'[u])
               PROVE  commit_log'[u][i] < m
      BY DEF LoggedBefore
  <2> QED BY <1>5, <1>6, SMTT(60)
<1> QED BY <1>7, <1>8

(* A step that takes or stores no time                                     *)
LEMMA TimeKept ==
    ASSUME TimeInv, NEW t \in Thread, Moved(t), NoTime(t)
    PROVE  TimeInv'
<1>1. PICK victims : Elsewhere(t, victims)
    BY DEF Moved
<1>2. ASSUME NEW u \in Thread, cpc'[u] \in {"store", "unlock"}
      PROVE  cpc[u] = cpc'[u] /\ reg'[u] = reg[u]
  <2>1. u # t
      BY <1>2 DEF NoTime
  <2>2. Kept(u)
      BY <1>1, <1>2, <2>1 DEF Elsewhere, Aborted
  <2> QED BY <2>1, <2>2 DEF Kept, Moved
<1>3. \A n : LoggedBefore(n)' <=> LoggedBefore(n)
    BY DEF LoggedBefore, NoTime
<1> QED BY <1>2, <1>3 DEF TimeInv, NoTime

LEMMA OrderedStep ==
    ASSUME Ordered, NEW t \in Thread, CommitStep(t) \/ Abort(t)
    PROVE  TimeInv' /\ TimesUnique'
<1> USE DEF Ordered
<1>1. CASE ~Timing(t)
  <2>1. Moved(t) /\ NoTime(t)
      BY <1>1, ActionMoves DEF Moved
  <2> QED BY <2>1, TimeKept, SMTT(60) DEF TimesUnique, NoTime
<1>2. \A u \in Thread : cpc[u] \in {"store", "unlock"} => Holder(u)
    BY DEF Base, TxInv, Holder
<1>3. g_time \in Nat /\ LoggedBefore(g_time)
    BY DEF Base, Types, TimeInv
<1>4. ASSUME NEW there, NEW mine, NEW acc, NEW victims, Step(t, there, mine, acc, victims),
             victims \subseteq On, NEW u \in Thread, u # t, cpc'[u] \in {"store", "unlock"}
      PROVE  cpc[u] \in {"store", "unlock"}
  <2>1. Aborted(u) \/ Kept(u)
      BY <1>4, StepOther DEF Elsewhere
  <2> QED BY <1>4, <2>1 DEF Aborted, Kept
<1>5. CASE xend(t)
  <2>1. Step(t, "out", NoTx, access[t], {}) /\ cpc[t] = "commit" /\ UNCHANGED reg
      BY <1>5 DEF xend
  <2>2. commit_log' = [commit_log EXCEPT ![t] = Append(@, g_time)] /\ g_time' = g_time + 1
      BY <1>5, <2>1, Here DEF xend, TxInv
  <2>3. TimesUnique' /\ LoggedBefore(g_time)'
    <3>1. TimesUnique' /\ \A m \in Nat : g_time < m => LoggedBefore(m)'
        BY <1>3, <2>2, LogTime DEF Base
    <3>2. g_time' \in Nat /\ g_time < g_time'
        BY <1>3, <2>2, SMTT(60)
    <3> QED BY <3>1, <3>2 DEF LoggedBefore
  <2>4. \A u \in Thread : ~Holder(u)
      BY <2>1, OneHolder
  <2>5. \A u \in Thread : cpc'[u] \notin {"store", "unlock"}
    <3>1. cpc'[t] = "out"
        BY <2>1, StepSelf
    <3> QED BY <1>2, <1>4, <2>1, <2>4, <3>1, SMTT(60)
  <2> QED BY <2>3, <2>5 DEF TimeInv, LoggedBefore
<1>6. CASE load_time(t)
  <2>1. Step(t, "store", NoTx, access[t], Writers(TimeLoc)) /\ cpc[t] = "end" /\ ~tx[t].on
      BY <1>6 DEF load_time
  <2>2. UNCHANGED <<g_time, commit_log>> /\ reg'[t] = g_time
      BY <1>6 DEF load_time, Base, Types
  <2>3. \A u \in Thread \ {t} : ~Holder(u)
      BY <2>1, OneHolder DEF Holder
  <2>4. cpc'[t] = "store"
      BY <2>1, StepSelf
  <2>5. \A u \in Thread \ {t} : cpc'[u] \notin {"store", "unlock"}
      BY <1>2, <1>4, <2>1, <2>3, Conflicting
  <2>6. LoggedBefore(g_time)'
      BY <1>3, <2>2 DEF LoggedBefore
  <2> QED BY <2>2, <2>4, <2>5, <2>6, SMTT(60) DEF TimeInv, TimesUnique
<1>7. CASE store_time(t)
  <2> DEFINE victims == Readers(TimeLoc) \cup Writers(TimeLoc)
  <2>1. Step(t, "unlock", NoTx, access[t], victims) /\ cpc[t] = "store" /\ victims \subseteq On
      BY <1>7, Conflicting DEF store_time
  <2> HIDE DEF victims
  <2>2. UNCHANGED <<commit_log, reg>> /\ reg[t] = g_time /\ g_time' = reg[t] + 1
      BY <1>7, <2>1 DEF store_time, TimeInv
  <2>3. \A u \in Thread \ {t} : ~Holder(u)
      BY <1>2, <2>1, OneHolder
  <2>4. cpc'[t] = "unlock"
      BY <2>1, StepSelf
  <2>5. \A u \in Thread \ {t} : cpc'[u] \notin {"store", "unlock"}
      BY <1>2, <1>4, <2>1, <2>3
  <2>6. LoggedBefore(reg[t])' /\ LoggedBefore(g_time)'
    <3>1. \A u \in Thread : \A i \in 1 .. Len(commit_log[u]) : commit_log[u][i] \in Nat
        BY SMTT(60) DEF Base, Types
    <3> QED BY <1>3, <2>2, <3>1, SMTT(60) DEF LoggedBefore
  <2> QED BY <2>2, <2>4, <2>5, <2>6, SMTT(60) DEF TimeInv, TimesUnique, LoggedBefore
<1>8. CASE unlock(t)
  <2>1. Step(t, "out", NoTx, access[t], Readers(LockLoc)) /\ cpc[t] = "unlock"
      BY <1>8 DEF unlock
  <2>2. /\ commit_log' = [commit_log EXCEPT ![t] = Append(@, reg[t])] /\ g_time' = g_time
        /\ g_time = reg[t] + 1 /\ LoggedBefore(reg[t]) /\ reg[t] \in Nat
      BY <1>8, <2>1 DEF unlock, TimeInv, Base, Types
  <2>3. TimesUnique' /\ LoggedBefore(g_time)'
    <3>1. TimesUnique' /\ \A m \in Nat : reg[t] < m => LoggedBefore(m)'
        BY <1>3, <2>2, LogTime DEF Base
    <3>2. g_time' \in Nat /\ reg[t] < g_time'
        BY <1>3, <2>2, SMTT(60)
    <3> QED BY <3>1, <3>2 DEF LoggedBefore
  <2>4. \A u \in Thread \ {t} : ~Holder(u)
      BY <1>2, <2>1, OneHolder
  <2>5. \A u \in Thread : cpc'[u] \notin {"store", "unlock"}
    <3>1. cpc'[t] = "out"
        BY <2>1, StepSelf
    <3> QED BY <1>2, <1>4, <2>1, <2>4, <3>1, Conflicting
  <2> QED BY <2>3, <2>5 DEF TimeInv, LoggedBefore
<1> QED BY <1>1, <1>5, <1>6, <1>7, <1>8 DEF Timing

=============================================================================
