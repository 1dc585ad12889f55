--------------------------- MODULE RtmCommitSerial ---------------------------
(***************************************************************************)
(* From an Ordered state of mem-record-rtmcommit.c, every step keeps       *)
(* Serial: what memory, the store buffers and the reads of the unfinished  *)
(* blocks owe to the committed writes, and that the committed blocks are   *)
(* serial in the order of the times they logged.  So the blocks are        *)
(* serializable in that order, for any number of threads, objects,         *)
(* accesses and tickets, whether they run as transactions or under the     *)
(* ticket lock.                                                            *)
(***************************************************************************)
EXTENDS RtmCommitOrder, FiniteSetTheorems

(* A leaf that names no prover is for Zenon.                               *)
USE ZenonT(60)

-----------------------------------------------------------------------------
(* The blocks' places in the commit order                                  *)
LEMMA BlockOf ==
    ASSUME NEW k \in Nat, NEW i \in Nat, 1 <= i
    PROVE  /\ i <= RTM_BATCH_N * k => ((i - 1) \div RTM_BATCH_N) + 1 \in 1 .. k
           /\ RTM_BATCH_N * k < i /\ i <= RTM_BATCH_N * k + RTM_BATCH_N =>
                ((i - 1) \div RTM_BATCH_N) + 1 = k + 1
<1>1. ASSUME NEW n \in Nat, n > 0, NEW x \in Nat, x < n * k PROVE x \div n \in 0 .. k - 1
    BY <1>1, SMTT(60)
<1>2. ASSUME NEW n \in Nat, n > 0, NEW r \in 0 .. n - 1 PROVE (n * k + r) \div n = k
    BY <1>2, SMTT(60)
<1>3. ASSUME i <= RTM_BATCH_N * k PROVE ((i - 1) \div RTM_BATCH_N) + 1 \in 1 .. k
  <2>1. (i - 1) \div RTM_BATCH_N \in 0 .. k - 1
      BY <1>1, <1>3, Blocks, SMTT(60)
  <2> QED BY <2>1, SMTT(60)
<1>4. ASSUME RTM_BATCH_N * k < i, i <= RTM_BATCH_N * k + RTM_BATCH_N
      PROVE  ((i - 1) \div RTM_BATCH_N) + 1 = k + 1
  <2> DEFINE r == i - 1 - RTM_BATCH_N * k
  <2>1. r \in 0 .. RTM_BATCH_N - 1 /\ i - 1 = RTM_BATCH_N * k + r
      BY <1>4, Blocks, SMTT(60)
  <2>2. (RTM_BATCH_N * k + r) \div RTM_BATCH_N = k
      BY <1>2, <2>1, Blocks
  <2> QED BY <2>1, <2>2
<1> QED BY <1>3, <1>4

LEMMA OldTime ==
    ASSUME Types, NEW u \in Thread, NEW i \in Done(u)
    PROVE  /\ i \in Nat /\ 1 <= i /\ i <= Len(access[u]) /\ i <= Committed(u)
           /\ ((i - 1) \div RTM_BATCH_N) + 1 \in 1 .. Len(commit_log[u])
           /\ Time(u, i)[1] \in Nat /\ Time(u, i)[2] = i
           /\ \A n : LoggedBefore(n) => Time(u, i)[1] < n
<1>1. i \in Nat /\ 1 <= i /\ i <= Len(access[u]) /\ i <= Committed(u)
    BY CommittedNat, SMTT(60) DEF Done
<1> DEFINE b == ((i - 1) \div RTM_BATCH_N) + 1
<1>2. b \in 1 .. Len(commit_log[u])
    BY <1>1, CommittedNat, BlockOf DEF Committed
<1>3. Time(u, i) = <<commit_log[u][b], i>>
    BY DEF Time
<1> HIDE DEF b
<1>4. commit_log[u][b] \in Nat
    BY <1>2, SMTT(60) DEF Types
<1>5. \A n : LoggedBefore(n) => commit_log[u][b] < n
    BY <1>2 DEF LoggedBefore
<1> QED BY <1>1, <1>2, <1>3, <1>4, <1>5, SMTT(60) DEF b

LEMMA SameTime ==
    ASSUME NEW u, commit_log'[u] = commit_log[u], NEW i
    PROVE  Time(u, i)' = Time(u, i) /\ Committed(u)' = Committed(u)
BY DEF Time, Committed

LEMMA TimeAt ==
    ASSUME NEW u, NEW i, NEW b, b = ((i - 1) \div RTM_BATCH_N) + 1
    PROVE  Time(u, i) = <<commit_log[u][b], i>> /\ Time(u, i)' = <<commit_log'[u][b], i>>
BY DEF Time

LEMMA WritesFacts ==
    ASSUME NEW o
    PROVE  \A w : w \in WritesOf(o) <=>
             \E u \in Thread : \E i \in Done(u) :
                w = <<u, i>> /\ access[u][i].acc = "W" /\ access[u][i].objid = o
BY SMTT(60) DEF WritesOf

(* What has been committed stays as it was.                                *)
SamePast ==
    \A u \in Thread :
        /\ Done(u)' = Done(u)
        /\ \A i \in Done(u) : access'[u][i] = access[u][i] /\ Time(u, i)' = Time(u, i)

LEMMA SameWrites ==
    ASSUME SamePast, NEW o
    PROVE  WritesOf(o)' = WritesOf(o)
<1>1. \A w : w \in WritesOf(o)' <=>
             \E u \in Thread : \E i \in Done(u)' :
                w = <<u, i>> /\ access'[u][i].acc = "W" /\ access'[u][i].objid = o
    BY SMTT(60) DEF WritesOf
<1>2. \A w : w \in WritesOf(o)' <=> w \in WritesOf(o)
    BY <1>1, WritesFacts, SMTT(60) DEF SamePast
<1> QED BY <1>2

(* Latest in the state after a step, of a set of writes given before it    *)
LatestNext(S, val) ==
    \/ S = {} /\ val = InitVal
    \/ \E w \in S :
         /\ access'[w[1]][w[2]].val = val
         /\ \A x \in S : ~Earlier(Time(w[1], w[2])', Time(x[1], x[2])')

LEMMA WriteAt ==
    ASSUME NEW o, NEW w \in WritesOf(o)
    PROVE  w[1] \in Thread /\ w[2] \in Done(w[1])
<1>1. PICK u \in Thread : \E i \in Done(u) : w = <<u, i>>
    BY WritesFacts, SMTT(60)
<1>2. PICK i \in Done(u) : w = <<u, i>>
    BY <1>1
<1> QED BY <1>2

LEMMA SameLatest ==
    ASSUME NEW o, NEW S \in SUBSET WritesOf(o), NEW val,
           \A u \in Thread : \A i \in Done(u) :
               access'[u][i] = access[u][i] /\ Time(u, i)' = Time(u, i)
    PROVE  LatestNext(S, val) <=> Latest(S, val)
<1>1. \A w \in S : /\ access'[w[1]][w[2]] = access[w[1]][w[2]]
                   /\ Time(w[1], w[2])' = Time(w[1], w[2])
    BY WriteAt
<1> QED BY <1>1 DEF Latest, LatestNext

LEMMA LatestKept ==
    ASSUME SamePast, NEW o, NEW val, Latest(WritesOf(o), val)
    PROVE  LatestNext(WritesOf(o)', val)
<1>1. WritesOf(o)' = WritesOf(o)
    BY SameWrites
<1>2. LatestNext(WritesOf(o), val)
    BY SameLatest DEF SamePast
<1> QED BY <1>1, <1>2

Prior(u, i, o) == {w \in WritesOf(o) : Earlier(Time(w[1], w[2]), Time(u, i))}

LEMMA SerialAsLatest ==
    CommitOrderSerial <=>
        \A u \in Thread : \A i \in Done(u) :
            access[u][i].acc = "R" => Latest(Prior(u, i, access[u][i].objid), access[u][i].val)
BY DEF CommitOrderSerial, Latest, Prior

(* The same in the next state                                              *)
LEMMA SerialNext ==
    ASSUME \A u \in Thread : \A i \in Done(u)' : \A o :
              access'[u][i].acc = "R" /\ access'[u][i].objid = o =>
                  LatestNext(Prior(u, i, o)', access'[u][i].val)
    PROVE  CommitOrderSerial'
<1>1. ASSUME NEW u \in Thread, NEW i \in Done(u)', access'[u][i].acc = "R"
      PROVE  (LET before == Prior(u, i, access[u][i].objid)
              IN  \/ before = {} /\ access[u][i].val = InitVal
                  \/ \E w \in before :
                       /\ access[w[1]][w[2]].val = access[u][i].val
                       /\ \A x \in before : ~Earlier(Time(w[1], w[2]), Time(x[1], x[2])))'
  <2>1. PICK o : o = access'[u][i].objid
      OBVIOUS
  <2>2. LatestNext(Prior(u, i, o)', access'[u][i].val)
      BY <1>1, <2>1
  <2>3. Prior(u, i, o)' = (Prior(u, i, access[u][i].objid))'
      BY <2>1 DEF Prior, WritesOf
  <2> QED BY <2>2, <2>3 DEF LatestNext, Earlier
<1> QED BY <1>1 DEF CommitOrderSerial, Prior

LEMMA SameSerial ==
    ASSUME SamePast, CommitOrderSerial
    PROVE  CommitOrderSerial'
<1> SUFFICES ASSUME NEW u \in Thread, NEW i \in Done(u)', NEW o,
                    access'[u][i].acc = "R", access'[u][i].objid = o
             PROVE  LatestNext(Prior(u, i, o)', access'[u][i].val)
    BY SerialNext
<1>1. i \in Done(u) /\ access'[u][i] = access[u][i] /\ Time(u, i)' = Time(u, i)
    BY DEF SamePast
<1>2. Prior(u, i, o)' = Prior(u, i, o)
  <2>1. WritesOf(o)' = WritesOf(o)
      BY SameWrites
  <2>2. \A w \in WritesOf(o) : Time(w[1], w[2])' = Time(w[1], w[2])
      BY WriteAt DEF SamePast
  <2> QED BY <1>1, <2>1, <2>2 DEF Prior, Earlier
<1>3. Latest(Prior(u, i, o), access[u][i].val)
    BY <1>1, SerialAsLatest
<1>4. Prior(u, i, o) \in SUBSET WritesOf(o)
    BY DEF Prior
<1>5. LatestNext(Prior(u, i, o), access[u][i].val)
    BY <1>3, <1>4, SameLatest DEF SamePast
<1> QED BY <1>1, <1>2, <1>5

-----------------------------------------------------------------------------
(* A block commits                                                         *)
Fresh(t) == Committed(t) + 1 .. Len(access[t])

(* Block Fresh(t) commits with time n, after all that is committed so far. *)
Commits(t, n) ==
    /\ n \in Nat
    /\ access'[t] = access[t]
    /\ \A u \in Thread \ {t} : Done(u)' = Done(u)
    /\ Done(t)' = Done(t) \cup Fresh(t)
    /\ \A u \in Thread : \A i \in Done(u) :
          /\ access'[u][i] = access[u][i] /\ Time(u, i)' = Time(u, i)
          /\ Time(u, i)[1] \in Nat /\ Time(u, i)[1] < n
    /\ \A i \in Fresh(t) : i \in Nat /\ Time(t, i)' = <<n, i>>

Mine(t, J) == {<<t, j>> : j \in J}

LEMMA WritesFactsNext ==
    ASSUME NEW o
    PROVE  \A w : w \in WritesOf(o)' <=>
             \E u \in Thread : \E i \in Done(u)' :
                w = <<u, i>> /\ access'[u][i].acc = "W" /\ access'[u][i].objid = o
BY SMTT(60) DEF WritesOf

LEMMA CommitWrites ==
    ASSUME Types, NEW t \in Thread, NEW n, Commits(t, n), NEW o
    PROVE  WritesOf(o)' = WritesOf(o) \cup Mine(t, OwnAll(t, o))
<1>1. \A j : j \in OwnAll(t, o) <=>
               j \in Fresh(t) /\ access[t][j].acc = "W" /\ access[t][j].objid = o
    BY CommittedNat, SMTT(60) DEF OwnAll, Own, Fresh
<1>2. ASSUME NEW w \in WritesOf(o)' PROVE w \in WritesOf(o) \cup Mine(t, OwnAll(t, o))
  <2>1. PICK u \in Thread : \E i \in Done(u)' :
                w = <<u, i>> /\ access'[u][i].acc = "W" /\ access'[u][i].objid = o
      BY WritesFactsNext, SMTT(60)
  <2>2. PICK i \in Done(u)' : w = <<u, i>> /\ access'[u][i].acc = "W" /\ access'[u][i].objid = o
      BY <2>1
  <2>3. CASE i \in Done(u)
    <3>1. access[u][i].acc = "W" /\ access[u][i].objid = o
        BY <2>2, <2>3 DEF Commits
    <3> QED BY <2>2, <2>3, <3>1, WritesFacts
  <2>4. CASE i \notin Done(u)
    <3>1. u = t /\ i \in Fresh(t)
        BY <2>4 DEF Commits
    <3>2. i \in OwnAll(t, o)
        BY <1>1, <2>2, <3>1 DEF Commits
    <3> QED BY <2>2, <3>1, <3>2 DEF Mine
  <2> QED BY <2>3, <2>4
<1>3. ASSUME NEW w \in WritesOf(o) PROVE w \in WritesOf(o)'
  <2>1. PICK u \in Thread : \E i \in Done(u) :
                w = <<u, i>> /\ access[u][i].acc = "W" /\ access[u][i].objid = o
      BY WritesFacts, SMTT(60)
  <2>2. PICK i \in Done(u) : w = <<u, i>> /\ access[u][i].acc = "W" /\ access[u][i].objid = o
      BY <2>1
  <2>3. i \in Done(u)' /\ access'[u][i] = access[u][i]
      BY DEF Commits
  <2> QED BY <2>2, <2>3, WritesFactsNext
<1>4. ASSUME NEW j \in OwnAll(t, o) PROVE <<t, j>> \in WritesOf(o)'
  <2>1. j \in Done(t)' /\ access'[t][j].acc = "W" /\ access'[t][j].objid = o
      BY <1>1, <1>4 DEF Commits
  <2> QED BY <2>1, WritesFactsNext
<1> QED BY <1>2, <1>3, <1>4 DEF Mine

(* After the block, the last of the older writes and some of its own is    *)
(* its own last one, if there is one.                                      *)
LEMMA LatestAfter ==
    ASSUME NEW t \in Thread, NEW n, Commits(t, n), NEW o, NEW val, NEW J \in SUBSET Fresh(t),
           \/ J = {} /\ Latest(WritesOf(o), val)
           \/ \E j \in J : access[t][j].val = val /\ \A i \in J : i <= j
    PROVE  LatestNext(WritesOf(o) \cup Mine(t, J), val)
<1>1. CASE J = {} /\ Latest(WritesOf(o), val)
  <2>1. Mine(t, J) = {}
      BY <1>1 DEF Mine
  <2>2. \A u \in Thread : \A i \in Done(u) :
            access'[u][i] = access[u][i] /\ Time(u, i)' = Time(u, i)
      BY DEF Commits
  <2>3. LatestNext(WritesOf(o), val)
      BY <1>1, <2>2, SameLatest
  <2>4. WritesOf(o) \cup Mine(t, J) = WritesOf(o)
      BY <2>1
  <2> QED BY <2>3, <2>4
<1>2. ASSUME NEW j \in J, access[t][j].val = val, \A i \in J : i <= j
      PROVE  LatestNext(WritesOf(o) \cup Mine(t, J), val)
  <2> DEFINE w == <<t, j>>
  <2>1. w \in Mine(t, J) /\ w[1] = t /\ w[2] = j
      BY DEF Mine
  <2>2. access'[t][j].val = val /\ Time(t, j)' = <<n, j>> /\ n \in Nat /\ j \in Nat
      BY <1>2 DEF Commits
  <2>3. ASSUME NEW x \in WritesOf(o) PROVE ~Earlier(Time(t, j)', Time(x[1], x[2])')
    <3>1. x[1] \in Thread /\ x[2] \in Done(x[1])
        BY WriteAt
    <3>2. Time(x[1], x[2])' = Time(x[1], x[2]) /\ Time(x[1], x[2])[1] \in Nat /\ Time(x[1], x[2])[1] < n
        BY <3>1 DEF Commits
    <3>3. ASSUME NEW c, c[1] \in Nat, c[1] < n PROVE ~Earlier(<<n, j>>, c)
        BY <2>2, <3>3, SMTT(60) DEF Earlier
    <3> QED BY <2>2, <3>2, <3>3
  <2>4. ASSUME NEW x \in Mine(t, J) PROVE ~Earlier(Time(t, j)', Time(x[1], x[2])')
    <3>1. PICK i \in J : x = <<t, i>>
        BY DEF Mine
    <3>2. x[1] = t /\ x[2] = i /\ Time(t, i)' = <<n, i>> /\ i \in Nat /\ i <= j
        BY <1>2, <3>1 DEF Commits
    <3>3. ~Earlier(<<n, j>>, <<n, i>>)
        BY <2>2, <3>2, SMTT(60) DEF Earlier
    <3> QED BY <2>2, <3>2, <3>3
  <2> HIDE DEF w
  <2> QED BY <2>1, <2>2, <2>3, <2>4 DEF LatestNext
<1> QED BY <1>1, <1>2

(* What came before an old access is as it was; before an access of the    *)
(* block come all older writes and its own earlier ones.                   *)
LEMMA OldPrior ==
    ASSUME Types, NEW t \in Thread, NEW n, Commits(t, n), NEW o, NEW u \in Thread, NEW i \in Done(u)
    PROVE  Prior(u, i, o)' = Prior(u, i, o)
<1>1. Time(u, i)' = Time(u, i) /\ Time(u, i)[1] \in Nat /\ Time(u, i)[1] < n
    BY DEF Commits
<1>2. \A w \in WritesOf(o) : Time(w[1], w[2])' = Time(w[1], w[2])
    BY WriteAt DEF Commits
<1>3. ASSUME NEW w \in Mine(t, OwnAll(t, o)) PROVE ~Earlier(Time(w[1], w[2])', Time(u, i)')
  <2>1. PICK j \in OwnAll(t, o) : w = <<t, j>>
      BY DEF Mine
  <2>2. j \in Fresh(t)
      BY CommittedNat, SMTT(60) DEF OwnAll, Own, Fresh
  <2>3. w[1] = t /\ w[2] = j /\ Time(t, j)' = <<n, j>> /\ n \in Nat
      BY <2>1, <2>2 DEF Commits
  <2>4. ASSUME NEW c, c[1] \in Nat, c[1] < n PROVE ~Earlier(<<n, j>>, c)
      BY <2>3, <2>4, SMTT(60) DEF Earlier
  <2> QED BY <1>1, <2>3, <2>4
<1>4. Prior(u, i, o)' = {w \in WritesOf(o)' : Earlier(Time(w[1], w[2])', Time(u, i)')}
    BY DEF Prior, Earlier
<1>5. Prior(u, i, o) = {w \in WritesOf(o) : Earlier(Time(w[1], w[2]), Time(u, i))}
    BY DEF Prior
<1>6. WritesOf(o)' = WritesOf(o) \cup Mine(t, OwnAll(t, o))
    BY CommitWrites
<1> QED BY <1>1, <1>2, <1>3, <1>4, <1>5, <1>6

LEMMA FreshPrior ==
    ASSUME Types, NEW t \in Thread, NEW n, Commits(t, n), NEW o, NEW k \in Fresh(t)
    PROVE  Prior(t, k, o)' = WritesOf(o) \cup Mine(t, Own(access[t], Committed(t), k, o))
<1> DEFINE J == Own(access[t], Committed(t), k, o)
<1>1. Time(t, k)' = <<n, k>> /\ n \in Nat /\ k \in Nat
    BY DEF Commits
<1>2. ASSUME NEW w \in WritesOf(o) PROVE Earlier(Time(w[1], w[2])', <<n, k>>)
  <2>1. Time(w[1], w[2])' = Time(w[1], w[2]) /\ Time(w[1], w[2])[1] \in Nat /\ Time(w[1], w[2])[1] < n
      BY WriteAt DEF Commits
  <2>2. ASSUME NEW c, c[1] < n PROVE Earlier(c, <<n, k>>)
      BY <2>2 DEF Earlier
  <2> QED BY <2>1, <2>2
<1>3. ASSUME NEW j \in OwnAll(t, o)
      PROVE  Earlier(Time(t, j)', <<n, k>>) <=> j \in J
  <2>1. j \in Fresh(t) /\ access[t][j].acc = "W" /\ access[t][j].objid = o
      BY CommittedNat, SMTT(60) DEF OwnAll, Own, Fresh
  <2>2. Time(t, j)' = <<n, j>> /\ j \in Nat
      BY <2>1 DEF Commits
  <2>3. Earlier(<<n, j>>, <<n, k>>) <=> j < k
      BY <1>1, <2>2, SMTT(60) DEF Earlier
  <2>4. j \in J <=> j < k
      BY <1>1, <2>1, <2>2, CommittedNat, SMTT(60) DEF Own, Fresh
  <2> QED BY <2>2, <2>3, <2>4
<1>4. J \subseteq OwnAll(t, o)
    BY CommittedNat, SMTT(60) DEF OwnAll, Own, Fresh
<1>5. Prior(t, k, o)' = {w \in WritesOf(o)' : Earlier(Time(w[1], w[2])', <<n, k>>)}
    BY <1>1 DEF Prior, Earlier
<1>6. WritesOf(o)' = WritesOf(o) \cup Mine(t, OwnAll(t, o))
    BY CommitWrites
<1> HIDE DEF J
<1>7. ASSUME NEW w \in Mine(t, OwnAll(t, o))
      PROVE  Earlier(Time(w[1], w[2])', <<n, k>>) <=> w \in Mine(t, J)
  <2>1. PICK j \in OwnAll(t, o) : w = <<t, j>>
      BY DEF Mine
  <2>2. w[1] = t /\ w[2] = j /\ (w \in Mine(t, J) <=> j \in J)
      BY <2>1 DEF Mine
  <2> QED BY <1>3, <2>2
<1>8. Mine(t, J) \subseteq Mine(t, OwnAll(t, o))
    BY <1>4 DEF Mine
<1>9. Prior(t, k, o)' = WritesOf(o) \cup Mine(t, J)
    BY <1>2, <1>5, <1>6, <1>7, <1>8
<1> QED BY <1>9 DEF J

(* The reads of the block are right if each returned the block's last      *)
(* write before it or, without one, the last committed value.              *)
FreshReads(t) ==
    \A k \in Fresh(t) : \A o :
        access[t][k].acc = "R" /\ access[t][k].objid = o =>
            \/ Own(access[t], Committed(t), k, o) = {} /\ Latest(WritesOf(o), access[t][k].val)
            \/ LastOwn(access[t], Committed(t), k, o, access[t][k].val)

LEMMA CommitSerial ==
    ASSUME Types, NEW t \in Thread, NEW n, Commits(t, n), CommitOrderSerial, FreshReads(t)
    PROVE  CommitOrderSerial'
<1> SUFFICES ASSUME NEW u \in Thread, NEW i \in Done(u)', NEW o,
                    access'[u][i].acc = "R", access'[u][i].objid = o
             PROVE  LatestNext(Prior(u, i, o)', access'[u][i].val)
    BY SerialNext
<1>1. CASE i \in Done(u)
  <2>1. access'[u][i] = access[u][i]
      BY <1>1 DEF Commits
  <2>2. Latest(Prior(u, i, o), access[u][i].val)
      BY <1>1, <2>1, SerialAsLatest
  <2>3. Prior(u, i, o) \in SUBSET WritesOf(o)
      BY DEF Prior
  <2>4. \A v \in Thread : \A j \in Done(v) :
            access'[v][j] = access[v][j] /\ Time(v, j)' = Time(v, j)
      BY DEF Commits
  <2>5. LatestNext(Prior(u, i, o), access[u][i].val)
      BY <2>2, <2>3, <2>4, SameLatest
  <2>6. Prior(u, i, o)' = Prior(u, i, o)
      BY <1>1, OldPrior
  <2> QED BY <2>1, <2>5, <2>6
<1>2. CASE i \notin Done(u)
  <2>1. u = t /\ i \in Fresh(t) /\ access'[t][i] = access[t][i]
      BY <1>2 DEF Commits
  <2> DEFINE J == Own(access[t], Committed(t), i, o)
  <2>2. \/ J = {} /\ Latest(WritesOf(o), access[t][i].val)
        \/ \E j \in J : access[t][j].val = access[t][i].val /\ \A m \in J : m <= j
      BY <2>1 DEF FreshReads, LastOwn
  <2>3. J \in SUBSET Fresh(t)
      BY <2>1, CommittedNat, SMTT(60) DEF Own, Fresh
  <2>4. Prior(t, i, o)' = WritesOf(o) \cup Mine(t, J)
      BY <2>1, FreshPrior, SMTT(60)
  <2> HIDE DEF J
  <2>5. LatestNext(WritesOf(o) \cup Mine(t, J), access[t][i].val)
      BY <2>2, <2>3, LatestAfter
  <2> QED BY <2>1, <2>4, <2>5
<1> QED BY <1>1, <1>2

-----------------------------------------------------------------------------
(* Steps and what is committed: an abort only takes back accesses that are *)
(* not.                                                                    *)
LEMMA PastOther ==
    ASSUME Base, NEW t \in Thread, NEW victims, Elsewhere(t, victims),
           NEW u \in Thread, u # t, commit_log'[u] = commit_log[u]
    PROVE  /\ Done(u)' = Done(u)
           /\ \A i \in Done(u) : access'[u][i] = access[u][i] /\ Time(u, i)' = Time(u, i)
<1>1. Committed(u)' = Committed(u)
    BY SameTime
<1>2. Done(u)' = {i \in 1 .. Len(access'[u]) : i <= Committed(u)}
    BY <1>1 DEF Done
<1>3. CASE u \in victims
  <2>1. u \in On /\ access'[u] = SubSeq(access[u], 1, Committed(u))
      BY <1>3 DEF Elsewhere, Aborted, On
  <2>2. /\ Committed(u) <= Len(access[u]) /\ Len(access'[u]) = Committed(u)
        /\ \A i \in 1 .. Committed(u) : access'[u][i] = access[u][i]
      BY <2>1, Truncated
  <2>3. Committed(u) \in Nat /\ Len(access[u]) \in Nat
      BY Here
  <2>4. Done(u)' = Done(u) /\ Done(u) \subseteq 1 .. Committed(u)
      BY <1>2, <2>2, <2>3, SMTT(60) DEF Done
  <2> QED BY <2>2, <2>4, SameTime
<1>4. CASE u \notin victims
  <2>1. access'[u] = access[u]
      BY <1>4 DEF Elsewhere, Kept
  <2> QED BY <1>2, <2>1, SameTime DEF Done
<1> QED BY <1>3, <1>4

LEMMA PastKept ==
    ASSUME Base, NEW t \in Thread, NEW victims, Elsewhere(t, victims), commit_log' = commit_log,
           NEW acc, access'[t] = acc, {i \in 1 .. Len(acc) : i <= Committed(t)} = Done(t),
           \A i \in Done(t) : acc[i] = access[t][i]
    PROVE  SamePast
<1>1. access'[t] = acc
    OBVIOUS
<1>2. Committed(t)' = Committed(t) /\ \A i : Time(t, i)' = Time(t, i)
    BY SameTime
<1>3. Done(t)' = Done(t)
    BY <1>1, <1>2 DEF Done
<1>4. \A u \in Thread \ {t} :
        /\ Done(u)' = Done(u)
        /\ \A i \in Done(u) : access'[u][i] = access[u][i] /\ Time(u, i)' = Time(u, i)
    BY PastOther
<1> QED BY <1>1, <1>2, <1>3, <1>4 DEF SamePast

LEMMA PastAppend ==
    ASSUME Base, NEW t \in Thread, Committed(t) <= Len(access[t]), NEW a \in Block
    PROVE  /\ {i \in 1 .. Len(Append(access[t], a)) : i <= Committed(t)} = Done(t)
           /\ \A i \in Done(t) : Append(access[t], a)[i] = access[t][i]
<1>1. access[t] \in Seq(Block) /\ Len(access[t]) \in Nat /\ Committed(t) \in Nat
    BY Here
<1>2. Len(Append(access[t], a)) = Len(access[t]) + 1
    BY <1>1, SMTT(60)
<1>3. \A i \in 1 .. Len(access[t]) : Append(access[t], a)[i] = access[t][i]
    BY <1>1, SMTT(60)
<1> QED BY <1>1, <1>2, <1>3, SMTT(60) DEF Done

LEMMA PastTruncated ==
    ASSUME Base, NEW t \in On
    PROVE  /\ {i \in 1 .. Len(SubSeq(access[t], 1, Committed(t))) : i <= Committed(t)} = Done(t)
           /\ \A i \in Done(t) : SubSeq(access[t], 1, Committed(t))[i] = access[t][i]
<1>1. t \in Thread
    BY DEF On
<1>2. Len(access[t]) \in Nat /\ Committed(t) \in Nat
    BY <1>1, Here
<1> QED BY <1>2, Truncated, SMTT(60) DEF Done

(* _xend and spin_unlock commit the block.                                 *)
LEMMA BlockCommits ==
    ASSUME Base, NEW t \in Thread, cpc[t] \in {"commit", "unlock"}, NEW victims,
           Elsewhere(t, victims), cpc'[t] = "out", access'[t] = access[t], nops' = nops,
           NEW n \in Nat, LoggedBefore(n), commit_log' = [commit_log EXCEPT ![t] = Append(@, n)]
    PROVE  Commits(t, n)
<1>0. Types /\ BlockInv(t) /\ Len(access[t]) \in Nat /\ Committed(t) \in Nat /\ commit_log[t] \in Seq(Nat)
      /\ RTM_BATCH_N \in Nat /\ RTM_BATCH_N > 0
    BY Here
<1>1. access'[t] = access[t] /\ cpc'[t] = "out"
    OBVIOUS
<1>2. /\ Committed(t)' = Committed(t) + RTM_BATCH_N
      /\ \A u \in Thread \ {t} : commit_log'[u] = commit_log[u]
    BY <1>1, CommitBlock
<1>3. Len(access[t]) <= Committed(t) + RTM_BATCH_N /\ Committed(t) < Len(access[t])
    BY <1>0 DEF BlockInv
<1>4. Done(t)' = Done(t) \cup Fresh(t)
  <2>1. Done(t)' = {i \in 1 .. Len(access[t]) : i <= Committed(t) + RTM_BATCH_N}
      BY <1>1, <1>2 DEF Done
  <2> QED BY <1>0, <1>3, <2>1, SMTT(60) DEF Done, Fresh
<1>5. commit_log'[t] = Append(commit_log[t], n)
    BY <1>0 DEF Types
<1>6. ASSUME NEW i \in Done(t) PROVE Time(t, i)' = Time(t, i)
  <2> DEFINE b == ((i - 1) \div RTM_BATCH_N) + 1
  <2>1. b \in 1 .. Len(commit_log[t])
      BY <1>0, OldTime
  <2>2. Time(t, i) = <<commit_log[t][b], i>> /\ Time(t, i)' = <<commit_log'[t][b], i>>
      BY TimeAt
  <2> HIDE DEF b
  <2>3. Append(commit_log[t], n)[b] = commit_log[t][b]
      BY <1>0, <2>1, SMTT(60)
  <2> QED BY <1>5, <2>2, <2>3
<1>7. ASSUME NEW i \in Fresh(t) PROVE i \in Nat /\ Time(t, i)' = <<n, i>>
  <2>1. i \in Nat /\ 1 <= i /\ Committed(t) < i /\ i <= Committed(t) + RTM_BATCH_N
      BY <1>0, <1>3, SMTT(60) DEF Fresh
  <2> DEFINE L == Len(commit_log[t])
             b == ((i - 1) \div RTM_BATCH_N) + 1
  <2>2. b = L + 1
    <3>1. L \in Nat /\ Committed(t) = RTM_BATCH_N * L
        BY <1>0, SMTT(60) DEF Committed
    <3> QED BY <2>1, <3>1, BlockOf
  <2>3. Time(t, i)' = <<commit_log'[t][b], i>>
      BY TimeAt
  <2>4. Append(commit_log[t], n)[L + 1] = n
      BY <1>0, SMTT(60)
  <2> HIDE DEF b, L
  <2> QED BY <1>5, <2>1, <2>2, <2>3, <2>4
<1>8. \A u \in Thread \ {t} :
        /\ Done(u)' = Done(u)
        /\ \A i \in Done(u) : access'[u][i] = access[u][i] /\ Time(u, i)' = Time(u, i)
    BY <1>2, PastOther
<1>9. \A u \in Thread : \A i \in Done(u) : Time(u, i)[1] \in Nat /\ Time(u, i)[1] < n
    BY <1>0, OldTime
<1> QED BY <1>1, <1>4, <1>6, <1>7, <1>8, <1>9 DEF Commits

-----------------------------------------------------------------------------
(* The unfinished block                                                    *)
LEMMA OwnNone ==
    ASSUME NEW acc \in Seq(Block), NEW b \in Nat, Len(acc) <= b, NEW o
    PROVE  Own(acc, b, Len(acc) + 1, o) = {}
BY SMTT(60) DEF Own

LEMMA OwnBefore ==
    ASSUME NEW acc \in Seq(Block), NEW b \in Nat, NEW a \in Block, NEW k \in Nat,
           k <= Len(acc) + 1, NEW o
    PROVE  /\ Own(Append(acc, a), b, k, o) = Own(acc, b, k, o)
           /\ \A val : LastOwn(Append(acc, a), b, k, o, val) <=> LastOwn(acc, b, k, o, val)
<1>1. Len(Append(acc, a)) = Len(acc) + 1 /\ \A i \in 1 .. Len(acc) : Append(acc, a)[i] = acc[i]
    BY SMTT(60)
<1>2. \A j \in b + 1 .. k - 1 : j \in 1 .. Len(acc)
    BY SMTT(60)
<1>3. Own(Append(acc, a), b, k, o) = Own(acc, b, k, o)
    BY <1>1, <1>2, SMTT(60) DEF Own
<1>4. \A j \in Own(acc, b, k, o) : Append(acc, a)[j] = acc[j]
    BY <1>1, <1>2 DEF Own
<1> QED BY <1>3, <1>4 DEF LastOwn

LEMMA OwnRead ==
    ASSUME NEW acc \in Seq(Block), NEW b \in Nat, NEW a \in Block, NEW o,
           a.acc # "W" \/ a.objid # o
    PROVE  /\ Own(Append(acc, a), b, Len(acc) + 2, o) = Own(acc, b, Len(acc) + 1, o)
           /\ \A val : LastOwn(Append(acc, a), b, Len(acc) + 2, o, val) <=>
                       LastOwn(acc, b, Len(acc) + 1, o, val)
<1>1. /\ Len(Append(acc, a)) = Len(acc) + 1 /\ Append(acc, a)[Len(acc) + 1] = a
      /\ \A i \in 1 .. Len(acc) : Append(acc, a)[i] = acc[i]
    BY SMTT(60)
<1>2. ASSUME NEW j PROVE j \in Own(Append(acc, a), b, Len(acc) + 2, o) <=> j \in Own(acc, b, Len(acc) + 1, o)
  <2>1. CASE j = Len(acc) + 1
    <3>1. j \notin Own(acc, b, Len(acc) + 1, o)
        BY <2>1, SMTT(60) DEF Own
    <3>2. j \notin Own(Append(acc, a), b, Len(acc) + 2, o)
        BY <1>1, <2>1 DEF Own
    <3> QED BY <3>1, <3>2
  <2>2. CASE j # Len(acc) + 1
      BY <1>1, <2>2, SMTT(60) DEF Own
  <2> QED BY <2>1, <2>2
<1>3. \A j \in Own(acc, b, Len(acc) + 1, o) : Append(acc, a)[j] = acc[j]
    BY <1>1, SMTT(60) DEF Own
<1>4. Own(Append(acc, a), b, Len(acc) + 2, o) = Own(acc, b, Len(acc) + 1, o)
    BY <1>2
<1> QED BY <1>3, <1>4 DEF LastOwn

LEMMA OwnWrite ==
    ASSUME NEW acc \in Seq(Block), NEW b \in Nat, b <= Len(acc), NEW a \in Block, a.acc = "W"
    PROVE  LastOwn(Append(acc, a), b, Len(acc) + 2, a.objid, a.val)
<1>1. Len(Append(acc, a)) = Len(acc) + 1 /\ Append(acc, a)[Len(acc) + 1] = a
    BY SMTT(60)
<1>2. Len(acc) + 1 \in Own(Append(acc, a), b, Len(acc) + 2, a.objid)
    BY <1>1, SMTT(60) DEF Own
<1>3. \A i \in Own(Append(acc, a), b, Len(acc) + 2, a.objid) : i <= Len(acc) + 1
    BY SMTT(60) DEF Own
<1> QED BY <1>1, <1>2, <1>3 DEF LastOwn

LEMMA LastIsOwn ==
    ASSUME NEW acc, NEW b, NEW k, NEW o, NEW val, LastOwn(acc, b, k, o, val)
    PROVE  Own(acc, b, k, o) # {}
BY DEF LastOwn

(* MemInv and ReadInv in the next state                                    *)
LEMMA MemNext ==
    ASSUME \A o \in Obj : \A val : mem'[o] = val =>
              /\ (\A t \in Thread : Holder(t)' => OwnAll(t, o)' = {}) => LatestNext(WritesOf(o)', val)
              /\ \A t \in Thread : Holder(t)' /\ OwnAll(t, o)' # {} =>
                    LastOwn(access'[t], Committed(t)', Len(access'[t]) + 1, o, val)
    PROVE  MemInv'
<1>1. ASSUME NEW o \in Obj, LatestNext(WritesOf(o)', mem'[o]) PROVE Latest(WritesOf(o), mem[o])'
    BY <1>1 DEF Latest, LatestNext, Earlier
<1>2. ASSUME NEW o \in Obj, NEW t \in Thread,
             LastOwn(access'[t], Committed(t)', Len(access'[t]) + 1, o, mem'[o])
      PROVE  LastOwnAll(t, o, mem[o])'
    BY <1>2 DEF LastOwnAll, LastOwn, Own
<1> SUFFICES ASSUME NEW o \in Obj
             PROVE  /\ (\A t \in Thread : Holder(t)' => OwnAll(t, o)' = {}) => Latest(WritesOf(o), mem[o])'
                    /\ \A t \in Thread : Holder(t)' /\ OwnAll(t, o)' # {} => LastOwnAll(t, o, mem[o])'
    BY DEF MemInv
<1> QED BY <1>1, <1>2

GoodNext(t, k, o, val) ==
    IF Own(access'[t], Committed(t)', k, o) # {} THEN LastOwn(access'[t], Committed(t)', k, o, val)
    ELSE IF tx'[t].on THEN o \in tx'[t].rset /\ val = mem'[o]
    ELSE LatestNext(WritesOf(o)', val)

LEMMA ReadNext ==
    ASSUME NEW t \in Thread,
           tx'[t].on \/ Holder(t)' =>
              \A k \in Committed(t)' + 1 .. Len(access'[t]) : \A o, val :
                  access'[t][k].acc = "R" /\ access'[t][k].objid = o /\ access'[t][k].val = val =>
                      GoodNext(t, k, o, val)
    PROVE  ReadInv(t)'
<1>1. ASSUME NEW k, NEW o, NEW val, access'[t][k].objid = o, access'[t][k].val = val,
             GoodNext(t, k, o, val)
      PROVE  Good(t, k, access[t][k].objid, access[t][k].val)'
  <2>1. (WritesOf(access[t][k].objid))' = WritesOf(o)'
      BY <1>1 DEF WritesOf
  <2>2. LatestNext(WritesOf(o)', val) => Latest(WritesOf(access[t][k].objid), access[t][k].val)'
      BY <1>1, <2>1 DEF LatestNext, Latest, Earlier
  <2>3. /\ (Own(access[t], Committed(t), k, access[t][k].objid))' = Own(access'[t], Committed(t)', k, o)
        /\ LastOwn(access'[t], Committed(t)', k, o, val) =>
             LastOwn(access[t], Committed(t), k, access[t][k].objid, access[t][k].val)'
      BY <1>1 DEF Own, LastOwn
  <2> QED BY <1>1, <2>2, <2>3 DEF GoodNext, Good
<1>2. ASSUME NEW k \in Committed(t)' + 1 .. Len(access'[t]), tx'[t].on \/ Holder(t)',
             access'[t][k].acc = "R"
      PROVE  Good(t, k, access[t][k].objid, access[t][k].val)'
  <2>1. PICK o, val : o = access'[t][k].objid /\ val = access'[t][k].val
      OBVIOUS
  <2> QED BY <1>1, <1>2, <2>1
<1> QED BY <1>2 DEF ReadInv

-----------------------------------------------------------------------------
(* What t's step does to the blocks of other threads: nothing, or it       *)
(* aborts them.                                                            *)
LEMMA OtherHolder ==
    ASSUME NEW t \in Thread, NEW victims, Elsewhere(t, victims), NEW u \in Thread, u # t
    PROVE  /\ Holder(u)' <=> Holder(u)
           /\ tx'[u].on \/ Holder(u)' => u \notin victims /\ Kept(u)
<1>1. CASE u \in victims
  <2>1. tx[u].on /\ cpc'[u] = "lock" /\ ~tx'[u].on
      BY <1>1, NoTxFacts DEF Elsewhere, Aborted
  <2> QED BY <1>1, <2>1 DEF Holder
<1>2. CASE u \notin victims
  <2>1. Kept(u)
      BY <1>2 DEF Elsewhere
  <2> QED BY <1>2, <2>1 DEF Kept, Holder
<1> QED BY <1>1, <1>2

LEMMA OtherKept ==
    ASSUME Base, NEW t \in Thread, NEW victims, Elsewhere(t, victims), NEW u \in Thread, u # t, commit_log'[u] = commit_log[u],
           BufferInv(u), ReadInv(u), SamePast \/ ~Holder(u),
           \A o \in Obj : mem'[o] = mem[o] \/ Readers(o) \subseteq victims \cup {t}
    PROVE  BufferInv(u)' /\ ReadInv(u)'
<1>1. Committed(u)' = Committed(u)
    BY SameTime
<1>2. ASSUME tx'[u].on PROVE BufferInv(u)'
  <2>1. Kept(u)
      BY <1>2, OtherHolder
  <2> QED BY <1>1, <2>1, SMTT(60) DEF BufferInv, Kept, OwnAll, LastOwnAll, LastOwn, Own
<1>3. ASSUME tx'[u].on \/ Holder(u)',
             NEW k \in Committed(u)' + 1 .. Len(access'[u]), NEW o, NEW val,
             access'[u][k].acc = "R", access'[u][k].objid = o, access'[u][k].val = val
      PROVE  GoodNext(u, k, o, val)
  <2>1. Kept(u) /\ u \notin victims /\ (Holder(u)' <=> Holder(u))
      BY <1>3, OtherHolder
  <2>2. access'[u] = access[u] /\ tx'[u] = tx[u]
      BY <2>1 DEF Kept
  <2>3. Good(u, k, o, val)
      BY <1>1, <1>3, <2>1, <2>2 DEF ReadInv
  <2>4. o \in Obj
    <3>1. access[u] \in Seq(Block) /\ Committed(u) \in Nat
        BY Here
    <3>2. k \in 1 .. Len(access[u])
        BY <1>1, <1>3, <2>2, <3>1, SMTT(60)
    <3>3. access[u][k] \in Block
        BY <3>1, <3>2, SMTT(60)
    <3>4. access[u][k].objid \in Obj
        BY <3>3 DEF Block
    <3>5. access[u][k].objid = o
        BY <1>3, <2>2
    <3> QED BY <3>4, <3>5
  <2>5. o \in tx[u].rset => mem'[o] = mem[o]
      BY <2>1, <2>4, SMTT(60) DEF Readers
  <2>6. ASSUME ~tx[u].on, Latest(WritesOf(o), val) PROVE LatestNext(WritesOf(o)', val)
    <3>1. SamePast
        BY <1>3, <2>1, <2>2, <2>6
    <3> QED BY <2>6, <3>1, LatestKept
  <2> QED BY <1>1, <2>2, <2>3, <2>5, <2>6 DEF Good, GoodNext
<1>4. ReadInv(u)'
    BY <1>3, ReadNext
<1>5. ~tx'[u].on => BufferInv(u)'
    BY DEF BufferInv
<1> QED BY <1>2, <1>4, <1>5

(* The step leaves memory and t's own writes as they were.                 *)
OwnKept(t) ==
    \A o \in Obj :
        /\ OwnAll(t, o)' = OwnAll(t, o)
        /\ \A val : LastOwnAll(t, o, val) =>
              LastOwn(access'[t], Committed(t)', Len(access'[t]) + 1, o, val)

LEMMA MemSame ==
    ASSUME NEW t \in Thread, NEW victims, Elsewhere(t, victims),
           MemInv, mem' = mem, SamePast, commit_log' = commit_log,
           Holder(t) => Holder(t)' /\ OwnKept(t),
           Holder(t)' /\ ~Holder(t) => \A o \in Obj : OwnAll(t, o)' = {}
    PROVE  MemInv'
<1> SUFFICES ASSUME NEW o \in Obj, NEW val, mem'[o] = val
             PROVE  /\ (\A u \in Thread : Holder(u)' => OwnAll(u, o)' = {}) => LatestNext(WritesOf(o)', val)
                    /\ \A u \in Thread : Holder(u)' /\ OwnAll(u, o)' # {} =>
                          LastOwn(access'[u], Committed(u)', Len(access'[u]) + 1, o, val)
    BY MemNext
<1>1. ASSUME NEW u \in Thread, Holder(u)
      PROVE  /\ Holder(u)' /\ OwnAll(u, o)' = OwnAll(u, o)
             /\ LastOwnAll(u, o, val) => LastOwn(access'[u], Committed(u)', Len(access'[u]) + 1, o, val)
  <2>1. CASE u = t
      BY <1>1, <2>1 DEF OwnKept
  <2>2. CASE u # t
    <3>1. Holder(u)' /\ Kept(u)
        BY <1>1, <2>2, OtherHolder
    <3>2. Committed(u)' = Committed(u) /\ access'[u] = access[u]
        BY <3>1, SameTime DEF Kept
    <3> QED BY <3>1, <3>2 DEF OwnAll, LastOwnAll, Own
  <2> QED BY <2>1, <2>2
<1>2. ASSUME NEW u \in Thread, Holder(u)', OwnAll(u, o)' # {} PROVE Holder(u)
  <2>1. CASE u = t
      BY <1>2, <2>1
  <2>2. CASE u # t
      BY <1>2, <2>2, OtherHolder
  <2> QED BY <2>1, <2>2
<1>3. ASSUME \A u \in Thread : Holder(u)' => OwnAll(u, o)' = {}
      PROVE  LatestNext(WritesOf(o)', val)
  <2>1. \A u \in Thread : Holder(u) => OwnAll(u, o) = {}
      BY <1>1, <1>3
  <2>2. Latest(WritesOf(o), val)
      BY <2>1 DEF MemInv
  <2> QED BY <2>2, LatestKept
<1>4. ASSUME NEW u \in Thread, Holder(u)', OwnAll(u, o)' # {}
      PROVE  LastOwn(access'[u], Committed(u)', Len(access'[u]) + 1, o, val)
  <2>1. Holder(u) /\ OwnAll(u, o) # {}
      BY <1>1, <1>2, <1>4
  <2>2. LastOwnAll(u, o, val)
      BY <2>1 DEF MemInv
  <2> QED BY <1>1, <2>1, <2>2
<1> QED BY <1>3, <1>4

LEMMA SerialKept ==
    ASSUME Base, Serial, NEW t \in Thread, NEW victims, Elsewhere(t, victims),
           SamePast, commit_log' = commit_log, MemInv', BufferInv(t)', ReadInv(t)',
           \A o \in Obj : mem'[o] = mem[o] \/ Readers(o) \subseteq victims \cup {t}
    PROVE  Serial'
<1>1. CommitOrderSerial'
    BY SameSerial DEF Serial
<1>2. ASSUME NEW u \in Thread, u # t PROVE BufferInv(u)' /\ ReadInv(u)'
  <2>1. BufferInv(u) /\ ReadInv(u) /\ commit_log'[u] = commit_log[u]
      BY DEF Serial
  <2> QED BY <1>2, <2>1, OtherKept
<1> QED BY <1>1, <1>2 DEF Serial

(* t's own block: none, a new one, or the one it had.                      *)
LEMMA NoBlock ==
    ASSUME NEW t \in Thread, ~tx'[t].on, ~Holder(t)'
    PROVE  BufferInv(t)' /\ ReadInv(t)'
BY DEF BufferInv, ReadInv

LEMMA NewBlock ==
    ASSUME Base, NEW t \in Thread, access'[t] = access[t], commit_log' = commit_log,
           Len(access[t]) <= Committed(t), DOMAIN tx'[t].wbuf = {}
    PROVE  BufferInv(t)' /\ ReadInv(t)' /\ \A o : OwnAll(t, o)' = {}
<1>1. Committed(t)' = Committed(t)
    BY SameTime
<1>2. access[t] \in Seq(Block) /\ Committed(t) \in Nat /\ Len(access[t]) \in Nat
    BY Here
<1>3. ASSUME NEW o PROVE OwnAll(t, o)' = {}
  <2>1. OwnAll(t, o)' = Own(access[t], Committed(t), Len(access[t]) + 1, o)
      BY <1>1 DEF OwnAll, Own
  <2> QED BY <1>2, <2>1, OwnNone
<1>4. BufferInv(t)'
    BY <1>3 DEF BufferInv
<1>5. \A k : k \notin Committed(t)' + 1 .. Len(access'[t])
    BY <1>1, <1>2, SMTT(60)
<1> QED BY <1>3, <1>4, <1>5 DEF ReadInv

LEMMA SameBlock ==
    ASSUME NEW t \in Thread, access'[t] = access[t], commit_log' = commit_log, mem' = mem,
           SamePast, BufferInv(t), ReadInv(t),
           tx'[t].on <=> tx[t].on, Holder(t)' => Holder(t), tx[t].rset \subseteq tx'[t].rset,
           \A o \in Obj : /\ o \in DOMAIN tx'[t].wbuf <=> o \in DOMAIN tx[t].wbuf
                          /\ o \in DOMAIN tx[t].wbuf => tx'[t].wbuf[o] = tx[t].wbuf[o]
    PROVE  BufferInv(t)' /\ ReadInv(t)' /\ OwnKept(t)
<1>1. Committed(t)' = Committed(t)
    BY SameTime
<1>2. \A o : OwnAll(t, o)' = OwnAll(t, o)
    BY <1>1 DEF OwnAll, Own
<1>3. OwnKept(t)
    BY <1>1, <1>2 DEF OwnKept, LastOwnAll
<1>4. BufferInv(t)'
  <2> SUFFICES ASSUME tx'[t].on, NEW o \in Obj
               PROVE  IF o \in DOMAIN tx'[t].wbuf THEN LastOwnAll(t, o, tx[t].wbuf[o])'
                      ELSE OwnAll(t, o)' = {}
      BY DEF BufferInv
  <2>1. CASE o \in DOMAIN tx'[t].wbuf
    <3>1. LastOwnAll(t, o, tx[t].wbuf[o])
        BY <2>1 DEF BufferInv
    <3>2. tx'[t].wbuf[o] = tx[t].wbuf[o]
        BY <2>1
    <3> QED BY <1>1, <2>1, <3>1, <3>2 DEF LastOwnAll, LastOwn, Own
  <2>2. CASE o \notin DOMAIN tx'[t].wbuf
      BY <1>2, <2>2 DEF BufferInv
  <2> QED BY <2>1, <2>2
<1>5. ASSUME tx'[t].on \/ Holder(t)',
             NEW k \in Committed(t)' + 1 .. Len(access'[t]), NEW o, NEW val,
             access'[t][k].acc = "R", access'[t][k].objid = o, access'[t][k].val = val
      PROVE  GoodNext(t, k, o, val)
  <2>1. Good(t, k, o, val)
      BY <1>1, <1>5 DEF ReadInv
  <2>2. Latest(WritesOf(o), val) => LatestNext(WritesOf(o)', val)
      BY LatestKept
  <2> QED BY <1>1, <2>1, <2>2 DEF Good, GoodNext
<1>6. ReadInv(t)'
    BY <1>5, ReadNext
<1> QED BY <1>3, <1>4, <1>6

-----------------------------------------------------------------------------
(* The steps that neither access an object nor commit                      *)
LEMMA QuietSerial ==
    ASSUME Base, Serial, NEW t \in Thread, NEW victims, Elsewhere(t, victims), access'[t] = access[t],
           commit_log' = commit_log, mem' = mem, BufferInv(t)', ReadInv(t)',
           Holder(t) => Holder(t)' /\ OwnKept(t),
           Holder(t)' /\ ~Holder(t) => \A o \in Obj : OwnAll(t, o)' = {}
    PROVE  Serial'
<1>1. SamePast
  <2>1. {i \in 1 .. Len(access[t]) : i <= Committed(t)} = Done(t)
      BY DEF Done
  <2> QED BY <2>1, PastKept
<1>2. MemInv'
    BY <1>1, MemSame DEF Serial
<1>3. \A o \in Obj : mem'[o] = mem[o]
    OBVIOUS
<1> QED BY <1>1, <1>2, <1>3, SerialKept

LEMMA AbortSerial ==
    ASSUME Base, Serial, NEW t \in Thread, tx[t].on, commit_log' = commit_log, mem' = mem,
           Step(t, "lock", NoTx, SubSeq(access[t], 1, Committed(t)), {})
    PROVE  Serial'
<1>1. t \in On
    BY DEF On
<1>e. Elsewhere(t, {})
    BY StepOther, SMTT(60)
<1>2. SamePast
  <2> DEFINE acc == SubSeq(access[t], 1, Committed(t))
  <2>1. /\ {i \in 1 .. Len(acc) : i <= Committed(t)} = Done(t)
        /\ \A i \in Done(t) : acc[i] = access[t][i]
      BY <1>1, PastTruncated
  <2>2. access'[t] = acc
      BY StepSelf
  <2> HIDE DEF acc
  <2> QED BY <1>e, <2>1, <2>2, PastKept, SMTT(60)
<1>3. ~Holder(t) /\ ~Holder(t)' /\ ~tx'[t].on
    BY StepSelf, NoTxFacts DEF Holder
<1>4. MemInv'
    BY <1>e, <1>2, <1>3, MemSame DEF Serial
<1>5. BufferInv(t)' /\ ReadInv(t)'
    BY <1>3, NoBlock
<1>6. \A o \in Obj : mem'[o] = mem[o]
    OBVIOUS
<1> QED BY <1>e, <1>2, <1>4, <1>5, <1>6, SerialKept

LEMMA XbeginSerial ==
    ASSUME Base, Serial, NEW t \in Thread, xbegin(t)
    PROVE  Serial'
<1> DEFINE begun == [NoTx EXCEPT !.on = TRUE]
<1>1. /\ cpc[t] = "out" /\ Len(access[t]) < nops[t] /\ Step(t, "run", begun, access[t], {})
      /\ commit_log' = commit_log /\ mem' = mem
    BY DEF xbegin
<1>2. begun.on /\ DOMAIN begun.wbuf = {}
    BY BegunFacts
<1> HIDE DEF begun
<1>3. tx'[t] = begun /\ access'[t] = access[t]
    BY <1>1, StepSelf
<1>4. Len(access[t]) <= Committed(t)
    BY <1>1, Here, SMTT(60) DEF BlockInv
<1>5. BufferInv(t)' /\ ReadInv(t)'
    BY <1>1, <1>2, <1>3, <1>4, NewBlock
<1>6. ~Holder(t) /\ ~Holder(t)'
    BY <1>1, <1>2, <1>3 DEF Holder
<1>7. Elsewhere(t, {})
    BY <1>1, StepOther, SMTT(60)
<1> QED BY <1>1, <1>3, <1>5, <1>6, <1>7, QuietSerial

LEMMA TakeTicketSerial ==
    ASSUME Base, Serial, NEW t \in Thread, take_ticket(t)
    PROVE  Serial'
<1>1. /\ cpc[t] = "lock" /\ Step(t, "spin", NoTx, access[t], Readers(LockLoc))
      /\ commit_log' = commit_log /\ mem' = mem
    BY DEF take_ticket
<1>2. ~Holder(t) /\ ~Holder(t)' /\ ~tx'[t].on /\ access'[t] = access[t]
    BY <1>1, StepSelf, NoTxFacts DEF Holder
<1>3. BufferInv(t)' /\ ReadInv(t)'
    BY <1>2, NoBlock
<1>4. Elsewhere(t, Readers(LockLoc))
    BY <1>1, Conflicting, StepOther
<1> QED BY <1>1, <1>2, <1>3, <1>4, QuietSerial

LEMMA TicketWaitSerial ==
    ASSUME Base, Serial, NEW t \in Thread, ticket_wait(t)
    PROVE  Serial'
<1>1. /\ cpc[t] = "spin" /\ Step(t, "run", NoTx, access[t], {})
      /\ commit_log' = commit_log /\ mem' = mem
    BY DEF ticket_wait
<1>2. tx'[t] = NoTx /\ access'[t] = access[t]
    BY <1>1, StepSelf
<1>3. Len(access[t]) <= Committed(t)
    BY <1>1, Here, SMTT(60) DEF BlockInv
<1>4. BufferInv(t)' /\ ReadInv(t)' /\ \A o : OwnAll(t, o)' = {}
    BY <1>1, <1>2, <1>3, NewBlock, NoTxFacts
<1>5. ~Holder(t) /\ Elsewhere(t, {})
    BY <1>1, StepOther, SMTT(60) DEF Holder
<1> QED BY <1>1, <1>2, <1>4, <1>5, QuietSerial

LEMMA CheckLockableSerial ==
    ASSUME Base, Serial, NEW t \in Thread, check_lockable(t)
    PROVE  Serial'
<1>1. tx[t].on /\ commit_log' = commit_log /\ mem' = mem
    BY DEF check_lockable
<1>2. CASE ticket = users
  <2>1. Step(t, "time", Loading(t, LockLoc), access[t], {})
      BY <1>2 DEF check_lockable
  <2>2. access'[t] = access[t] /\ tx'[t] = Loading(t, LockLoc) /\ Elsewhere(t, {})
      BY <2>1, StepSelf, StepOther, SMTT(60)
  <2>3. /\ tx'[t].on = tx[t].on /\ tx'[t].wbuf = tx[t].wbuf
        /\ tx[t].rset \subseteq tx'[t].rset
      BY <2>2, LoadingFacts, Here DEF Locs
  <2>4. ~Holder(t) /\ ~Holder(t)'
      BY <1>1, <2>3 DEF Holder
  <2>5. SamePast
    <3>1. {i \in 1 .. Len(access[t]) : i <= Committed(t)} = Done(t)
        BY DEF Done
    <3> QED BY <1>1, <2>2, <3>1, PastKept
  <2>6. BufferInv(t) /\ ReadInv(t)
      BY DEF Serial
  <2>7. BufferInv(t)' /\ ReadInv(t)'
      BY <1>1, <2>2, <2>3, <2>4, <2>5, <2>6, SameBlock
  <2> QED BY <1>1, <2>2, <2>4, <2>7, QuietSerial
<1>3. CASE ticket # users
  <2>1. Step(t, "lock", NoTx, SubSeq(access[t], 1, Committed(t)), {})
      BY <1>3 DEF check_lockable
  <2> QED BY <1>1, <2>1, AbortSerial
<1> QED BY <1>2, <1>3

LEMMA GettimeSerial ==
    ASSUME Base, Serial, NEW t \in Thread, tx_gettime(t)
    PROVE  Serial'
<1> DEFINE stored == Storing(t, TimeLoc, g_time + 1)
           mine == [stored EXCEPT !.rset = @ \cup {TimeLoc}]
           victims == Readers(TimeLoc) \cup Writers(TimeLoc)
<1>1. Step(t, "commit", mine, access[t], victims) /\ cpc[t] = "time"
    BY DEF tx_gettime
<1>2. commit_log' = commit_log /\ mem' = mem
    BY DEF tx_gettime
<1>3. Types /\ TimeLoc \in Obj \cup {TimeLoc} /\ Storable(TimeLoc, g_time + 1)
    BY SMTT(60) DEF Base, Types, Storable
<1>4. /\ stored \in Txs /\ stored.on = tx[t].on /\ stored.rset = tx[t].rset
      /\ DOMAIN stored.wbuf = DOMAIN tx[t].wbuf \cup {TimeLoc}
      /\ \A k \in DOMAIN tx[t].wbuf \cup {TimeLoc} :
           stored.wbuf[k] = IF k = TimeLoc THEN g_time + 1 ELSE tx[t].wbuf[k]
    BY <1>3, StoringFacts, SMTT(60)
<1> HIDE DEF stored
<1>5. mine.on = tx[t].on /\ mine.wbuf = stored.wbuf /\ mine.rset = tx[t].rset \cup {TimeLoc}
    BY <1>4 DEF Txs
<1>6. victims \subseteq On
    BY Conflicting
<1> HIDE DEF mine, victims
<1>7. cpc'[t] = "commit" /\ tx'[t] = mine /\ access'[t] = access[t] /\ Elsewhere(t, victims)
    BY <1>1, <1>6, StepSelf, StepOther
<1>8. SamePast
  <2>1. {i \in 1 .. Len(access[t]) : i <= Committed(t)} = Done(t)
      BY DEF Done
  <2> QED BY <1>2, <1>7, <2>1, PastKept
<1>9. ~Holder(t) /\ ~Holder(t)'
    BY <1>1, <1>7 DEF Holder
<1>10. \A o \in Obj : /\ o \in DOMAIN tx'[t].wbuf <=> o \in DOMAIN tx[t].wbuf
                      /\ o \in DOMAIN tx[t].wbuf => tx'[t].wbuf[o] = tx[t].wbuf[o]
    BY <1>4, <1>5, <1>7, ObjLocs
<1>11. tx'[t].on = tx[t].on /\ tx[t].rset \subseteq tx'[t].rset
    BY <1>5, <1>7
<1>12. BufferInv(t) /\ ReadInv(t)
    BY DEF Serial
<1>13. BufferInv(t)' /\ ReadInv(t)'
    BY <1>2, <1>7, <1>8, <1>9, <1>10, <1>11, <1>12, SameBlock
<1> QED BY <1>2, <1>7, <1>9, <1>13, QuietSerial

LEMMA HolderQuiet ==
    ASSUME Base, Serial, NEW t \in Thread, Holder(t), NEW there \in {"store", "unlock"}, NEW victims,
           Step(t, there, NoTx, access[t], victims), victims \subseteq On,
           commit_log' = commit_log, mem' = mem
    PROVE  Serial'
<1>1. cpc'[t] = there /\ tx'[t] = NoTx /\ access'[t] = access[t] /\ Elsewhere(t, victims)
    BY StepSelf, StepOther
<1>2. tx[t] = NoTx
    BY Here DEF TxInv, Holder
<1>3. Holder(t)'
    BY <1>1, NoTxFacts DEF Holder
<1>4. SamePast
  <2>1. {i \in 1 .. Len(access[t]) : i <= Committed(t)} = Done(t)
      BY DEF Done
  <2> QED BY <1>1, <2>1, PastKept
<1>5. BufferInv(t) /\ ReadInv(t)
    BY DEF Serial
<1>6. BufferInv(t)' /\ ReadInv(t)' /\ OwnKept(t)
    BY <1>1, <1>2, <1>4, <1>5, SameBlock
<1> QED BY <1>1, <1>3, <1>6, QuietSerial

LEMMA TimeSerial ==
    ASSUME Base, Serial, NEW t \in Thread, load_time(t) \/ store_time(t)
    PROVE  Serial'
<1>1. CASE load_time(t)
  <2>1. /\ Holder(t) /\ Step(t, "store", NoTx, access[t], Writers(TimeLoc))
        /\ commit_log' = commit_log /\ mem' = mem
      BY <1>1 DEF load_time, Holder
  <2>2. Writers(TimeLoc) \subseteq On
      BY Conflicting
  <2> QED BY <2>1, <2>2, HolderQuiet
<1>2. CASE store_time(t)
  <2>1. /\ cpc[t] = "store" /\ commit_log' = commit_log /\ mem' = mem
        /\ Step(t, "unlock", NoTx, access[t], Readers(TimeLoc) \cup Writers(TimeLoc))
      BY <1>2 DEF store_time
  <2>2. Holder(t)
      BY <2>1, Here DEF Holder, TxInv
  <2>3. Readers(TimeLoc) \cup Writers(TimeLoc) \subseteq On
      BY Conflicting
  <2> QED BY <2>1, <2>2, <2>3, HolderQuiet
<1> QED BY <1>1, <1>2

-----------------------------------------------------------------------------
(* The accesses.  The reads a block has made stay right.                   *)
LEMMA OwnOld ==
    ASSUME Base, NEW t \in Thread, NEW a \in Block, access'[t] = Append(access[t], a),
           commit_log' = commit_log, NEW k \in Nat, k <= Len(access[t]) + 1, NEW o, NEW val
    PROVE  /\ Own(access'[t], Committed(t)', k, o) = Own(access[t], Committed(t), k, o)
           /\ LastOwn(access'[t], Committed(t)', k, o, val) <=> LastOwn(access[t], Committed(t), k, o, val)
<1>1. Committed(t)' = Committed(t)
    BY SameTime
<1>2. access[t] \in Seq(Block) /\ Committed(t) \in Nat
    BY Here
<1> QED BY <1>1, <1>2, OwnBefore, SMTT(60)

LEMMA OldReadsKept ==
    ASSUME Base, NEW t \in Thread, ReadInv(t), tx[t].on \/ Holder(t), NEW a \in Block,
           access'[t] = Append(access[t], a), commit_log' = commit_log, SamePast,
           tx'[t].on <=> tx[t].on, tx[t].rset \subseteq tx'[t].rset, mem' = mem \/ ~tx[t].on,
           NEW k \in Committed(t) + 1 .. Len(access[t]), NEW o, NEW val,
           access[t][k].acc = "R", access[t][k].objid = o, access[t][k].val = val
    PROVE  GoodNext(t, k, o, val)
<1>1. Committed(t)' = Committed(t)
    BY SameTime
<1>2. access[t] \in Seq(Block) /\ Committed(t) \in Nat /\ Len(access[t]) \in Nat
    BY Here
<1>3. k \in Nat /\ k <= Len(access[t]) + 1
    BY <1>2, SMTT(60)
<1>4. /\ Own(access'[t], Committed(t)', k, o) = Own(access[t], Committed(t), k, o)
      /\ LastOwn(access'[t], Committed(t)', k, o, val) <=> LastOwn(access[t], Committed(t), k, o, val)
    BY <1>3, OwnOld
<1>5. Good(t, k, o, val)
    BY DEF ReadInv
<1>6. Latest(WritesOf(o), val) => LatestNext(WritesOf(o)', val)
    BY LatestKept
<1> QED BY <1>4, <1>5, <1>6 DEF Good, GoodNext

(* What an access adds to the block's own writes                           *)
LEMMA OwnAfter ==
    ASSUME Base, NEW t \in Thread, NEW a \in Block, access'[t] = Append(access[t], a),
           commit_log' = commit_log, NEW o, a.acc # "W" \/ a.objid # o
    PROVE  /\ OwnAll(t, o)' = OwnAll(t, o)
           /\ \A val : LastOwnAll(t, o, val) <=>
                 LastOwn(access'[t], Committed(t)', Len(access'[t]) + 1, o, val)
<1>1. Committed(t)' = Committed(t)
    BY SameTime
<1>2. access[t] \in Seq(Block) /\ Committed(t) \in Nat /\ Len(access[t]) \in Nat
    BY Here
<1>3. Len(access'[t]) + 1 = Len(access[t]) + 2
    BY <1>2, SMTT(60)
<1>4. OwnAll(t, o)' = Own(access'[t], Committed(t)', Len(access'[t]) + 1, o)
    BY DEF OwnAll, Own
<1>5. /\ Own(Append(access[t], a), Committed(t), Len(access[t]) + 2, o) =
           Own(access[t], Committed(t), Len(access[t]) + 1, o)
      /\ \A val : LastOwn(Append(access[t], a), Committed(t), Len(access[t]) + 2, o, val) <=>
                  LastOwn(access[t], Committed(t), Len(access[t]) + 1, o, val)
    BY <1>2, OwnRead
<1> QED BY <1>1, <1>3, <1>4, <1>5 DEF OwnAll, LastOwnAll

LEMMA InBlock ==
    ASSUME Base, NEW t \in Thread, cpc[t] = "run"
    PROVE  /\ Committed(t) <= Len(access[t]) /\ (tx[t].on \/ Holder(t))
           /\ ~tx[t].on => Holder(t) /\ tx[t] = NoTx /\ DOMAIN tx[t].wbuf = {}
<1>1. BlockInv(t) /\ TxInv(t) /\ Committed(t) \in Nat /\ Len(access[t]) \in Nat
    BY Here
<1>2. Committed(t) <= Len(access[t])
    BY <1>1 DEF BlockInv
<1>3. ~tx[t].on => Holder(t) /\ tx[t] = NoTx
    BY <1>1 DEF TxInv, Holder
<1> QED BY <1>2, <1>3, NoTxFacts

(* A read returns the block's own last write or what memory holds.         *)
LEMMA ReadGood ==
    ASSUME Ordered, Serial, NEW t \in Thread, NEW o \in Obj, mem_read(t, o), SamePast,
           NEW val, val = IF o \in DOMAIN tx[t].wbuf THEN tx[t].wbuf[o] ELSE mem[o],
           tx'[t].on <=> tx[t].on, tx[t].on => o \in tx'[t].rset,
           NEW a \in Block, access'[t] = Append(access[t], a)
    PROVE  GoodNext(t, Len(access[t]) + 1, o, val)
<1>1. cpc[t] = "run" /\ commit_log' = commit_log /\ mem' = mem
    BY DEF mem_read
<1>2. Base /\ LockInv /\ MemInv /\ BufferInv(t)
    BY DEF Ordered, Serial
<1>3. access[t] \in Seq(Block) /\ Committed(t) \in Nat /\ Len(access[t]) \in Nat /\ Committed(t)' = Committed(t)
    BY <1>1, <1>2, Here, SameTime
<1>4. /\ Own(access'[t], Committed(t)', Len(access[t]) + 1, o) = OwnAll(t, o)
      /\ LastOwn(access'[t], Committed(t)', Len(access[t]) + 1, o, val) <=> LastOwnAll(t, o, val)
  <2>1. Len(access[t]) + 1 \in Nat /\ Len(access[t]) + 1 <= Len(access[t]) + 1
      BY <1>3, SMTT(60)
  <2>2. /\ Own(access'[t], Committed(t)', Len(access[t]) + 1, o) =
             Own(access[t], Committed(t), Len(access[t]) + 1, o)
        /\ LastOwn(access'[t], Committed(t)', Len(access[t]) + 1, o, val) <=>
             LastOwn(access[t], Committed(t), Len(access[t]) + 1, o, val)
      BY <1>1, <1>2, <2>1, OwnOld
  <2> QED BY <2>2 DEF OwnAll, LastOwnAll
<1>5. CASE tx[t].on
  <2>1. CASE o \in DOMAIN tx[t].wbuf
    <3>1. LastOwnAll(t, o, val)
        BY <1>2, <1>5, <2>1 DEF BufferInv
    <3>2. OwnAll(t, o) # {}
        BY <3>1, LastIsOwn DEF LastOwnAll, OwnAll
    <3> QED BY <1>4, <3>1, <3>2 DEF GoodNext
  <2>2. CASE o \notin DOMAIN tx[t].wbuf
    <3>1. OwnAll(t, o) = {} /\ val = mem[o]
        BY <1>2, <1>5, <2>2 DEF BufferInv
    <3> QED BY <1>1, <1>4, <1>5, <3>1 DEF GoodNext
  <2> QED BY <2>1, <2>2
<1>6. CASE ~tx[t].on
  <2>0. Holder(t) /\ DOMAIN tx[t].wbuf = {}
      BY <1>1, <1>2, <1>6, InBlock
  <2>1. Holder(t) /\ val = mem[o]
      BY <2>0
  <2>2. CASE OwnAll(t, o) # {}
    <3>1. LastOwnAll(t, o, val)
        BY <1>2, <2>1, <2>2 DEF MemInv
    <3> QED BY <1>4, <2>2, <3>1 DEF GoodNext
  <2>3. CASE OwnAll(t, o) = {}
    <3>1. \A u \in Thread : Holder(u) => OwnAll(u, o) = {}
        BY <1>2, <2>1, <2>3, OneHolder
    <3>2. Latest(WritesOf(o), val)
        BY <1>2, <2>1, <3>1 DEF MemInv
    <3>3. LatestNext(WritesOf(o)', val)
        BY <3>2, LatestKept
    <3> QED BY <1>4, <1>6, <2>3, <3>3 DEF GoodNext
  <2> QED BY <2>2, <2>3
<1> QED BY <1>5, <1>6

ReadEntry(t, o) ==
    [acc |-> "R", objid |-> o, val |-> IF o \in DOMAIN tx[t].wbuf THEN tx[t].wbuf[o] ELSE mem[o]]
WriteEntry(t, o) == [acc |-> "W", objid |-> o, val |-> Value(t, Len(access[t]))]

LEMMA AccessFacts ==
    ASSUME Base, NEW t \in Thread, cpc[t] = "run", NEW mine, NEW a \in Block, NEW victims,
           Step(t, AfterAccess(t), mine, Append(access[t], a), victims), victims \subseteq On,
           nops' = nops, commit_log' = commit_log, mine.on <=> tx[t].on
    PROVE  /\ access'[t] = Append(access[t], a) /\ tx'[t] = mine
           /\ (tx'[t].on <=> tx[t].on) /\ (Holder(t)' <=> Holder(t)) /\ SamePast
           /\ Elsewhere(t, victims)
<1>1. cpc'[t] = AfterAccess(t) /\ tx'[t] = mine /\ access'[t] = Append(access[t], a)
    BY StepSelf
<1>2. cpc'[t] \in {"run", "end"}
    BY <1>1, AccessBlock
<1>3. Holder(t)' <=> Holder(t)
    BY <1>1, <1>2 DEF Holder
<1>4. Committed(t) <= Len(access[t])
    BY InBlock
<1> DEFINE acc == Append(access[t], a)
<1>5. /\ {i \in 1 .. Len(acc) : i <= Committed(t)} = Done(t)
      /\ \A i \in Done(t) : acc[i] = access[t][i]
    BY <1>4, PastAppend
<1>6. access'[t] = acc /\ Elsewhere(t, victims)
    BY <1>1, StepOther
<1> HIDE DEF acc
<1>7. SamePast
    BY <1>5, <1>6, PastKept, SMTT(60)
<1> QED BY <1>1, <1>3, <1>6, <1>7

LEMMA MemReadSerial ==
    ASSUME Ordered, Serial, NEW t \in Thread, NEW o \in Obj, mem_read(t, o)
    PROVE  Serial'
<1> DEFINE a == ReadEntry(t, o)
           mine == Loading(t, o)
<1>0. Base /\ Types /\ BufferInv(t) /\ ReadInv(t) /\ MemInv
    BY DEF Ordered, Base, Serial
<1>1. Step(t, AfterAccess(t), mine, Append(access[t], a), Writers(o)) /\ cpc[t] = "run"
    BY DEF mem_read, ReadEntry
<1>2. mem' = mem /\ nops' = nops /\ commit_log' = commit_log
    BY DEF mem_read
<1>3. a \in Block /\ a.acc = "R" /\ a.objid = o
      /\ a.val = IF o \in DOMAIN tx[t].wbuf THEN tx[t].wbuf[o] ELSE mem[o]
  <2>1. mem[o] \in Val
      BY <1>0 DEF Types
  <2>2. o \in DOMAIN tx[t].wbuf => tx[t].wbuf[o] \in Val
      BY <1>0, TxFields, WbufFacts, ObjLocs
  <2> QED BY <2>1, <2>2 DEF Block, ReadEntry
<1>4. /\ mine.on = tx[t].on /\ mine.wbuf = tx[t].wbuf
      /\ mine.rset = IF tx[t].on THEN tx[t].rset \cup {o} ELSE tx[t].rset
    BY <1>0, LoadingFacts, ObjLocs
<1> HIDE DEF mine, a
<1>5. Writers(o) \subseteq On
    BY <1>0, Conflicting
<1>6. /\ access'[t] = Append(access[t], a) /\ tx'[t] = mine
      /\ (tx'[t].on <=> tx[t].on) /\ (Holder(t)' <=> Holder(t)) /\ SamePast
      /\ Elsewhere(t, Writers(o))
    BY <1>0, <1>1, <1>2, <1>3, <1>4, <1>5, AccessFacts
<1>7. OwnKept(t) /\ \A p \in Obj : \A val : LastOwnAll(t, p, val) =>
                       LastOwn(access'[t], Committed(t)', Len(access'[t]) + 1, p, val)
    BY <1>0, <1>2, <1>3, <1>6, OwnAfter DEF OwnKept
<1>8. MemInv'
    BY <1>0, <1>2, <1>6, <1>7, MemSame
<1>9. BufferInv(t)'
  <2> SUFFICES ASSUME tx'[t].on, NEW p \in Obj
               PROVE  IF p \in DOMAIN tx'[t].wbuf THEN LastOwnAll(t, p, tx[t].wbuf[p])'
                      ELSE OwnAll(t, p)' = {}
      BY DEF BufferInv
  <2>1. tx'[t].wbuf = tx[t].wbuf /\ tx[t].on
      BY <1>4, <1>6
  <2>2. CASE p \in DOMAIN tx[t].wbuf
    <3>1. LastOwnAll(t, p, tx[t].wbuf[p])
        BY <1>0, <2>1, <2>2 DEF BufferInv
    <3>2. LastOwn(access'[t], Committed(t)', Len(access'[t]) + 1, p, tx'[t].wbuf[p])
        BY <1>7, <2>1, <3>1
    <3> QED BY <2>1, <2>2, <3>2 DEF LastOwnAll, LastOwn, Own
  <2>3. CASE p \notin DOMAIN tx[t].wbuf
      BY <1>0, <1>7, <2>1, <2>3 DEF BufferInv, OwnKept
  <2> QED BY <2>1, <2>2, <2>3
<1>10. ASSUME NEW k \in Committed(t)' + 1 .. Len(access'[t]), NEW p, NEW val,
              access'[t][k].acc = "R", access'[t][k].objid = p, access'[t][k].val = val
       PROVE  GoodNext(t, k, p, val)
  <2>1. access[t] \in Seq(Block) /\ Committed(t) \in Nat /\ Committed(t)' = Committed(t)
      BY <1>0, <1>2, Here, SameTime
  <2>a. access'[t] = Append(access[t], a) /\ a \in Block
      BY <1>3, <1>6
  <2>2. CASE k = Len(access[t]) + 1
    <3>1. access'[t][k] = a
        BY <2>1, <2>2, <2>a, SMTT(60)
    <3>2. tx[t].on => o \in tx'[t].rset
        BY <1>4, <1>6
    <3>3. GoodNext(t, Len(access[t]) + 1, o, a.val)
        BY <1>3, <1>6, <3>2, ReadGood
    <3> QED BY <1>3, <1>10, <2>2, <3>1, <3>3
  <2>3. CASE k # Len(access[t]) + 1
    <3>1. k \in Committed(t) + 1 .. Len(access[t])
        BY <2>1, <2>3, <2>a, SMTT(60)
    <3>2. access'[t][k] = access[t][k]
        BY <2>1, <2>a, <3>1, SMTT(60)
    <3>3. tx[t].rset \subseteq tx'[t].rset
        BY <1>4, <1>6
    <3>4. tx[t].on \/ Holder(t)
        BY <1>0, <1>1, InBlock
    <3> QED BY <1>0, <1>2, <1>3, <1>6, <1>10, <3>1, <3>2, <3>3, <3>4, OldReadsKept
  <2> QED BY <2>2, <2>3
<1>11. ReadInv(t)'
    BY <1>10, ReadNext
<1>12. \A p \in Obj : mem'[p] = mem[p]
    BY <1>2
<1> QED BY <1>0, <1>2, <1>6, <1>8, <1>9, <1>11, <1>12, SerialKept

(* What a write does, in a transaction and under the lock                  *)
Wrote(t, o, a) ==
    /\ cpc[t] = "run" /\ commit_log' = commit_log
    /\ a \in Block /\ a.acc = "W" /\ a.objid = o
    /\ Elsewhere(t, Readers(o) \cup Writers(o))
    /\ access'[t] = Append(access[t], a)
    /\ (tx'[t].on <=> tx[t].on) /\ (Holder(t)' <=> Holder(t)) /\ SamePast
    /\ tx'[t].rset = tx[t].rset
    /\ mem' = IF tx[t].on THEN mem ELSE [mem EXCEPT ![o] = a.val]
    /\ tx[t].on => /\ DOMAIN tx'[t].wbuf = DOMAIN tx[t].wbuf \cup {o}
                   /\ \A l \in DOMAIN tx'[t].wbuf :
                        tx'[t].wbuf[l] = IF l = o THEN a.val ELSE tx[t].wbuf[l]

LEMMA WriteFacts ==
    ASSUME Base, NEW t \in Thread, NEW o \in Obj, mem_write(t, o)
    PROVE  \E a : Wrote(t, o, a)
<1> DEFINE a == WriteEntry(t, o)
           mine == IF tx[t].on THEN Storing(t, o, a.val) ELSE tx[t]
           victims == Readers(o) \cup Writers(o)
<1>1. a.acc = "W" /\ a.objid = o /\ a.val = Value(t, Len(access[t]))
    BY DEF WriteEntry
<1>2. a.val \in Val /\ a \in Block
    BY Here DEF Block, Val, Value, WriteEntry
<1>3. /\ cpc[t] = "run" /\ commit_log' = commit_log /\ nops' = nops
      /\ Step(t, AfterAccess(t), mine, Append(access[t], a), victims)
      /\ mem' = IF tx[t].on THEN mem ELSE [mem EXCEPT ![o] = a.val]
    BY <1>1 DEF mem_write, WriteEntry
<1> HIDE DEF a
<1>4. /\ mine.on = tx[t].on /\ mine.rset = tx[t].rset
      /\ tx[t].on => /\ DOMAIN mine.wbuf = DOMAIN tx[t].wbuf \cup {o}
                     /\ \A l \in DOMAIN mine.wbuf : mine.wbuf[l] = IF l = o THEN a.val ELSE tx[t].wbuf[l]
  <2>1. Storable(o, a.val)
      BY <1>2, ObjLocs DEF Storable
  <2>2. Types /\ o \in Obj \cup {TimeLoc}
      BY ObjLocs, Here
  <2>3. /\ Storing(t, o, a.val).on = tx[t].on /\ Storing(t, o, a.val).rset = tx[t].rset
        /\ DOMAIN Storing(t, o, a.val).wbuf = DOMAIN tx[t].wbuf \cup {o}
        /\ \A l \in DOMAIN tx[t].wbuf \cup {o} :
             Storing(t, o, a.val).wbuf[l] = IF l = o THEN a.val ELSE tx[t].wbuf[l]
      BY <2>1, <2>2, StoringFacts, SMTT(60)
  <2> QED BY <2>3
<1>5. victims \subseteq On
    BY Conflicting
<1> HIDE DEF mine, victims
<1>6. /\ access'[t] = Append(access[t], a) /\ tx'[t] = mine
      /\ (tx'[t].on <=> tx[t].on) /\ (Holder(t)' <=> Holder(t)) /\ SamePast
      /\ Elsewhere(t, victims)
    BY <1>2, <1>3, <1>4, <1>5, AccessFacts
<1>7. Wrote(t, o, a)
    BY <1>1, <1>2, <1>3, <1>4, <1>6 DEF Wrote, mine, victims
<1> QED BY <1>7

LEMMA WriteReads ==
    ASSUME Base, NEW t \in Thread, ReadInv(t), NEW a \in Block, a.acc = "W",
           tx[t].on \/ Holder(t), access'[t] = Append(access[t], a), commit_log' = commit_log,
           SamePast, tx'[t].on <=> tx[t].on, tx'[t].rset = tx[t].rset, mem' = mem \/ ~tx[t].on
    PROVE  ReadInv(t)'
<1>1. ASSUME NEW k \in Committed(t)' + 1 .. Len(access'[t]), NEW p, NEW val,
             access'[t][k].acc = "R", access'[t][k].objid = p, access'[t][k].val = val
      PROVE  GoodNext(t, k, p, val)
  <2>1. access[t] \in Seq(Block) /\ Committed(t) \in Nat /\ Committed(t)' = Committed(t)
      BY Here, SameTime
  <2>2. k # Len(access[t]) + 1
      BY <1>1, <2>1, SMTT(60)
  <2>3. k \in Committed(t) + 1 .. Len(access[t])
      BY <1>1, <2>1, <2>2, SMTT(60)
  <2>4. access'[t][k] = access[t][k]
      BY <2>1, <2>3, SMTT(60)
  <2>5. tx[t].rset \subseteq tx'[t].rset
      OBVIOUS
  <2> QED BY <1>1, <2>3, <2>4, <2>5, OldReadsKept
<1> QED BY <1>1, ReadNext

(* The last of the block's own writes of o is the new one.                 *)
LEMMA WriteOwn ==
    ASSUME Base, NEW t \in Thread, NEW a \in Block, a.acc = "W", Committed(t) <= Len(access[t]),
           access'[t] = Append(access[t], a), commit_log' = commit_log
    PROVE  /\ LastOwn(access'[t], Committed(t)', Len(access'[t]) + 1, a.objid, a.val)
           /\ OwnAll(t, a.objid)' # {}
<1>1. access[t] \in Seq(Block) /\ Committed(t) \in Nat /\ Committed(t)' = Committed(t)
    BY Here, SameTime
<1>2. Len(access'[t]) + 1 = Len(access[t]) + 2
    BY <1>1, SMTT(60)
<1>3. LastOwn(Append(access[t], a), Committed(t), Len(access[t]) + 2, a.objid, a.val)
    BY <1>1, OwnWrite
<1>4. LastOwn(access'[t], Committed(t)', Len(access'[t]) + 1, a.objid, a.val)
    BY <1>1, <1>2, <1>3
<1>5. Own(access'[t], Committed(t)', Len(access'[t]) + 1, a.objid) # {}
    BY <1>4, LastIsOwn
<1> QED BY <1>4, <1>5 DEF OwnAll, Own

LEMMA TxWriteSerial ==
    ASSUME Base, Serial, NEW t \in Thread, NEW o \in Obj, mem_write(t, o), tx[t].on
    PROVE  Serial'
<1>w. PICK a : Wrote(t, o, a)
    BY WriteFacts
<1> DEFINE victims == Readers(o) \cup Writers(o)
<1>0. BufferInv(t) /\ ReadInv(t) /\ MemInv
    BY DEF Serial
<1>1. cpc[t] = "run" /\ commit_log' = commit_log /\ a \in Block /\ a.acc = "W" /\ a.objid = o
    BY <1>w DEF Wrote
<1>2. Elsewhere(t, victims)
    BY <1>w DEF Wrote
<1>3. /\ access'[t] = Append(access[t], a) /\ (tx'[t].on <=> tx[t].on)
      /\ (Holder(t)' <=> Holder(t)) /\ SamePast /\ tx'[t].rset = tx[t].rset /\ mem' = mem
    BY <1>w DEF Wrote
<1>4. /\ DOMAIN tx'[t].wbuf = DOMAIN tx[t].wbuf \cup {o}
      /\ \A l \in DOMAIN tx'[t].wbuf : tx'[t].wbuf[l] = IF l = o THEN a.val ELSE tx[t].wbuf[l]
    BY <1>w DEF Wrote
<1> HIDE DEF victims
<1>5. ~Holder(t)
    BY DEF Holder
<1>6. MemInv'
    BY <1>0, <1>1, <1>2, <1>3, <1>5, MemSame
<1>7. ReadInv(t)'
    BY <1>0, <1>1, <1>3, WriteReads
<1>8. BufferInv(t)'
  <2> SUFFICES ASSUME NEW p \in Obj
               PROVE  IF p \in DOMAIN tx'[t].wbuf THEN LastOwnAll(t, p, tx[t].wbuf[p])'
                      ELSE OwnAll(t, p)' = {}
      BY DEF BufferInv
  <2>1. ASSUME NEW val, tx'[t].wbuf[p] = val,
               LastOwn(access'[t], Committed(t)', Len(access'[t]) + 1, p, val)
        PROVE  LastOwnAll(t, p, tx[t].wbuf[p])'
      BY <2>1 DEF LastOwnAll, LastOwn, Own
  <2>2. CASE p = o
    <3>1. Committed(t) <= Len(access[t])
        BY <1>1, InBlock
    <3>2. LastOwn(access'[t], Committed(t)', Len(access'[t]) + 1, o, a.val)
        BY <1>1, <1>3, <3>1, WriteOwn
    <3>3. o \in DOMAIN tx'[t].wbuf /\ tx'[t].wbuf[o] = a.val
        BY <1>4
    <3> QED BY <2>1, <2>2, <3>2, <3>3
  <2>3. CASE p # o
    <3>1. /\ OwnAll(t, p)' = OwnAll(t, p)
          /\ \A val : LastOwnAll(t, p, val) <=>
                 LastOwn(access'[t], Committed(t)', Len(access'[t]) + 1, p, val)
        BY <1>1, <1>3, <2>3, OwnAfter
    <3>2. CASE p \in DOMAIN tx[t].wbuf
      <4>1. tx'[t].wbuf[p] = tx[t].wbuf[p] /\ p \in DOMAIN tx'[t].wbuf
          BY <1>4, <2>3, <3>2
      <4>2. LastOwnAll(t, p, tx[t].wbuf[p])
          BY <1>0, <3>2 DEF BufferInv
      <4> QED BY <2>1, <3>1, <4>1, <4>2
    <3>3. CASE p \notin DOMAIN tx[t].wbuf
        BY <1>0, <1>4, <2>3, <3>1, <3>3 DEF BufferInv
    <3> QED BY <3>2, <3>3
  <2> QED BY <2>2, <2>3
<1>9. \A p \in Obj : mem'[p] = mem[p]
    BY <1>3
<1> QED BY <1>1, <1>2, <1>3, <1>6, <1>7, <1>8, <1>9, SerialKept

LEMMA LockedWriteSerial ==
    ASSUME Ordered, Serial, NEW t \in Thread, NEW o \in Obj, mem_write(t, o), ~tx[t].on
    PROVE  Serial'
<1>0. Base /\ LockInv /\ ReadInv(t) /\ MemInv
    BY DEF Ordered, Serial
<1>w. PICK a : Wrote(t, o, a)
    BY <1>0, WriteFacts
<1> DEFINE victims == Readers(o) \cup Writers(o)
<1>1. cpc[t] = "run" /\ commit_log' = commit_log /\ a \in Block /\ a.acc = "W" /\ a.objid = o
    BY <1>w DEF Wrote
<1>2. Elsewhere(t, victims)
    BY <1>w DEF Wrote
<1>3. /\ access'[t] = Append(access[t], a) /\ (tx'[t].on <=> tx[t].on)
      /\ (Holder(t)' <=> Holder(t)) /\ SamePast /\ tx'[t].rset = tx[t].rset
    BY <1>w DEF Wrote
<1>4. mem' = [mem EXCEPT ![o] = a.val]
    BY <1>w DEF Wrote
<1>5. mem'[o] = a.val /\ \A p \in Obj \ {o} : mem'[p] = mem[p]
    BY <1>0, <1>4 DEF Base, Types
<1>6. \A p \in Obj : mem'[p] = mem[p] \/ Readers(p) \subseteq victims \cup {t}
    BY <1>5
<1> HIDE DEF victims
<1>7. Holder(t) /\ Committed(t) <= Len(access[t])
    BY <1>0, <1>1, InBlock
<1>8. \A u \in Thread : (Holder(u) => u = t) /\ (Holder(u)' => u = t)
    BY <1>0, <1>2, <1>7, OneHolder, OtherHolder
<1>9. BufferInv(t)'
    BY <1>3 DEF BufferInv
<1>10. ReadInv(t)'
    BY <1>0, <1>1, <1>3, <1>7, WriteReads
<1>11. MemInv'
  <2> SUFFICES ASSUME NEW p \in Obj, NEW val, mem'[p] = val
               PROVE  /\ (\A u \in Thread : Holder(u)' => OwnAll(u, p)' = {}) =>
                             LatestNext(WritesOf(p)', val)
                      /\ \A u \in Thread : Holder(u)' /\ OwnAll(u, p)' # {} =>
                             LastOwn(access'[u], Committed(u)', Len(access'[u]) + 1, p, val)
      BY MemNext
  <2>1. CASE p = o
    <3>1. LastOwn(access'[t], Committed(t)', Len(access'[t]) + 1, o, a.val) /\ OwnAll(t, o)' # {}
        BY <1>0, <1>1, <1>3, <1>7, WriteOwn
    <3> QED BY <1>3, <1>5, <1>7, <1>8, <2>1, <3>1
  <2>2. CASE p # o
    <3>1. /\ OwnAll(t, p)' = OwnAll(t, p)
          /\ \A v : LastOwnAll(t, p, v) <=>
                 LastOwn(access'[t], Committed(t)', Len(access'[t]) + 1, p, v)
        BY <1>0, <1>1, <1>3, <2>2, OwnAfter
    <3>2. mem[p] = val
        BY <1>5, <2>2
    <3>3. CASE OwnAll(t, p) = {}
      <4>1. Latest(WritesOf(p), val)
          BY <1>0, <1>8, <3>2, <3>3 DEF MemInv
      <4>2. LatestNext(WritesOf(p)', val)
          BY <1>3, <4>1, LatestKept
      <4> QED BY <1>8, <3>1, <3>3, <4>2
    <3>4. CASE OwnAll(t, p) # {}
      <4>1. LastOwnAll(t, p, val)
          BY <1>0, <1>7, <3>2, <3>4 DEF MemInv
      <4> QED BY <1>3, <1>7, <1>8, <3>1, <3>4, <4>1
    <3> QED BY <3>3, <3>4
  <2> QED BY <2>1, <2>2
<1> QED BY <1>0, <1>1, <1>2, <1>3, <1>6, <1>9, <1>10, <1>11, SerialKept

-----------------------------------------------------------------------------
(* The commits.  Memory ends up with the block's last writes.              *)
Settled(t, victims) ==
    /\ \A u \in Thread \ {t} : commit_log'[u] = commit_log[u] /\ ~Holder(u)
    /\ \A o \in Obj :
          /\ \/ OwnAll(t, o) = {} /\ Latest(WritesOf(o), mem'[o])
             \/ LastOwnAll(t, o, mem'[o])
          /\ mem'[o] = mem[o] \/ Readers(o) \subseteq victims \cup {t}

LEMMA BlockSerial ==
    ASSUME Base, Serial, NEW t \in Thread, NEW victims, Elsewhere(t, victims),
           cpc'[t] = "out", tx'[t] = NoTx,
           NEW n, Commits(t, n), FreshReads(t), Settled(t, victims)
    PROVE  Serial'
<1>1. Types
    BY DEF Base
<1>2. CommitOrderSerial'
    BY <1>1, CommitSerial DEF Serial
<1>3. ~tx'[t].on /\ ~Holder(t)'
    BY NoTxFacts DEF Holder
<1>4. \A u \in Thread : ~Holder(u)'
    BY <1>3, OtherHolder DEF Settled
<1>5. ASSUME NEW o \in Obj, NEW val, mem'[o] = val PROVE LatestNext(WritesOf(o)', val)
  <2> DEFINE J == OwnAll(t, o)
  <2>1. J \in SUBSET Fresh(t)
      BY <1>1, CommittedNat, SMTT(60) DEF OwnAll, Own, Fresh
  <2>2. \/ J = {} /\ Latest(WritesOf(o), val)
        \/ \E j \in J : access[t][j].val = val /\ \A i \in J : i <= j
      BY <1>5 DEF Settled, OwnAll, LastOwnAll, LastOwn
  <2>3. WritesOf(o)' = WritesOf(o) \cup Mine(t, J)
      BY <1>1, CommitWrites
  <2> HIDE DEF J
  <2>4. LatestNext(WritesOf(o) \cup Mine(t, J), val)
      BY <2>1, <2>2, LatestAfter
  <2> QED BY <2>3, <2>4
<1>6. MemInv'
    BY <1>4, <1>5, MemNext
<1>7. ASSUME NEW u \in Thread, u # t PROVE BufferInv(u)' /\ ReadInv(u)'
  <2>1. BufferInv(u) /\ ReadInv(u) /\ commit_log'[u] = commit_log[u] /\ ~Holder(u)
      BY <1>7 DEF Serial, Settled
  <2>2. \A o \in Obj : mem'[o] = mem[o] \/ Readers(o) \subseteq victims \cup {t}
      BY DEF Settled
  <2> QED BY <1>7, <2>1, <2>2, OtherKept
<1>8. BufferInv(t)' /\ ReadInv(t)'
    BY <1>3, NoBlock
<1> QED BY <1>2, <1>6, <1>7, <1>8 DEF Serial

LEMMA XendSerial ==
    ASSUME Ordered, Serial, NEW t \in Thread, xend(t)
    PROVE  Serial'
<1>0. Base /\ LockInv /\ TimeInv /\ MemInv /\ BufferInv(t) /\ ReadInv(t)
    BY DEF Ordered, Serial
<1>1. cpc[t] = "commit" /\ Step(t, "out", NoTx, access[t], {})
    BY DEF xend
<1>e. cpc'[t] = "out" /\ tx'[t] = NoTx /\ access'[t] = access[t] /\ Elsewhere(t, {})
    BY <1>1, StepSelf, StepOther, SMTT(60)
<1>l. commit_log' = [commit_log EXCEPT ![t] = Append(@, g_time)] /\ nops' = nops
    BY DEF xend
<1>2. \A o \in Obj : mem'[o] = IF o \in DOMAIN tx[t].wbuf THEN tx[t].wbuf[o] ELSE mem[o]
    BY DEF xend
<1>3. tx[t].on /\ g_time \in Nat /\ LoggedBefore(g_time)
    BY <1>0, <1>1, Here DEF TxInv, TimeInv, Types
<1>4. \A u \in Thread : ~Holder(u)
    BY <1>0, <1>1, OneHolder
<1>5. Commits(t, g_time)
  <2>1. cpc[t] \in {"commit", "unlock"}
      BY <1>1
  <2>2. PICK n \in Nat : n = g_time
      BY <1>3
  <2>3. LoggedBefore(n) /\ commit_log' = [commit_log EXCEPT ![t] = Append(@, n)] /\ nops' = nops
      BY <1>l, <1>3, <2>2
  <2>4. Commits(t, n)
      BY <1>0, <1>e, <2>1, <2>3, BlockCommits
  <2> QED BY <2>2, <2>4
<1>6. \A o \in Obj : Latest(WritesOf(o), mem[o])
    BY <1>0, <1>4 DEF MemInv
<1>7. FreshReads(t)
  <2> SUFFICES ASSUME NEW k \in Fresh(t), NEW o, access[t][k].acc = "R", access[t][k].objid = o
               PROVE  \/ Own(access[t], Committed(t), k, o) = {} /\ Latest(WritesOf(o), access[t][k].val)
                      \/ LastOwn(access[t], Committed(t), k, o, access[t][k].val)
      BY DEF FreshReads
  <2>1. Good(t, k, o, access[t][k].val)
      BY <1>0, <1>3 DEF ReadInv, Fresh
  <2>2. o \in Obj
    <3>1. access[t] \in Seq(Block) /\ Committed(t) \in Nat
        BY <1>0, Here
    <3>2. access[t][k] \in Block
        BY <3>1, SMTT(60) DEF Fresh
    <3>3. access[t][k].objid \in Obj
        BY <3>2 DEF Block
    <3> QED BY <3>3
  <2> QED BY <1>3, <1>6, <2>1, <2>2 DEF Good
<1>8. ASSUME NEW o \in Obj
      PROVE  \/ OwnAll(t, o) = {} /\ Latest(WritesOf(o), mem'[o])
             \/ LastOwnAll(t, o, mem'[o])
  <2>1. CASE o \in DOMAIN tx[t].wbuf
      BY <1>0, <1>2, <1>3, <2>1 DEF BufferInv
  <2>2. CASE o \notin DOMAIN tx[t].wbuf
      BY <1>0, <1>2, <1>3, <1>6, <2>2 DEF BufferInv
  <2> QED BY <2>1, <2>2
<1>9. \A o \in Obj : mem'[o] = mem[o] \/ Readers(o) \subseteq {} \cup {t}
    BY <1>0, <1>2 DEF Base, Isolated, Readers
<1>10. \A u \in Thread \ {t} : commit_log'[u] = commit_log[u] /\ ~Holder(u)
    BY <1>0, <1>l, <1>4 DEF Base, Types
<1>11. Settled(t, {})
    BY <1>8, <1>9, <1>10 DEF Settled
<1> QED BY <1>0, <1>e, <1>5, <1>7, <1>11, BlockSerial

LEMMA UnlockSerial ==
    ASSUME Ordered, Serial, NEW t \in Thread, unlock(t)
    PROVE  Serial'
<1>0. Base /\ LockInv /\ TimeInv /\ MemInv /\ ReadInv(t)
    BY DEF Ordered, Serial
<1>1. /\ cpc[t] = "unlock" /\ Step(t, "out", NoTx, access[t], Readers(LockLoc))
      /\ commit_log' = [commit_log EXCEPT ![t] = Append(@, reg[t])] /\ nops' = nops /\ mem' = mem
    BY DEF unlock
<1>2. /\ cpc'[t] = "out" /\ tx'[t] = NoTx /\ access'[t] = access[t]
      /\ Elsewhere(t, Readers(LockLoc))
    BY <1>0, <1>1, Conflicting, StepSelf, StepOther
<1>3. Holder(t) /\ ~tx[t].on
    BY <1>0, <1>1, Here DEF TxInv, Holder
<1>4. reg[t] \in Nat /\ LoggedBefore(reg[t])
    BY <1>0, <1>1, Here DEF TimeInv, Types
<1>5. \A u \in Thread \ {t} : ~Holder(u)
    BY <1>0, <1>3, OneHolder
<1>6. Commits(t, reg[t])
    BY <1>0, <1>1, <1>2, <1>4, BlockCommits
<1>7. FreshReads(t)
    BY <1>0, <1>3 DEF FreshReads, ReadInv, Fresh, Good
<1>8. \A o \in Obj : \/ OwnAll(t, o) = {} /\ Latest(WritesOf(o), mem'[o])
                     \/ LastOwnAll(t, o, mem'[o])
  <2> SUFFICES ASSUME NEW o \in Obj
               PROVE  \/ OwnAll(t, o) = {} /\ Latest(WritesOf(o), mem[o])
                      \/ LastOwnAll(t, o, mem[o])
      BY <1>1
  <2>1. CASE OwnAll(t, o) = {}
    <3>1. \A u \in Thread : Holder(u) => OwnAll(u, o) = {}
        BY <1>5, <2>1
    <3> QED BY <1>0, <2>1, <3>1 DEF MemInv
  <2>2. CASE OwnAll(t, o) # {}
      BY <1>0, <1>3, <2>2 DEF MemInv
  <2> QED BY <2>1, <2>2
<1>9. \A o \in Obj : mem'[o] = mem[o]
    BY <1>1
<1>10. \A u \in Thread \ {t} : commit_log'[u] = commit_log[u] /\ ~Holder(u)
    BY <1>0, <1>1, <1>5 DEF Base, Types
<1>11. Settled(t, Readers(LockLoc))
    BY <1>8, <1>9, <1>10 DEF Settled
<1> QED BY <1>0, <1>2, <1>6, <1>7, <1>11, BlockSerial

-----------------------------------------------------------------------------
LEMMA SerialInit == CommitInit => Serial
<1> SUFFICES ASSUME CommitInit PROVE Serial
    OBVIOUS
<1>1. \A t \in Thread : access[t] = << >> /\ tx[t] = NoTx /\ cpc[t] = "out"
    BY DEF CommitInit
<1>2. \A t \in Thread : Done(t) = {}
  <2>1. ASSUME NEW t \in Thread, NEW i \in 1 .. Len(access[t]) PROVE FALSE
    <3>1. access[t] = << >>
        BY <1>1
    <3> QED BY <3>1, SMTT(60)
  <2> QED BY <2>1 DEF Done
<1>3. \A o : WritesOf(o) = {}
    BY <1>2, WritesFacts
<1>4. CommitOrderSerial
    BY <1>2 DEF CommitOrderSerial
<1>5. \A t \in Thread : ~tx[t].on /\ ~Holder(t)
    BY <1>1, NoTxFacts DEF Holder
<1>6. MemInv
  <2>1. \A o \in Obj : Latest(WritesOf(o), mem[o])
      BY <1>3 DEF Latest, CommitInit
  <2> QED BY <1>5, <2>1 DEF MemInv
<1>7. \A t \in Thread : BufferInv(t) /\ ReadInv(t)
    BY <1>5 DEF BufferInv, ReadInv
<1> QED BY <1>4, <1>6, <1>7 DEF Serial

LEMMA SerialStep ==
    ASSUME Ordered, Serial, NEW t \in Thread, CommitStep(t) \/ Abort(t)
    PROVE  Serial'
<1>0. Base
    BY DEF Ordered
<1>1. CASE xbegin(t)
    BY <1>0, <1>1, XbeginSerial
<1>2. CASE take_ticket(t)
    BY <1>0, <1>2, TakeTicketSerial
<1>3. CASE ticket_wait(t)
    BY <1>0, <1>3, TicketWaitSerial
<1>4. ASSUME NEW o \in Obj, mem_read(t, o) PROVE Serial'
    BY <1>4, MemReadSerial
<1>5. ASSUME NEW o \in Obj, mem_write(t, o) PROVE Serial'
    BY <1>0, <1>5, TxWriteSerial, LockedWriteSerial
<1>6. CASE check_lockable(t)
    BY <1>0, <1>6, CheckLockableSerial
<1>7. CASE tx_gettime(t)
    BY <1>0, <1>7, GettimeSerial
<1>8. CASE xend(t)
    BY <1>8, XendSerial
<1>9. CASE load_time(t) \/ store_time(t)
    BY <1>0, <1>9, TimeSerial
<1>10. CASE unlock(t)
    BY <1>10, UnlockSerial
<1>11. CASE Abort(t)
  <2>1. /\ tx[t].on /\ commit_log' = commit_log /\ mem' = mem
        /\ Step(t, "lock", NoTx, SubSeq(access[t], 1, Committed(t)), {})
      BY <1>11 DEF Abort
  <2> QED BY <1>0, <2>1, AbortSerial
<1> QED
    BY <1>1, <1>2, <1>3, <1>4, <1>5, <1>6, <1>7, <1>8, <1>9, <1>10, <1>11 DEF CommitStep

LEMMA SerialNextStep == Ordered /\ Serial /\ [CommitNext]_commitVars => Serial'
<1> SUFFICES ASSUME Ordered, Serial, [CommitNext]_commitVars PROVE Serial'
    OBVIOUS
<1>1. CASE CommitNext
    BY <1>1, SerialStep DEF CommitNext
<1>2. CASE UNCHANGED commitVars
  <2>1. mem' = mem /\ access' = access /\ commit_log' = commit_log /\ cpc' = cpc /\ tx' = tx
      BY <1>2 DEF commitVars
  <2>2. SamePast
      BY <2>1, SameTime, SMTT(60) DEF SamePast, Done
  <2>3. CommitOrderSerial'
      BY <2>2, SameSerial DEF Serial
  <2>4. \A u \in Thread : Committed(u)' = Committed(u) /\ (Holder(u)' <=> Holder(u))
      BY <2>1, SameTime DEF Holder
  <2>5. \A u \in Thread : BufferInv(u)' /\ ReadInv(u)' /\ OwnKept(u)
    <3> SUFFICES ASSUME NEW u \in Thread PROVE BufferInv(u)' /\ ReadInv(u)' /\ OwnKept(u)
        OBVIOUS
    <3>1. BufferInv(u) /\ ReadInv(u)
        BY DEF Serial
    <3>2. access'[u] = access[u] /\ tx'[u] = tx[u] /\ (Holder(u)' <=> Holder(u))
        BY <2>1, <2>4
    <3> QED BY <2>1, <2>2, <3>1, <3>2, SameBlock
  <2>6. MemInv'
    <3> SUFFICES ASSUME NEW o \in Obj, NEW val, mem'[o] = val
                 PROVE  /\ (\A u \in Thread : Holder(u)' => OwnAll(u, o)' = {}) =>
                              LatestNext(WritesOf(o)', val)
                        /\ \A u \in Thread : Holder(u)' /\ OwnAll(u, o)' # {} =>
                              LastOwn(access'[u], Committed(u)', Len(access'[u]) + 1, o, val)
        BY MemNext
    <3>1. /\ (\A u \in Thread : Holder(u) => OwnAll(u, o) = {}) => Latest(WritesOf(o), val)
          /\ \A u \in Thread : Holder(u) /\ OwnAll(u, o) # {} => LastOwnAll(u, o, val)
        BY <2>1 DEF Serial, MemInv
    <3>2. Latest(WritesOf(o), val) => LatestNext(WritesOf(o)', val)
        BY <2>2, LatestKept
    <3> QED BY <2>4, <2>5, <3>1, <3>2 DEF OwnKept
  <2> QED BY <2>3, <2>5, <2>6 DEF Serial
<1> QED BY <1>1, <1>2

-----------------------------------------------------------------------------
(* The invariants hold always                                              *)
LEMMA BaseInit == CommitInit => Base
<1> SUFFICES ASSUME CommitInit PROVE Base
    OBVIOUS
<1>1. Types
  <2>1. mem \in [Obj -> Val] /\ access \in [Thread -> Seq(Block)] /\ commit_log \in [Thread -> Seq(Nat)]
      BY SMTT(60) DEF CommitInit, Val
  <2>2. ticket \in 0 .. TicketMod - 1 /\ users \in 0 .. TicketMod - 1
    <3>1. Cardinality(Thread) \in Nat
        BY CommitAssumption, FS_CardinalityType
    <3> QED BY <3>1, CommitAssumption, SMTT(60) DEF CommitInit
  <2> QED BY <2>1, <2>2, NoTxFacts DEF CommitInit, Types, Spots
<1>2. Isolated
    BY NoTxFacts DEF CommitInit, Isolated
<1>3. ASSUME NEW t \in Thread PROVE TxInv(t)
    BY NoTxFacts DEF CommitInit, TxInv
<1>4. ASSUME NEW t \in Thread PROVE BlockInv(t)
  <2>1. Len(commit_log[t]) = 0 /\ Len(access[t]) = 0 /\ cpc[t] = "out" /\ nops[t] \in Nat
      BY <1>1, SMTT(60) DEF CommitInit, Types
  <2>2. Committed(t) = 0
      BY <2>1, Blocks, SMTT(60) DEF Committed
  <2> QED BY <2>1, <2>2, Blocks, SMTT(60) DEF BlockInv
<1> QED BY <1>1, <1>2, <1>3, <1>4 DEF Base

-----------------------------------------------------------------------------
(* The queue of the ticket lock never holds as many threads as there are   *)
(* tickets.                                                                *)
LEMMA QueueFinite ==
    /\ Queue \subseteq Thread /\ IsFiniteSet(Queue) /\ Cardinality(Queue) \in Nat
    /\ Cardinality(Queue) < TicketMod
<1>1. Queue \subseteq Thread
    BY DEF Queue
<1>2. IsFiniteSet(Queue) /\ Cardinality(Queue) <= Cardinality(Thread)
    BY <1>1, CommitAssumption, FS_Subset
<1>3. Cardinality(Queue) \in Nat /\ Cardinality(Thread) \in Nat
    BY <1>2, CommitAssumption, FS_CardinalityType
<1> QED BY <1>1, <1>2, <1>3, CommitAssumption, SMTT(60)

(* take_ticket: the thread is last                                         *)
LEMMA TakeTicketLock ==
    ASSUME Base, LockInv, NEW t \in Thread, take_ticket(t)
    PROVE  LockInv'
<1> DEFINE n == Cardinality(Queue)
<1>1. Step(t, "spin", NoTx, access[t], Readers(LockLoc)) /\ cpc[t] = "lock"
    BY DEF take_ticket
<1>2. Elsewhere(t, Readers(LockLoc))
    BY <1>1, StepOther, Conflicting
<1>3. cpc'[t] = "spin"
    BY <1>1, StepSelf
<1>4. t \notin Queue /\ t \in Queue'
    BY <1>1, <1>3 DEF Queue, Holder
<1>5. Queue' = Queue \cup {t}
    BY <1>2, <1>4, QueueOthers DEF Queue
<1>6. n \in Nat /\ Cardinality(Queue') = n + 1 /\ n + 1 < TicketMod
  <2>1. IsFiniteSet(Queue) /\ Cardinality(Queue \cup {t}) = n + 1 /\ n \in Nat
      BY <1>4, QueueFinite, FS_AddElement
  <2>2. Cardinality(Queue') < TicketMod
    <3>1. Queue' \in SUBSET Thread
        BY <1>5, QueueFinite
    <3>2. Cardinality(Queue') <= Cardinality(Thread) /\ IsFiniteSet(Queue')
        BY <3>1, CommitAssumption, FS_Subset
    <3>3. Cardinality(Queue') \in Nat /\ Cardinality(Thread) \in Nat
        BY <3>2, CommitAssumption, FS_CardinalityType
    <3> QED BY <3>2, <3>3, CommitAssumption, SMTT(60)
  <2> QED BY <1>5, <2>1, <2>2
<1>7. ticket' = ticket /\ users' = (IF users + 1 = TicketMod THEN 0 ELSE users + 1)
    BY NextTicket DEF take_ticket, Base, Types
<1>8. TicketMod \in Nat /\ ticket \in Nat /\ users \in Nat /\ ticket < TicketMod /\ users < TicketMod
    BY TicketFacts DEF Base
<1>9. Dist(ticket, users) = n
    BY DEF LockInv
<1> HIDE DEF n
<1>10. Dist(ticket, users)' = n + 1
    BY <1>6, <1>7, <1>8, <1>9, SMTT(60) DEF Dist
<1>11. reg'[t] = users /\ \A u \in Thread \ {t} : reg'[u] = reg[u]
    BY DEF take_ticket, Base, Types
<1>12. Place(t)' = n
    BY <1>3, <1>7, <1>9, <1>11 DEF Place, Dist
<1>13. ASSUME NEW u \in Queue PROVE Place(u)' = Place(u) /\ Place(u) < n /\ u # t
  <2>1. u # t /\ u \in Thread
      BY <1>4, QueueFinite
  <2>2. cpc'[u] = "spin" <=> cpc[u] = "spin"
      BY <1>2, <2>1, QueueOthers
  <2>3. Place(u)' = Place(u)
      BY <1>7, <1>11, <2>1, <2>2 DEF Place, Dist
  <2> QED BY <2>1, <2>3 DEF LockInv, n
<1>14. ASSUME NEW u \in Thread, cpc'[u] = "spin" PROVE reg'[u] < TicketMod
    BY <1>2, <1>8, <1>11, <1>14, QueueOthers DEF LockInv
<1>15. \A u \in Queue : Place(u) \in Int
    BY PlaceInt, QueueFinite DEF Base
<1>16. \A u \in Queue' : Place(u)' < Cardinality(Queue')
    BY <1>5, <1>6, <1>12, <1>13, <1>15, SMTT(60)
<1>17. \A u, v \in Queue' : Place(u)' = Place(v)' => u = v
  <2>1. \A u, v \in Queue : Place(u) = Place(v) => u = v
      BY DEF LockInv
  <2> QED BY <1>5, <1>6, <1>12, <1>13, <1>15, <2>1, SMTT(60)
<1> QED BY <1>6, <1>10, <1>14, <1>16, <1>17 DEF LockInv

(* unlock: everybody moves up                                              *)
LEMMA UnlockLock ==
    ASSUME Base, LockInv, NEW t \in Thread, unlock(t)
    PROVE  LockInv'
<1> DEFINE n == Cardinality(Queue)
<1>1. Step(t, "out", NoTx, access[t], Readers(LockLoc)) /\ cpc[t] = "unlock"
    BY DEF unlock
<1>2. Elsewhere(t, Readers(LockLoc))
    BY <1>1, StepOther, Conflicting
<1>3. cpc'[t] = "out"
    BY <1>1, StepSelf
<1>4. t \in Queue /\ t \notin Queue' /\ Place(t) = 0
  <2>1. ~tx[t].on
      BY <1>1, Here DEF TxInv
  <2> QED BY <1>1, <1>3, <2>1 DEF Queue, Holder, Place
<1>5. Queue' = Queue \ {t}
    BY <1>2, <1>4, QueueOthers DEF Queue
<1>6. n \in Nat /\ n < TicketMod /\ Cardinality(Queue') = n - 1
    BY <1>4, <1>5, QueueFinite, FS_RemoveElement
<1>7. users' = users /\ ticket' = (IF ticket + 1 = TicketMod THEN 0 ELSE ticket + 1)
    BY NextTicket DEF unlock, Base, Types
<1>8. TicketMod \in Nat /\ ticket \in Nat /\ users \in Nat /\ ticket < TicketMod /\ users < TicketMod
    BY TicketFacts DEF Base
<1>9. Dist(ticket, users) = n /\ 0 < n
    BY <1>4 DEF LockInv
<1> HIDE DEF n
<1>10. Dist(ticket, users)' = n - 1
    BY <1>6, <1>7, <1>8, <1>9, SMTT(60) DEF Dist
<1>11. \A u \in Thread \ {t} : reg'[u] = reg[u]
    BY DEF unlock, Base, Types
<1>12. ASSUME NEW u \in Queue, u # t
       PROVE  Place(u)' = Place(u) - 1 /\ Place(u) < n /\ Place(u) \in Int
  <2>1. u \in Thread
      BY QueueFinite
  <2>2. Place(u) # 0 /\ Place(u) < n
      BY <1>4, <1>12 DEF LockInv, n
  <2>3. cpc[u] = "spin" /\ cpc'[u] = "spin"
    <3>1. cpc'[u] = "spin" <=> cpc[u] = "spin"
        BY <1>2, <1>12, <2>1, QueueOthers
    <3> QED BY <2>2, <3>1 DEF Place
  <2>4. reg[u] \in Nat /\ reg[u] < TicketMod /\ reg'[u] = reg[u]
      BY <1>11, <1>12, <2>1, <2>3 DEF LockInv, Base, Types
  <2>5. Place(u) = Dist(ticket, reg[u]) /\ Place(u)' = Dist(ticket', reg[u])
      BY <2>3, <2>4 DEF Place, Dist
  <2> QED BY <1>7, <1>8, <2>2, <2>4, <2>5, SMTT(60) DEF Dist
<1>13. ASSUME NEW u \in Thread, cpc'[u] = "spin" PROVE reg'[u] < TicketMod
    BY <1>2, <1>3, <1>11, <1>13, QueueOthers DEF LockInv
<1>14. \A u \in Queue' : Place(u)' < Cardinality(Queue')
    BY <1>5, <1>6, <1>12, SMTT(60)
<1>15. \A u, v \in Queue' : Place(u)' = Place(v)' => u = v
  <2>1. \A u, v \in Queue : Place(u) = Place(v) => u = v
      BY DEF LockInv
  <2> QED BY <1>5, <1>12, <2>1, SMTT(60)
<1> QED BY <1>6, <1>10, <1>13, <1>14, <1>15 DEF LockInv

LEMMA LockNext ==
    ASSUME Base, LockInv, NEW t \in Thread, CommitStep(t) \/ Abort(t)
    PROVE  LockInv'
<1>1. CASE take_ticket(t)
    BY <1>1, TakeTicketLock
<1>2. CASE unlock(t)
    BY <1>2, UnlockLock
<1>3. CASE ~Queueing(t)
  <2>1. Moved(t) /\ NoTicket(t)
      BY <1>3, ActionMoves DEF Moved
  <2> QED BY <2>1, LockKept
<1> QED BY <1>1, <1>2, <1>3 DEF Queueing

LEMMA LockInit == CommitInit => LockInv
<1> SUFFICES ASSUME CommitInit PROVE LockInv
    OBVIOUS
<1>1. Queue = {} /\ \A t \in Thread : cpc[t] = "out"
    BY DEF CommitInit, Queue, Holder
<1>2. Cardinality(Queue) = 0
    BY <1>1, FS_EmptySet
<1>3. Dist(ticket, users) = 0
    BY SMTT(60) DEF CommitInit, Dist
<1> QED BY <1>1, <1>2, <1>3 DEF LockInv

LEMMA OrderedInit == CommitInit => Ordered
<1> SUFFICES ASSUME CommitInit PROVE Ordered
    OBVIOUS
<1>1. \A t \in Thread : Len(commit_log[t]) = 0 /\ cpc[t] = "out"
    BY DEF CommitInit
<1>2. TimeInv /\ TimesUnique
    BY <1>1, SMTT(60) DEF TimeInv, TimesUnique, LoggedBefore
<1> QED BY <1>2, BaseInit, LockInit DEF Ordered

LEMMA OrderedNext == Ordered /\ [CommitNext]_commitVars => Ordered'
<1> SUFFICES ASSUME Ordered, [CommitNext]_commitVars PROVE Ordered'
    OBVIOUS
<1>1. Base'
    BY BaseNext DEF Ordered
<1>2. ASSUME NEW t \in Thread, CommitStep(t) \/ Abort(t) PROVE Ordered'
    BY <1>1, <1>2, LockNext, OrderedStep DEF Ordered
<1>3. CASE UNCHANGED commitVars
  <2>1. LockInv'
      BY <1>3, SMTT(60) DEF Ordered, commitVars, lockVars, LockInv, Dist, Place, Queue, Holder
  <2>2. TimeInv' /\ TimesUnique'
      BY <1>3, SMTT(60) DEF Ordered, commitVars, lockVars, TimeInv, TimesUnique, LoggedBefore
  <2> QED BY <1>1, <2>1, <2>2 DEF Ordered
<1> QED BY <1>2, <1>3 DEF CommitNext

LEMMA CommitOrdered == CommitSpec => []Ordered
BY OrderedInit, OrderedNext, PTL DEF CommitSpec

(* Every variable of mem-record-rtmcommit.c keeps its type, a block's      *)
(* accesses stay within the program, and a transaction is only open where  *)
(* the code expects one.                                                   *)
THEOREM CommitTyping == CommitSpec => []CommitTypeOK
<1>1. Base => CommitTypeOK
  <2> SUFFICES ASSUME Base PROVE CommitTypeOK
      OBVIOUS
  <2>1. ASSUME NEW t \in Thread
        PROVE  /\ access[t] \in Seq(Block) /\ Len(access[t]) <= nops[t] /\ commit_log[t] \in Seq(Nat)
               /\ cpc[t] \in Spots /\ reg[t] \in Nat
               /\ tx[t].rset \subseteq Locs /\ DOMAIN tx[t].wbuf \subseteq Obj \cup {TimeLoc}
      BY TxFields, WbufFacts DEF Base, Types, BlockInv
  <2>2. ASSUME NEW t \in Thread
        PROVE  /\ cpc[t] \in {"time", "commit"} => tx[t].on
               /\ cpc[t] \in {"out", "lock", "spin", "store", "unlock"} => tx[t] = NoTx
      BY DEF Base, TxInv
  <2> QED BY <2>1, <2>2 DEF CommitTypeOK, Base, Types, Spots, Locs
<1> QED BY <1>1, CommitOrdered, PTL DEF Ordered

(* The fallback of bb_start is a critical section: however tickets wrap    *)
(* around, at most one thread is between spin_lock and spin_unlock.        *)
THEOREM FallbackExcludes == CommitSpec => []FallbackExclusive
<1>1. Ordered => FallbackExclusive
  <2> SUFFICES ASSUME Ordered PROVE FallbackExclusive
      OBVIOUS
  <2> DEFINE H == {t \in Thread : cpc[t] \in {"run", "end", "store", "unlock"} /\ ~tx[t].on}
  <2>1. CASE H = {}
      BY <2>1, FS_EmptySet, SMTT(60) DEF FallbackExclusive
  <2>2. CASE H # {}
    <3>1. PICK t \in Thread : Holder(t)
        BY <2>2 DEF Holder
    <3>2. H = {t}
        BY <3>1, OneHolder DEF Ordered, Holder
    <3> QED BY <3>2, FS_Singleton, SMTT(60) DEF FallbackExclusive
  <2> QED BY <2>1, <2>2
<1> QED BY <1>1, CommitOrdered, PTL

(* No two blocks log the same time, so that the order merge-commit gives   *)
(* them is total: gettime's load and store are not separated by another    *)
(* block's, inside a transaction or under the lock.                        *)
THEOREM CommitTimesUnique == CommitSpec => []TimesUnique
BY CommitOrdered, PTL DEF Ordered

(* Record RTM commit order: whatever the interleaving, the aborts and the  *)
(* fallbacks to the lock, a read of a committed block returned the value   *)
(* of the last write before it in the order of the times bb_end logged.    *)
THEOREM CommitsSerial == CommitSpec => []CommitOrderSerial
<1>1. CommitInit => Ordered /\ Serial
    BY OrderedInit, SerialInit
<1>2. Ordered /\ Serial /\ [CommitNext]_commitVars => (Ordered /\ Serial)'
    BY OrderedNext, SerialNextStep
<1>3. Ordered /\ Serial => CommitOrderSerial
    BY DEF Serial
<1> QED BY <1>1, <1>2, <1>3, PTL DEF CommitSpec

=============================================================================
