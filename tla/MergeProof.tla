----------------------------- MODULE MergeProof ------------------------------
(***************************************************************************)
(* Proofs about MemopMerge: from any closed logs of a recording, of any    *)
(* length and for any number of threads and objects, the merged log is the *)
(* logged reads by object and version, the index tells where those of an   *)
(* object are, and the output files have the size they were created with.  *)
(***************************************************************************)
EXTENDS MemopMerge, FiniteSetTheorems, TLAPS

VARIABLE access_log    \* the accesses of the recording the logs are from

(* A leaf that names no prover is for Zenon.                               *)
USE ZenonT(60)

RecordingStays == UNCHANGED <<wait_memop, access_log>>

-----------------------------------------------------------------------------
(* What replay needs of the merged log.  The entries of o are those behind *)
(* Segment(o).log, Segment(o).size of them: reads of o, by version, and    *)
(* for every read, unless its thread then wrote the version, one of its    *)
(* thread at the version and not before it.                                *)
Access(t, i) == access_log[t][i]
AccessesOf(t) == 1 .. Len(access_log[t])

Segment(o) ==
    IF memop_log = << >> \/ indexbuf[2 * o + 1] = -1
    THEN [log |-> 0, size |-> -1]
    ELSE [log |-> indexbuf[2 * o + 1], size |-> indexbuf[2 * o + 2]]

InSegment(o, m) == Segment(o).log < m /\ m <= Segment(o).log + Segment(o).size

ReaderEntry == [version : Nat, memop : Nat, tid : Thread]

SegmentFacts ==
    \A o \in Obj :
        /\ Segment(o).log \in Nat /\ Segment(o).size \in Nat \cup {-1}
        /\ \A m \in Nat : InSegment(o, m) =>
              LET e == memop_log[m]
              IN  /\ e \in ReaderEntry /\ e.memop + 1 \in AccessesOf(e.tid)
                  /\ e.version = Access(e.tid, e.memop + 1).version
                  /\ Access(e.tid, e.memop + 1).objid = o
        /\ \A m, n \in Nat : InSegment(o, m) /\ InSegment(o, n) /\ m < n =>
              memop_log[m].version <= memop_log[n].version

ReadsInSegments ==
    \A t \in Thread : \A i \in AccessesOf(t) :
        LET a == Access(t, i)
        IN  a.acc = "R" =>
              \/ \E j \in AccessesOf(t) :
                    i < j /\ Access(t, j).acc = "W" /\ Access(t, j).objid = a.objid
                          /\ Access(t, j).version = a.version
              \/ \E m \in Nat : /\ InSegment(a.objid, m)
                                /\ memop_log[m].tid = t /\ memop_log[m].version = a.version
                                /\ memop_log[m].memop >= i - 1

Merged == SegmentFacts /\ ReadsInSegments

(* The invariant of the log processing.  What it starts from: a closed     *)
(* log, whose entries are reads, on an object in the order of versions     *)
MemopLog(t) == wait_memop[t]

Closes(log) ==
    /\ Len(log) \in Nat \ {0} /\ log[Len(log)].objid = -1
    /\ \A k \in 1 .. Len(log) - 1 : log[k] \in WaitMemop
    /\ \A k, j \in 1 .. Len(log) - 1 :
          k < j /\ log[k].objid = log[j].objid => log[k].version < log[j].version

NamesReads(t, log) ==
    \A k \in 1 .. Len(log) - 1 :
        /\ log[k].memop + 1 \in AccessesOf(t)
        /\ Access(t, log[k].memop + 1).objid = log[k].objid
        /\ Access(t, log[k].memop + 1).version = log[k].version

ReadNamed(t, i, log) ==
    LET a == Access(t, i)
    IN  \/ \E j \in AccessesOf(t) :
              i < j /\ Access(t, j).acc = "W" /\ Access(t, j).objid = a.objid
                    /\ Access(t, j).version = a.version
        \/ \E k \in 1 .. Len(log) :
              log[k].objid = a.objid /\ log[k].version = a.version /\ log[k].memop >= i - 1

MemopLogFacts ==
    \A t \in Thread :
        /\ MemopLog(t) \in MemopLogs /\ Closes(MemopLog(t)) /\ NamesReads(t, MemopLog(t))
        /\ \A i \in AccessesOf(t) :
              Access(t, i) \in MemAcc /\ (Access(t, i).acc = "R" => ReadNamed(t, i, MemopLog(t)))

Within(e, s) == \E i \in 1 .. Len(s) : s[i] = e

(* reorder-memop has the first n entries, by object in the order read,     *)
Kept(log, n, o, s) ==
    /\ s \in Seq(WaitMemop)
    /\ \A i \in 1 .. Len(s) : s[i].objid = o /\ \E k \in 1 .. n : s[i] = log[k]
    /\ \A i, j \in 1 .. Len(s) : i < j => s[i].version < s[j].version

ReadIn(log, n, kept) ==
    /\ n \in 0 .. Len(log) - 1
    /\ kept \in [Obj -> Seq(WaitMemop)]
    /\ \A o \in Obj : Kept(log, n, o, kept[o])
    /\ \A k \in 1 .. n : Within(log[k], kept[log[k].objid])

(* and has written out those of the objects below it.                      *)
Precedes(a, b) == a.objid < b.objid \/ (a.objid = b.objid /\ a.version < b.version)

WrittenOut(log, it, s) ==
    /\ s \in Seq(WaitMemop)
    /\ \A i \in 1 .. Len(s) : s[i].objid < it /\ \E k \in 1 .. Len(log) - 1 : s[i] = log[k]
    /\ \A i, j \in 1 .. Len(s) : i < j => Precedes(s[i], s[j])
    /\ \A k \in 1 .. Len(log) - 1 : log[k].objid < it => Within(log[k], s)

Reordered ==
    \A t \in Thread :
        /\ ReadIn(MemopLog(t), wmlog[t], all[t])
        /\ WrittenOut(MemopLog(t), objit, sorted[t])
        /\ mpc # "load" => wmlog[t] = Len(MemopLog(t)) - 1

(* merge-memop holds in its queue the last entry it took of every thread   *)
(* that has more, and has written the ones before.                         *)
QueueEntry == [tid : Thread, wop : WaitMemop]
Queued(t) == \E q \in pq : q.tid = t
Consumed(t) == IF Queued(t) THEN 1 .. buf[t] - 1 ELSE 1 .. buf[t]
Merging(t, i) == [version |-> sorted[t][i].version, memop |-> sorted[t][i].memop, tid |-> t]

QueueFacts ==
    /\ pq \subseteq QueueEntry
    /\ \A t \in Thread : buf[t] \in 0 .. Len(sorted[t]) /\ (~Queued(t) => buf[t] = Len(sorted[t]))
    /\ \A q \in pq : buf[q.tid] > 0 /\ q.wop = sorted[q.tid][buf[q.tid]]

ObjOf(e) == Access(e.tid, e.memop + 1).objid

OutputFacts ==
    /\ memop_log \in Seq(ReaderEntry) /\ cnt = Len(memop_log)
    /\ \A m \in 1 .. cnt : \E t \in Thread : \E i \in Consumed(t) : memop_log[m] = Merging(t, i)
    /\ \A t \in Thread : \A i \in Consumed(t) : Within(Merging(t, i), memop_log)
    /\ \A m, n \in 1 .. cnt : m < n =>
          LET a == memop_log[m]
              b == memop_log[n]
          IN  a # b /\ (ObjOf(a) < ObjOf(b) \/ (ObjOf(a) = ObjOf(b) /\ a.version <= b.version))
    /\ \A m \in 1 .. cnt : \A q \in pq :
          LET a == memop_log[m]
          IN  ObjOf(a) < q.wop.objid \/ (ObjOf(a) = q.wop.objid /\ a.version <= q.wop.version)

(* The objects of the entries merged.  An index pair tells where those of  *)
(* o are, or that there are none.                                          *)
Objects == [m \in 1 .. cnt |-> ObjOf(memop_log[m])]
IndexInts == Nat \cup {-1}

PairIs(at, c, o, first, size) ==
    \/ first = -1 /\ size = 0 /\ \A m \in 1 .. c : at[m] # o
    \/ /\ first \in Nat /\ size \in Nat \ {0} /\ first + size <= c
       /\ \A m \in 1 .. c : at[m] = o <=> first < m /\ m <= first + size

PairsIn(at, c, ib, n) == \A o \in Obj : o < n => PairIs(at, c, o, ib[2 * o + 1], ib[2 * o + 2])

(* The index while object p has the last entries, from pc on               *)
IndexIs(at, c, ib, p, pc) ==
    /\ ib \in Seq(IndexInts) /\ p \in Obj \cup {-1} /\ pc \in Nat
    /\ p = -1 => ib = << >> /\ pc = 0 /\ c = 0
    /\ p # -1 => /\ Len(ib) = 2 * p + 1 /\ ib[2 * p + 1] = pc /\ pc < c
                 /\ \A m \in 1 .. c : IF pc < m THEN at[m] = p ELSE at[m] < p
                 /\ PairsIn(at, c, ib, p)

IndexFacts == IndexIs(Objects, cnt, indexbuf, prev_id, prev_cnt)

IndexDone ==
    /\ indexbuf \in Seq(IndexInts) /\ prev_id \in Obj \cup {-1} /\ prev_cnt \in Nat
    /\ prev_id # -1 => prev_cnt < cnt
    /\ IF cnt = 0 THEN indexbuf = << >>
       ELSE Len(indexbuf) = 2 * NObj /\ PairsIn(Objects, cnt, indexbuf, NObj)

NotMerging ==
    /\ buf = [t \in Thread |-> 0] /\ pq = {}
    /\ memop_log = << >> /\ indexbuf = << >>
    /\ prev_id = -1 /\ cnt = 0 /\ prev_cnt = 0

MergeInv ==
    /\ Reordered
    /\ all \in [Thread -> [Obj -> Seq(WaitMemop)]] /\ sorted \in [Thread -> Seq(WaitMemop)]
    /\ wmlog \in [Thread -> Nat] /\ buf \in [Thread -> Nat]
    /\ \/ mpc = "load" /\ objit = 0 /\ NotMerging
       \/ mpc = "write" /\ objit \in Obj /\ NotMerging
       \/ mpc = "enqueue" /\ objit = NObj /\ NotMerging
       \/ /\ mpc = "merge" /\ objit = NObj /\ QueueFacts /\ OutputFacts /\ IndexFacts
          /\ \E t \in Thread : sorted[t] # << >>
       \/ mpc = "done" /\ objit = NObj /\ pq = {} /\ QueueFacts /\ OutputFacts /\ IndexDone

-----------------------------------------------------------------------------
(* reorder-memop                                                           *)
LEMMA EntryNotEnd ==
    ASSUME NEW log, Closes(log), NEW n \in 0 .. Len(log) - 1
    PROVE  /\ log[n + 1].objid = -1 <=> n = Len(log) - 1
           /\ log[n + 1].objid # -1 => n + 1 \in 1 .. Len(log) - 1 /\ log[n + 1] \in WaitMemop
<1>1. PICK len \in Nat : len = Len(log) /\ len # 0
  BY DEF Closes
<1>2. n \in Nat /\ n <= len - 1
  BY <1>1, SMTT(60)
<1>3. CASE n = len - 1
  BY <1>1, <1>3, SMTT(60) DEF Closes
<1>4. CASE n # len - 1
  <2>1. n + 1 \in 1 .. Len(log) - 1
    BY <1>1, <1>2, <1>4, SMTT(60)
  <2>2. log[n + 1] \in WaitMemop
    BY <2>1 DEF Closes
  <2>3. log[n + 1].objid # -1
    BY <2>2, NObjAssumption, SMTT(60) DEF WaitMemop, Obj
  <2> QED BY <1>1, <1>4, <2>1, <2>2, <2>3
<1> QED BY <1>3, <1>4

LEMMA AppendIs ==
    ASSUME NEW S, NEW s \in Seq(S), NEW e \in S
    PROVE  /\ Append(s, e) \in Seq(S) /\ Len(s) \in Nat /\ Len(Append(s, e)) = Len(s) + 1
           /\ Append(s, e)[Len(s) + 1] = e /\ \A i \in 1 .. Len(s) : Append(s, e)[i] = s[i]
BY SMTT(60)

(* One entry read: it goes behind the older ones of its object.            *)
LEMMA KeepsEntry ==
    ASSUME NEW log, Closes(log), NEW n \in 0 .. Len(log) - 1, NEW kept, ReadIn(log, n, kept),
           n + 1 \in 1 .. Len(log) - 1, NEW e \in WaitMemop, e = log[n + 1],
           NEW new, new = [kept EXCEPT ![e.objid] = Append(@, e)]
    PROVE  ReadIn(log, n + 1, new)
<1>1. PICK len \in Nat : len = Len(log) /\ n \in Nat /\ n + 1 <= len - 1
  BY SMTT(60) DEF Closes
<1>2. PICK o \in Obj : o = e.objid
  BY DEF WaitMemop
<1>3. PICK s \in Seq(WaitMemop) : s = kept[o]
  BY <1>2 DEF ReadIn
<1>4. new[o] = Append(s, e) /\ \A p \in Obj \ {o} : new[p] = kept[p]
  BY <1>2, <1>3 DEF ReadIn
<1>5. new \in [Obj -> Seq(WaitMemop)]
  BY <1>2, <1>3, SMTT(60) DEF ReadIn
<1>6. PICK r \in Seq(WaitMemop) : r = Append(s, e)
  BY <1>3, AppendIs
<1>7. /\ Len(s) \in Nat /\ Len(r) = Len(s) + 1 /\ r[Len(s) + 1] = e
      /\ \A i \in 1 .. Len(s) : r[i] = s[i]
  BY <1>3, <1>6, SMTT(60)
<1>8. Kept(log, n, o, s)
  BY <1>3 DEF ReadIn
<1>9. ASSUME NEW i \in 1 .. Len(s) PROVE s[i].version < e.version
  <2>1. PICK k \in 1 .. n : s[i] = log[k]
    BY <1>8 DEF Kept
  <2>2. s[i].objid = o
    BY <1>8 DEF Kept
  <2>3. k \in 1 .. Len(log) - 1 /\ k < n + 1
    BY <1>1, SMTT(60)
  <2> QED BY <1>2, <2>1, <2>2, <2>3 DEF Closes
<1>10. Kept(log, n + 1, o, r)
  <2>1. ASSUME NEW i \in 1 .. Len(r) PROVE i \in 1 .. Len(s) \/ i = Len(s) + 1
    BY <1>7, SMTT(60)
  <2>2. ASSUME NEW i \in 1 .. Len(r) PROVE r[i].objid = o /\ \E k \in 1 .. n + 1 : r[i] = log[k]
    <3>1. CASE i \in 1 .. Len(s)
      <4>1. PICK k \in 1 .. n : s[i] = log[k]
        BY <1>8, <3>1 DEF Kept
      <4>2. k \in 1 .. n + 1
        BY <1>1, SMTT(60)
      <4> QED BY <1>7, <1>8, <3>1, <4>1, <4>2 DEF Kept
    <3>2. CASE i = Len(s) + 1
      <4>1. n + 1 \in 1 .. n + 1
        BY <1>1, SMTT(60)
      <4> QED BY <1>2, <1>7, <3>2, <4>1
    <3> QED BY <2>1, <3>1, <3>2
  <2>3. ASSUME NEW i \in 1 .. Len(r), NEW j \in 1 .. Len(r), i < j PROVE r[i].version < r[j].version
    <3>1. i \in 1 .. Len(s)
      BY <1>7, <2>3, SMTT(60)
    <3>2. CASE j \in 1 .. Len(s)
      BY <1>7, <1>8, <2>3, <3>1, <3>2 DEF Kept
    <3>3. CASE j = Len(s) + 1
      BY <1>7, <1>9, <3>1, <3>3
    <3> QED BY <2>1, <3>2, <3>3
  <2> QED BY <2>2, <2>3 DEF Kept
<1>11. ASSUME NEW p \in Obj \ {o} PROVE Kept(log, n + 1, p, kept[p])
  <2>1. Kept(log, n, p, kept[p])
    BY DEF ReadIn
  <2>2. 1 .. n \subseteq 1 .. n + 1
    BY <1>1, SMTT(60)
  <2> QED BY <2>1, <2>2 DEF Kept
<1>12. ASSUME NEW k \in 1 .. n + 1 PROVE Within(log[k], new[log[k].objid])
  <2>1. CASE k \in 1 .. n
    <3>1. Within(log[k], kept[log[k].objid])
      BY <2>1 DEF ReadIn
    <3>2. k \in 1 .. Len(log) - 1
      BY <1>1, SMTT(60)
    <3>3. log[k].objid \in Obj
      BY <3>2 DEF Closes, WaitMemop
    <3>4. CASE log[k].objid = o
      <4>1. PICK i \in 1 .. Len(s) : s[i] = log[k]
        BY <1>3, <3>1, <3>4 DEF Within
      <4>2. i \in 1 .. Len(r) /\ r[i] = log[k]
        BY <1>7, <4>1, SMTT(60)
      <4> QED BY <1>4, <1>6, <3>4, <4>2 DEF Within
    <3>5. CASE log[k].objid # o
      BY <1>4, <3>1, <3>3, <3>5
    <3> QED BY <3>4, <3>5
  <2>2. CASE k = n + 1
    <3>1. Len(s) + 1 \in 1 .. Len(r) /\ r[Len(s) + 1] = e
      BY <1>7, SMTT(60)
    <3> QED BY <1>2, <1>4, <1>6, <2>2, <3>1 DEF Within
  <2> QED BY <1>1, <2>1, <2>2, SMTT(60)
<1>13. n + 1 \in 0 .. Len(log) - 1
  BY <1>1, SMTT(60)
<1>14. \A p \in Obj : Kept(log, n + 1, p, new[p])
  BY <1>4, <1>6, <1>10, <1>11
<1> QED BY <1>5, <1>12, <1>13, <1>14 DEF ReadIn

LEMMA ConcatIs ==
    ASSUME NEW S, NEW s \in Seq(S), NEW r \in Seq(S)
    PROVE  /\ s \o r \in Seq(S) /\ Len(s) \in Nat /\ Len(r) \in Nat /\ Len(s \o r) = Len(s) + Len(r)
           /\ \A i \in 1 .. Len(s) : (s \o r)[i] = s[i]
           /\ \A i \in 1 .. Len(r) : (s \o r)[Len(s) + i] = r[i]
           /\ \A i \in 1 .. Len(s \o r) : i \in 1 .. Len(s) \/ (i - Len(s) \in 1 .. Len(r)
                                            /\ (s \o r)[i] = r[i - Len(s)])
BY SMTT(60)

(* An object written out: its entries come behind those of smaller ones.   *)
LEMMA WritesObject ==
    ASSUME NEW log, Closes(log), NEW kept, ReadIn(log, Len(log) - 1, kept), NEW it \in Obj,
           NEW s, WrittenOut(log, it, s), NEW r, r = kept[it], NEW c, c = s \o r
    PROVE  WrittenOut(log, it + 1, c)
<1>1. s \in Seq(WaitMemop) /\ r \in Seq(WaitMemop) /\ it \in Nat
  BY NObjAssumption, SMTT(60) DEF WrittenOut, ReadIn, Obj
<1>2. Kept(log, Len(log) - 1, it, r)
  BY DEF ReadIn
<1>3. /\ c \in Seq(WaitMemop) /\ Len(s) \in Nat /\ Len(r) \in Nat /\ Len(c) = Len(s) + Len(r)
      /\ \A i \in 1 .. Len(s) : c[i] = s[i]
      /\ \A i \in 1 .. Len(r) : c[Len(s) + i] = r[i]
      /\ \A i \in 1 .. Len(c) : i \in 1 .. Len(s) \/ (i - Len(s) \in 1 .. Len(r) /\ c[i] = r[i - Len(s)])
  BY <1>1, ConcatIs, SMTT(60)
<1>4. ASSUME NEW i \in 1 .. Len(s) PROVE s[i].objid \in Nat /\ s[i].objid < it /\ s[i].version \in Nat
  <2>1. s[i] \in WaitMemop
    BY <1>1, SMTT(60)
  <2>2. s[i].objid \in Nat /\ s[i].version \in Nat
    BY <2>1, NObjAssumption, SMTT(60) DEF WaitMemop, Obj
  <2> QED BY <2>2 DEF WrittenOut
<1>5. ASSUME NEW i \in 1 .. Len(c) PROVE c[i].objid < it + 1 /\ \E k \in 1 .. Len(log) - 1 : c[i] = log[k]
  <2>1. CASE i \in 1 .. Len(s)
    <3>1. c[i].objid < it + 1
      BY <1>1, <1>3, <1>4, <2>1, SMTT(60)
    <3> QED BY <1>3, <2>1, <3>1 DEF WrittenOut
  <2>2. CASE i - Len(s) \in 1 .. Len(r) /\ c[i] = r[i - Len(s)]
    <3>1. c[i].objid = it /\ \E k \in 1 .. Len(log) - 1 : c[i] = log[k]
      BY <1>2, <2>2 DEF Kept
    <3> QED BY <1>1, <3>1, SMTT(60)
  <2> QED BY <1>3, <2>1, <2>2
<1>6. ASSUME NEW i \in 1 .. Len(c), NEW j \in 1 .. Len(c), i < j PROVE Precedes(c[i], c[j])
  <2>1. CASE i \in 1 .. Len(s) /\ j \in 1 .. Len(s)
    BY <1>3, <1>6, <2>1 DEF WrittenOut
  <2>2. CASE i \in 1 .. Len(s) /\ j - Len(s) \in 1 .. Len(r) /\ c[j] = r[j - Len(s)]
    <3>1. c[j].objid = it
      BY <1>2, <2>2 DEF Kept
    <3>2. c[i].objid < it
      BY <1>3, <1>4, <2>2
    <3> QED BY <3>1, <3>2 DEF Precedes
  <2>3. CASE i - Len(s) \in 1 .. Len(r) /\ c[i] = r[i - Len(s)] /\ j - Len(s) \in 1 .. Len(r) /\ c[j] = r[j - Len(s)]
    <3>1. c[i].objid = it /\ c[j].objid = it
      BY <1>2, <2>3 DEF Kept
    <3>2. i - Len(s) < j - Len(s)
      BY <1>3, <1>6, SMTT(60)
    <3>3. c[i].version < c[j].version
      BY <1>2, <2>3, <3>2 DEF Kept
    <3> QED BY <3>1, <3>3 DEF Precedes
  <2>4. CASE i - Len(s) \in 1 .. Len(r) /\ j \in 1 .. Len(s)
    BY <1>3, <1>6, <2>4, SMTT(60)
  <2> QED BY <1>3, <2>1, <2>2, <2>3, <2>4
<1>7. ASSUME NEW k \in 1 .. Len(log) - 1, log[k].objid < it + 1 PROVE Within(log[k], c)
  <2>1. log[k].objid \in Nat
    BY NObjAssumption, SMTT(60) DEF Closes, WaitMemop, Obj
  <2>2. CASE log[k].objid < it
    <3>1. PICK i \in 1 .. Len(s) : s[i] = log[k]
      BY <2>2 DEF WrittenOut, Within
    <3>2. i \in 1 .. Len(c) /\ c[i] = log[k]
      BY <1>3, <3>1, SMTT(60)
    <3> QED BY <3>2 DEF Within
  <2>3. CASE log[k].objid = it
    <3>1. PICK i \in 1 .. Len(r) : r[i] = log[k]
      BY <2>3 DEF ReadIn, Within
    <3>2. Len(s) + i \in 1 .. Len(c) /\ c[Len(s) + i] = log[k]
      BY <1>3, <3>1, SMTT(60)
    <3> QED BY <3>2 DEF Within
  <2> QED BY <1>1, <1>7, <2>1, <2>2, <2>3, SMTT(60)
<1> QED BY <1>3, <1>5, <1>6, <1>7 DEF WrittenOut

EndedAt(t) == MemopLog(t)[wmlog[t] + 1].objid = -1
Pushed(kept, e) == IF e.memop = -1 THEN kept ELSE [kept EXCEPT ![e.objid] = Append(@, e)]

LEMMA StepLoad ==
    ASSUME load_wait_memop_log
    PROVE  /\ mpc = "load"
           /\ all' = [t \in Thread |-> IF EndedAt(t) THEN all[t]
                                       ELSE Pushed(all[t], MemopLog(t)[wmlog[t] + 1])]
           /\ wmlog' = [t \in Thread |-> IF EndedAt(t) THEN wmlog[t] ELSE wmlog[t] + 1]
           /\ mpc' = IF \A t \in Thread : EndedAt(t) THEN "write" ELSE "load"
           /\ UNCHANGED <<objit, sorted, buf, pq, memop_log, indexbuf, prev_id, cnt, prev_cnt>>
<1>1. \A t \in Thread : Ended(t) <=> EndedAt(t)
  BY DEF Ended, EndedAt, MemopLog
<1>2. \A kept, e : push_back(kept, e) = Pushed(kept, e)
  BY DEF push_back, Pushed, NoMemop
<1>3. \A t \in Thread : wait_memop[t] = MemopLog(t)
  BY DEF MemopLog
<1>4. /\ mpc = "load"
      /\ all' = [t \in Thread |-> IF Ended(t) THEN all[t]
                   ELSE push_back(all[t], wait_memop[t][wmlog[t] + 1])]
      /\ wmlog' = [t \in Thread |-> IF Ended(t) THEN wmlog[t] ELSE wmlog[t] + 1]
      /\ mpc' = IF \A t \in Thread : Ended(t) THEN "write" ELSE "load"
      /\ UNCHANGED <<objit, sorted, buf, pq, memop_log, indexbuf, prev_id, cnt, prev_cnt>>
  BY DEF load_wait_memop_log
<1>5. all' = [t \in Thread |-> IF EndedAt(t) THEN all[t] ELSE Pushed(all[t], MemopLog(t)[wmlog[t] + 1])]
  BY <1>1, <1>2, <1>3, <1>4
<1>6. wmlog' = [t \in Thread |-> IF EndedAt(t) THEN wmlog[t] ELSE wmlog[t] + 1]
  BY <1>1, <1>4
<1>7. mpc' = IF \A t \in Thread : EndedAt(t) THEN "write" ELSE "load"
  BY <1>1, <1>4
<1> QED BY <1>4, <1>5, <1>6, <1>7

(* What the steps leave alone                                              *)
LEMMA StaysIs ==
    ASSUME RecordingStays
    PROVE  /\ access_log' = access_log /\ \A t : MemopLog(t)' = MemopLog(t)
           /\ \A t, i : Access(t, i)' = Access(t, i) /\ AccessesOf(t)' = AccessesOf(t)
           /\ \A e : ObjOf(e)' = ObjOf(e)
BY DEF RecordingStays, MemopLog, Access, AccessesOf, ObjOf

LEMMA LoadKeeps ==
    ASSUME MemopLogFacts, MergeInv, RecordingStays, load_wait_memop_log
    PROVE  MergeInv'
<1>1. mpc = "load" /\ objit = 0 /\ NotMerging
  BY StepLoad DEF MergeInv
<1>2. objit' = 0 /\ NotMerging' /\ sorted' = sorted /\ buf' = buf
  BY <1>1, StepLoad DEF NotMerging
<1>3. ASSUME NEW t \in Thread
      PROVE  /\ ReadIn(MemopLog(t), wmlog'[t], all'[t])
             /\ wmlog'[t] \in Nat /\ all'[t] \in [Obj -> Seq(WaitMemop)]
             /\ EndedAt(t) => wmlog'[t] = Len(MemopLog(t)) - 1
  <2>1. PICK log : log = MemopLog(t) /\ Closes(log)
    BY DEF MemopLogFacts
  <2>2. PICK n : n = wmlog[t] /\ n \in 0 .. Len(log) - 1
    BY <2>1 DEF MergeInv, Reordered, ReadIn
  <2>3. ReadIn(log, n, all[t]) /\ all[t] \in [Obj -> Seq(WaitMemop)] /\ n \in Nat
    BY <2>1, <2>2 DEF MergeInv, Reordered
  <2>4. EndedAt(t) <=> log[n + 1].objid = -1
    BY <2>1, <2>2 DEF EndedAt
  <2>5. CASE EndedAt(t)
    <3>1. wmlog'[t] = n /\ all'[t] = all[t] /\ n = Len(log) - 1
      BY <2>1, <2>2, <2>4, <2>5, StepLoad, EntryNotEnd
    <3> QED BY <2>1, <2>3, <3>1
  <2>6. CASE ~EndedAt(t)
    <3>1. n + 1 \in 1 .. Len(log) - 1 /\ log[n + 1] \in WaitMemop
      BY <2>1, <2>2, <2>4, <2>6, EntryNotEnd
    <3>2. PICK e \in WaitMemop : e = log[n + 1]
      BY <3>1
    <3>3. e.memop # -1
      BY <3>2, SMTT(60) DEF WaitMemop
    <3>4. wmlog'[t] = n + 1 /\ all'[t] = Pushed(all[t], e)
      <4>1. wmlog'[t] = wmlog[t] + 1
        BY <2>6, StepLoad
      <4>2. all'[t] = Pushed(all[t], MemopLog(t)[wmlog[t] + 1])
        BY <2>6, StepLoad
      <4> QED BY <2>1, <2>2, <3>2, <4>1, <4>2
    <3>5. all'[t] = [all[t] EXCEPT ![e.objid] = Append(@, e)]
      BY <3>3, <3>4 DEF Pushed
    <3>6. ReadIn(log, n + 1, all'[t])
      <4>1. PICK kept : kept = all[t]
        OBVIOUS
      <4>2. PICK new : new = [kept EXCEPT ![e.objid] = Append(@, e)]
        OBVIOUS
      <4>3. ReadIn(log, n, kept) /\ n \in 0 .. Len(log) - 1 /\ Closes(log)
        BY <2>1, <2>2, <2>3, <4>1
      <4>4. ReadIn(log, n + 1, new)
        BY <3>1, <3>2, <4>2, <4>3, KeepsEntry
      <4> QED BY <3>5, <4>1, <4>2, <4>4
    <3>7. all'[t] \in [Obj -> Seq(WaitMemop)]
      BY <3>6 DEF ReadIn
    <3> QED BY <2>1, <2>3, <2>6, <3>4, <3>6, <3>7, SMTT(60)
  <2> QED BY <2>5, <2>6
<1>4. Reordered'
  <2> SUFFICES ASSUME NEW t \in Thread
               PROVE  /\ ReadIn(MemopLog(t), wmlog'[t], all'[t])
                      /\ WrittenOut(MemopLog(t), objit, sorted[t])
                      /\ mpc' # "load" => wmlog'[t] = Len(MemopLog(t)) - 1
    BY <1>1, <1>2, StaysIs DEF Reordered
  <2>1. mpc' # "load" => EndedAt(t)
    BY StepLoad
  <2> QED BY <1>3, <2>1 DEF MergeInv, Reordered
<1>5. all' \in [Thread -> [Obj -> Seq(WaitMemop)]] /\ wmlog' \in [Thread -> Nat]
  <2>1. all' = [t \in Thread |-> all'[t]] /\ wmlog' = [t \in Thread |-> wmlog'[t]]
    BY StepLoad
  <2> QED BY <1>3, <2>1
<1>6. mpc' \in {"load", "write"} /\ 0 \in Obj
  BY StepLoad, NObjAssumption, SMTT(60) DEF Obj
<1>7. sorted' \in [Thread -> Seq(WaitMemop)] /\ buf' \in [Thread -> Nat]
  BY <1>2 DEF MergeInv
<1> QED BY <1>2, <1>4, <1>5, <1>6, <1>7 DEF MergeInv

LEMMA StepWriteOut ==
    ASSUME write_out_memop_log
    PROVE  /\ mpc = "write"
           /\ sorted' = [t \in Thread |-> sorted[t] \o all[t][objit]]
           /\ objit' = objit + 1
           /\ mpc' = IF objit + 1 = NObj THEN "enqueue" ELSE "write"
           /\ UNCHANGED <<wmlog, all, buf, pq, memop_log, indexbuf, prev_id, cnt, prev_cnt>>
BY DEF write_out_memop_log

LEMMA WriteOutKeeps ==
    ASSUME MemopLogFacts, MergeInv, RecordingStays, write_out_memop_log
    PROVE  MergeInv'
<1>1. mpc = "write" /\ objit \in Obj /\ NotMerging
  BY StepWriteOut DEF MergeInv
<1>2. NotMerging' /\ wmlog' = wmlog /\ all' = all /\ buf' = buf
  BY <1>1, StepWriteOut DEF NotMerging
<1>3. ASSUME NEW t \in Thread
      PROVE  /\ ReadIn(MemopLog(t), wmlog[t], all[t]) /\ WrittenOut(MemopLog(t), objit + 1, sorted'[t])
             /\ wmlog[t] = Len(MemopLog(t)) - 1
  <2>1. PICK log : log = MemopLog(t) /\ Closes(log)
    BY DEF MemopLogFacts
  <2>2. ReadIn(log, wmlog[t], all[t]) /\ WrittenOut(log, objit, sorted[t]) /\ wmlog[t] = Len(log) - 1
    BY <1>1, <2>1 DEF MergeInv, Reordered
  <2>3. PICK kept, s, r, c : kept = all[t] /\ s = sorted[t] /\ r = kept[objit] /\ c = s \o r
    OBVIOUS
  <2>4. PICK it \in Obj : it = objit
    BY <1>1
  <2>5. ReadIn(log, Len(log) - 1, kept) /\ WrittenOut(log, it, s)
    BY <2>2, <2>3, <2>4
  <2>6. WrittenOut(log, it + 1, c)
    BY <2>1, <2>3, <2>4, <2>5, WritesObject
  <2>7. sorted'[t] = sorted[t] \o all[t][objit]
    BY StepWriteOut
  <2>8. sorted'[t] = c
    BY <2>3, <2>7
  <2> QED BY <2>1, <2>2, <2>4, <2>6, <2>8
<1>4. Reordered'
  <2> SUFFICES ASSUME NEW t \in Thread
               PROVE  /\ ReadIn(MemopLog(t), wmlog[t], all[t])
                      /\ WrittenOut(MemopLog(t), objit + 1, sorted'[t])
                      /\ wmlog[t] = Len(MemopLog(t)) - 1
    BY <1>2, StepWriteOut, StaysIs DEF Reordered
  <2> QED BY <1>3
<1>5. sorted' \in [Thread -> Seq(WaitMemop)]
  <2>1. sorted' = [t \in Thread |-> sorted'[t]]
    BY StepWriteOut
  <2>2. \A t \in Thread : sorted'[t] \in Seq(WaitMemop)
    BY <1>3 DEF WrittenOut
  <2> QED BY <2>1, <2>2
<1>6. \/ mpc' = "write" /\ objit' \in Obj
      \/ mpc' = "enqueue" /\ objit' = NObj
  BY <1>1, StepWriteOut, NObjAssumption, SMTT(60) DEF Obj
<1>7. /\ all' \in [Thread -> [Obj -> Seq(WaitMemop)]] /\ wmlog' \in [Thread -> Nat]
      /\ buf' \in [Thread -> Nat]
  BY <1>2 DEF MergeInv
<1> QED BY <1>2, <1>4, <1>5, <1>6, <1>7 DEF MergeInv

-----------------------------------------------------------------------------
(* merge-memop                                                             *)
NextIn(t) ==
    IF buf[t] < Len(sorted[t]) THEN {[tid |-> t, wop |-> sorted[t][buf[t] + 1]]} ELSE {}
TakenOf(t) == IF buf[t] < Len(sorted[t]) THEN buf[t] + 1 ELSE buf[t]

LEMMA StepEnqueue ==
    ASSUME enqueue_first
    PROVE  /\ mpc = "enqueue"
           /\ pq' = UNION {NextIn(t) : t \in Thread}
           /\ buf' = [t \in Thread |-> TakenOf(t)]
           /\ mpc' = IF \A t \in Thread : sorted[t] = << >> THEN "done" ELSE "merge"
           /\ UNCHANGED <<wmlog, all, objit, sorted, memop_log, indexbuf, prev_id, cnt, prev_cnt>>
BY DEF enqueue_first, NextOf, BufAfter, reorderVars, NextIn, TakenOf

(* The facts reorder-memop leaves: no more than its output is used.        *)
SortedFacts ==
    /\ sorted \in [Thread -> Seq(WaitMemop)]
    /\ \A t \in Thread :
          /\ Len(sorted[t]) \in Nat
          /\ \A i \in 1 .. Len(sorted[t]) : sorted[t][i] \in WaitMemop
          /\ \A i, j \in 1 .. Len(sorted[t]) : i < j => Precedes(sorted[t][i], sorted[t][j])

LEMMA SortedHolds ==
    ASSUME MergeInv
    PROVE  SortedFacts
<1>1. ASSUME NEW t \in Thread PROVE WrittenOut(MemopLog(t), objit, sorted[t])
  BY DEF MergeInv, Reordered
<1>2. ASSUME NEW t \in Thread, NEW s, s = sorted[t]
      PROVE  Len(s) \in Nat /\ \A i \in 1 .. Len(s) : s[i] \in WaitMemop
  <2>1. s \in Seq(WaitMemop)
    BY <1>1, <1>2 DEF WrittenOut
  <2> QED BY ONLY <2>1, SMTT(60)
<1>3. ASSUME NEW t \in Thread
      PROVE  \A i, j \in 1 .. Len(sorted[t]) : i < j => Precedes(sorted[t][i], sorted[t][j])
  BY <1>1 DEF WrittenOut
<1>4. sorted \in [Thread -> Seq(WaitMemop)]
  BY DEF MergeInv
<1> QED BY <1>2, <1>3, <1>4 DEF SortedFacts

ReorderStays == UNCHANGED <<wmlog, all, objit, sorted>>

LEMMA ReorderedStays ==
    ASSUME MergeInv, RecordingStays, ReorderStays, mpc \notin {"load", "write"}, mpc' # "load"
    PROVE  /\ Reordered' /\ objit' = NObj
           /\ all' \in [Thread -> [Obj -> Seq(WaitMemop)]] /\ sorted' \in [Thread -> Seq(WaitMemop)]
           /\ wmlog' \in [Thread -> Nat]
<1>1. /\ all' \in [Thread -> [Obj -> Seq(WaitMemop)]] /\ sorted' \in [Thread -> Seq(WaitMemop)]
      /\ wmlog' \in [Thread -> Nat]
  BY DEF MergeInv, ReorderStays
<1>2. objit' = NObj
  BY DEF MergeInv, ReorderStays
<1>3. mpc # "load"
  OBVIOUS
<1>4. Reordered'
  BY <1>3, StaysIs DEF MergeInv, Reordered, ReorderStays
<1> QED BY <1>1, <1>2, <1>4

LEMMA EnqueueKeeps ==
    ASSUME MemopLogFacts, MergeInv, RecordingStays, enqueue_first
    PROVE  MergeInv'
<1>1. mpc = "enqueue" /\ objit = NObj /\ NotMerging
  BY StepEnqueue DEF MergeInv
<1>2. ReorderStays /\ mpc' \in {"merge", "done"}
  BY StepEnqueue DEF ReorderStays
<1>3. /\ Reordered' /\ objit' = NObj
      /\ all' \in [Thread -> [Obj -> Seq(WaitMemop)]] /\ sorted' \in [Thread -> Seq(WaitMemop)]
      /\ wmlog' \in [Thread -> Nat]
  BY <1>1, <1>2, ReorderedStays
<1>4. SortedFacts /\ sorted' = sorted
  BY <1>2, SortedHolds DEF ReorderStays
<1>5. /\ memop_log' = << >> /\ indexbuf' = << >> /\ prev_id' = -1 /\ cnt' = 0 /\ prev_cnt' = 0
      /\ \A t \in Thread : buf[t] = 0
  BY <1>1, StepEnqueue DEF NotMerging
<1>6. ASSUME NEW t \in Thread
      PROVE  /\ buf'[t] = IF Len(sorted[t]) = 0 THEN 0 ELSE 1
             /\ NextIn(t) = IF Len(sorted[t]) = 0 THEN {} ELSE {[tid |-> t, wop |-> sorted[t][1]]}
             /\ Len(sorted[t]) \in Nat /\ (Len(sorted[t]) # 0 => sorted[t][1] \in WaitMemop)
  <2>1. PICK len \in Nat : len = Len(sorted[t])
    BY <1>4 DEF SortedFacts
  <2>2. buf'[t] = TakenOf(t)
    BY StepEnqueue
  <2>3. buf[t] < Len(sorted[t]) <=> len # 0
    BY <1>5, <2>1, SMTT(60)
  <2>4. len # 0 => 1 \in 1 .. Len(sorted[t])
    BY <2>1, SMTT(60)
  <2>5. buf[t] + 1 = 1 /\ buf[t] = 0
    BY <1>5, SMTT(60)
  <2> QED BY <1>4, <2>1, <2>2, <2>3, <2>4, <2>5 DEF TakenOf, NextIn, SortedFacts
<1>7. \A q \in pq' : \E t \in Thread : Len(sorted[t]) # 0 /\ q = [tid |-> t, wop |-> sorted[t][1]]
  BY <1>6, StepEnqueue, SMTT(60)
<1>8. \A t \in Thread : Len(sorted[t]) # 0 => [tid |-> t, wop |-> sorted[t][1]] \in pq'
  BY <1>6, StepEnqueue
<1>9. \A t \in Thread : Queued(t)' <=> Len(sorted[t]) # 0
  <2> SUFFICES ASSUME NEW t \in Thread PROVE (\E q \in pq' : q.tid = t) <=> Len(sorted[t]) # 0
    BY DEF Queued
  <2>1. ASSUME NEW q \in pq', q.tid = t PROVE Len(sorted[t]) # 0
    <3>1. PICK u \in Thread : Len(sorted[u]) # 0 /\ q = [tid |-> u, wop |-> sorted[u][1]]
      BY <1>7
    <3> QED BY <2>1, <3>1
  <2>2. ASSUME Len(sorted[t]) # 0 PROVE \E q \in pq' : q.tid = t
    <3>1. PICK q : q = [tid |-> t, wop |-> sorted[t][1]]
      OBVIOUS
    <3>2. q \in pq' /\ q.tid = t
      BY <1>8, <2>2, <3>1
    <3> QED BY <3>2
  <2> QED BY <2>1, <2>2
<1>10. QueueFacts'
  <2>1. pq' \subseteq QueueEntry
    <3> SUFFICES ASSUME NEW q \in pq' PROVE q \in QueueEntry
      OBVIOUS
    <3>1. PICK t \in Thread : Len(sorted[t]) # 0 /\ q = [tid |-> t, wop |-> sorted[t][1]]
      BY <1>7
    <3>2. sorted[t][1] \in WaitMemop
      BY <1>6, <3>1
    <3> QED BY <3>1, <3>2 DEF QueueEntry
  <2>2. ASSUME NEW t \in Thread
        PROVE  buf'[t] \in 0 .. Len(sorted[t]) /\ (~Queued(t)' => buf'[t] = Len(sorted[t]))
    <3>1. PICK len \in Nat : len = Len(sorted[t])
      BY <1>6
    <3>2. buf'[t] = (IF len = 0 THEN 0 ELSE 1) /\ (Queued(t)' <=> len # 0)
      BY <1>6, <1>9, <3>1
    <3> QED BY ONLY <3>1, <3>2, SMTT(60)
  <2>3. ASSUME NEW q \in pq' PROVE buf'[q.tid] > 0 /\ q.wop = sorted[q.tid][buf'[q.tid]]
    <3>1. PICK t \in Thread : Len(sorted[t]) # 0 /\ q = [tid |-> t, wop |-> sorted[t][1]]
      BY <1>7
    <3>2. q.tid = t /\ q.wop = sorted[t][1] /\ buf'[t] = 1
      BY <1>6, <3>1
    <3> QED BY <3>2, SMTT(60)
  <2> QED BY <1>4, <2>1, <2>2, <2>3 DEF QueueFacts
<1>11. \A t \in Thread : \A i : ~(i \in Consumed(t)')
  <2> SUFFICES ASSUME NEW t \in Thread, NEW i \in Consumed(t)' PROVE FALSE
    OBVIOUS
  <2>1. CASE Len(sorted[t]) = 0
    BY <1>6, <1>9, <2>1, SMTT(60) DEF Consumed
  <2>2. CASE Len(sorted[t]) # 0
    BY <1>6, <1>9, <2>2, SMTT(60) DEF Consumed
  <2> QED BY <2>1, <2>2
<1>12. OutputFacts'
  <2>1. << >> \in Seq(ReaderEntry) /\ Len(<< >>) = 0 /\ \A m : ~(m \in 1 .. 0)
    BY SMTT(60)
  <2> QED BY <1>5, <1>11, <2>1 DEF OutputFacts
<1>13. << >> \in Seq(IndexInts) /\ 0 \in Nat /\ -1 \in Obj \cup {-1}
  BY SMTT(60)
<1>14. IndexFacts' /\ IndexDone'
  BY <1>5, <1>13 DEF IndexFacts, IndexDone, IndexIs
<1>15. buf' \in [Thread -> Nat]
  <2>1. buf' = [t \in Thread |-> buf'[t]]
    BY StepEnqueue
  <2>2. \A t \in Thread : buf'[t] \in Nat
    BY <1>6, SMTT(60)
  <2> QED BY <2>1, <2>2
<1>16. CASE mpc' = "merge"
  <2>1. \E t \in Thread : sorted'[t] # << >>
    BY <1>4, <1>16, StepEnqueue
  <2> QED BY <1>3, <1>10, <1>12, <1>14, <1>15, <1>16, <2>1 DEF MergeInv
<1>17. CASE mpc' = "done"
  <2>1. \A t \in Thread : sorted[t] = << >>
    BY <1>17, StepEnqueue
  <2>2. \A t \in Thread : Len(sorted[t]) = 0
    <3>1. Len(<< >>) = 0
      OBVIOUS
    <3> QED BY <2>1, <3>1
  <2>3. pq' = {}
    BY <1>7, <2>2
  <2> QED BY <1>3, <1>10, <1>12, <1>14, <1>15, <1>17, <2>3 DEF MergeInv
<1> QED BY <1>2, <1>16, <1>17

Joined(s, r, c) ==
    /\ c \in Seq(IndexInts) /\ Len(s) \in Nat /\ Len(r) \in Nat /\ Len(c) = Len(s) + Len(r)
    /\ \A i \in 1 .. Len(s) : c[i] = s[i]
    /\ \A i \in 1 .. Len(r) : c[Len(s) + i] = r[i]

LEMMA JoinIs ==
    ASSUME NEW s \in Seq(IndexInts), NEW r \in Seq(IndexInts)
    PROVE  Joined(s, r, s \o r)
BY ConcatIs, SMTT(60) DEF Joined

EmptyFor(n, e) ==
    /\ e \in Seq(IndexInts) /\ Len(e) = 2 * n
    /\ \A x \in Nat : x < n => e[2 * x + 1] = -1 /\ e[2 * x + 2] = 0

ClosedWith(c, n, f) ==
    /\ f \in Seq(IndexInts) /\ Len(f) = 2 * n + 1 /\ f[1] = c
    /\ \A x \in Nat : x < n => f[2 * x + 2] = -1 /\ f[2 * x + 3] = 0

FilledWith(ib, p, c, n, r) ==
    /\ r \in Seq(IndexInts) /\ Len(r) = 2 * (p + 1 + n)
    /\ \A i \in 1 .. 2 * p + 1 : r[i] = ib[i]
    /\ r[2 * p + 2] = c
    /\ \A x \in Nat : p < x /\ x < p + 1 + n => r[2 * x + 1] = -1 /\ r[2 * x + 2] = 0

OpenedWith(ib, p, c, o, d, r) ==
    /\ r \in Seq(IndexInts) /\ Len(r) = 2 * o + 1 /\ r[2 * o + 1] = d
    /\ \A i \in 1 .. 2 * p + 1 : r[i] = ib[i]
    /\ r[2 * p + 2] = c
    /\ \A x \in Nat : p < x /\ x < o => r[2 * x + 1] = -1 /\ r[2 * x + 2] = 0

LEMMA EmptyIs ==
    ASSUME NEW n \in Nat
    PROVE  EmptyFor(n, EmptyIndex(n))
<1>0. PICK e : e = EmptyIndex(n)
  OBVIOUS
<1>1. e = [i \in 1 .. 2 * n |-> IF i % 2 = 1 THEN -1 ELSE 0]
  BY <1>0 DEF EmptyIndex
<1>2. 2 * n \in Nat
  BY SMTT(60)
<1>3. e \in [1 .. 2 * n -> IndexInts]
  BY <1>1 DEF IndexInts
<1>4. e \in Seq(IndexInts) /\ Len(e) = 2 * n
  BY <1>2, <1>3, SMTT(60)
<1>5. ASSUME NEW x \in Nat, x < n PROVE e[2 * x + 1] = -1 /\ e[2 * x + 2] = 0
  <2>1. /\ 2 * x + 1 \in 1 .. 2 * n /\ 2 * x + 2 \in 1 .. 2 * n
        /\ (2 * x + 1) % 2 = 1 /\ (2 * x + 2) % 2 = 0
    BY <1>5, SMTT(60)
  <2>2. \A i \in 1 .. 2 * n : e[i] = IF i % 2 = 1 THEN -1 ELSE 0
    BY <1>1
  <2>3. e[2 * x + 1] = -1
    BY <2>1, <2>2
  <2>4. e[2 * x + 2] = 0
    BY <2>1, <2>2, SMTT(60)
  <2> QED BY <2>3, <2>4
<1>6. EmptyFor(n, e)
  BY <1>4, <1>5 DEF EmptyFor
<1> QED BY <1>0, <1>6

(* A pair closed, and pairs for the n objects without entries after it     *)
LEMMA ClosedIs ==
    ASSUME NEW c \in Nat, NEW n \in Nat
    PROVE  ClosedWith(c, n, <<c>> \o EmptyIndex(n))
<1>1. PICK e : e = EmptyIndex(n)
  OBVIOUS
<1>2. PICK s : s = <<c>>
  OBVIOUS
<1>0. PICK f : f = <<c>> \o EmptyIndex(n)
  OBVIOUS
<1>3. s \in Seq(IndexInts) /\ Len(s) = 1 /\ s[1] = c
  BY <1>2, SMTT(60) DEF IndexInts
<1>4. /\ e \in Seq(IndexInts) /\ Len(e) = 2 * n
      /\ \A x \in Nat : x < n => e[2 * x + 1] = -1 /\ e[2 * x + 2] = 0
  <2>1. EmptyFor(n, e)
    BY <1>1, EmptyIs
  <2> QED BY <2>1 DEF EmptyFor
<1>5. Joined(s, e, f)
  <2>1. f = s \o e
    BY <1>0, <1>1, <1>2
  <2>2. Joined(s, e, s \o e)
    BY <1>3, <1>4, JoinIs
  <2> QED BY <2>1, <2>2
<1>6. /\ f \in Seq(IndexInts) /\ Len(f) = Len(s) + Len(e)
      /\ \A i \in 1 .. Len(s) : f[i] = s[i]
      /\ \A i \in 1 .. Len(e) : f[Len(s) + i] = e[i]
  BY <1>5 DEF Joined
<1>7. ASSUME NEW x \in Nat, x < n PROVE f[2 * x + 2] = -1 /\ f[2 * x + 3] = 0
  <2>1. /\ 2 * x + 1 \in 1 .. Len(e) /\ 2 * x + 2 \in 1 .. Len(e)
        /\ Len(s) + (2 * x + 1) = 2 * x + 2 /\ Len(s) + (2 * x + 2) = 2 * x + 3
    BY <1>3, <1>4, <1>7, SMTT(60)
  <2>2. f[Len(s) + (2 * x + 1)] = e[2 * x + 1] /\ f[Len(s) + (2 * x + 2)] = e[2 * x + 2]
    BY <1>6, <2>1
  <2> QED BY <1>4, <1>7, <2>1, <2>2
<1>8. Len(f) = 2 * n + 1 /\ f[1] = c
  BY <1>3, <1>4, <1>6, SMTT(60)
<1>9. ClosedWith(c, n, f)
  BY <1>6, <1>7, <1>8 DEF ClosedWith
<1> QED BY <1>0, <1>9

(* behind an index that ends with the first entry of object p              *)
LEMMA FilledIs ==
    ASSUME NEW ib \in Seq(IndexInts), NEW p \in Nat, Len(ib) = 2 * p + 1,
           NEW c \in Nat, NEW n \in Nat, NEW f, ClosedWith(c, n, f), NEW r, Joined(ib, f, r)
    PROVE  FilledWith(ib, p, c, n, r)
<1>1. /\ f \in Seq(IndexInts) /\ Len(f) = 2 * n + 1 /\ f[1] = c
      /\ \A x \in Nat : x < n => f[2 * x + 2] = -1 /\ f[2 * x + 3] = 0
  BY DEF ClosedWith
<1>2. /\ r \in Seq(IndexInts) /\ Len(r) = Len(ib) + Len(f)
      /\ \A i \in 1 .. Len(ib) : r[i] = ib[i]
      /\ \A i \in 1 .. Len(f) : r[Len(ib) + i] = f[i]
  BY DEF Joined
<1>3. r[2 * p + 2] = c
  <2>1. 1 \in 1 .. Len(f) /\ Len(ib) + 1 = 2 * p + 2
    BY <1>1, SMTT(60)
  <2> QED BY <1>1, <1>2, <2>1
<1>4. ASSUME NEW x \in Nat, p < x, x < p + 1 + n PROVE r[2 * x + 1] = -1 /\ r[2 * x + 2] = 0
  <2>1. PICK y \in Nat : y = x - p - 1 /\ y < n
    BY <1>4, SMTT(60)
  <2>2. /\ 2 * y + 2 \in 1 .. Len(f) /\ 2 * y + 3 \in 1 .. Len(f)
        /\ Len(ib) + (2 * y + 2) = 2 * x + 1 /\ Len(ib) + (2 * y + 3) = 2 * x + 2
    BY <1>1, <2>1, SMTT(60)
  <2>3. r[Len(ib) + (2 * y + 2)] = f[2 * y + 2] /\ r[Len(ib) + (2 * y + 3)] = f[2 * y + 3]
    BY <1>2, <2>2
  <2> QED BY <1>1, <2>1, <2>2, <2>3
<1>5. Len(r) = 2 * (p + 1 + n)
  <2>1. Len(r) = (2 * p + 1) + (2 * n + 1)
    BY <1>1, <1>2
  <2> QED BY <2>1, SMTT(60)
<1> QED BY <1>2, <1>3, <1>4, <1>5 DEF FilledWith

(* and then the first entry of object o.                                   *)
LEMMA OpenedIs ==
    ASSUME NEW ib \in Seq(IndexInts), NEW p \in Nat, Len(ib) = 2 * p + 1, NEW o \in Nat, p < o,
           NEW c \in Nat, NEW d \in Nat, NEW f, ClosedWith(c, o - (p + 1), f),
           NEW e \in Seq(IndexInts), Len(e) = 1, e[1] = d,
           NEW g, Joined(f, e, g), NEW r, Joined(ib, g, r)
    PROVE  OpenedWith(ib, p, c, o, d, r)
<1>1. PICK n \in Nat : n = o - (p + 1)
  BY SMTT(60)
<1>2. PICK s : s = ib \o f
  OBVIOUS
<1>3. /\ f \in Seq(IndexInts) /\ Len(f) = 2 * n + 1
  BY <1>1 DEF ClosedWith
<1>4. /\ s \in Seq(IndexInts) /\ Len(s) = 2 * (p + 1 + n)
      /\ \A i \in 1 .. 2 * p + 1 : s[i] = ib[i]
      /\ s[2 * p + 2] = c
      /\ \A x \in Nat : p < x /\ x < p + 1 + n => s[2 * x + 1] = -1 /\ s[2 * x + 2] = 0
  <2>1. Joined(ib, f, s)
    BY <1>2, <1>3, JoinIs
  <2>2. FilledWith(ib, p, c, n, s)
    BY <1>1, <2>1, FilledIs
  <2> QED BY <2>2 DEF FilledWith
<1>6. /\ g \in Seq(IndexInts) /\ Len(g) = Len(f) + 1
      /\ \A i \in 1 .. Len(f) : g[i] = f[i]
      /\ g[Len(f) + 1] = d
  <2>1. /\ g \in Seq(IndexInts) /\ Len(g) = Len(f) + Len(e)
        /\ \A i \in 1 .. Len(f) : g[i] = f[i]
        /\ \A i \in 1 .. Len(e) : g[Len(f) + i] = e[i]
    BY DEF Joined
  <2> QED BY <2>1, SMTT(60)
<1>7. /\ r \in Seq(IndexInts) /\ Len(r) = Len(ib) + Len(g)
      /\ \A i \in 1 .. Len(ib) : r[i] = ib[i]
      /\ \A i \in 1 .. Len(g) : r[Len(ib) + i] = g[i]
  BY DEF Joined
<1>8. /\ \A i \in 1 .. Len(ib) : s[i] = ib[i]
      /\ \A i \in 1 .. Len(f) : s[Len(ib) + i] = f[i]
  <2>1. Joined(ib, f, s)
    BY <1>2, <1>3, JoinIs
  <2> QED BY <2>1 DEF Joined
<1>9. p + 1 + n = o /\ Len(s) = 2 * o /\ Len(r) = 2 * o + 1
  <2>1. Len(r) = (2 * p + 1) + ((2 * n + 1) + 1)
    BY <1>3, <1>6, <1>7
  <2>2. p + 1 + n = o
    BY <1>1, SMTT(60)
  <2>3. Len(s) = 2 * o
    BY <1>4, <2>2
  <2> QED BY ONLY n \in Nat, o \in Nat, p \in Nat, <2>1, <2>2, <2>3, SMTT(60)
<1>10. ASSUME NEW i \in 1 .. 2 * o PROVE r[i] = s[i]
  <2>1. CASE i \in 1 .. Len(ib)
    BY <1>7, <1>8, <2>1
  <2>2. CASE ~(i \in 1 .. Len(ib))
    <3>1. PICK j \in 1 .. Len(f) : i = Len(ib) + j
      <4>1. i - Len(ib) \in 1 .. Len(f)
        BY <1>1, <1>3, <1>9, <2>2, SMTT(60)
      <4> QED BY <4>1, SMTT(60)
    <3>2. j \in 1 .. Len(g) /\ g[j] = f[j]
      BY <1>3, <1>6, SMTT(60)
    <3> QED BY <1>7, <1>8, <3>1, <3>2
  <2> QED BY <2>1, <2>2
<1>11. r[2 * o + 1] = d
  <2>1. PICK lf : lf = Len(f)
    OBVIOUS
  <2>2. Len(g) = lf + 1 /\ lf = 2 * n + 1
    BY <1>3, <1>6, <2>1
  <2>3. lf + 1 \in 1 .. lf + 1 /\ (2 * p + 1) + (lf + 1) = 2 * o + 1
    BY ONLY n \in Nat, o \in Nat, p \in Nat, <1>9, <2>2, SMTT(60)
  <2>4. r[Len(ib) + (lf + 1)] = g[lf + 1]
    BY <1>7, <2>2, <2>3
  <2> QED BY <1>6, <2>1, <2>3, <2>4
<1>12. r[2 * p + 2] = c
  <2>1. 2 * p + 2 \in 1 .. 2 * o
    BY SMTT(60)
  <2> QED BY <1>4, <1>10, <2>1
<1>13. ASSUME NEW x \in Nat, p < x, x < o PROVE r[2 * x + 1] = -1 /\ r[2 * x + 2] = 0
  <2>1. s[2 * x + 1] = -1 /\ s[2 * x + 2] = 0
    BY <1>4, <1>9, <1>13
  <2>2. 2 * x + 1 \in 1 .. 2 * o /\ 2 * x + 2 \in 1 .. 2 * o
    BY <1>13, SMTT(60)
  <2> QED BY <1>10, <2>1, <2>2
<1> QED BY <1>7, <1>9, <1>11, <1>12, <1>13 DEF OpenedWith

-----------------------------------------------------------------------------
(* The top of the queue is merged.                                         *)
NotAfter(a, b) == a.objid < b.objid \/ (a.objid = b.objid /\ a.version <= b.version)

IndexStep(o) ==
    IF prev_id # o
    THEN indexbuf' = indexbuf \o IndexFor(o) /\ prev_cnt' = cnt /\ prev_id' = o
    ELSE indexbuf' = indexbuf /\ prev_cnt' = prev_cnt /\ prev_id' = prev_id

TopStep(q) ==
    /\ \A r \in pq : NotAfter(q.wop, r.wop)
    /\ IndexStep(q.wop.objid)
    /\ memop_log' = Append(memop_log, [version |-> q.wop.version, memop |-> q.wop.memop, tid |-> q.tid])
    /\ pq' = (pq \ {q}) \cup NextIn(q.tid)
    /\ buf' = [buf EXCEPT ![q.tid] = TakenOf(q.tid)]

LEMMA StepMergeTop ==
    ASSUME merge_top, pq \subseteq QueueEntry
    PROVE  /\ mpc = "merge" /\ mpc' = mpc /\ ReorderStays /\ cnt' = cnt + 1
           /\ \E q \in pq : TopStep(q)
<1>1. mpc = "merge" /\ mpc' = mpc /\ ReorderStays /\ cnt' = cnt + 1
  BY DEF merge_top, reorderVars, ReorderStays
<1>2. PICK q \in pq :
        /\ \A r \in pq : ~Greater(q, r)
        /\ IF prev_id # q.wop.objid
           THEN /\ indexbuf' = indexbuf \o IndexFor(q.wop.objid)
                /\ prev_cnt' = cnt
                /\ prev_id' = q.wop.objid
           ELSE UNCHANGED <<indexbuf, prev_cnt, prev_id>>
        /\ memop_log' = Append(memop_log,
               [version |-> q.wop.version, memop |-> q.wop.memop, tid |-> q.tid])
        /\ pq' = (pq \ {q}) \cup NextOf(q.tid)
        /\ buf' = [buf EXCEPT ![q.tid] = BufAfter(q.tid)]
  BY DEF merge_top
<1>3. ASSUME NEW r \in pq PROVE NotAfter(q.wop, r.wop)
  <2>1. /\ q.wop.objid \in Nat /\ q.wop.version \in Nat
        /\ r.wop.objid \in Nat /\ r.wop.version \in Nat
    BY NObjAssumption, SMTT(60) DEF QueueEntry, WaitMemop, Obj
  <2>2. ~Greater(q, r)
    BY <1>2
  <2> QED BY <2>1, <2>2, SMTT(60) DEF Greater, NotAfter
<1>4. IndexStep(q.wop.objid)
  BY <1>2 DEF IndexStep
<1>5. NextOf(q.tid) = NextIn(q.tid) /\ BufAfter(q.tid) = TakenOf(q.tid)
  BY DEF NextOf, NextIn, BufAfter, TakenOf
<1>6. TopStep(q)
  BY <1>2, <1>3, <1>4, <1>5 DEF TopStep
<1> QED BY <1>1, <1>6

TakenUp(q) ==
    LET t == q.tid
        b == buf[q.tid]
    IN  /\ t \in Thread /\ b \in 1 .. Len(sorted[t]) /\ q.wop = sorted[t][b]
        /\ Consumed(t) = 1 .. b - 1 /\ Consumed(t)' = 1 .. b
        /\ \A u \in Thread \ {t} : Consumed(u)' = Consumed(u)
        /\ \A r \in pq' : r \in pq \/ (b < Len(sorted[t]) /\ r.wop = sorted[t][b + 1])

LEMMA TopQueue ==
    ASSUME SortedFacts, QueueFacts, ReorderStays, buf \in [Thread -> Nat], NEW q \in pq, TopStep(q)
    PROVE  QueueFacts' /\ buf' \in [Thread -> Nat] /\ TakenUp(q)
<1>1. PICK t : t = q.tid /\ t \in Thread
  BY DEF QueueFacts, QueueEntry
<1>2. PICK len \in Nat : len = Len(sorted[t])
  BY <1>1 DEF SortedFacts
<1>3. PICK b \in Nat : b = buf[t] /\ b > 0 /\ b <= len /\ q.wop = sorted[t][b]
  <2>1. buf[t] \in 0 .. Len(sorted[t]) /\ buf[t] > 0 /\ q.wop = sorted[t][buf[t]] /\ buf[t] \in Nat
    BY <1>1 DEF QueueFacts
  <2> QED BY <1>2, <2>1, SMTT(60)
<1>4. sorted' = sorted /\ q \in QueueEntry
  BY DEF ReorderStays, QueueFacts
<1>5. /\ buf' = [buf EXCEPT ![t] = IF b < len THEN b + 1 ELSE b]
      /\ pq' = (pq \ {q}) \cup (IF b < len THEN {[tid |-> t, wop |-> sorted[t][b + 1]]} ELSE {})
  BY <1>1, <1>2, <1>3 DEF TopStep, TakenOf, NextIn
<1>6. /\ buf' \in [Thread -> Nat] /\ buf'[t] = (IF b < len THEN b + 1 ELSE b)
      /\ \A u \in Thread \ {t} : buf'[u] = buf[u]
  BY <1>1, <1>5, SMTT(60)
<1>7. ASSUME NEW r \in pq, r.tid = t PROVE r = q
  <2>1. r \in QueueEntry /\ r.wop = sorted[t][buf[t]]
    BY <1>7 DEF QueueFacts
  <2>2. r.wop = q.wop /\ r.tid = q.tid
    BY <1>1, <1>3, <1>7, <2>1
  <2> QED BY <1>4, <2>1, <2>2, SMTT(60) DEF QueueEntry
<1>8. ASSUME NEW r \in pq'
      PROVE  \/ r \in pq /\ r # q /\ r.tid # t
             \/ b < len /\ r = [tid |-> t, wop |-> sorted[t][b + 1]]
  <2>1. CASE r \in pq \ {q}
    BY <1>7, <2>1
  <2>2. CASE ~(r \in pq \ {q})
    <3>1. r \in IF b < len THEN {[tid |-> t, wop |-> sorted[t][b + 1]]} ELSE {}
      BY <1>5, <2>2
    <3> QED BY <3>1
  <2> QED BY <2>1, <2>2
<1>9. ASSUME NEW u \in Thread \ {t} PROVE Queued(u)' <=> Queued(u)
  <2>1. ASSUME NEW r \in pq', r.tid = u PROVE r \in pq
    BY <1>8, <2>1, SMTT(60)
  <2>2. ASSUME NEW r \in pq, r.tid = u PROVE r \in pq'
    <3>1. r # q
      BY <1>1, <2>2
    <3> QED BY <1>5, <3>1
  <2> QED BY <2>1, <2>2 DEF Queued
<1>10. Queued(t) /\ (Queued(t)' <=> b < len)
  <2>1. ASSUME b < len PROVE \E r \in pq' : r.tid = t
    <3>1. PICK r : r = [tid |-> t, wop |-> sorted[t][b + 1]]
      OBVIOUS
    <3>2. r \in pq' /\ r.tid = t
      BY <1>5, <2>1, <3>1
    <3> QED BY <3>2
  <2>2. ASSUME NEW r \in pq', r.tid = t PROVE b < len
    BY <1>8, <2>2
  <2> QED BY <1>1, <2>1, <2>2 DEF Queued
<1>11. /\ Consumed(t) = 1 .. b - 1 /\ Consumed(t)' = 1 .. b
       /\ \A u \in Thread \ {t} : Consumed(u)' = Consumed(u)
  <2>1. Consumed(t) = 1 .. b - 1
    BY <1>3, <1>10 DEF Consumed
  <2>2. Consumed(t)' = IF b < len THEN 1 .. (b + 1) - 1 ELSE 1 .. b
    BY <1>6, <1>10 DEF Consumed
  <2>3. (b + 1) - 1 = b
    BY SMTT(60)
  <2>4. \A u \in Thread \ {t} : Consumed(u)' = Consumed(u)
    BY <1>6, <1>9 DEF Consumed
  <2> QED BY <2>1, <2>2, <2>3, <2>4
<1>12. TakenUp(q)
  <2>1. \A r \in pq' : r \in pq \/ (b < len /\ r.wop = sorted[t][b + 1])
    BY <1>8, SMTT(60)
  <2>2. b \in 1 .. len
    BY <1>3, SMTT(60)
  <2> QED BY <1>1, <1>2, <1>3, <1>11, <2>1, <2>2 DEF TakenUp
<1>13. QueueFacts'
  <2>1. ASSUME b < len PROVE sorted[t][b + 1] \in WaitMemop
    <3>1. b + 1 \in 1 .. len
      BY <2>1, SMTT(60)
    <3> QED BY <1>1, <1>2, <3>1 DEF SortedFacts
  <2>2. pq' \subseteq QueueEntry
    <3> SUFFICES ASSUME NEW r \in pq' PROVE r \in QueueEntry
      OBVIOUS
    <3>1. CASE r \in pq
      BY <3>1 DEF QueueFacts
    <3>2. CASE b < len /\ r = [tid |-> t, wop |-> sorted[t][b + 1]]
      BY <1>1, <2>1, <3>2 DEF QueueEntry
    <3> QED BY <1>8, <3>1, <3>2
  <2>3. ASSUME NEW u \in Thread
        PROVE  buf'[u] \in 0 .. Len(sorted[u]) /\ (~Queued(u)' => buf'[u] = Len(sorted[u]))
    <3>1. CASE u = t
      <4>1. Len(sorted[u]) = len /\ buf'[u] = (IF b < len THEN b + 1 ELSE b) /\ (Queued(u)' <=> b < len)
        BY <1>2, <1>6, <1>10, <3>1
      <4> QED BY ONLY <1>3, <4>1, b \in Nat, len \in Nat, SMTT(60)
    <3>2. CASE u # t
      BY <1>6, <1>9, <3>2 DEF QueueFacts
    <3> QED BY <3>1, <3>2
  <2>4. ASSUME NEW r \in pq' PROVE buf'[r.tid] > 0 /\ r.wop = sorted[r.tid][buf'[r.tid]]
    <3>1. CASE r \in pq /\ r # q /\ r.tid # t
      <4>1. r.tid \in Thread \ {t}
        BY <3>1 DEF QueueFacts, QueueEntry
      <4>2. buf'[r.tid] = buf[r.tid]
        BY <1>6, <4>1
      <4>3. buf[r.tid] > 0 /\ r.wop = sorted[r.tid][buf[r.tid]]
        BY <3>1 DEF QueueFacts
      <4> QED BY <4>2, <4>3
    <3>2. CASE b < len /\ r = [tid |-> t, wop |-> sorted[t][b + 1]]
      <4>1. r.tid = t /\ r.wop = sorted[t][b + 1] /\ buf'[t] = b + 1 /\ b + 1 > 0
        BY <1>6, <3>2, SMTT(60)
      <4> QED BY <4>1
    <3> QED BY <1>8, <3>1, <3>2
  <2> QED BY <1>4, <2>2, <2>3, <2>4 DEF QueueFacts
<1> QED BY <1>6, <1>12, <1>13

(* An entry names the object it was logged for.                            *)
LEMMA MergingNames ==
    ASSUME MemopLogFacts, MergeInv, NEW t \in Thread, NEW i \in 1 .. Len(sorted[t])
    PROVE  /\ ObjOf(Merging(t, i)) = sorted[t][i].objid
           /\ Merging(t, i) \in ReaderEntry /\ sorted[t][i] \in WaitMemop
<1>1. WrittenOut(MemopLog(t), objit, sorted[t]) /\ NamesReads(t, MemopLog(t))
  BY DEF MergeInv, Reordered, MemopLogFacts
<1>2. PICK k \in 1 .. Len(MemopLog(t)) - 1 : sorted[t][i] = MemopLog(t)[k]
  BY <1>1 DEF WrittenOut
<1>3. PICK w : w = sorted[t][i] /\ w \in WaitMemop
  BY SortedHolds DEF SortedFacts
<1>4. Access(t, w.memop + 1).objid = w.objid
  BY <1>1, <1>2, <1>3 DEF NamesReads
<1>5. PICK e : e = Merging(t, i) /\ e = [version |-> w.version, memop |-> w.memop, tid |-> t]
  BY <1>3 DEF Merging
<1>6. e.tid = t /\ e.memop = w.memop /\ e \in ReaderEntry
  BY <1>3, <1>5, SMTT(60) DEF ReaderEntry, WaitMemop
<1>7. ObjOf(e) = w.objid
  BY <1>4, <1>6 DEF ObjOf
<1> QED BY <1>3, <1>5, <1>6, <1>7

LEMMA OneAppended ==
    ASSUME NEW S, NEW log \in Seq(S), NEW e \in S, NEW c, c = Len(log), NEW new, new = Append(log, e)
    PROVE  /\ c \in Nat /\ new \in Seq(S) /\ Len(new) = c + 1 /\ new[c + 1] = e
           /\ \A m \in 1 .. c : new[m] = log[m]
           /\ \A m \in 1 .. c + 1 : m \in 1 .. c \/ m = c + 1
BY AppendIs, SMTT(60)

EntryBefore(a, b) == ObjOf(a) < ObjOf(b) \/ (ObjOf(a) = ObjOf(b) /\ a.version <= b.version)

LEMMA OutputIs ==
    ASSUME OutputFacts
    PROVE  /\ \A m \in 1 .. cnt : \E t \in Thread : \E i \in Consumed(t) : memop_log[m] = Merging(t, i)
           /\ \A m, n \in 1 .. cnt : m < n => /\ memop_log[m] # memop_log[n]
                                             /\ EntryBefore(memop_log[m], memop_log[n])
           /\ \A m \in 1 .. cnt : \A q \in pq :
                 \/ ObjOf(memop_log[m]) < q.wop.objid
                 \/ ObjOf(memop_log[m]) = q.wop.objid /\ memop_log[m].version <= q.wop.version
<1>1. \A m \in 1 .. cnt : \E t \in Thread : \E i \in Consumed(t) : memop_log[m] = Merging(t, i)
  BY DEF OutputFacts
<1>2. \A m, n \in 1 .. cnt : m < n => /\ memop_log[m] # memop_log[n]
                                    /\ EntryBefore(memop_log[m], memop_log[n])
  BY DEF OutputFacts, EntryBefore
<1>3. \A m \in 1 .. cnt : \A q \in pq :
         \/ ObjOf(memop_log[m]) < q.wop.objid
         \/ ObjOf(memop_log[m]) = q.wop.objid /\ memop_log[m].version <= q.wop.version
  BY DEF OutputFacts
<1> QED BY <1>1, <1>2, <1>3

(* It goes behind all that is merged, and before all that is queued.       *)
OutputGrown(e) ==
    /\ cnt \in Nat /\ cnt' = cnt + 1 /\ memop_log'[cnt + 1] = e
    /\ \A m \in 1 .. cnt : memop_log'[m] = memop_log[m]
    /\ \A m \in 1 .. cnt + 1 : m \in 1 .. cnt \/ m = cnt + 1
    /\ \A m \in 1 .. cnt : memop_log[m] \in ReaderEntry

LEMMA TopGrows ==
    ASSUME MemopLogFacts, MergeInv, OutputFacts, NEW q \in pq, TopStep(q), TakenUp(q), cnt' = cnt + 1
    PROVE  /\ OutputGrown(Merging(q.tid, buf[q.tid])) /\ memop_log' \in Seq(ReaderEntry)
           /\ cnt' = Len(memop_log')
<1>1. PICK t, b : /\ t = q.tid /\ b = buf[q.tid] /\ t \in Thread
                  /\ b \in 1 .. Len(sorted[t]) /\ q.wop = sorted[t][b]
  BY DEF TakenUp
<1>2. PICK e : e = Merging(t, b) /\ e \in ReaderEntry
  BY <1>1, MergingNames
<1>3. memop_log' = Append(memop_log, e)
  BY <1>1, <1>2 DEF TopStep, Merging
<1>4. PICK log, new : log = memop_log /\ new = memop_log'
  OBVIOUS
<1>5. log \in Seq(ReaderEntry) /\ cnt = Len(log) /\ new = Append(log, e)
  BY <1>3, <1>4 DEF OutputFacts
<1>6. /\ cnt \in Nat /\ new \in Seq(ReaderEntry) /\ Len(new) = cnt + 1 /\ new[cnt + 1] = e
      /\ \A m \in 1 .. cnt : new[m] = log[m]
      /\ \A m \in 1 .. cnt + 1 : m \in 1 .. cnt \/ m = cnt + 1
  BY <1>2, <1>5, OneAppended, SMTT(60)
<1>7. \A m \in 1 .. cnt : log[m] \in ReaderEntry
  BY <1>5, <1>6, SMTT(60)
<1> QED BY <1>1, <1>2, <1>4, <1>6, <1>7 DEF OutputGrown

LEMMA TopOrders ==
    ASSUME MemopLogFacts, MergeInv, OutputFacts, QueueFacts, NEW q \in pq, TopStep(q), TakenUp(q),
           NEW e, e = Merging(q.tid, buf[q.tid]), OutputGrown(e)
    PROVE  /\ ObjOf(e) = q.wop.objid /\ e.version = q.wop.version /\ q.wop \in WaitMemop
           /\ \A m \in 1 .. cnt : /\ EntryBefore(memop_log[m], e) /\ memop_log[m] # e
                                  /\ ObjOf(memop_log[m]) \in Obj
           /\ \A r \in pq' : NotAfter(q.wop, r.wop) /\ r.wop \in WaitMemop
<1>1. PICK t, b : /\ t = q.tid /\ b = buf[q.tid] /\ t \in Thread
                  /\ b \in 1 .. Len(sorted[t]) /\ q.wop = sorted[t][b]
                  /\ Consumed(t) = 1 .. b - 1
                  /\ \A r \in pq' : r \in pq \/ (b < Len(sorted[t]) /\ r.wop = sorted[t][b + 1])
  BY DEF TakenUp
<1>2. PICK w : w = q.wop /\ w \in WaitMemop /\ w = sorted[t][b]
  BY <1>1, MergingNames
<1>3. ObjOf(e) = w.objid /\ e = [version |-> w.version, memop |-> w.memop, tid |-> t]
  BY <1>1, <1>2, MergingNames DEF Merging
<1>4. e.version = w.version /\ e.tid = t /\ e.memop = w.memop
  BY <1>3, SMTT(60)
<1>5. PICK len \in Nat : len = Len(sorted[t])
  BY <1>1, SortedHolds DEF SortedFacts
<1>6. ASSUME NEW u \in Thread, NEW i \in Consumed(u) PROVE i \in 1 .. Len(sorted[u])
  <2>1. PICK n \in Nat : n = Len(sorted[u])
    BY SortedHolds DEF SortedFacts
  <2>2. PICK c \in Nat : c = buf[u] /\ c <= n
    BY <2>1, SMTT(60) DEF QueueFacts
  <2>3. i \in 1 .. c - 1 \/ i \in 1 .. c
    BY <1>6, <2>2 DEF Consumed
  <2> QED BY <2>1, <2>2, <2>3, SMTT(60)
<1>7. ASSUME NEW m \in 1 .. cnt
      PROVE  /\ EntryBefore(memop_log[m], e) /\ memop_log[m] # e /\ ObjOf(memop_log[m]) \in Obj
  <2>1. PICK a : a = memop_log[m]
    OBVIOUS
  <2>2. PICK u \in Thread : \E i \in Consumed(u) : a = Merging(u, i)
    BY <2>1, OutputIs
  <2>3. PICK i \in Consumed(u) : a = Merging(u, i)
    BY <2>2
  <2>4. i \in 1 .. Len(sorted[u])
    BY <1>6
  <2>5. PICK v : /\ v = sorted[u][i] /\ v \in WaitMemop /\ ObjOf(a) = v.objid
                 /\ a = [version |-> v.version, memop |-> v.memop, tid |-> u]
    BY <2>3, <2>4, MergingNames DEF Merging
  <2>6. ObjOf(a) < w.objid \/ (ObjOf(a) = w.objid /\ a.version <= w.version)
    BY <1>2, <2>1, OutputIs
  <2>7. EntryBefore(a, e)
    BY <1>3, <1>4, <2>6 DEF EntryBefore
  <2>8. ASSUME a = e PROVE FALSE
    <3>1. u = t /\ v.version = w.version /\ v.objid = w.objid
      BY <1>3, <1>4, <2>5, <2>8, SMTT(60)
    <3>2. i \in 1 .. len /\ b \in 1 .. len /\ i < b
      BY <1>1, <1>5, <2>3, <2>4, <3>1, SMTT(60)
    <3>3. Precedes(v, w)
      BY <1>1, <1>2, <1>5, <2>5, <3>1, <3>2, SortedHolds DEF SortedFacts
    <3> QED BY <1>2, <2>5, <3>1, <3>3, NObjAssumption, SMTT(60) DEF Precedes, WaitMemop, Obj
  <2>9. ObjOf(a) \in Obj
    BY <2>5 DEF WaitMemop
  <2> QED BY <2>1, <2>7, <2>8, <2>9
<1>8. ASSUME NEW r \in pq' PROVE NotAfter(w, r.wop) /\ r.wop \in WaitMemop
  <2>1. CASE r \in pq
    BY <1>2, <2>1 DEF TopStep, QueueFacts, QueueEntry
  <2>2. CASE b < len /\ r.wop = sorted[t][b + 1]
    <3>1. b \in 1 .. len /\ b + 1 \in 1 .. len /\ b < b + 1
      BY <1>1, <1>5, <2>2, SMTT(60)
    <3>2. PICK v : v = sorted[t][b + 1] /\ v \in WaitMemop
      BY <1>1, <1>5, <3>1, SortedHolds DEF SortedFacts
    <3>3. Precedes(w, v)
      BY <1>1, <1>2, <1>5, <3>1, <3>2, SortedHolds DEF SortedFacts
    <3>4. NotAfter(w, v)
      BY <1>2, <3>2, <3>3, NObjAssumption, SMTT(60) DEF Precedes, NotAfter, WaitMemop, Obj
    <3> QED BY <2>2, <3>2, <3>4
  <2> QED BY <1>1, <1>5, <2>1, <2>2
<1> QED BY <1>2, <1>3, <1>4, <1>7, <1>8

LEMMA TopOutput ==
    ASSUME MemopLogFacts, MergeInv, OutputFacts, QueueFacts, RecordingStays, ReorderStays,
           NEW q \in pq, TopStep(q), TakenUp(q), cnt' = cnt + 1
    PROVE  OutputFacts'
<1>1. PICK e : e = Merging(q.tid, buf[q.tid])
  OBVIOUS
<1>2. OutputGrown(e) /\ memop_log' \in Seq(ReaderEntry) /\ cnt' = Len(memop_log')
  BY <1>1, TopGrows
<1>3. /\ ObjOf(e) = q.wop.objid /\ e.version = q.wop.version /\ q.wop \in WaitMemop
      /\ \A m \in 1 .. cnt : /\ EntryBefore(memop_log[m], e) /\ memop_log[m] # e
                             /\ ObjOf(memop_log[m]) \in Obj
      /\ \A r \in pq' : NotAfter(q.wop, r.wop) /\ r.wop \in WaitMemop
  BY <1>1, <1>2, TopOrders
<1>4. PICK t, b : /\ t = q.tid /\ b = buf[q.tid] /\ t \in Thread
                  /\ Consumed(t) = 1 .. b - 1 /\ Consumed(t)' = 1 .. b /\ b \in 1 .. Len(sorted[t])
                  /\ \A u \in Thread \ {t} : Consumed(u)' = Consumed(u)
  BY DEF TakenUp
<1>5. e = Merging(t, b) /\ b \in Nat \ {0}
  BY <1>1, <1>4, SMTT(60)
<1>6. /\ \A u \in Thread : \A i : Merging(u, i)' = Merging(u, i)
      /\ access_log' = access_log
  BY StaysIs DEF ReorderStays, Merging
<1>7. /\ \A u \in Thread : \A i \in Consumed(u) : i \in Consumed(u)'
      /\ b \in Consumed(t)'
      /\ \A u \in Thread : \A i \in Consumed(u)' : i \in Consumed(u) \/ (u = t /\ i = b)
  <2>1. /\ b \in 1 .. b /\ \A i \in 1 .. b - 1 : i \in 1 .. b
        /\ \A i \in 1 .. b : i \in 1 .. b - 1 \/ i = b
    BY <1>5, SMTT(60)
  <2> QED BY <1>4, <2>1
<1>8. PICK new : new = memop_log'
  OBVIOUS
<1>9. /\ cnt \in Nat /\ cnt' = cnt + 1 /\ new[cnt + 1] = e
      /\ \A m \in 1 .. cnt : new[m] = memop_log[m] /\ memop_log[m] \in ReaderEntry
      /\ \A m \in 1 .. cnt + 1 : m \in 1 .. cnt \/ m = cnt + 1
  BY <1>2, <1>8 DEF OutputGrown
<1>10. ASSUME NEW m \in 1 .. cnt + 1
       PROVE  \E u \in Thread : \E i \in Consumed(u)' : new[m] = Merging(u, i)
  <2>1. CASE m \in 1 .. cnt
    <3>1. PICK u \in Thread : \E i \in Consumed(u) : memop_log[m] = Merging(u, i)
      BY <2>1 DEF OutputFacts
    <3> QED BY <1>7, <1>9, <2>1, <3>1
  <2>2. CASE m = cnt + 1
    BY <1>4, <1>5, <1>7, <1>9, <2>2
  <2> QED BY <1>9, <2>1, <2>2
<1>11. ASSUME NEW u \in Thread, NEW i \in Consumed(u)' PROVE Within(Merging(u, i), new)
  <2>1. Len(new) = cnt + 1
    BY <1>2, <1>8, <1>9
  <2>2. CASE i \in Consumed(u)
    <3>1. Within(Merging(u, i), memop_log) /\ Len(memop_log) = cnt
      BY <2>2 DEF OutputFacts
    <3>2. PICK m \in 1 .. cnt : memop_log[m] = Merging(u, i)
      BY <3>1 DEF Within
    <3>3. m \in 1 .. cnt + 1
      BY <1>9, SMTT(60)
    <3> QED BY <1>9, <2>1, <3>2, <3>3 DEF Within
  <2>3. CASE u = t /\ i = b
    <3>1. cnt + 1 \in 1 .. cnt + 1
      BY <1>9, SMTT(60)
    <3> QED BY <1>5, <1>9, <2>1, <2>3, <3>1 DEF Within
  <2> QED BY <1>7, <2>2, <2>3
<1>12. ASSUME NEW m \in 1 .. cnt + 1, NEW n \in 1 .. cnt + 1, m < n
       PROVE  new[m] # new[n] /\ EntryBefore(new[m], new[n])
  <2>1. m \in 1 .. cnt
    BY <1>9, <1>12, SMTT(60)
  <2>2. CASE n \in 1 .. cnt
    BY <1>9, <1>12, <2>1, <2>2, OutputIs
  <2>3. CASE n = cnt + 1
    BY <1>3, <1>9, <2>1, <2>3
  <2> QED BY <1>9, <2>2, <2>3
<1>13. ASSUME NEW m \in 1 .. cnt + 1, NEW r \in pq'
       PROVE  ObjOf(new[m]) < r.wop.objid \/ (ObjOf(new[m]) = r.wop.objid /\ new[m].version <= r.wop.version)
  <2>1. PICK w : w = q.wop /\ w \in WaitMemop /\ NotAfter(w, r.wop)
    BY <1>3
  <2>2. PICK v : v = r.wop /\ v \in WaitMemop
    BY <1>3
  <2>3. CASE m \in 1 .. cnt
    <3>1. PICK a : a = memop_log[m] /\ a = new[m] /\ a \in ReaderEntry
      BY <1>9, <2>3
    <3>2. PICK o : o = ObjOf(a) /\ o \in Obj
      BY <1>3, <2>3, <3>1
    <3>3. o < w.objid \/ (o = w.objid /\ a.version <= w.version)
      BY <1>3, <2>1, <2>3, <3>1, <3>2 DEF EntryBefore
    <3>4. o < v.objid \/ (o = v.objid /\ a.version <= v.version)
      BY <2>1, <2>2, <3>1, <3>2, <3>3, NObjAssumption, SMTT(60) DEF NotAfter, WaitMemop, Obj, ReaderEntry
    <3> QED BY <2>2, <3>1, <3>2, <3>4
  <2>4. CASE m = cnt + 1
    BY <1>3, <1>9, <2>1, <2>4 DEF NotAfter
  <2> QED BY <1>9, <2>3, <2>4
<1>14. /\ \A m \in 1 .. cnt' : \E u \in Thread : \E i \in Consumed(u)' : memop_log'[m] = Merging(u, i)'
       /\ \A u \in Thread : \A i \in Consumed(u)' : Within(Merging(u, i)', memop_log')
  BY <1>6, <1>8, <1>9, <1>10, <1>11
<1>15. \A m, n \in 1 .. cnt' : m < n => memop_log'[m] # memop_log'[n] /\ EntryBefore(memop_log'[m], memop_log'[n])
  BY <1>8, <1>9, <1>12
<1>16. \A m \in 1 .. cnt' : \A r \in pq' :
          \/ ObjOf(memop_log'[m]) < r.wop.objid
          \/ ObjOf(memop_log'[m]) = r.wop.objid /\ memop_log'[m].version <= r.wop.version
  BY <1>8, <1>9, <1>13
<1>17. \A m, n \in 1 .. cnt' : m < n =>
          (LET a == memop_log[m]
               d == memop_log[n]
           IN  a # d /\ (ObjOf(a) < ObjOf(d) \/ (ObjOf(a) = ObjOf(d) /\ a.version <= d.version)))'
  <2> SUFFICES ASSUME NEW m \in 1 .. cnt', NEW n \in 1 .. cnt', m < n
               PROVE  (LET a == memop_log[m]
                           d == memop_log[n]
                       IN  a # d /\ (ObjOf(a) < ObjOf(d) \/ (ObjOf(a) = ObjOf(d) /\ a.version <= d.version)))'
    OBVIOUS
  <2>1. PICK x, y : x = memop_log'[m] /\ y = memop_log'[n]
    OBVIOUS
  <2>2. x # y /\ (ObjOf(x) < ObjOf(y) \/ (ObjOf(x) = ObjOf(y) /\ x.version <= y.version))
    BY <1>15, <2>1 DEF EntryBefore
  <2>3. ObjOf(memop_log[m])' = ObjOf(x) /\ ObjOf(memop_log[n])' = ObjOf(y)
    BY <1>6, <2>1 DEF ObjOf, Access
  <2> QED BY <2>1, <2>2, <2>3
<1>18. \A m \in 1 .. cnt' : \A r \in pq' :
          (LET a == memop_log[m]
           IN  ObjOf(a) < r.wop.objid \/ (ObjOf(a) = r.wop.objid /\ a.version <= r.wop.version))'
  BY <1>6, <1>16 DEF ObjOf, Access
<1> QED BY <1>2, <1>14, <1>17, <1>18 DEF OutputFacts

-----------------------------------------------------------------------------
(* The index, over the objects of the entries merged                       *)
OneMerged(at, c, o, new) ==
    /\ c \in Nat /\ o \in Obj /\ new[c + 1] = o
    /\ \A m \in 1 .. c : new[m] = at[m] /\ at[m] \in Obj /\ at[m] <= o
    /\ \A m \in 1 .. c + 1 : m \in 1 .. c \/ m = c + 1
    /\ \A m \in 1 .. c : m \in 1 .. c + 1

LEMMA PairGrows ==
    ASSUME NEW at, NEW c, NEW o, NEW new, OneMerged(at, c, o, new), NEW x \in Obj, x # o,
           NEW first, NEW size, PairIs(at, c, x, first, size)
    PROVE  PairIs(new, c + 1, x, first, size)
<1>1. /\ c \in Nat /\ new[c + 1] = o /\ \A m \in 1 .. c : new[m] = at[m]
      /\ \A m \in 1 .. c + 1 : m \in 1 .. c \/ m = c + 1
  BY DEF OneMerged
<1>2. CASE first = -1 /\ size = 0 /\ \A m \in 1 .. c : at[m] # x
  BY <1>1, <1>2 DEF PairIs
<1>3. CASE /\ first \in Nat /\ size \in Nat \ {0} /\ first + size <= c
           /\ \A m \in 1 .. c : at[m] = x <=> first < m /\ m <= first + size
  <2>1. ASSUME NEW m \in 1 .. c + 1 PROVE new[m] = x <=> first < m /\ m <= first + size
    <3>1. CASE m \in 1 .. c
      BY <1>1, <1>3, <3>1
    <3>2. CASE m = c + 1
      <4>1. ~(m <= first + size)
        BY <1>1, <1>3, <3>2, SMTT(60)
      <4> QED BY <1>1, <3>2, <4>1
    <3> QED BY <1>1, <3>1, <3>2
  <2>2. first + size <= c + 1
    BY <1>1, <1>3, SMTT(60)
  <2> QED BY <1>3, <2>1, <2>2 DEF PairIs
<1> QED BY <1>2, <1>3 DEF PairIs

LEMMA IndexSame ==
    ASSUME NEW at, NEW c, NEW o, NEW new, OneMerged(at, c, o, new), NEW ib, NEW pc, IndexIs(at, c, ib, o, pc)
    PROVE  IndexIs(new, c + 1, ib, o, pc)
<1>1. /\ c \in Nat /\ o \in Obj /\ new[c + 1] = o /\ \A m \in 1 .. c : new[m] = at[m]
      /\ \A m \in 1 .. c + 1 : m \in 1 .. c \/ m = c + 1
  BY DEF OneMerged
<1>2. o # -1
  BY <1>1, NObjAssumption, SMTT(60) DEF Obj
<1>3. /\ ib \in Seq(IndexInts) /\ pc \in Nat /\ Len(ib) = 2 * o + 1 /\ ib[2 * o + 1] = pc /\ pc < c
      /\ \A m \in 1 .. c : IF pc < m THEN at[m] = o ELSE at[m] < o
      /\ PairsIn(at, c, ib, o)
  BY <1>2 DEF IndexIs
<1>4. pc < c + 1
  BY <1>1, <1>3, SMTT(60)
<1>5. \A m \in 1 .. c + 1 : IF pc < m THEN new[m] = o ELSE new[m] < o
  BY <1>1, <1>3, <1>4
<1>6. ASSUME NEW x \in Obj, x < o PROVE PairIs(new, c + 1, x, ib[2 * x + 1], ib[2 * x + 2])
  <2>1. x # o
    BY <1>1, <1>6, NObjAssumption, SMTT(60) DEF Obj
  <2>2. PairIs(at, c, x, ib[2 * x + 1], ib[2 * x + 2])
    BY <1>3, <1>6 DEF PairsIn
  <2>3. PICK first, size : first = ib[2 * x + 1] /\ size = ib[2 * x + 2]
    OBVIOUS
  <2>4. PairIs(new, c + 1, x, first, size)
    BY <2>1, <2>2, <2>3, PairGrows, SMTT(60)
  <2> QED BY <2>3, <2>4
<1> QED BY <1>1, <1>2, <1>3, <1>4, <1>5, <1>6 DEF IndexIs, PairsIn

LEMMA IndexFirst ==
    ASSUME NEW at, NEW c, NEW o, NEW new, OneMerged(at, c, o, new), c = 0, NEW e, EmptyFor(o, e),
           NEW r, r = << >> \o ((<< >> \o e) \o <<c>>)
    PROVE  IndexIs(new, c + 1, r, o, c)
<1>1. /\ o \in Obj /\ new[1] = o /\ c = 0 /\ \A m \in 1 .. 1 : m = 1
  BY SMTT(60) DEF OneMerged
<1>2. o \in Nat /\ o # -1
  BY <1>1, NObjAssumption, SMTT(60) DEF Obj
<1>3. PICK nil : nil = << >> /\ nil \in Seq(IndexInts) /\ Len(nil) = 0
  <2>1. << >> \in Seq(IndexInts) /\ Len(<< >>) = 0
    BY SMTT(60)
  <2> QED BY <2>1
<1>4. PICK one : one = <<c>> /\ one \in Seq(IndexInts) /\ Len(one) = 1 /\ one[1] = 0
  <2>1. 0 \in IndexInts
    BY DEF IndexInts
  <2>2. PICK z : z = <<c>>
    OBVIOUS
  <2>3. z \in Seq(IndexInts) /\ Len(z) = 1 /\ z[1] = 0
    BY <1>1, <2>1, <2>2, SMTT(60)
  <2> QED BY <2>2, <2>3
<1>5. PICK f, g : f = nil \o e /\ g = f \o one /\ r = nil \o g
  BY <1>3, <1>4
<1>6. /\ e \in Seq(IndexInts) /\ Len(e) = 2 * o
      /\ \A x \in Nat : x < o => e[2 * x + 1] = -1 /\ e[2 * x + 2] = 0
  BY DEF EmptyFor
<1>7. f = e /\ r = g
  <2>1. f = e
    BY <1>3, <1>5, <1>6, SMTT(60)
  <2>2. g \in Seq(IndexInts)
    BY <1>4, <1>5, <1>6, <2>1, SMTT(60)
  <2> QED BY <1>3, <1>5, <2>1, <2>2, SMTT(60)
<1>8. Joined(e, one, r)
  BY <1>4, <1>5, <1>6, <1>7, JoinIs
<1>9. /\ r \in Seq(IndexInts) /\ Len(r) = 2 * o + 1
      /\ \A i \in 1 .. 2 * o : r[i] = e[i]
      /\ \A i \in 1 .. 1 : r[2 * o + i] = one[i]
  BY <1>4, <1>6, <1>8 DEF Joined
<1>10. r[2 * o + 1] = 0
  BY <1>4, <1>9, SMTT(60)
<1>11. ASSUME NEW x \in Obj, x < o PROVE PairIs(new, 1, x, r[2 * x + 1], r[2 * x + 2])
  <2>1. x \in Nat /\ x # o /\ 2 * x + 1 \in 1 .. 2 * o /\ 2 * x + 2 \in 1 .. 2 * o
    BY <1>2, <1>11, NObjAssumption, SMTT(60) DEF Obj
  <2>2. r[2 * x + 1] = -1 /\ r[2 * x + 2] = 0
    BY <1>6, <1>9, <1>11, <2>1
  <2> QED BY <1>1, <2>1, <2>2 DEF PairIs
<1>12. c + 1 = 1 /\ 0 < 1 /\ 0 \in Nat
  BY <1>1, SMTT(60)
<1>13. \A m \in 1 .. 1 : IF 0 < m THEN new[m] = o ELSE new[m] < o
  BY <1>1, <1>12
<1> QED BY <1>1, <1>2, <1>9, <1>10, <1>11, <1>12, <1>13 DEF IndexIs, PairsIn

(* Closing the pair of p leaves the pairs of all objects below lim right.  *)
ClosedTo(ib, p, size, lim, r) ==
    /\ \A i \in 1 .. 2 * p + 1 : r[i] = ib[i]
    /\ r[2 * p + 2] = size
    /\ \A x \in Nat : p < x /\ x < lim => r[2 * x + 1] = -1 /\ r[2 * x + 2] = 0

LEMMA PairsClosed ==
    ASSUME NEW at, NEW c \in Nat, \A m \in 1 .. c : at[m] \in Obj,
           NEW ib, NEW p \in Obj, NEW pc, IndexIs(at, c, ib, p, pc), NEW lim, NEW r,
           ClosedTo(ib, p, c - pc, lim, r)
    PROVE  PairsIn(at, c, r, lim)
<1>0. /\ \A i \in 1 .. 2 * p + 1 : r[i] = ib[i]
      /\ r[2 * p + 2] = c - pc
      /\ \A x \in Nat : p < x /\ x < lim => r[2 * x + 1] = -1 /\ r[2 * x + 2] = 0
  BY DEF ClosedTo
<1>1. p # -1 /\ p \in Nat
  BY NObjAssumption, SMTT(60) DEF Obj
<1>2. /\ pc \in Nat /\ ib[2 * p + 1] = pc /\ pc < c
      /\ \A m \in 1 .. c : IF pc < m THEN at[m] = p ELSE at[m] < p
      /\ PairsIn(at, c, ib, p)
  BY <1>1 DEF IndexIs
<1>3. ASSUME NEW m \in 1 .. c PROVE at[m] <= p /\ at[m] \in Nat
  <2>1. at[m] = p \/ at[m] < p
    BY <1>2
  <2>2. at[m] \in Nat
    BY NObjAssumption, SMTT(60) DEF Obj
  <2> QED BY <1>1, <2>1, <2>2, SMTT(60)
<1> SUFFICES ASSUME NEW x \in Obj, x < lim PROVE PairIs(at, c, x, r[2 * x + 1], r[2 * x + 2])
  BY DEF PairsIn
<1>4. x \in Nat
  BY NObjAssumption, SMTT(60) DEF Obj
<1>5. CASE x < p
  <2>1. 2 * x + 1 \in 1 .. 2 * p + 1 /\ 2 * x + 2 \in 1 .. 2 * p + 1
    BY <1>1, <1>4, <1>5, SMTT(60)
  <2> QED BY <1>0, <1>2, <1>5, <2>1 DEF PairsIn
<1>6. CASE x = p
  <2>1. 2 * p + 1 \in 1 .. 2 * p + 1
    BY <1>1, SMTT(60)
  <2>2. r[2 * x + 1] = pc /\ r[2 * x + 2] = c - pc
    BY <1>0, <1>2, <1>6, <2>1
  <2>3. c - pc \in Nat \ {0} /\ pc + (c - pc) = c /\ c <= c
    BY <1>2, SMTT(60)
  <2>4. ASSUME NEW m \in 1 .. c PROVE at[m] = p <=> pc < m /\ m <= pc + (c - pc)
    <3>1. m <= c
      BY SMTT(60)
    <3>2. ~(pc < m) => at[m] < p /\ at[m] # p
      BY <1>1, <1>2, <1>3, SMTT(60)
    <3> QED BY <1>2, <2>3, <3>1, <3>2
  <2>5. PICK size : size = c - pc
    OBVIOUS
  <2>6. PairIs(at, c, p, pc, size)
    BY <1>2, <2>3, <2>4, <2>5 DEF PairIs
  <2> QED BY <1>6, <2>2, <2>5, <2>6
<1>7. CASE p < x
  <2>1. r[2 * x + 1] = -1 /\ r[2 * x + 2] = 0
    BY <1>0, <1>4, <1>7
  <2>2. ASSUME NEW m \in 1 .. c PROVE at[m] # x
    BY <1>1, <1>3, <1>4, <1>7, SMTT(60)
  <2> QED BY <2>1, <2>2 DEF PairIs
<1> QED BY <1>1, <1>4, <1>5, <1>6, <1>7, SMTT(60)

LEMMA IndexNext ==
    ASSUME NEW at, NEW c, NEW o, NEW new, OneMerged(at, c, o, new),
           NEW ib, NEW p \in Obj, NEW pc, IndexIs(at, c, ib, p, pc), p # o,
           NEW r, OpenedWith(ib, p, c - pc, o, c, r)
    PROVE  IndexIs(new, c + 1, r, o, c) /\ p < o
<1>1. /\ c \in Nat /\ o \in Obj /\ new[c + 1] = o
      /\ \A m \in 1 .. c : new[m] = at[m] /\ at[m] \in Obj /\ at[m] <= o
      /\ \A m \in 1 .. c + 1 : m \in 1 .. c \/ m = c + 1
  BY DEF OneMerged
<1>2. p # -1 /\ p \in Nat /\ o \in Nat /\ o # -1
  BY <1>1, NObjAssumption, SMTT(60) DEF Obj
<1>3. /\ ib \in Seq(IndexInts) /\ pc \in Nat /\ Len(ib) = 2 * p + 1 /\ ib[2 * p + 1] = pc /\ pc < c
      /\ \A m \in 1 .. c : IF pc < m THEN at[m] = p ELSE at[m] < p
  BY <1>2 DEF IndexIs
<1>4. p < o
  <2>1. c \in 1 .. c
    BY <1>1, <1>3, SMTT(60)
  <2>2. at[c] = p /\ at[c] <= o
    BY <1>1, <1>3, <2>1
  <2> QED BY <1>2, <2>2, SMTT(60)
<1>5. /\ r \in Seq(IndexInts) /\ Len(r) = 2 * o + 1 /\ r[2 * o + 1] = c
      /\ \A i \in 1 .. 2 * p + 1 : r[i] = ib[i]
      /\ r[2 * p + 2] = c - pc
      /\ \A x \in Nat : p < x /\ x < o => r[2 * x + 1] = -1 /\ r[2 * x + 2] = 0
  BY DEF OpenedWith
<1>6. ASSUME NEW m \in 1 .. c PROVE at[m] <= p /\ at[m] < o /\ at[m] \in Nat /\ ~(c < m)
  <2>1. at[m] = p \/ at[m] < p
    BY <1>3
  <2>2. at[m] \in Nat
    BY <1>1, NObjAssumption, SMTT(60) DEF Obj
  <2> QED BY <1>1, <1>2, <1>4, <2>1, <2>2, SMTT(60)
<1>7. c < c + 1
  BY <1>1, SMTT(60)
<1>8. \A m \in 1 .. c + 1 : IF c < m THEN new[m] = o ELSE new[m] < o
  BY <1>1, <1>6, <1>7
<1>10. PairsIn(at, c, r, o)
  <2>1. ClosedTo(ib, p, c - pc, o, r)
    BY <1>5 DEF ClosedTo
  <2>2. \A m \in 1 .. c : at[m] \in Obj
    BY <1>1
  <2> QED BY <1>1, <2>1, <2>2, PairsClosed
<1>9. ASSUME NEW x \in Obj, x < o PROVE PairIs(new, c + 1, x, r[2 * x + 1], r[2 * x + 2])
  <2>1. x \in Nat /\ x # o
    BY <1>2, <1>9, NObjAssumption, SMTT(60) DEF Obj
  <2>2. PairIs(at, c, x, r[2 * x + 1], r[2 * x + 2])
    BY <1>9, <1>10 DEF PairsIn
  <2>3. PICK first, size : first = r[2 * x + 1] /\ size = r[2 * x + 2]
    OBVIOUS
  <2>4. PairIs(new, c + 1, x, first, size)
    BY <2>1, <2>2, <2>3, PairGrows, SMTT(60)
  <2> QED BY <2>3, <2>4
<1> QED BY <1>1, <1>2, <1>4, <1>5, <1>7, <1>8, <1>9 DEF IndexIs, PairsIn

LEMMA IndexLast ==
    ASSUME NEW at, NEW c \in Nat, \A m \in 1 .. c : at[m] \in Obj,
           NEW ib, NEW p \in Obj, NEW pc, IndexIs(at, c, ib, p, pc),
           NEW r, FilledWith(ib, p, c - pc, NObj - (p + 1), r)
    PROVE  r \in Seq(IndexInts) /\ Len(r) = 2 * NObj /\ PairsIn(at, c, r, NObj)
<1>1. p \in Nat /\ NObj \in Nat /\ p + 1 + (NObj - (p + 1)) = NObj
  BY NObjAssumption, SMTT(60) DEF Obj
<1>2. /\ r \in Seq(IndexInts) /\ Len(r) = 2 * NObj
      /\ ClosedTo(ib, p, c - pc, NObj, r)
  BY <1>1 DEF FilledWith, ClosedTo
<1> QED BY <1>2, PairsClosed

LEMMA TopIndex ==
    ASSUME MemopLogFacts, MergeInv, OutputFacts, QueueFacts, IndexFacts, RecordingStays,
           NEW q \in pq, TopStep(q), TakenUp(q), cnt' = cnt + 1
    PROVE  IndexFacts'
<1>1. PICK e : e = Merging(q.tid, buf[q.tid]) /\ OutputGrown(e)
  BY TopGrows
<1>2. PICK o : o = q.wop.objid
  OBVIOUS
<1>3. /\ ObjOf(e) = o /\ q.wop \in WaitMemop
      /\ \A m \in 1 .. cnt : EntryBefore(memop_log[m], e) /\ ObjOf(memop_log[m]) \in Obj
  BY <1>1, <1>2, TopOrders
<1>4. o \in Obj /\ o \in Nat /\ o # -1
  BY <1>2, <1>3, NObjAssumption, SMTT(60) DEF WaitMemop, Obj
<1>5. PICK at, new, c : at = Objects /\ new = Objects' /\ c = cnt
  OBVIOUS
<1>6. /\ c \in Nat /\ cnt' = c + 1 /\ memop_log'[c + 1] = e
      /\ \A m \in 1 .. c : memop_log'[m] = memop_log[m]
      /\ \A m \in 1 .. c + 1 : m \in 1 .. c \/ m = c + 1
  BY <1>1, <1>5 DEF OutputGrown
<1>7. /\ \A m \in 1 .. c : at[m] = ObjOf(memop_log[m])
      /\ \A m \in 1 .. c + 1 : new[m] = ObjOf(memop_log'[m])
  <2>1. access_log' = access_log
    BY StaysIs
  <2>2. \A m \in 1 .. c : at[m] = ObjOf(memop_log[m])
    BY <1>5 DEF Objects
  <2>3. \A m \in 1 .. c + 1 : new[m] = ObjOf(memop_log'[m])
    BY <1>5, <1>6, <2>1 DEF Objects, ObjOf, Access
  <2> QED BY <2>2, <2>3
<1>8. OneMerged(at, c, o, new)
  <2>1. new[c + 1] = o
    <3>1. c + 1 \in 1 .. c + 1
      BY <1>6, SMTT(60)
    <3> QED BY <1>3, <1>6, <1>7, <3>1
  <2>2. \A m \in 1 .. c : m \in 1 .. c + 1
    BY <1>6, SMTT(60)
  <2>3. ASSUME NEW m \in 1 .. c PROVE new[m] = at[m] /\ at[m] \in Obj /\ at[m] <= o
    <3>1. new[m] = at[m] /\ at[m] = ObjOf(memop_log[m])
      BY <1>6, <1>7, <2>2
    <3>2. at[m] < o \/ at[m] = o
      BY <1>3, <1>5, <3>1 DEF EntryBefore
    <3>3. at[m] \in Obj
      BY <1>3, <1>5, <3>1
    <3> QED BY <1>4, <3>1, <3>2, <3>3, NObjAssumption, SMTT(60) DEF Obj
  <2> QED BY <1>4, <1>6, <2>1, <2>2, <2>3 DEF OneMerged
<1>9. PICK ib, p, pc : ib = indexbuf /\ p = prev_id /\ pc = prev_cnt
  OBVIOUS
<1>10. IndexIs(at, c, ib, p, pc) /\ p \in Obj \cup {-1} /\ ib \in Seq(IndexInts) /\ pc \in Nat
  BY <1>5, <1>9 DEF IndexFacts, IndexIs
<1>11. CASE p = o
  <2>1. indexbuf' = ib /\ prev_cnt' = pc /\ prev_id' = o
    BY <1>2, <1>9, <1>11 DEF TopStep, IndexStep
  <2>2. IndexIs(new, c + 1, ib, o, pc)
    BY <1>8, <1>10, <1>11, IndexSame
  <2> QED BY <1>5, <1>6, <2>1, <2>2 DEF IndexFacts
<1>12. CASE p # o
  <2>1. indexbuf' = ib \o IndexFor(o) /\ prev_cnt' = c /\ prev_id' = o
    BY <1>2, <1>5, <1>9, <1>12 DEF TopStep, IndexStep
  <2>2. CASE p = -1
    <3>1. c = 0 /\ ib = << >>
      BY <1>10, <2>2 DEF IndexIs
    <3>2. o - (p + 1) = o
      BY <1>4, <2>2, SMTT(60)
    <3>3. PICK em : em = EmptyIndex(o) /\ EmptyFor(o, em)
      BY <1>4, EmptyIs
    <3>4. indexbuf' = << >> \o ((<< >> \o em) \o <<c>>)
      BY <1>5, <1>9, <2>1, <2>2, <3>1, <3>2, <3>3 DEF IndexFor
    <3>5. PICK r : r = indexbuf'
      OBVIOUS
    <3>6. IndexIs(new, c + 1, r, o, c)
      BY <1>8, <3>1, <3>3, <3>4, <3>5, IndexFirst
    <3> QED BY <1>5, <1>6, <2>1, <3>5, <3>6 DEF IndexFacts
  <2>3. CASE p # -1
    <3>1. p \in Obj /\ p \in Nat
      BY <1>10, <2>3, NObjAssumption, SMTT(60) DEF Obj
    <3>2. Len(ib) = 2 * p + 1 /\ pc < c
      BY <1>10, <2>3 DEF IndexIs
    <3>3. c - pc \in Nat
      BY <1>6, <1>10, <3>2, SMTT(60)
    <3>4. p < o
      <4>1. c \in 1 .. c
        BY <1>6, <1>10, <3>2, SMTT(60)
      <4>2. at[c] = p
        BY <1>10, <2>3, <3>2, <4>1 DEF IndexIs
      <4>3. at[c] <= o
        BY <1>8, <4>1 DEF OneMerged
      <4> QED BY <1>4, <1>12, <3>1, <4>2, <4>3, SMTT(60)
    <3>5. PICK n \in Nat : n = o - (p + 1)
      BY <1>4, <3>1, <3>4, SMTT(60)
    <3>6. PICK f : f = <<c - pc>> \o EmptyIndex(n) /\ ClosedWith(c - pc, n, f)
      BY <3>3, <3>5, ClosedIs
    <3>7. f \in Seq(IndexInts)
      BY <3>6 DEF ClosedWith
    <3>8. PICK one : one = <<c>> /\ one \in Seq(IndexInts) /\ Len(one) = 1 /\ one[1] = c
      <4>1. c \in IndexInts
        BY <1>6 DEF IndexInts
      <4>2. PICK z : z = <<c>>
        OBVIOUS
      <4>3. z \in Seq(IndexInts) /\ Len(z) = 1 /\ z[1] = c
        BY <4>1, <4>2, SMTT(60)
      <4> QED BY <4>2, <4>3
    <3>9. PICK g : g = f \o one
      OBVIOUS
    <3>10. PICK r : r = ib \o g
      OBVIOUS
    <3>11. indexbuf' = r
      BY <1>5, <1>9, <2>1, <2>3, <3>5, <3>6, <3>8, <3>9, <3>10 DEF IndexFor
    <3>12. Joined(f, one, g)
      BY <3>7, <3>8, <3>9, JoinIs
    <3>13. g \in Seq(IndexInts)
      BY <3>12 DEF Joined
    <3>14. Joined(ib, g, r)
      BY <1>10, <3>10, <3>13, JoinIs
    <3>15. OpenedWith(ib, p, c - pc, o, c, r)
      BY <1>4, <1>6, <1>10, <3>1, <3>2, <3>3, <3>4, <3>5, <3>6, <3>8, <3>12, <3>14, OpenedIs
    <3>16. IndexIs(new, c + 1, r, o, c)
      BY <1>8, <1>10, <1>12, <3>1, <3>15, IndexNext
    <3> QED BY <1>5, <1>6, <2>1, <3>11, <3>16 DEF IndexFacts
  <2> QED BY <2>2, <2>3
<1> QED BY <1>11, <1>12

LEMMA MergeTopKeeps ==
    ASSUME MemopLogFacts, MergeInv, RecordingStays, merge_top
    PROVE  MergeInv'
<1>1. mpc = "merge" /\ mpc' = mpc
  BY DEF merge_top
<1>2. /\ QueueFacts /\ OutputFacts /\ IndexFacts /\ buf \in [Thread -> Nat]
      /\ \E t \in Thread : sorted[t] # << >>
  BY <1>1 DEF MergeInv
<1>3. /\ ReorderStays /\ cnt' = cnt + 1 /\ \E q \in pq : TopStep(q)
  BY <1>2, StepMergeTop DEF QueueFacts
<1>4. PICK q \in pq : TopStep(q)
  BY <1>3
<1>5. QueueFacts' /\ buf' \in [Thread -> Nat] /\ TakenUp(q)
  BY <1>2, <1>3, <1>4, SortedHolds, TopQueue
<1>6. OutputFacts' /\ IndexFacts'
  BY <1>2, <1>3, <1>4, <1>5, TopOutput, TopIndex
<1>7. /\ Reordered' /\ objit' = NObj
      /\ all' \in [Thread -> [Obj -> Seq(WaitMemop)]] /\ sorted' \in [Thread -> Seq(WaitMemop)]
      /\ wmlog' \in [Thread -> Nat]
  BY <1>1, <1>3, ReorderedStays
<1>8. \E t \in Thread : sorted'[t] # << >>
  BY <1>2, <1>3 DEF ReorderStays
<1> QED BY <1>1, <1>5, <1>6, <1>7, <1>8 DEF MergeInv

LEMMA OutputStays ==
    ASSUME OutputFacts, RecordingStays, ReorderStays, UNCHANGED <<buf, pq, memop_log, cnt>>
    PROVE  OutputFacts'
<1>1. cnt' = cnt /\ memop_log' = memop_log /\ access_log' = access_log /\ pq' = pq /\ buf' = buf /\ sorted' = sorted
  BY StaysIs DEF ReorderStays
<1>2. \A t, i : Merging(t, i)' = Merging(t, i)
  BY <1>1 DEF Merging
<1>3. \A t \in Thread : Consumed(t)' = Consumed(t)
  BY <1>1 DEF Consumed, Queued
<1>4. \A m : ObjOf(memop_log[m])' = ObjOf(memop_log[m])
  BY <1>1 DEF ObjOf, Access
<1>5. ASSUME NEW m \in 1 .. cnt', NEW n \in 1 .. cnt', m < n
      PROVE  (LET a == memop_log[m]
                  d == memop_log[n]
              IN  a # d /\ (ObjOf(a) < ObjOf(d) \/ (ObjOf(a) = ObjOf(d) /\ a.version <= d.version)))'
  <2>1. memop_log[m] # memop_log[n] /\ EntryBefore(memop_log[m], memop_log[n])
    BY <1>1, <1>5, OutputIs
  <2> QED BY <1>1, <1>4, <2>1 DEF EntryBefore
<1>6. ASSUME NEW m \in 1 .. cnt', NEW q \in pq'
      PROVE  (LET a == memop_log[m]
              IN  ObjOf(a) < q.wop.objid \/ (ObjOf(a) = q.wop.objid /\ a.version <= q.wop.version))'
  <2>1. \/ ObjOf(memop_log[m]) < q.wop.objid
        \/ ObjOf(memop_log[m]) = q.wop.objid /\ memop_log[m].version <= q.wop.version
    BY <1>1, OutputIs
  <2> QED BY <1>1, <1>4, <2>1
<1>7. memop_log' \in Seq(ReaderEntry) /\ cnt' = Len(memop_log')
  BY <1>1 DEF OutputFacts
<1>8. ASSUME NEW m \in 1 .. cnt PROVE \E t \in Thread : \E i \in Consumed(t)' : memop_log[m] = Merging(t, i)'
  <2>1. PICK t \in Thread : \E i \in Consumed(t) : memop_log[m] = Merging(t, i)
    BY OutputIs
  <2> QED BY <1>2, <1>3, <2>1
<1>9. \A t \in Thread : \A i \in Consumed(t) : Within(Merging(t, i), memop_log)
  BY DEF OutputFacts
<1>10. \A t \in Thread : \A i \in Consumed(t)' : Within(Merging(t, i)', memop_log')
  BY <1>1, <1>2, <1>3, <1>9
<1>11. \A m \in 1 .. cnt' : \E t \in Thread : \E i \in Consumed(t)' : memop_log'[m] = Merging(t, i)'
  BY <1>1, <1>8
<1> QED BY <1>5, <1>6, <1>7, <1>10, <1>11 DEF OutputFacts

(* The queue is empty: every thread's entries have been merged.            *)
LEMMA MergeEndKeeps ==
    ASSUME MemopLogFacts, MergeInv, RecordingStays, merge_end
    PROVE  MergeInv'
<1>1. /\ mpc = "merge" /\ mpc' = "done" /\ pq = {} /\ ReorderStays
      /\ UNCHANGED <<buf, pq, memop_log, prev_id, cnt, prev_cnt>>
      /\ indexbuf' = indexbuf \o (<<cnt - prev_cnt>> \o EmptyIndex(NObj - (prev_id + 1)))
  BY DEF merge_end, reorderVars, ReorderStays
<1>2. /\ QueueFacts /\ OutputFacts /\ IndexFacts /\ buf \in [Thread -> Nat]
      /\ \E t \in Thread : sorted[t] # << >>
  BY <1>1 DEF MergeInv
<1>3. /\ Reordered' /\ objit' = NObj
      /\ all' \in [Thread -> [Obj -> Seq(WaitMemop)]] /\ sorted' \in [Thread -> Seq(WaitMemop)]
      /\ wmlog' \in [Thread -> Nat]
  BY <1>1, ReorderedStays
<1>4. PICK at, c, ib, p, pc : at = Objects /\ c = cnt /\ ib = indexbuf /\ p = prev_id /\ pc = prev_cnt
  OBVIOUS
<1>5. IndexIs(at, c, ib, p, pc) /\ p \in Obj \cup {-1} /\ ib \in Seq(IndexInts) /\ pc \in Nat
  BY <1>2, <1>4 DEF IndexFacts, IndexIs
<1>6. cnt = Len(memop_log) /\ cnt \in Nat
  BY <1>2, SMTT(60) DEF OutputFacts
<1>7. cnt > 0
  <2>1. PICK t \in Thread : sorted[t] # << >>
    BY <1>2
  <2>2. sorted[t] \in Seq(WaitMemop) /\ Len(sorted[t]) \in Nat
    BY SortedHolds DEF SortedFacts
  <2>3. Len(sorted[t]) > 0
    BY <2>1, <2>2, SMTT(60)
  <2>4. ~Queued(t) /\ buf[t] = Len(sorted[t])
    BY <1>1, <1>2 DEF Queued, QueueFacts
  <2>5. 1 \in Consumed(t)
    BY <2>2, <2>3, <2>4, SMTT(60) DEF Consumed
  <2>6. Within(Merging(t, 1), memop_log)
    BY <1>2, <2>5 DEF OutputFacts
  <2>7. PICK m \in 1 .. cnt : memop_log[m] = Merging(t, 1)
    BY <1>6, <2>6 DEF Within
  <2> QED BY <1>6, <2>7, SMTT(60)
<1>8. p # -1 /\ p \in Obj /\ p \in Nat
  <2>1. p # -1
    BY <1>4, <1>5, <1>7, SMTT(60) DEF IndexIs
  <2> QED BY <1>5, <2>1, NObjAssumption, SMTT(60) DEF Obj
<1>9. Len(ib) = 2 * p + 1 /\ pc < c
  BY <1>5, <1>8 DEF IndexIs
<1>10. c \in Nat /\ c - pc \in Nat /\ NObj - (p + 1) \in Nat
  BY <1>4, <1>5, <1>6, <1>8, <1>9, NObjAssumption, SMTT(60) DEF Obj
<1>11. PICK f : /\ f = <<c - pc>> \o EmptyIndex(NObj - (p + 1))
                /\ ClosedWith(c - pc, NObj - (p + 1), f) /\ f \in Seq(IndexInts)
  BY <1>10, ClosedIs DEF ClosedWith
<1>12. PICK r : r = ib \o f /\ Joined(ib, f, r)
  BY <1>5, <1>11, JoinIs
<1>13. indexbuf' = r
  BY <1>1, <1>4, <1>11, <1>12
<1>14. FilledWith(ib, p, c - pc, NObj - (p + 1), r)
  BY <1>5, <1>8, <1>9, <1>10, <1>11, <1>12, FilledIs
<1>15. \A m \in 1 .. c : at[m] \in Obj
  <2> SUFFICES ASSUME NEW m \in 1 .. c PROVE at[m] \in Obj
    OBVIOUS
  <2>1. PICK t \in Thread : \E i \in Consumed(t) : memop_log[m] = Merging(t, i)
    BY <1>2, <1>4, OutputIs
  <2>2. PICK i \in Consumed(t) : memop_log[m] = Merging(t, i)
    BY <2>1
  <2>3. i \in 1 .. Len(sorted[t])
    BY <1>1, <1>2 DEF Consumed, Queued, QueueFacts
  <2>4. at[m] = sorted[t][i].objid /\ sorted[t][i] \in WaitMemop
    BY <1>4, <2>2, <2>3, MergingNames DEF Objects
  <2> QED BY <2>4 DEF WaitMemop
<1>16. r \in Seq(IndexInts) /\ Len(r) = 2 * NObj /\ PairsIn(at, c, r, NObj)
  BY <1>5, <1>8, <1>10, <1>14, <1>15, IndexLast
<1>17. /\ cnt' = cnt /\ memop_log' = memop_log /\ access_log' = access_log
       /\ prev_id' = prev_id /\ prev_cnt' = prev_cnt /\ pq' = pq /\ buf' = buf
  BY <1>1, StaysIs
<1>18. Objects' = Objects
  BY <1>17 DEF Objects, ObjOf, Access
<1>19. cnt' # 0
  BY <1>6, <1>7, <1>17, SMTT(60)
<1>20. IndexDone'
  BY <1>4, <1>5, <1>9, <1>13, <1>16, <1>17, <1>18, <1>19 DEF IndexDone
<1>21. sorted' = sorted /\ QueueFacts'
  BY <1>1, <1>2, <1>17 DEF ReorderStays, QueueFacts, Queued
<1>22. OutputFacts'
  BY <1>1, <1>2, OutputStays
<1> QED BY <1>1, <1>2, <1>3, <1>17, <1>20, <1>21, <1>22 DEF MergeInv

-----------------------------------------------------------------------------
(* What the log processing leaves for replay                               *)
LEMMA SegmentIs ==
    ASSUME MergeInv, mpc = "done", NEW o \in Obj
    PROVE  /\ Segment(o).log \in Nat /\ Segment(o).size \in Nat \cup {-1}
           /\ \A m \in Nat : InSegment(o, m) <=> m \in 1 .. cnt /\ ObjOf(memop_log[m]) = o
<1>1. OutputFacts /\ IndexDone
  BY DEF MergeInv
<1>2. memop_log \in Seq(ReaderEntry) /\ cnt = Len(memop_log) /\ cnt \in Nat
  BY <1>1, SMTT(60) DEF OutputFacts
<1>3. PICK first, size : first = indexbuf[2 * o + 1] /\ size = indexbuf[2 * o + 2]
  OBVIOUS
<1>4. CASE cnt = 0
  <2>1. memop_log = << >>
    <3>1. PICK S, s : S = ReaderEntry /\ s = memop_log
      OBVIOUS
    <3>2. s \in Seq(S) /\ Len(s) = 0
      BY <1>2, <1>4, <3>1
    <3>3. s = << >>
      BY ONLY <3>2, SMTT(60)
    <3> QED BY <3>1, <3>3
  <2>2. Segment(o) = [log |-> 0, size |-> -1]
    BY <2>1 DEF Segment
  <2>3. Segment(o).log = 0 /\ Segment(o).size = -1
    BY <2>2, SMTT(60)
  <2>4. ASSUME NEW m \in Nat PROVE ~InSegment(o, m) /\ ~(m \in 1 .. cnt)
    BY <1>4, <2>3, SMTT(60) DEF InSegment
  <2> QED BY <2>3, <2>4, SMTT(60)
<1>5. CASE cnt # 0
  <2>1. memop_log # << >>
    <3>1. Len(<< >>) = 0
      OBVIOUS
    <3> QED BY <1>2, <1>5, <3>1
  <2>2. o < NObj
    BY NObjAssumption, SMTT(60) DEF Obj
  <2>3. PairIs(Objects, cnt, o, first, size)
    BY <1>1, <1>3, <1>5, <2>2 DEF IndexDone, PairsIn
  <2>4. PICK at : at = Objects /\ \A m \in 1 .. cnt : at[m] = ObjOf(memop_log[m])
    <3>1. \A m \in 1 .. cnt : Objects[m] = ObjOf(memop_log[m])
      BY DEF Objects
    <3> QED BY <3>1
  <2>5. CASE first = -1 /\ size = 0 /\ \A m \in 1 .. cnt : at[m] # o
    <3>1. Segment(o) = [log |-> 0, size |-> -1]
      BY <1>3, <2>5 DEF Segment
    <3>2. Segment(o).log = 0 /\ Segment(o).size = -1
      BY <3>1, SMTT(60)
    <3>3. ASSUME NEW m \in Nat PROVE ~InSegment(o, m)
      BY <3>2, SMTT(60) DEF InSegment
    <3> QED BY <2>4, <2>5, <3>2, <3>3, SMTT(60)
  <2>6. CASE /\ first \in Nat /\ size \in Nat \ {0} /\ first + size <= cnt
             /\ \A m \in 1 .. cnt : at[m] = o <=> first < m /\ m <= first + size
    <3>1. Segment(o) = [log |-> first, size |-> size]
      <4>1. first # -1
        BY <2>6, SMTT(60)
      <4> QED BY <1>3, <2>1, <4>1 DEF Segment
    <3>2. Segment(o).log = first /\ Segment(o).size = size
      BY <3>1, SMTT(60)
    <3>3. ASSUME NEW m \in Nat PROVE InSegment(o, m) <=> first < m /\ m <= first + size
      BY <3>2 DEF InSegment
    <3>4. ASSUME NEW m \in Nat, first < m, m <= first + size PROVE m \in 1 .. cnt
      BY <1>2, <2>6, <3>4, SMTT(60)
    <3> QED BY <2>4, <2>6, <3>2, <3>3, <3>4
  <2> QED BY <2>3, <2>4, <2>5, <2>6 DEF PairIs
<1> QED BY <1>4, <1>5

LEMMA SegmentsHold ==
    ASSUME MemopLogFacts, MergeInv, mpc = "done"
    PROVE  SegmentFacts
<1>1. OutputFacts /\ QueueFacts /\ pq = {}
  BY DEF MergeInv
<1>2. ASSUME NEW m \in 1 .. cnt
      PROVE  LET e == memop_log[m]
             IN  /\ e \in ReaderEntry /\ e.memop + 1 \in AccessesOf(e.tid)
                 /\ e.version = Access(e.tid, e.memop + 1).version
  <2>1. PICK t \in Thread : \E i \in Consumed(t) : memop_log[m] = Merging(t, i)
    BY <1>1, OutputIs
  <2>2. PICK i \in Consumed(t) : memop_log[m] = Merging(t, i)
    BY <2>1
  <2>3. i \in 1 .. Len(sorted[t])
    BY <1>1 DEF Consumed, Queued, QueueFacts
  <2>4. WrittenOut(MemopLog(t), objit, sorted[t]) /\ NamesReads(t, MemopLog(t))
    BY DEF MergeInv, Reordered, MemopLogFacts
  <2>5. PICK w : w = sorted[t][i]
    OBVIOUS
  <2>6. PICK k \in 1 .. Len(MemopLog(t)) - 1 : w = MemopLog(t)[k]
    BY <2>3, <2>4, <2>5 DEF WrittenOut
  <2>7. w.memop + 1 \in AccessesOf(t) /\ Access(t, w.memop + 1).version = w.version
    BY <2>4, <2>6 DEF NamesReads
  <2>8. PICK e : e = memop_log[m] /\ e = [version |-> w.version, memop |-> w.memop, tid |-> t]
    BY <2>2, <2>5 DEF Merging
  <2>9. e.tid = t /\ e.memop = w.memop /\ e.version = w.version
    BY <2>8, SMTT(60)
  <2>10. e \in ReaderEntry
    BY <2>2, <2>3, <2>8, MergingNames
  <2> QED BY <2>7, <2>8, <2>9, <2>10
<1> SUFFICES ASSUME NEW o \in Obj
             PROVE  /\ Segment(o).log \in Nat /\ Segment(o).size \in Nat \cup {-1}
                    /\ \A m \in Nat : InSegment(o, m) =>
                          LET e == memop_log[m]
                          IN  /\ e \in ReaderEntry /\ e.memop + 1 \in AccessesOf(e.tid)
                              /\ e.version = Access(e.tid, e.memop + 1).version
                              /\ Access(e.tid, e.memop + 1).objid = o
                    /\ \A m, n \in Nat : InSegment(o, m) /\ InSegment(o, n) /\ m < n =>
                          memop_log[m].version <= memop_log[n].version
  BY DEF SegmentFacts
<1>3. /\ Segment(o).log \in Nat /\ Segment(o).size \in Nat \cup {-1}
      /\ \A m \in Nat : InSegment(o, m) <=> m \in 1 .. cnt /\ ObjOf(memop_log[m]) = o
  BY SegmentIs
<1>4. ASSUME NEW m \in Nat, InSegment(o, m)
      PROVE  LET e == memop_log[m]
             IN  /\ e \in ReaderEntry /\ e.memop + 1 \in AccessesOf(e.tid)
                 /\ e.version = Access(e.tid, e.memop + 1).version
                 /\ Access(e.tid, e.memop + 1).objid = o
  <2>1. m \in 1 .. cnt /\ ObjOf(memop_log[m]) = o
    BY <1>3, <1>4
  <2> QED BY <1>2, <2>1 DEF ObjOf
<1>5. ASSUME NEW m \in Nat, NEW n \in Nat, InSegment(o, m), InSegment(o, n), m < n
      PROVE  memop_log[m].version <= memop_log[n].version
  <2>1. m \in 1 .. cnt /\ n \in 1 .. cnt /\ ObjOf(memop_log[m]) = o /\ ObjOf(memop_log[n]) = o
    BY <1>3, <1>5
  <2>2. EntryBefore(memop_log[m], memop_log[n])
    BY <1>1, <1>5, <2>1, OutputIs
  <2>3. ~(o < o)
    BY NObjAssumption, SMTT(60) DEF Obj
  <2> QED BY <2>1, <2>2, <2>3 DEF EntryBefore
<1> QED BY <1>3, <1>4, <1>5

LEMMA ReadsHold ==
    ASSUME MemopLogFacts, MergeInv, mpc = "done"
    PROVE  ReadsInSegments
<1> SUFFICES ASSUME NEW t \in Thread, NEW i \in AccessesOf(t), Access(t, i).acc = "R"
             PROVE  \/ \E j \in AccessesOf(t) :
                          i < j /\ Access(t, j).acc = "W" /\ Access(t, j).objid = Access(t, i).objid
                                /\ Access(t, j).version = Access(t, i).version
                    \/ \E m \in Nat : /\ InSegment(Access(t, i).objid, m)
                                      /\ memop_log[m].tid = t /\ memop_log[m].version = Access(t, i).version
                                      /\ memop_log[m].memop >= i - 1
  BY DEF ReadsInSegments
<1>1. PICK a : a = Access(t, i) /\ a \in MemAcc
  BY DEF MemopLogFacts
<1>2. PICK o : o = a.objid /\ o \in Obj /\ o \in Nat
  BY <1>1, NObjAssumption, SMTT(60) DEF MemAcc, Obj
<1>3. PICK log : log = MemopLog(t)
  OBVIOUS
<1>4. ReadNamed(t, i, log)
  BY <1>3 DEF MemopLogFacts
<1>5. CASE \E j \in AccessesOf(t) :
               i < j /\ Access(t, j).acc = "W" /\ Access(t, j).objid = Access(t, i).objid
                     /\ Access(t, j).version = Access(t, i).version
  BY <1>5
<1>6. CASE \E k \in 1 .. Len(log) : log[k].objid = Access(t, i).objid
               /\ log[k].version = Access(t, i).version /\ log[k].memop >= i - 1
  <2>2. PICK k \in 1 .. Len(log) : log[k].objid = o /\ log[k].version = a.version /\ log[k].memop >= i - 1
    BY <1>1, <1>2, <1>6
  <2>3. Closes(log) /\ Len(log) \in Nat /\ log[Len(log)].objid = -1
    BY <1>3 DEF MemopLogFacts, Closes
  <2>4. k \in 1 .. Len(log) - 1
    <3>1. k # Len(log)
      BY <1>2, <2>2, <2>3, SMTT(60)
    <3> QED BY <2>3, <3>1, SMTT(60)
  <2>5. OutputFacts /\ QueueFacts /\ pq = {} /\ objit = NObj /\ WrittenOut(log, objit, sorted[t])
    BY <1>3 DEF MergeInv, Reordered
  <2>6. log[k].objid < objit
    BY <1>2, <2>2, <2>5, NObjAssumption, SMTT(60) DEF Obj
  <2>7. Within(log[k], sorted[t])
    BY <2>4, <2>5, <2>6 DEF WrittenOut
  <2>8. PICK n \in 1 .. Len(sorted[t]) : sorted[t][n] = log[k]
    BY <2>7 DEF Within
  <2>9. n \in Consumed(t)
    BY <2>5 DEF Consumed, Queued, QueueFacts
  <2>10. PICK e : e = Merging(t, n)
    OBVIOUS
  <2>11. Within(e, memop_log) /\ cnt = Len(memop_log)
    BY <2>5, <2>9, <2>10 DEF OutputFacts
  <2>12. PICK m \in 1 .. cnt : memop_log[m] = e
    BY <2>11 DEF Within
  <2>13. PICK w : w = log[k] /\ e = [version |-> w.version, memop |-> w.memop, tid |-> t]
    BY <2>8, <2>10 DEF Merging
  <2>14. e.tid = t /\ e.memop = w.memop /\ e.version = w.version
    BY <2>13
  <2>15. ObjOf(e) = o
    BY <2>2, <2>8, <2>10, MergingNames
  <2>16. m \in Nat
    BY SMTT(60)
  <2>17. InSegment(o, m)
    BY <1>2, <2>12, <2>15, <2>16, SegmentIs
  <2>18. memop_log[m].tid = t /\ memop_log[m].version = a.version /\ memop_log[m].memop >= i - 1
    BY <2>2, <2>12, <2>13, <2>14
  <2> QED BY <1>1, <1>2, <2>16, <2>17, <2>18
<1> QED BY <1>4, <1>5, <1>6 DEF ReadNamed

LEMMA MergedHolds ==
    ASSUME MemopLogFacts, MergeInv, mpc = "done"
    PROVE  Merged
BY SegmentsHold, ReadsHold DEF Merged

-----------------------------------------------------------------------------
(* The whole procedure                                                     *)
LEMMA MergeStays ==
    ASSUME MergeInv, RecordingStays, UNCHANGED mergeVars
    PROVE  MergeInv'
<1>1. /\ RecordingStays /\ ReorderStays /\ UNCHANGED <<buf, pq, memop_log, cnt>>
      /\ UNCHANGED <<indexbuf, prev_id, prev_cnt, mpc>> /\ access_log' = access_log
  BY DEF mergeVars, reorderVars, RecordingStays, ReorderStays
<1>2. Reordered'
  BY <1>1, StaysIs DEF MergeInv, Reordered, ReorderStays
<1>3. OutputFacts => OutputFacts'
  BY <1>1, OutputStays
<1>4. Objects' = Objects
  BY <1>1 DEF Objects, ObjOf, Access
<1>5. IndexFacts => IndexFacts'
  BY <1>1, <1>4 DEF IndexFacts
<1>6. IndexDone => IndexDone'
  BY <1>1, <1>4 DEF IndexDone
<1>7. QueueFacts => QueueFacts'
  BY <1>1 DEF ReorderStays, QueueFacts, Queued
<1>8. NotMerging => NotMerging'
  BY <1>1 DEF NotMerging
<1>9. /\ wmlog' = wmlog /\ all' = all /\ objit' = objit /\ sorted' = sorted /\ buf' = buf
      /\ pq' = pq /\ mpc' = mpc
  BY <1>1 DEF ReorderStays
<1> QED BY <1>2, <1>3, <1>5, <1>6, <1>7, <1>8, <1>9 DEF MergeInv

LEMMA MergeStarts ==
    ASSUME MemopLogFacts, MergeInit
    PROVE  MergeInv
<1>1. /\ wmlog = [t \in Thread |-> 0] /\ all = [t \in Thread |-> [o \in Obj |-> << >>]]
      /\ objit = 0 /\ sorted = [t \in Thread |-> << >>] /\ mpc = "load"
      /\ buf = [t \in Thread |-> 0]
  BY DEF MergeInit, Obj, Obj
<1>2. NotMerging
  BY DEF MergeInit, NotMerging
<1>3. << >> \in Seq(WaitMemop) /\ Len(<< >>) = 0 /\ \A i : ~(i \in 1 .. 0)
  BY SMTT(60)
<1>4. /\ all \in [Thread -> [Obj -> Seq(WaitMemop)]] /\ sorted \in [Thread -> Seq(WaitMemop)]
      /\ wmlog \in [Thread -> Nat] /\ buf \in [Thread -> Nat]
  BY <1>1, <1>3
<1>5. ASSUME NEW t \in Thread
      PROVE  ReadIn(MemopLog(t), wmlog[t], all[t]) /\ WrittenOut(MemopLog(t), objit, sorted[t])
  <2>1. PICK log : log = MemopLog(t) /\ Closes(log)
    BY DEF MemopLogFacts
  <2>2. 0 \in 0 .. Len(log) - 1
    BY <2>1, SMTT(60) DEF Closes
  <2>3. wmlog[t] = 0 /\ sorted[t] = << >> /\ all[t] \in [Obj -> Seq(WaitMemop)]
        /\ \A o \in Obj : all[t][o] = << >>
    BY <1>1, <1>4
  <2>4. \A o \in Obj : Kept(log, 0, o, << >>)
    BY <1>3 DEF Kept
  <2>5. ReadIn(log, 0, all[t])
    BY <1>3, <2>2, <2>3, <2>4 DEF ReadIn
  <2>6. ASSUME NEW k \in 1 .. Len(log) - 1 PROVE ~(log[k].objid < 0)
    <3>1. log[k] \in WaitMemop
      BY <2>1 DEF Closes
    <3> QED BY <3>1, NObjAssumption, SMTT(60) DEF WaitMemop, Obj
  <2>7. WrittenOut(log, 0, << >>)
    BY <1>3, <2>6 DEF WrittenOut
  <2> QED BY <1>1, <2>1, <2>3, <2>5, <2>7
<1>6. Reordered
  BY <1>1, <1>5 DEF Reordered
<1> QED BY <1>1, <1>2, <1>4, <1>6 DEF MergeInv

LEMMA ProcessKeeps ==
    ASSUME MemopLogFacts, MergeInv, RecordingStays, MergeNext
    PROVE  MergeInv' /\ mpc # "done"
<1>1. \/ load_wait_memop_log \/ write_out_memop_log \/ enqueue_first
      \/ merge_top \/ merge_end
  BY DEF MergeNext
<1>2. mpc # "done"
  BY <1>1 DEF load_wait_memop_log, write_out_memop_log, enqueue_first,
              merge_top, merge_end
<1> QED BY <1>1, <1>2, LoadKeeps, WriteOutKeeps, EnqueueKeeps, MergeTopKeeps, MergeEndKeeps
-----------------------------------------------------------------------------
(* The merged log, object by object                                        *)

(* A sequence without repetitions is as long as its range has elements.    *)
Enumerates(f, n, R) ==
    /\ \A i \in 1 .. n : f[i] \in R
    /\ \A e \in R : \E i \in 1 .. n : f[i] = e
    /\ \A i, j \in 1 .. n : f[i] = f[j] => i = j

LEMMA LenIsCardinality ==
    ASSUME NEW n \in Nat, NEW f, NEW R, Enumerates(f, n, R)
    PROVE  IsFiniteSet(R) /\ Cardinality(R) = n
<1> USE DEF Enumerates
<1>1. PICK g : g = [i \in 1 .. n |-> f[i]]
  OBVIOUS
<1>2. g \in [1 .. n -> R] /\ \A i \in 1 .. n : g[i] = f[i]
  BY <1>1
<1>3. g \in Injection(1 .. n, R)
  BY <1>2 DEF Injection, IsInjective
<1>4. g \in Surjection(1 .. n, R)
  BY <1>2 DEF Surjection
<1>5. ExistsBijection(1 .. n, R)
  BY <1>3, <1>4 DEF ExistsBijection, Bijection
<1>6. IsFiniteSet(R)
  BY <1>5, FS_NatBijection
<1> QED BY <1>5, <1>6, FS_CountingElements

LEMMA CutIs ==
    ASSUME NEW S, NEW s \in Seq(S), NEW first \in Nat, NEW size \in Nat, first + size <= Len(s),
           NEW r, r = SubSeq(s, first + 1, first + size)
    PROVE  /\ r \in Seq(S) /\ Len(r) = size /\ DOMAIN r = 1 .. size
           /\ \A i \in 1 .. size : r[i] = s[first + i]
<1>1. r \in Seq(S)
  BY SMTT(60)
<1>2. Len(r) = size
  BY SMTT(60)
<1>3. DOMAIN r = 1 .. size
  BY <1>1, <1>2, SMTT(60)
<1>4. ASSUME NEW i \in 1 .. size PROVE r[i] = s[first + i]
  BY SMTT(60)
<1> QED BY <1>1, <1>2, <1>3, <1>4

(* The segment of an object as a sequence                                  *)
IsCut(log, first, size) ==
    /\ first \in Nat /\ size \in Nat /\ first + size <= cnt
    /\ log \in Seq(ReaderEntry) /\ Len(log) = size /\ DOMAIN log = 1 .. size
    /\ \A i \in 1 .. size : log[i] = memop_log[first + i]

LEMMA IndexedLogIs ==
    ASSUME MergeInv, mpc = "done", NEW o \in Obj, NEW log, log = IndexedLog(o)
    PROVE  \E first, size : /\ IsCut(log, first, size)
                            /\ \A m \in 1 .. cnt : ObjOf(memop_log[m]) = o <=> first < m /\ m <= first + size
<1>1. OutputFacts /\ IndexDone
  BY DEF MergeInv
<1>2. memop_log \in Seq(ReaderEntry) /\ cnt = Len(memop_log) /\ cnt \in Nat
  BY <1>1, SMTT(60) DEF OutputFacts
<1>3. PICK first, size : first = indexbuf[2 * o + 1] /\ size = indexbuf[2 * o + 2]
  OBVIOUS
<1>4. ASSUME log = << >>, \A m \in 1 .. cnt : ObjOf(memop_log[m]) # o
      PROVE  /\ IsCut(log, 0, 0)
             /\ \A m \in 1 .. cnt : ObjOf(memop_log[m]) = o <=> 0 < m /\ m <= 0 + 0
  <2>1. << >> \in Seq(ReaderEntry) /\ Len(<< >>) = 0 /\ DOMAIN << >> = 1 .. 0
    BY SMTT(60)
  <2> QED BY <1>2, <1>4, <2>1, SMTT(60) DEF IsCut
<1>5. CASE memop_log = << >>
  <2>1. cnt = 0
    BY <1>2, <1>5
  <2>2. log = << >>
    BY <1>5 DEF IndexedLog
  <2> QED BY <1>4, <2>1, <2>2, SMTT(60)
<1>6. CASE memop_log # << >>
  <2>1. cnt # 0
    <3>1. PICK S, s : S = ReaderEntry /\ s = memop_log
      OBVIOUS
    <3>2. s \in Seq(S) /\ s # << >>
      BY <1>2, <1>6, <3>1
    <3>3. Len(s) # 0
      BY ONLY <3>2, SMTT(60)
    <3> QED BY <1>2, <3>1, <3>3
  <2>2. o < NObj
    BY NObjAssumption, SMTT(60) DEF Obj
  <2>3. PairIs(Objects, cnt, o, first, size)
    BY <1>1, <1>3, <2>1, <2>2 DEF IndexDone, PairsIn
  <2>4. PICK at : at = Objects /\ \A m \in 1 .. cnt : at[m] = ObjOf(memop_log[m])
    <3>1. \A m \in 1 .. cnt : Objects[m] = ObjOf(memop_log[m])
      BY DEF Objects
    <3> QED BY <3>1
  <2>5. CASE first = -1 /\ size = 0 /\ \A m \in 1 .. cnt : at[m] # o
    <3>1. log = << >>
      BY <1>3, <2>5 DEF IndexedLog
    <3> QED BY <1>4, <2>4, <2>5, <3>1
  <2>6. CASE /\ first \in Nat /\ size \in Nat \ {0} /\ first + size <= cnt
             /\ \A m \in 1 .. cnt : at[m] = o <=> first < m /\ m <= first + size
    <3>1. first # -1
      BY <2>6, SMTT(60)
    <3>2. log = SubSeq(memop_log, first + 1, first + size)
      BY <1>3, <1>6, <3>1 DEF IndexedLog
    <3>3. IsCut(log, first, size)
      BY <1>2, <2>6, <3>2, CutIs, SMTT(60) DEF IsCut
    <3> QED BY <2>4, <2>6, <3>3
  <2> QED BY <2>3, <2>4, <2>5, <2>6 DEF PairIs
<1> QED BY <1>5, <1>6

(* The reads logged are the entries merged.                                *)
Logged(t, k, e) == e = [version |-> MemopLog(t)[k].version, memop |-> MemopLog(t)[k].memop, tid |-> t]

LEMMA RangeIs ==
    ASSUME NEW log, DOMAIN log = 1 .. Len(log), NEW d
    PROVE  d \in Range(log) <=> \E k \in 1 .. Len(log) : d = log[k]
BY DEF Range

LEMMA LoggedIs ==
    ASSUME MemopLogFacts, NEW o \in Obj, NEW e
    PROVE  e \in LoggedReads(o) <=>
               \E t \in Thread : \E k \in 1 .. Len(MemopLog(t)) : MemopLog(t)[k].objid = o /\ Logged(t, k, e)
<1>1. \A t \in Thread : DOMAIN MemopLog(t) = 1 .. Len(MemopLog(t))
  BY SMTT(60) DEF MemopLogFacts, MemopLogs
<1>2. \A t \in Thread : wait_memop[t] = MemopLog(t)
  BY DEF MemopLog
<1>3. \A t \in Thread : \A d : d \in Range(MemopLog(t)) <=>
                                   \E k \in 1 .. Len(MemopLog(t)) : d = MemopLog(t)[k]
  BY <1>1, RangeIs
<1>4. e \in LoggedReads(o) <=>
          \E t \in Thread : \E d \in Range(wait_memop[t]) :
              d.objid = o /\ e = [version |-> d.version, memop |-> d.memop, tid |-> t]
  BY SMTT(60) DEF LoggedReads
<1>5. e \in LoggedReads(o) <=>
          \E t \in Thread : \E d \in Range(MemopLog(t)) :
              d.objid = o /\ e = [version |-> d.version, memop |-> d.memop, tid |-> t]
  BY <1>2, <1>4
<1>6. ASSUME NEW t \in Thread
      PROVE  (\E d \in Range(MemopLog(t)) :
                  d.objid = o /\ e = [version |-> d.version, memop |-> d.memop, tid |-> t])
             <=> \E k \in 1 .. Len(MemopLog(t)) : MemopLog(t)[k].objid = o /\ Logged(t, k, e)
  <2>1. ASSUME NEW d \in Range(MemopLog(t)), d.objid = o,
               e = [version |-> d.version, memop |-> d.memop, tid |-> t]
        PROVE  \E k \in 1 .. Len(MemopLog(t)) : MemopLog(t)[k].objid = o /\ Logged(t, k, e)
    <3>1. PICK k \in 1 .. Len(MemopLog(t)) : d = MemopLog(t)[k]
      BY <1>3
    <3> QED BY <2>1, <3>1 DEF Logged
  <2>2. ASSUME NEW k \in 1 .. Len(MemopLog(t)), MemopLog(t)[k].objid = o, Logged(t, k, e)
        PROVE  \E d \in Range(MemopLog(t)) :
                  d.objid = o /\ e = [version |-> d.version, memop |-> d.memop, tid |-> t]
    <3>1. MemopLog(t)[k] \in Range(MemopLog(t))
      BY <1>3
    <3> QED BY <2>2, <3>1 DEF Logged
  <2> QED BY <2>1, <2>2
<1> QED BY <1>5, <1>6

LEMMA LoggedIsMerged ==
    ASSUME MemopLogFacts, MergeInv, mpc = "done", NEW o \in Obj, NEW e
    PROVE  e \in LoggedReads(o) <=> ObjOf(e) = o /\ \E m \in 1 .. cnt : memop_log[m] = e
<1>1. OutputFacts /\ QueueFacts /\ pq = {} /\ objit = NObj /\ cnt = Len(memop_log)
  BY DEF MergeInv, OutputFacts
<1>2. \A t \in Thread : Consumed(t) = 1 .. Len(sorted[t])
  BY <1>1 DEF Consumed, Queued, QueueFacts
<1>3. \A t \in Thread : WrittenOut(MemopLog(t), objit, sorted[t]) /\ Closes(MemopLog(t))
  BY DEF MergeInv, Reordered, MemopLogFacts
<1>4. o < NObj /\ o # -1
  BY NObjAssumption, SMTT(60) DEF Obj
<1>5. ASSUME e \in LoggedReads(o)
      PROVE  ObjOf(e) = o /\ \E m \in 1 .. cnt : memop_log[m] = e
  <2>1. PICK t \in Thread : \E k \in 1 .. Len(MemopLog(t)) : MemopLog(t)[k].objid = o /\ Logged(t, k, e)
    BY <1>5, LoggedIs
  <2>2. PICK k \in 1 .. Len(MemopLog(t)) : MemopLog(t)[k].objid = o /\ Logged(t, k, e)
    BY <2>1
  <2>3. k \in 1 .. Len(MemopLog(t)) - 1
    <3>1. Len(MemopLog(t)) \in Nat /\ MemopLog(t)[Len(MemopLog(t))].objid = -1
      BY <1>3 DEF Closes
    <3> QED BY <1>4, <2>2, <3>1, SMTT(60)
  <2>4. Within(MemopLog(t)[k], sorted[t])
    BY <1>1, <1>3, <1>4, <2>2, <2>3 DEF WrittenOut
  <2>5. PICK i \in 1 .. Len(sorted[t]) : sorted[t][i] = MemopLog(t)[k]
    BY <2>4 DEF Within
  <2>6. e = Merging(t, i)
    BY <2>2, <2>5 DEF Merging, Logged
  <2>7. Within(e, memop_log)
    BY <1>1, <1>2, <2>6 DEF OutputFacts
  <2>8. ObjOf(e) = o
    BY <2>2, <2>5, <2>6, MergingNames
  <2> QED BY <1>1, <2>7, <2>8 DEF Within
<1>6. ASSUME ObjOf(e) = o, NEW m \in 1 .. cnt, memop_log[m] = e
      PROVE  e \in LoggedReads(o)
  <2>1. PICK t \in Thread : \E i \in Consumed(t) : memop_log[m] = Merging(t, i)
    BY <1>1, OutputIs
  <2>2. PICK i \in 1 .. Len(sorted[t]) : e = Merging(t, i)
    BY <1>2, <1>6, <2>1
  <2>3. PICK k \in 1 .. Len(MemopLog(t)) - 1 : sorted[t][i] = MemopLog(t)[k]
    BY <1>3 DEF WrittenOut
  <2>4. MemopLog(t)[k].objid = o
    BY <1>6, <2>2, <2>3, MergingNames
  <2>5. k \in 1 .. Len(MemopLog(t)) /\ Logged(t, k, e)
    <3>1. Len(MemopLog(t)) \in Nat
      BY <1>3 DEF Closes
    <3>2. k \in 1 .. Len(MemopLog(t))
      BY <3>1, SMTT(60)
    <3> QED BY <2>2, <2>3, <3>2 DEF Merging, Logged
  <2> QED BY <2>4, <2>5, LoggedIs
<1> QED BY <1>5, <1>6

LEMMA MergeExact ==
    ASSUME MemopLogFacts, MergeInv, mpc = "done", NEW o \in Obj, NEW log, log = IndexedLog(o)
    PROVE  /\ Range(log) = LoggedReads(o)
           /\ Len(log) = Cardinality(LoggedReads(o))
           /\ \A i, j \in 1 .. Len(log) : i < j => log[i].version <= log[j].version
<1>1. OutputFacts /\ cnt \in Nat
  <2>1. OutputFacts
    BY DEF MergeInv
  <2> QED BY <2>1, SMTT(60) DEF OutputFacts
<1>2. PICK first, size :
          /\ IsCut(log, first, size)
          /\ \A m \in 1 .. cnt : ObjOf(memop_log[m]) = o <=> first < m /\ m <= first + size
  BY IndexedLogIs
<1>3. /\ first \in Nat /\ size \in Nat /\ first + size <= cnt /\ Len(log) = size /\ DOMAIN log = 1 .. Len(log)
      /\ \A i \in 1 .. size : log[i] = memop_log[first + i]
  BY <1>2 DEF IsCut
<1>4. ASSUME NEW i \in 1 .. size
      PROVE  first + i \in 1 .. cnt /\ first < first + i /\ first + i <= first + size
  BY <1>1, <1>3, SMTT(60)
<1>5. ASSUME NEW i \in 1 .. size
      PROVE  ObjOf(log[i]) = o /\ \E m \in 1 .. cnt : memop_log[m] = log[i]
  <2>1. PICK m : m = first + i
    OBVIOUS
  <2>2. m \in 1 .. cnt /\ first < m /\ m <= first + size
    BY <1>4, <2>1
  <2>3. ObjOf(memop_log[m]) = o
    BY <1>2, <2>2
  <2> QED BY <1>3, <2>1, <2>2, <2>3
<1>6. \A i \in 1 .. size : log[i] \in LoggedReads(o)
  BY <1>5, LoggedIsMerged
<1>7. ASSUME NEW e \in LoggedReads(o) PROVE \E i \in 1 .. size : log[i] = e
  <2>1. PICK m \in 1 .. cnt : memop_log[m] = e /\ ObjOf(e) = o
    BY <1>1, LoggedIsMerged
  <2>2. first < m /\ m <= first + size
    BY <1>2, <2>1
  <2>3. m - first \in 1 .. size /\ first + (m - first) = m
    BY <1>1, <1>3, <2>2, SMTT(60)
  <2> QED BY <1>3, <2>1, <2>3
<1>8. ASSUME NEW i \in 1 .. size, NEW j \in 1 .. size, i < j
      PROVE  log[i] # log[j] /\ log[i].version <= log[j].version
  <2>1. first + i < first + j
    BY <1>3, <1>8, SMTT(60)
  <2>2. log[i] # log[j] /\ EntryBefore(log[i], log[j])
    <3>1. first + i \in 1 .. cnt /\ first + j \in 1 .. cnt
      BY <1>4
    <3>2. memop_log[first + i] # memop_log[first + j] /\ EntryBefore(memop_log[first + i], memop_log[first + j])
      BY <1>1, <2>1, <3>1, OutputIs
    <3> QED BY <1>3, <3>2
  <2>3. ~(o < o)
    BY NObjAssumption, SMTT(60) DEF Obj
  <2> QED BY <1>5, <2>2, <2>3 DEF EntryBefore
<1>9. \A i, j \in 1 .. size : log[i] = log[j] => i = j
  <2>1. ASSUME NEW i \in 1 .. size, NEW j \in 1 .. size, i # j PROVE i < j \/ j < i
    BY <1>3, <2>1, SMTT(60)
  <2> QED BY <1>8, <2>1
<1>10. Cardinality(LoggedReads(o)) = size
  <2>1. Enumerates(log, size, LoggedReads(o))
    BY <1>6, <1>7, <1>9 DEF Enumerates
  <2> QED BY <1>3, <2>1, LenIsCardinality
<1>11. \A e : e \in Range(log) <=> \E i \in 1 .. size : e = log[i]
  BY <1>3, RangeIs, SMTT(60)
<1>12. \A e : e \in Range(log) <=> e \in LoggedReads(o)
  <2>1. ASSUME NEW e \in LoggedReads(o) PROVE e \in Range(log)
    BY <1>7, <1>11
  <2>2. ASSUME NEW e \in Range(log) PROVE e \in LoggedReads(o)
    <3>1. PICK i \in 1 .. size : e = log[i]
      BY <1>11
    <3> QED BY <1>6, <3>1
  <2> QED BY <2>1, <2>2
<1>13. Range(log) = LoggedReads(o)
  BY <1>12
<1> QED BY <1>3, <1>8, <1>10, <1>13

(* The sizes of the output files                                           *)
Slots == UNION {{t} \X (1 .. Len(sorted[t])) : t \in Thread}

LEMMA SlotsAre ==
    /\ \A t \in Thread : \A i \in 1 .. Len(sorted[t]) : <<t, i>> \in Slots
    /\ \A p \in Slots : p[1] \in Thread /\ p[2] \in 1 .. Len(sorted[p[1]]) /\ p = <<p[1], p[2]>>
BY SMTT(60) DEF Slots

(* An entry merged is the entry of one slot.                               *)
LEMMA SlotsDiffer ==
    ASSUME MemopLogFacts, MergeInv, NEW t \in Thread, NEW u \in Thread,
           NEW i \in 1 .. Len(sorted[t]), NEW j \in 1 .. Len(sorted[u]), Merging(t, i) = Merging(u, j)
    PROVE  t = u /\ i = j
<1>1. PICK v, w : v = sorted[t][i] /\ w = sorted[u][j]
  OBVIOUS
<1>2. PICK a, b : /\ a = [version |-> v.version, memop |-> v.memop, tid |-> t]
                  /\ b = [version |-> w.version, memop |-> w.memop, tid |-> u] /\ a = b
  BY <1>1 DEF Merging
<1>3. v.version = w.version /\ t = u
  BY <1>2, SMTT(60)
<1>4. v.objid = w.objid
  BY <1>1, MergingNames
<1>5. v.version \in Nat /\ v.objid \in Nat
  BY <1>1, MergingNames, NObjAssumption, SMTT(60) DEF WaitMemop, Obj
<1>6. WrittenOut(MemopLog(t), objit, sorted[t]) /\ Len(sorted[t]) \in Nat
  BY SMTT(60) DEF MergeInv, Reordered
<1>7. ~Precedes(v, w) /\ ~Precedes(w, v)
  BY <1>3, <1>4, <1>5, SMTT(60) DEF Precedes
<1>8. ~(i < j) /\ ~(j < i)
  BY <1>1, <1>3, <1>6, <1>7 DEF WrittenOut
<1>9. i \in Nat /\ j \in Nat
  BY <1>3, <1>6, SMTT(60)
<1> QED BY <1>3, <1>8, <1>9, SMTT(60)

LEMMA FiniteSlots ==
    ASSUME sorted \in [Thread -> Seq(WaitMemop)]
    PROVE  IsFiniteSet(Slots)
<1>1. ASSUME NEW t \in Thread PROVE IsFiniteSet({t} \X (1 .. Len(sorted[t])))
  <2>1. Len(sorted[t]) \in Nat
    BY SMTT(60)
  <2>2. PICK n \in Nat : n = Len(sorted[t])
    BY <2>1
  <2>3. IsFiniteSet(1 .. n)
    BY FS_Interval, SMTT(60)
  <2>4. IsFiniteSet({t})
    BY FS_Singleton
  <2>5. IsFiniteSet({t} \X (1 .. n))
    BY <2>3, <2>4, FS_Product
  <2> QED BY <2>2, <2>5
<1>2. IsFiniteSet({{t} \X (1 .. Len(sorted[t])) : t \in Thread})
  <2>1. PICK S : S = {{t} \X (1 .. Len(sorted[t])) : t \in Thread}
    OBVIOUS
  <2>2. [t \in Thread |-> {t} \X (1 .. Len(sorted[t]))] \in Surjection(Thread, S)
    BY <2>1 DEF Surjection
  <2>3. IsFiniteSet(S)
    BY <2>2, ThreadAssumption, FS_Surjection
  <2> QED BY <2>1, <2>3
<1> QED BY <1>1, <1>2, FS_UNION DEF Slots

(* Where merge-memop is: the queue and the output, once there is one       *)
LEMMA MergeParts ==
    ASSUME MergeInv
    PROVE  \/ NotMerging /\ mpc \in {"load", "write", "enqueue"} /\ objit \in 0 .. NObj
           \/ mpc = "merge" /\ objit = NObj /\ QueueFacts /\ OutputFacts /\ IndexFacts
           \/ mpc = "done" /\ objit = NObj /\ pq = {} /\ QueueFacts /\ OutputFacts /\ IndexDone
<1>1. 0 \in 0 .. NObj /\ NObj \in 0 .. NObj /\ \A o \in Obj : o \in 0 .. NObj
  BY NObjAssumption, SMTT(60) DEF Obj
<1> QED BY <1>1 DEF MergeInv

LEMMA ConsumedIs ==
    ASSUME sorted \in [Thread -> Seq(WaitMemop)], QueueFacts, NEW t \in Thread
    PROVE  /\ Len(sorted[t]) \in Nat /\ buf[t] \in 0 .. Len(sorted[t])
           /\ Consumed(t) \subseteq 1 .. Len(sorted[t])
<1>1. Len(sorted[t]) \in Nat /\ buf[t] \in 0 .. Len(sorted[t])
  BY SMTT(60) DEF QueueFacts
<1> QED BY <1>1, SMTT(60) DEF Consumed

LEMMA IntervalIs ==
    ASSUME NEW n \in Nat
    PROVE  IsFiniteSet(1 .. n) /\ Cardinality(1 .. n) = n
<1>1. IsFiniteSet(1 .. n)
  BY FS_Interval, SMTT(60)
<1>2. Cardinality(1 .. n) = n
  BY FS_Interval, SMTT(60)
<1> QED BY <1>1, <1>2

LEMMA LogFits ==
    ASSUME sorted \in [Thread -> Seq(WaitMemop)], QueueFacts, OutputFacts
    PROVE  cnt <= Cardinality(Slots)
<1>1. cnt \in Nat
  BY SMTT(60) DEF OutputFacts
<1>2. \A m \in 1 .. cnt : \E p \in Slots : memop_log[m] = Merging(p[1], p[2])
  <2> SUFFICES ASSUME NEW m \in 1 .. cnt PROVE \E p \in Slots : memop_log[m] = Merging(p[1], p[2])
    OBVIOUS
  <2>1. PICK t \in Thread : \E i \in Consumed(t) : memop_log[m] = Merging(t, i)
    BY OutputIs
  <2>2. PICK i \in 1 .. Len(sorted[t]) : memop_log[m] = Merging(t, i)
    BY <2>1, ConsumedIs
  <2>3. <<t, i>> \in Slots
    BY SlotsAre
  <2>4. <<t, i>>[1] = t /\ <<t, i>>[2] = i
    OBVIOUS
  <2> QED BY <2>2, <2>3, <2>4
<1>3. PICK f : f = [m \in 1 .. cnt |-> CHOOSE p \in Slots : memop_log[m] = Merging(p[1], p[2])]
  OBVIOUS
<1>4. \A m \in 1 .. cnt : f[m] \in Slots /\ memop_log[m] = Merging(f[m][1], f[m][2])
  BY <1>2, <1>3
<1>5. f \in [1 .. cnt -> Slots] /\ DOMAIN f = 1 .. cnt
  BY <1>3, <1>4
<1>6. ASSUME NEW m \in 1 .. cnt, NEW n \in 1 .. cnt, f[m] = f[n] PROVE m = n
  <2>1. memop_log[m] = memop_log[n]
    BY <1>4, <1>6
  <2>2. ~(m < n) /\ ~(n < m)
    BY <2>1, OutputIs
  <2> QED BY <1>1, <2>2, SMTT(60)
<1>7. f \in Injection(1 .. cnt, Slots)
  BY <1>5, <1>6 DEF Injection, IsInjective
<1>8. Cardinality(1 .. cnt) <= Cardinality(Slots)
  BY <1>7, FiniteSlots, FS_Injection
<1>9. Cardinality(1 .. cnt) = cnt
  BY <1>1, IntervalIs
<1> QED BY <1>8, <1>9

LEMMA LogFull ==
    ASSUME MemopLogFacts, MergeInv, mpc = "done"
    PROVE  Cardinality(Slots) <= cnt
<1>1. OutputFacts /\ QueueFacts /\ pq = {} /\ sorted \in [Thread -> Seq(WaitMemop)]
  BY DEF MergeInv
<1>2. cnt \in Nat /\ cnt = Len(memop_log)
  BY <1>1, SMTT(60) DEF OutputFacts
<1>3. \A t \in Thread : Consumed(t) = 1 .. Len(sorted[t])
  BY <1>1 DEF Consumed, Queued, QueueFacts
<1>4. \A p \in Slots : \E m \in 1 .. cnt : memop_log[m] = Merging(p[1], p[2])
  <2> SUFFICES ASSUME NEW p \in Slots PROVE \E m \in 1 .. cnt : memop_log[m] = Merging(p[1], p[2])
    OBVIOUS
  <2>1. p[1] \in Thread /\ p[2] \in Consumed(p[1])
    BY <1>3, SlotsAre
  <2>2. Within(Merging(p[1], p[2]), memop_log)
    BY <1>1, <2>1 DEF OutputFacts
  <2> QED BY <1>2, <2>2 DEF Within
<1>5. PICK f : f = [p \in Slots |-> CHOOSE m \in 1 .. cnt : memop_log[m] = Merging(p[1], p[2])]
  OBVIOUS
<1>6. \A p \in Slots : f[p] \in 1 .. cnt /\ memop_log[f[p]] = Merging(p[1], p[2])
  BY <1>4, <1>5
<1>7. f \in [Slots -> 1 .. cnt] /\ DOMAIN f = Slots
  BY <1>5, <1>6
<1>8. ASSUME NEW p \in Slots, NEW r \in Slots, f[p] = f[r] PROVE p = r
  <2>1. Merging(p[1], p[2]) = Merging(r[1], r[2])
    BY <1>6, <1>8
  <2>2. /\ p[1] \in Thread /\ p[2] \in 1 .. Len(sorted[p[1]]) /\ p = <<p[1], p[2]>>
        /\ r[1] \in Thread /\ r[2] \in 1 .. Len(sorted[r[1]]) /\ r = <<r[1], r[2]>>
    BY SlotsAre
  <2>3. p[1] = r[1] /\ p[2] = r[2]
    BY <2>1, <2>2, SlotsDiffer, SMTT(60)
  <2> QED BY <2>2, <2>3
<1>9. f \in Injection(Slots, 1 .. cnt)
  BY <1>7, <1>8 DEF Injection, IsInjective
<1>10. IsFiniteSet(1 .. cnt) /\ Cardinality(1 .. cnt) = cnt
  BY <1>2, IntervalIs
<1>11. Cardinality(Slots) <= Cardinality(1 .. cnt)
  BY <1>9, <1>10, FS_Injection
<1> QED BY <1>10, <1>11

LEMMA IndexFits ==
    ASSUME MergeInv
    PROVE  /\ indexbuf \in Seq(IndexInts) /\ prev_id \in Obj \cup {-1} /\ prev_cnt \in Nat
           /\ Len(indexbuf) <= 2 * NObj
           /\ prev_id # -1 => cnt > prev_cnt
<1>1. CASE NotMerging
  <2>1. << >> \in Seq(IndexInts) /\ Len(<< >>) = 0
    BY SMTT(60)
  <2> QED BY <1>1, <2>1, NObjAssumption, SMTT(60) DEF NotMerging
<1>2. CASE OutputFacts /\ IndexFacts
  <2>1. cnt \in Nat
    BY <1>2, SMTT(60) DEF OutputFacts
  <2>2. indexbuf \in Seq(IndexInts) /\ prev_id \in Obj \cup {-1} /\ prev_cnt \in Nat
    BY <1>2 DEF IndexFacts, IndexIs
  <2>3. CASE prev_id = -1
    <3>1. indexbuf = << >> /\ Len(<< >>) = 0
      BY <1>2, <2>3 DEF IndexFacts, IndexIs
    <3> QED BY <2>2, <2>3, <3>1, NObjAssumption, SMTT(60)
  <2>4. CASE prev_id # -1
    <3>1. Len(indexbuf) = 2 * prev_id + 1 /\ prev_cnt < cnt
      BY <1>2, <2>4 DEF IndexFacts, IndexIs
    <3>2. prev_id \in Obj
      BY <2>2, <2>4
    <3> QED BY <2>1, <2>2, <3>1, <3>2, NObjAssumption, SMTT(60) DEF Obj
  <2> QED BY <2>3, <2>4
<1>3. CASE OutputFacts /\ IndexDone
  <2>1. cnt \in Nat
    BY <1>3, SMTT(60) DEF OutputFacts
  <2>2. /\ indexbuf \in Seq(IndexInts) /\ prev_id \in Obj \cup {-1} /\ prev_cnt \in Nat
        /\ prev_id # -1 => prev_cnt < cnt
        /\ indexbuf = << >> \/ Len(indexbuf) = 2 * NObj
    BY <1>3 DEF IndexDone
  <2>3. Len(<< >>) = 0
    OBVIOUS
  <2> QED BY <2>1, <2>2, <2>3, NObjAssumption, SMTT(60)
<1> QED BY <1>1, <1>2, <1>3, MergeParts

LEMMA MergeTyped ==
    ASSUME MemopLogFacts, MergeInv
    PROVE  MergeTypeOK
<1>1. Obj = Obj /\ WaitMemop = WaitMemop /\ Nat \cup {-1} = IndexInts
      /\ [version : Nat, memop : Nat, tid : Thread] = ReaderEntry
  BY DEF Obj, Obj, WaitMemop, WaitMemop, IndexInts, ReaderEntry
<1>2. ASSUME NEW t \in Thread PROVE wmlog[t] < Len(wait_memop[t])
  <2>1. wmlog[t] \in 0 .. Len(MemopLog(t)) - 1 /\ Len(MemopLog(t)) \in Nat
    BY DEF MergeInv, Reordered, ReadIn, MemopLogFacts, Closes
  <2>2. wmlog[t] < Len(MemopLog(t))
    BY <2>1, SMTT(60)
  <2> QED BY <2>2 DEF MemopLog
<1>3. all \in [Thread -> [Obj -> Seq(WaitMemop)]] /\ sorted \in [Thread -> Seq(WaitMemop)]
  BY DEF MergeInv
<1>4. objit \in 0 .. NObj /\ mpc \in {"load", "write", "enqueue", "merge", "done"}
  <2>1. NObj \in 0 .. NObj
    BY NObjAssumption, SMTT(60)
  <2> QED BY <2>1, MergeParts
<1>5. /\ \A t \in Thread : buf[t] \in 0 .. Len(sorted[t])
      /\ \A q \in pq : q.tid \in Thread /\ q.wop \in WaitMemop
      /\ memop_log \in Seq(ReaderEntry) /\ cnt \in Nat
  <2>1. CASE NotMerging
    <3>1. << >> \in Seq(ReaderEntry) /\ \A t \in Thread : Len(sorted[t]) \in Nat
      BY <1>3, SMTT(60)
    <3> QED BY <2>1, <3>1, SMTT(60) DEF NotMerging
  <2>2. CASE QueueFacts /\ OutputFacts
    <3>1. \A t \in Thread : buf[t] \in 0 .. Len(sorted[t])
      BY <1>3, <2>2, ConsumedIs
    <3>2. \A q \in pq : q.tid \in Thread /\ q.wop \in WaitMemop
      BY <2>2 DEF QueueFacts, QueueEntry
    <3>3. memop_log \in Seq(ReaderEntry) /\ cnt \in Nat
      BY <2>2, SMTT(60) DEF OutputFacts
    <3> QED BY <3>1, <3>2, <3>3
  <2> QED BY <2>1, <2>2, MergeParts
<1>6. indexbuf \in Seq(IndexInts) /\ prev_id \in Obj \cup {-1} /\ prev_cnt \in Nat
  BY IndexFits
<1> QED BY <1>1, <1>2, <1>3, <1>4, <1>5, <1>6 DEF MergeTypeOK

LEMMA OutputSized ==
    ASSUME MemopLogFacts, MergeInv
    PROVE  /\ Len(memop_log) <= Cardinality(Slots)
           /\ mpc = "done" /\ Cardinality(Slots) > 0 =>
                  Len(indexbuf) = 2 * NObj /\ Len(memop_log) = Cardinality(Slots)
<1>1. sorted \in [Thread -> Seq(WaitMemop)]
  BY DEF MergeInv
<1>2. PICK total \in Nat : total = Cardinality(Slots)
  BY <1>1, FiniteSlots, FS_CardinalityType
<1>3. CASE NotMerging /\ mpc \in {"load", "write", "enqueue"}
  <2>1. Len(memop_log) = 0
    BY <1>3 DEF NotMerging
  <2> QED BY <1>2, <1>3, <2>1, SMTT(60)
<1>4. CASE QueueFacts /\ OutputFacts
  <2>1. Len(memop_log) = cnt /\ cnt \in Nat
    BY <1>4, SMTT(60) DEF OutputFacts
  <2>2. cnt <= total
    BY <1>1, <1>2, <1>4, LogFits
  <2>3. ASSUME mpc = "done", total > 0 PROVE Len(indexbuf) = 2 * NObj /\ cnt = total
    <3>1. cnt = total
      BY <1>2, <2>1, <2>2, <2>3, LogFull, SMTT(60)
    <3>2. cnt # 0
      BY <2>1, <2>3, <3>1, SMTT(60)
    <3>3. IndexDone
      BY <2>3, MergeParts DEF NotMerging
    <3> QED BY <3>1, <3>2, <3>3 DEF IndexDone
  <2> QED BY <1>2, <2>1, <2>2, <2>3
<1> QED BY <1>3, <1>4, MergeParts

-----------------------------------------------------------------------------
(* In every state of the processing of the logs of a recording: what       *)
(* merge_memop leaves in the index is exactly the reads logged, and        *)
LEMMA ExactHolds ==
    ASSUME MemopLogFacts, mpc = "done" => MergeInv
    PROVE  IndexedLogsExact
<1> SUFFICES ASSUME mpc = "done", NEW o \in Obj
             PROVE  LET log == IndexedLog(o)
                    IN  /\ Range(log) = LoggedReads(o)
                        /\ Len(log) = Cardinality(LoggedReads(o))
                        /\ \A i, j \in 1 .. Len(log) : i < j => log[i].version <= log[j].version
  BY DEF IndexedLogsExact
<1> QED BY MergeExact

(* nothing is written or read past the end of a file.                      *)
LEMMA FitsHold ==
    ASSUME MemopLogFacts, MergeInv
    PROVE  OutputFits
<1>1. /\ MergeTypeOK /\ Len(indexbuf) <= 2 * NObj
      /\ Len(memop_log) <= Cardinality(Slots)
      /\ mpc = "done" /\ Cardinality(Slots) > 0 =>
             Len(indexbuf) = 2 * NObj /\ Len(memop_log) = Cardinality(Slots)
      /\ prev_id # -1 => cnt > prev_cnt
  BY MergeTyped, IndexFits, OutputSized
<1> QED BY <1>1 DEF OutputFits, Slots

-----------------------------------------------------------------------------
(* The log processing alone, of the closed logs of any recording           *)
processVars == <<mergeVars, wait_memop, access_log>>

ProcessingSpec == (MemopLogFacts /\ MergeInit) /\ [][MergeNext /\ RecordingStays]_processVars

LEMMA ProcessingInvariant == ProcessingSpec => [](MemopLogFacts /\ MergeInv)
<1>1. MemopLogFacts /\ MergeInit => MemopLogFacts /\ MergeInv
  BY MergeStarts
<1>2. MemopLogFacts /\ MergeInv /\ [MergeNext /\ RecordingStays]_processVars
          => (MemopLogFacts /\ MergeInv)'
  <2> SUFFICES ASSUME MemopLogFacts, MergeInv, [MergeNext /\ RecordingStays]_processVars
               PROVE  MemopLogFacts' /\ MergeInv'
    OBVIOUS
  <2>1. RecordingStays /\ (MergeNext \/ UNCHANGED mergeVars)
    BY DEF processVars, RecordingStays
  <2>2. MemopLogFacts'
    BY <2>1 DEF RecordingStays, MemopLogFacts, MemopLog, NamesReads, ReadNamed, Access, AccessesOf
  <2>3. MergeInv'
    BY <2>1, ProcessKeeps, MergeStays
  <2> QED BY <2>2, <2>3
<1> QED BY <1>1, <1>2, PTL DEF ProcessingSpec

(* reorder-memop and merge-memop, from the logs of any recording of any    *)
(* number of threads and objects: the index leads replay to exactly the    *)
(* reads logged about an object, each once, by version.                    *)
THEOREM MergedLogIsExact == ProcessingSpec => []IndexedLogsExact
<1>1. MemopLogFacts /\ MergeInv => IndexedLogsExact
  BY ExactHolds
<1> QED BY <1>1, ProcessingInvariant, PTL

(* The files merge-memop creates with their final size are never written   *)
(* past it and are full at the end, no input is read past its end, and the *)
(* assert in merge_memop holds.                                            *)
THEOREM MergedLogFits == ProcessingSpec => []OutputFits
<1>1. MemopLogFacts /\ MergeInv => OutputFits
  BY FitsHold
<1> QED BY <1>1, ProcessingInvariant, PTL
=============================================================================
