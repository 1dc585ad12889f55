---------------------------- MODULE ReplayProof -----------------------------
(***************************************************************************)
(* Proofs about Replay: from the logs of any recording, merged, and for    *)
(* any number of threads, objects and accesses, no assertion of replay     *)
(* fails, and replay repeats the recording access by access.               *)
(***************************************************************************)
EXTENDS Replay, TLAPS

VARIABLES version, mem    \* the versions and the memory the recording ended with

(* A leaf that names no prover is for Zenon.                               *)
USE ZenonT(60)

-----------------------------------------------------------------------------
(* What is known of the logs of a finished recording, access by access     *)
Access(t, i) == access_log[t][i]
AccessesOf(t) == 1 .. Len(access_log[t])

WritesOf(A, o, v) ==
    {w \in UNION {{t} \X (1 .. Len(A[t])) : t \in Thread} :
        LET e == A[w[1]][w[2]] IN e.acc = "W" /\ e.objid = o /\ e.version = v}

StoredIn(A, o, v) ==
    IF v = 0 THEN {InitVal} ELSE {A[w[1]][w[2]].val : w \in WritesOf(A, o, v - 2)}

LogLengths == \A t \in Thread : Len(access_log[t]) \in Nat

AccessFacts ==
    \A t \in Thread : \A i \in AccessesOf(t) :
        LET a == Access(t, i)
        IN  /\ a \in MemAcc /\ a.version % 2 = 0
            /\ a.version <= version[a.objid]
            /\ a.acc = "W" => a.version < version[a.objid] /\ a.val = Value(t, i - 1)

ProgramOrder ==
    \A t \in Thread : \A i, j \in AccessesOf(t) :
        i < j /\ Access(t, i).objid = Access(t, j).objid =>
            /\ Access(t, i).version <= Access(t, j).version
            /\ Access(t, i).acc = "W" => Access(t, i).version < Access(t, j).version

OneWriter ==
    \A t, u \in Thread : \A i \in AccessesOf(t), j \in AccessesOf(u) :
        /\ Access(t, i).acc = "W" /\ Access(u, j).acc = "W"
        /\ Access(t, i).objid = Access(u, j).objid
        /\ Access(t, i).version = Access(u, j).version
        => t = u /\ i = j

EveryVersionWritten ==
    \A o \in Obj : \A n \in Nat :
        n < version[o] /\ n % 2 = 0 =>
            \E t \in Thread : \E i \in AccessesOf(t) :
                Access(t, i).acc = "W" /\ Access(t, i).objid = o /\ Access(t, i).version = n

ValuesStored ==
    /\ \A o \in Obj : version[o] \in Nat /\ version[o] % 2 = 0 /\ {mem[o]} = StoredIn(access_log, o, version[o])
    /\ \A t \in Thread : \A i \in AccessesOf(t) :
          LET a == Access(t, i)
          IN  {a.val} = StoredIn(access_log, a.objid, IF a.acc = "W" THEN a.version + 2 ELSE a.version)

VersionLogFacts ==
    \A t \in Thread :
        LET log == version_log[t]
        IN  /\ Len(log) \in Nat \ {0} /\ log[Len(log)].memop = -1
            /\ \A k \in 1 .. Len(log) - 1 :
                  /\ log[k] \in WaitVersion
                  /\ log[k].memop + 1 \in AccessesOf(t)
                  /\ log[k].version = Access(t, log[k].memop + 1).version
            /\ \A k, j \in 1 .. Len(log) - 1 : k < j => log[k].memop < log[j].memop

VersionKnown ==
    \A t \in Thread : \A i \in AccessesOf(t) :
        \/ \E k \in 1 .. Len(version_log[t]) - 1 : version_log[t][k].memop = i - 1
        \/ Access(t, i).version = 0
        \/ \E j \in AccessesOf(t) :
              j < i /\ Access(t, j).objid = Access(t, i).objid /\ Access(t, j).version = Access(t, i).version

(* and of the merged reader log: the entries of o are those behind         *)
(* Segment(o).log, Segment(o).size of them.                                *)
Segment(o) ==
    IF memop_log = << >> \/ index_log[2 * o + 1] = -1
    THEN [log |-> 0, size |-> -1]
    ELSE [log |-> index_log[2 * o + 1], size |-> index_log[2 * o + 2]]

InSegment(o, m) == Segment(o).log < m /\ m <= Segment(o).log + Segment(o).size

ReaderEntry == [version : Nat, memop : Nat, tid : Thread]

SegmentFacts ==
    \A o \in Obj :
        /\ Segment(o).log \in Nat /\ Segment(o).size \in Nat \cup {-1}
        /\ \A m \in Nat : InSegment(o, m) =>
              LET e == memop_log[m]
              IN  /\ e \in ReaderEntry /\ e.memop + 1 \in AccessesOf(e.tid)
                  /\ e.version = Access(e.tid, e.memop + 1).version
                  /\ Access(e.tid, e.memop + 1).objid = o
        /\ \A m, n \in Nat : InSegment(o, m) /\ InSegment(o, n) /\ m < n =>
              memop_log[m].version <= memop_log[n].version

ReadsInSegments ==
    \A t \in Thread : \A i \in AccessesOf(t) :
        LET a == Access(t, i)
        IN  a.acc = "R" =>
              \/ \E j \in AccessesOf(t) :
                    i < j /\ Access(t, j).acc = "W" /\ Access(t, j).objid = a.objid
                          /\ Access(t, j).version = a.version
              \/ \E m \in Nat : /\ InSegment(a.objid, m)
                                /\ memop_log[m].tid = t /\ memop_log[m].version = a.version
                                /\ memop_log[m].memop >= i - 1

Recorded ==
    /\ LogLengths /\ AccessFacts /\ ProgramOrder /\ OneWriter /\ EveryVersionWritten /\ ValuesStored
    /\ VersionLogFacts /\ VersionKnown

Merged == SegmentFacts /\ ReadsInSegments

-----------------------------------------------------------------------------
(* The invariant of replay                                                 *)
Cur(t) == Access(t, memop_cnt[t] + 1)
AtAccess == {"go", "check", "scan", "reader", "again", "store", "publish"}
WriteLabels == {"scan", "reader", "again", "store", "publish"}
RepLabels == {"call", "assert", "count"} \cup AtAccess

RepTypes ==
    /\ rmem \in [Obj -> Val] /\ obj_version \in [Obj -> Nat] /\ memop_cnt \in [Thread -> Nat]
    /\ wait_version \in [Thread -> [memop : Nat \cup {-1}, version : Int]]
    /\ vbuf \in [Thread -> Nat] /\ wait_reader_log \in [Obj -> ReaderLog]
    /\ rpc \in [Thread -> RepLabels]
    /\ rloc \in [Thread -> [val : Val, log : ReaderEntry \cup {NoReader}]]
    /\ \A t \in Thread :
          /\ memop_cnt[t] <= Len(access_log[t])
          /\ rpc[t] # "call" => memop_cnt[t] < Len(access_log[t])
          /\ rpc[t] = "check" => Cur(t).acc = "R"
          /\ rpc[t] \in WriteLabels => Cur(t).acc = "W"
    /\ \A o \in Obj : obj_version[o] % 2 = 0 /\ obj_version[o] <= version[o]

(* A thread past its version wait is at the recorded version.              *)
AtVersion == \A t \in Thread : rpc[t] \in AtAccess => Cur(t).version = obj_version[Cur(t).objid]

(* What was replayed is of a version reached, or as a write left behind,   *)
Past(t, i) == i <= memop_cnt[t] \/ (i = memop_cnt[t] + 1 /\ rpc[t] = "count")

PastOld ==
    \A t \in Thread : \A i \in AccessesOf(t) :
        Past(t, i) =>
            /\ Access(t, i).version <= obj_version[Access(t, i).objid]
            /\ Access(t, i).acc = "W" => Access(t, i).version < obj_version[Access(t, i).objid]

(* and what is of a version left behind was replayed: a read even when the *)
(* write that leaves it has stored and not yet published.                  *)
Storing(o) == \E t \in Thread : rpc[t] = "publish" /\ Cur(t).objid = o

OldPast ==
    \A t \in Thread : \A i \in AccessesOf(t) :
        LET a == Access(t, i)
        IN  /\ a.version < obj_version[a.objid] => Past(t, i)
            /\ a.acc = "R" /\ (a.version < obj_version[a.objid]
                                \/ (a.version = obj_version[a.objid] /\ Storing(a.objid)))
               => i <= memop_cnt[t]

(* The objects hold what the recording had stored at this version.         *)
Reached(o) == IF Storing(o) THEN obj_version[o] + 2 ELSE obj_version[o]

MemoryAt == \A o \in Obj : {rmem[o]} = StoredIn(access_log, o, Reached(o))

ReadValue == \A t \in Thread : rpc[t] = "check" => rloc[t].val = Cur(t).val

(* The version log is read up to the entry of the next access, or the      *)
(* first after it.                                                         *)
NextMemop(t) == IF rpc[t] \in {"call", "assert"} THEN memop_cnt[t] ELSE memop_cnt[t] + 1

TakenTo(t, next) ==
    LET log == version_log[t]
        taken == vbuf[t]
    IN  /\ taken < Len(log)
        /\ \A k \in 1 .. taken - 1 : log[k].memop < next
        /\ IF wait_version[t].memop = -1
           THEN taken = Len(log) - 1 /\ \A k \in 1 .. taken : log[k].memop < next
           ELSE taken > 0 /\ wait_version[t] = log[taken] /\ next <= wait_version[t].memop

WaitOver(t) ==
    /\ wait_version[t].memop = memop_cnt[t]
    /\ wait_version[t].version <= obj_version[Cur(t).objid]

Cursor == \A t \in Thread : TakenTo(t, NextMemop(t)) /\ (rpc[t] = "assert" => WaitOver(t))

(* The reader log of an object is only scanned by the writer of its        *)
(* version; the entries it has consumed were waited for, but for the one   *)
(* it waits for now; the others are of this version or later ones, and of  *)
(* later ones once the writer found no more.                               *)
MutexHeld ==
    \A o \in Obj : wait_reader_log[o].mutex => \E t \in Thread : rpc[t] = "scan" /\ Cur(t).objid = o

SameLog ==
    \A o \in Obj :
        /\ wait_reader_log[o].log = Segment(o).log /\ wait_reader_log[o].size = Segment(o).size
        /\ wait_reader_log[o].n <= Segment(o).size \/ wait_reader_log[o].n = 0

Waited(e) == memop_cnt[e.tid] > e.memop
NextAt(o) == Segment(o).log + wait_reader_log[o].n + 1

ReadersWaited ==
    \A o \in Obj : \A m \in Nat :
        InSegment(o, m) /\ m < NextAt(o) =>
            \/ Waited(memop_log[m])
            \/ \E t \in Thread : rpc[t] = "reader" /\ Cur(t).objid = o /\ rloc[t].log = memop_log[m]

ReadersLeft ==
    \A o \in Obj : \A m \in Nat :
        InSegment(o, m) /\ NextAt(o) <= m =>
            /\ obj_version[o] <= memop_log[m].version
            /\ \A t \in Thread : rpc[t] \in {"store", "publish"} /\ Cur(t).objid = o =>
                  obj_version[o] < memop_log[m].version

RepInv ==
    /\ RepTypes /\ AtVersion /\ PastOld /\ OldPast /\ MemoryAt /\ ReadValue /\ Cursor
    /\ MutexHeld /\ SameLog /\ ReadersWaited /\ ReadersLeft

-----------------------------------------------------------------------------
(* Replay.  Facts about one state.                                         *)

(* The access a thread is at, read from the recording                      *)
LEMMA CurIsOp ==
    ASSUME NEW t \in Thread
    PROVE  /\ Op(t) = Cur(t)
           /\ MoreAccesses(t) <=> memop_cnt[t] < Len(access_log[t])
BY DEF Op, MoreAccesses, Cur, Access

(* A thread that has an access to make is at an access of the recording.   *)
LEMMA CurIsAccess ==
    ASSUME AccessFacts, RepTypes, NEW t \in Thread, memop_cnt[t] < Len(access_log[t])
    PROVE  /\ memop_cnt[t] \in Nat /\ memop_cnt[t] + 1 \in AccessesOf(t)
           /\ Cur(t) \in MemAcc /\ Cur(t).version % 2 = 0
           /\ Cur(t).version \in Nat /\ Cur(t).objid \in Obj /\ Cur(t).acc \in {"R", "W"}
           /\ Cur(t).acc = "W" => /\ Cur(t).version < version[Cur(t).objid]
                                  /\ Cur(t).val = Value(t, memop_cnt[t])
<1>1. memop_cnt[t] \in Nat
  BY DEF RepTypes
<1>2. PICK n \in Nat : n = memop_cnt[t]
  BY <1>1
<1>3. PICK i \in Nat : i = n + 1
  BY <1>2, SMTT(60)
<1>4. i \in AccessesOf(t) /\ i - 1 = n
  BY <1>2, <1>3, SMTT(60) DEF AccessesOf
<1>5. Access(t, i) = Cur(t)
  BY <1>2, <1>3 DEF Cur
<1>6. /\ Cur(t) \in MemAcc /\ Cur(t).version % 2 = 0
      /\ Cur(t).acc = "W" => /\ Cur(t).version < version[Cur(t).objid]
                             /\ Cur(t).val = Value(t, i - 1)
  BY <1>4, <1>5 DEF AccessFacts
<1>7. Cur(t).version \in Nat /\ Cur(t).objid \in Obj /\ Cur(t).acc \in {"R", "W"}
  BY <1>6 DEF MemAcc
<1> QED BY <1>1, <1>2, <1>3, <1>4, <1>6, <1>7

(* A thread past "call" has an access.                                     *)
LEMMA Busy ==
    ASSUME AccessFacts, RepTypes, NEW t \in Thread, rpc[t] # "call"
    PROVE  /\ memop_cnt[t] < Len(access_log[t])
           /\ memop_cnt[t] \in Nat /\ memop_cnt[t] + 1 \in AccessesOf(t)
           /\ Cur(t) \in MemAcc /\ Cur(t).version % 2 = 0
           /\ Cur(t).version \in Nat /\ Cur(t).objid \in Obj /\ Cur(t).acc \in {"R", "W"}
           /\ Cur(t).acc = "W" => /\ Cur(t).version < version[Cur(t).objid]
                                  /\ Cur(t).val = Value(t, memop_cnt[t])
<1>1. memop_cnt[t] < Len(access_log[t])
  BY DEF RepTypes
<1> QED BY <1>1, CurIsAccess

(* Two threads at a write of the same object are one.                      *)
Writing(t) == rpc[t] \in AtAccess /\ Cur(t).acc = "W"

LEMMA OneWriting ==
    ASSUME AccessFacts, OneWriter, RepTypes, AtVersion,
           NEW t \in Thread, NEW u \in Thread, Writing(t), Writing(u), Cur(t).objid = Cur(u).objid
    PROVE  t = u
<1>1. rpc[t] # "call" /\ rpc[u] # "call"
  BY DEF Writing, AtAccess
<1>2. memop_cnt[t] + 1 \in AccessesOf(t) /\ memop_cnt[u] + 1 \in AccessesOf(u)
  BY <1>1, Busy
<1>3. Cur(t).version = Cur(u).version
  BY DEF AtVersion, Writing
<1> QED BY <1>2, <1>3 DEF OneWriter, Cur, Writing

(* The next access of a thread is of a version its object has not passed,  *)
LEMMA NotPassed ==
    ASSUME AccessFacts, RepTypes, OldPast,
           NEW t \in Thread, memop_cnt[t] < Len(access_log[t]), rpc[t] # "count"
    PROVE  obj_version[Cur(t).objid] <= Cur(t).version
<1>1. /\ memop_cnt[t] \in Nat /\ memop_cnt[t] + 1 \in AccessesOf(t)
      /\ Cur(t).version \in Nat /\ Cur(t).objid \in Obj
  BY CurIsAccess
<1>2. ~Past(t, memop_cnt[t] + 1)
  BY <1>1, SMTT(60) DEF Past
<1>3. ~(Cur(t).version < obj_version[Cur(t).objid])
  BY <1>1, <1>2 DEF OldPast, Cur
<1>4. obj_version[Cur(t).objid] \in Nat
  BY <1>1 DEF RepTypes
<1> QED BY <1>1, <1>3, <1>4, SMTT(60)

(* and while a thread is about to read, no other has stored.               *)
LEMMA ReadAlone ==
    ASSUME AccessFacts, RepTypes, AtVersion, OldPast,
           NEW t \in Thread, rpc[t] \in AtAccess, Cur(t).acc = "R"
    PROVE  ~Storing(Cur(t).objid)
<1>1. rpc[t] # "call"
  BY DEF AtAccess
<1>2. memop_cnt[t] \in Nat /\ memop_cnt[t] + 1 \in AccessesOf(t)
  BY <1>1, Busy
<1>3. ~(memop_cnt[t] + 1 <= memop_cnt[t])
  BY <1>2, SMTT(60)
<1>4. Cur(t).version = obj_version[Cur(t).objid]
  BY DEF AtVersion
<1> QED BY <1>2, <1>3, <1>4 DEF OldPast, Cur

-----------------------------------------------------------------------------
(* The steps of replay, with the recording substituted for its logs        *)
Moves(t, from, to) == rpc[t] = from /\ rpc' = [rpc EXCEPT ![t] = to]

LEMMA StepWaitVersion ==
    ASSUME NEW t \in Thread, wait_object_version(t)
    PROVE  /\ memop_cnt[t] < Len(access_log[t])
           /\ IF memop_cnt[t] = wait_version[t].memop
              THEN obj_version[Cur(t).objid] >= wait_version[t].version /\ Moves(t, "call", "assert")
              ELSE Moves(t, "call", "go")
           /\ UNCHANGED <<rmem, obj_version, memop_cnt, wait_version, vbuf, wait_reader_log, rloc>>
BY CurIsOp DEF wait_object_version, RAt, RGoto, Moves

LEMMA StepAssert ==
    ASSUME NEW t \in Thread, assert_version(t), vbuf \in [Thread -> Nat]
    PROVE  /\ obj_version[Cur(t).objid] = wait_version[t].version
           /\ wait_version' = [wait_version EXCEPT ![t] = next_wait_version(t, vbuf[t])]
           /\ vbuf' = [vbuf EXCEPT ![t] = taken_after(t, vbuf[t])]
           /\ Moves(t, "assert", "go")
           /\ UNCHANGED <<rmem, obj_version, memop_cnt, wait_reader_log, rloc>>
<1>1. vbuf' = [vbuf EXCEPT ![t] = taken_after(t, vbuf[t])]
  BY DEF assert_version
<1> QED BY <1>1, CurIsOp DEF assert_version, RAt, RGoto, Moves

LEMMA StepRead ==
    ASSUME NEW t \in Thread, rep_read(t)
    PROVE  /\ Cur(t).acc = "R" /\ Moves(t, "go", "check")
           /\ rloc' = [rloc EXCEPT ![t].val = rmem[Cur(t).objid]]
           /\ UNCHANGED <<rmem, obj_version, memop_cnt, wait_version, vbuf, wait_reader_log>>
BY CurIsOp DEF rep_read, RAt, RGoto, Moves

LEMMA StepCheck ==
    ASSUME NEW t \in Thread, rep_read_check(t)
    PROVE  /\ Moves(t, "check", "count")
           /\ UNCHANGED <<rmem, obj_version, memop_cnt, wait_version, vbuf, wait_reader_log, rloc>>
BY DEF rep_read_check, RAt, RGoto, Moves

LEMMA StepCount ==
    ASSUME NEW t \in Thread, count_memop(t), memop_cnt \in [Thread -> Nat]
    PROVE  /\ Moves(t, "count", "call")
           /\ memop_cnt' = [memop_cnt EXCEPT ![t] = memop_cnt[t] + 1]
           /\ UNCHANGED <<rmem, obj_version, wait_version, vbuf, wait_reader_log, rloc>>
BY DEF count_memop, RAt, RGoto, Moves

LEMMA StepTrylock ==
    ASSUME NEW t \in Thread, trylock(t)
    PROVE  /\ (Cur(t).acc = "W" /\ Moves(t, "go", "scan")) \/ Moves(t, "again", "scan")
           /\ ~wait_reader_log[Cur(t).objid].mutex
           /\ wait_reader_log' = [wait_reader_log EXCEPT ![Cur(t).objid].mutex = TRUE]
           /\ UNCHANGED <<rmem, obj_version, memop_cnt, wait_version, vbuf, rloc>>
BY CurIsOp DEF trylock, AboutToScan, RAt, RGoto, Moves

LEMMA StepScan ==
    ASSUME NEW t \in Thread, next_reader_memop(t), NEW o, o = Cur(t).objid
    PROVE  /\ IF HasEntry(o) /\ obj_version[o] = NextEntry(o).version
              THEN /\ rloc' = [rloc EXCEPT ![t].log = NextEntry(o)]
                   /\ wait_reader_log' = [wait_reader_log EXCEPT ![o].n = @ + 1, ![o].mutex = FALSE]
                   /\ Moves(t, "scan", "reader")
              ELSE /\ wait_reader_log' = [wait_reader_log EXCEPT ![o].mutex = FALSE]
                   /\ Moves(t, "scan", "store") /\ UNCHANGED rloc
           /\ UNCHANGED <<rmem, obj_version, memop_cnt, wait_version, vbuf>>
BY CurIsOp DEF next_reader_memop, RAt, RGoto, Moves

LEMMA StepWaitReader ==
    ASSUME NEW t \in Thread, wait_reader(t)
    PROVE  /\ Waited(rloc[t].log) /\ Moves(t, "reader", "again")
           /\ UNCHANGED <<rmem, obj_version, memop_cnt, wait_version, vbuf, wait_reader_log, rloc>>
BY DEF wait_reader, RAt, RGoto, Moves, Waited

LEMMA StepWrite ==
    ASSUME NEW t \in Thread, rep_write(t)
    PROVE  /\ Moves(t, "store", "publish")
           /\ rmem' = [rmem EXCEPT ![Cur(t).objid] = Value(t, memop_cnt[t])]
           /\ UNCHANGED <<obj_version, memop_cnt, wait_version, vbuf, wait_reader_log, rloc>>
BY CurIsOp DEF rep_write, RAt, RGoto, Moves

LEMMA StepPublish ==
    ASSUME NEW t \in Thread, publish_version(t), obj_version \in [Obj -> Nat]
    PROVE  /\ Moves(t, "publish", "count")
           /\ obj_version' = [obj_version EXCEPT ![Cur(t).objid] = @ + 2]
           /\ UNCHANGED <<rmem, memop_cnt, wait_version, vbuf, wait_reader_log, rloc>>
BY CurIsOp DEF publish_version, RAt, RGoto, Moves

-----------------------------------------------------------------------------
(* What the steps have in common.  Only t moves, and the recording and the *)
(* merged log stay.                                                        *)
Others(t) == \A u \in Thread \ {t} : rpc'[u] = rpc[u]
Frozen == UNCHANGED <<access_log, version_log, version, mem, memop_log, index_log>>

LEMMA Moved ==
    ASSUME RepTypes, NEW t \in Thread, NEW from, NEW to, Moves(t, from, to)
    PROVE  rpc[t] = from /\ rpc'[t] = to /\ Others(t) /\ (to \in RepLabels => rpc' \in [Thread -> RepLabels])
BY DEF RepTypes, Moves, Others

LEMMA FrozenIs ==
    ASSUME Frozen
    PROVE  /\ access_log' = access_log /\ version_log' = version_log /\ version' = version /\ mem' = mem
           /\ memop_log' = memop_log /\ index_log' = index_log
           /\ \A o : Segment(o)' = Segment(o)
<1>1. /\ access_log' = access_log /\ version_log' = version_log /\ version' = version /\ mem' = mem
      /\ memop_log' = memop_log /\ index_log' = index_log
  BY DEF Frozen
<1> QED BY <1>1 DEF Segment

(* A step that counts and publishes nothing leaves the relation of         *)
(* accesses to versions, and the objects.                                  *)
Quiet(t) ==
    /\ access_log' = access_log /\ version_log' = version_log /\ memop_cnt' = memop_cnt /\ obj_version' = obj_version /\ Others(t)
    /\ rpc[t] \notin {"count", "publish"}

LEMMA QuietAtVersion ==
    ASSUME NEW t \in Thread, Quiet(t), AtVersion,
           rpc'[t] \in AtAccess => Cur(t).version = obj_version[Cur(t).objid]
    PROVE  AtVersion'
BY DEF Quiet, Others, AtVersion, Cur, Access

LEMMA QuietPast ==
    ASSUME NEW t \in Thread, Quiet(t), rpc'[t] \notin {"count", "publish"},
           PastOld, OldPast
    PROVE  PastOld' /\ OldPast'
<1>1. \A u \in Thread : \A i : Past(u, i)' <=> Past(u, i)
  BY DEF Quiet, Others, Past
<1>2. \A o : Storing(o)' <=> Storing(o)
  BY DEF Quiet, Others, Storing, Cur, Access
<1>3. \A u, i : Access(u, i)' = Access(u, i)
  BY DEF Quiet, Access
<1>4. \A u : AccessesOf(u)' = AccessesOf(u)
  BY DEF Quiet, AccessesOf
<1>5. PastOld'
  BY <1>1, <1>3, <1>4 DEF PastOld, Quiet
<1>6. OldPast'
  BY <1>1, <1>2, <1>3, <1>4 DEF OldPast, Quiet
<1> QED BY <1>5, <1>6

LEMMA QuietMemory ==
    ASSUME NEW t \in Thread, Quiet(t), rpc'[t] \notin {"count", "publish"}, rmem' = rmem, MemoryAt
    PROVE  MemoryAt'
<1>1. \A o : Storing(o)' <=> Storing(o)
  BY DEF Quiet, Others, Storing, Cur, Access
<1>2. \A o : Reached(o)' = Reached(o)
  BY <1>1 DEF Reached, Quiet
<1> QED BY <1>2 DEF MemoryAt, Quiet

(* The other parts are left by a step that does not touch what they are    *)
(* about.                                                                  *)
LEMMA KeepsReadValue ==
    ASSUME NEW t \in Thread, Others(t), access_log' = access_log, version_log' = version_log,
           \A u \in Thread \ {t} : memop_cnt'[u] = memop_cnt[u] /\ rloc'[u].val = rloc[u].val,
           rpc'[t] # "check", ReadValue
    PROVE  ReadValue'
BY DEF Others, ReadValue, Cur, Access

LEMMA KeepsCursor ==
    ASSUME NEW t \in Thread, Others(t), access_log' = access_log, version_log' = version_log, wait_version' = wait_version, vbuf' = vbuf,
           NextMemop(t)' = NextMemop(t), rpc'[t] # "assert",
           \A u \in Thread \ {t} : memop_cnt'[u] = memop_cnt[u],
           \A u \in Thread \ {t} : rpc[u] = "assert" /\ WaitOver(u) =>
               wait_version[u].version <= obj_version'[Cur(u).objid],
           Cursor
    PROVE  Cursor'
<1>1. \A u \in Thread : NextMemop(u)' = NextMemop(u)
  BY DEF Others, NextMemop
<1>2. \A u \in Thread \ {t} : Cur(u)' = Cur(u)
  BY DEF Cur, Access
<1> SUFFICES ASSUME NEW u \in Thread
             PROVE  TakenTo(u, NextMemop(u))' /\ (rpc'[u] = "assert" => WaitOver(u)')
  BY DEF Cursor
<1>3. TakenTo(u, NextMemop(u))'
  BY <1>1 DEF Cursor, TakenTo
<1>4. ASSUME rpc'[u] = "assert" PROVE WaitOver(u)'
  <2>1. u # t
    BY <1>4
  <2>2. rpc'[u] = rpc[u] /\ Cur(u)' = Cur(u) /\ memop_cnt'[u] = memop_cnt[u]
    BY <1>2, <2>1 DEF Others
  <2>3. WaitOver(u)
    BY <1>4, <2>2 DEF Cursor
  <2> QED BY <1>4, <2>1, <2>2, <2>3 DEF WaitOver
<1> QED BY <1>3, <1>4

LEMMA KeepsMutex ==
    ASSUME NEW t \in Thread, Others(t), access_log' = access_log, version_log' = version_log, wait_reader_log' = wait_reader_log,
           \A u \in Thread \ {t} : memop_cnt'[u] = memop_cnt[u],
           rpc[t] # "scan", MutexHeld
    PROVE  MutexHeld'
BY SMTT(60) DEF Others, MutexHeld, Cur, Access

SameNext(o) ==
    /\ wait_reader_log'[o].n = wait_reader_log[o].n
    /\ wait_reader_log'[o].log = wait_reader_log[o].log
    /\ wait_reader_log'[o].size = wait_reader_log[o].size

LEMMA LogsStay ==
    ASSUME wait_reader_log' = wait_reader_log
    PROVE  \A o \in Obj : SameNext(o)
BY DEF SameNext

LEMMA KeepsSameLog ==
    ASSUME Frozen, \A o \in Obj : SameNext(o), SameLog
    PROVE  SameLog'
BY FrozenIs DEF SameLog, SameNext

(* A count only grows.                                                     *)
CountsGrow == \A u \in Thread : memop_cnt'[u] \in Nat /\ memop_cnt[u] \in Nat /\ memop_cnt[u] <= memop_cnt'[u]

LEMMA KeepsWaited ==
    ASSUME NEW t \in Thread, Others(t), Frozen, SegmentFacts, \A o \in Obj : SameNext(o),
           CountsGrow, \A u \in Thread \ {t} : memop_cnt'[u] = memop_cnt[u] /\ rloc'[u].log = rloc[u].log,
           rpc[t] # "reader", ReadersWaited
    PROVE  ReadersWaited'
<1> SUFFICES ASSUME NEW o \in Obj, NEW m \in Nat, InSegment(o, m)', (m < NextAt(o))'
             PROVE  (\/ Waited(memop_log[m])
                     \/ \E u \in Thread : rpc[u] = "reader" /\ Cur(u).objid = o /\ rloc[u].log = memop_log[m])'
  BY DEF ReadersWaited
<1>1. InSegment(o, m) /\ m < NextAt(o)
  BY FrozenIs DEF InSegment, NextAt, SameNext
<1>2. memop_log[m] \in ReaderEntry
  BY <1>1 DEF SegmentFacts
<1>3. CASE Waited(memop_log[m])
  <2>1. memop_log[m].tid \in Thread /\ memop_log[m].memop \in Nat
    BY <1>2 DEF ReaderEntry
  <2>2. memop_cnt'[memop_log[m].tid] > memop_log[m].memop
    BY <1>3, <2>1, SMTT(60) DEF Waited, CountsGrow
  <2> QED BY <2>2, FrozenIs DEF Waited
<1>4. CASE \E u \in Thread : rpc[u] = "reader" /\ Cur(u).objid = o /\ rloc[u].log = memop_log[m]
  <2>1. PICK u \in Thread : rpc[u] = "reader" /\ Cur(u).objid = o /\ rloc[u].log = memop_log[m]
    BY <1>4
  <2>2. rpc'[u] = rpc[u] /\ rloc'[u].log = rloc[u].log /\ Cur(u)' = Cur(u)
    BY <2>1, FrozenIs DEF Others, Cur, Access
  <2> QED BY <2>1, <2>2, FrozenIs
<1> QED BY <1>1, <1>3, <1>4 DEF ReadersWaited

LEMMA KeepsLeft ==
    ASSUME NEW t \in Thread, Others(t), Frozen, \A o \in Obj : SameNext(o),
           obj_version' = obj_version,
           \A u \in Thread \ {t} : memop_cnt'[u] = memop_cnt[u],
           rpc'[t] \in {"store", "publish"} => rpc[t] \in {"store", "publish"} /\ memop_cnt'[t] = memop_cnt[t],
           ReadersLeft
    PROVE  ReadersLeft'
<1>1. ASSUME NEW u \in Thread, rpc'[u] \in {"store", "publish"}
      PROVE  rpc[u] \in {"store", "publish"} /\ Cur(u)' = Cur(u)
  BY <1>1, FrozenIs DEF Others, Cur, Access
<1>2. ASSUME NEW o \in Obj, NEW m PROVE (InSegment(o, m)' <=> InSegment(o, m)) /\ NextAt(o)' = NextAt(o)
  BY FrozenIs DEF InSegment, NextAt, SameNext
<1> QED BY <1>1, <1>2, FrozenIs DEF ReadersLeft

(* The labels and counts of the threads, apart from the types of the rest  *)
Labels ==
    \A t \in Thread :
        /\ memop_cnt[t] <= Len(access_log[t])
        /\ rpc[t] # "call" => memop_cnt[t] < Len(access_log[t])
        /\ rpc[t] = "check" => Cur(t).acc = "R"
        /\ rpc[t] \in WriteLabels => Cur(t).acc = "W"

LEMMA KeepsLabels ==
    ASSUME RepTypes, NEW t \in Thread, Others(t), access_log' = access_log, version_log' = version_log, memop_cnt' = memop_cnt,
           rpc'[t] # "call" => memop_cnt[t] < Len(access_log[t]),
           rpc'[t] = "check" => Cur(t).acc = "R",
           rpc'[t] \in WriteLabels => Cur(t).acc = "W"
    PROVE  Labels'
<1>1. \A u : Cur(u)' = Cur(u)
  BY DEF Cur, Access
<1> SUFFICES ASSUME NEW u \in Thread
             PROVE  (/\ memop_cnt[u] <= Len(access_log[u])
                     /\ rpc[u] # "call" => memop_cnt[u] < Len(access_log[u])
                     /\ rpc[u] = "check" => Cur(u).acc = "R"
                     /\ rpc[u] \in WriteLabels => Cur(u).acc = "W")'
  BY DEF Labels
<1>2. /\ memop_cnt[u] <= Len(access_log[u])
      /\ rpc[u] # "call" => memop_cnt[u] < Len(access_log[u])
      /\ rpc[u] = "check" => Cur(u).acc = "R"
      /\ rpc[u] \in WriteLabels => Cur(u).acc = "W"
  BY DEF RepTypes
<1>3. CASE u = t
  BY <1>1, <1>2, <1>3
<1>4. CASE u # t
  <2>1. rpc'[u] = rpc[u]
    BY <1>4 DEF Others
  <2> QED BY <1>1, <1>2, <2>1
<1> QED BY <1>3, <1>4

(* The types of a step that only moves t                                   *)
LEMMA OnlyMoves ==
    ASSUME RepTypes, NEW t \in Thread, NEW from, NEW to \in RepLabels, Moves(t, from, to), Frozen, Labels',
           UNCHANGED <<rmem, obj_version, memop_cnt, wait_version, vbuf, wait_reader_log, rloc>>
    PROVE  RepTypes'
<1>1. rpc' \in [Thread -> RepLabels]
  BY Moved
<1> QED BY <1>1, FrozenIs DEF RepTypes, Labels

-----------------------------------------------------------------------------
(* Every step keeps the invariant.                                         *)

(* An access that may go without waiting, or has waited, is at its         *)
(* version: the one the version log names, 0 at the first access, or that  *)
(* of the thread's own read just before.                                   *)
LEMMA VersionIsReached ==
    ASSUME Recorded, RepTypes, PastOld, OldPast, Cursor,
           NEW t \in Thread, rpc[t] = "call", memop_cnt[t] < Len(access_log[t]),
           memop_cnt[t] # wait_version[t].memop
    PROVE  Cur(t).version = obj_version[Cur(t).objid]
<1>1. PICK i \in Nat : i = memop_cnt[t] + 1
  BY CurIsAccess, SMTT(60) DEF Recorded
<1>2. /\ i \in AccessesOf(t) /\ Cur(t).version \in Nat /\ Cur(t).objid \in Obj /\ memop_cnt[t] \in Nat
      /\ Cur(t) = Access(t, i) /\ i - 1 = memop_cnt[t]
  BY <1>1, CurIsAccess, SMTT(60) DEF Recorded, Cur
<1>3. obj_version[Cur(t).objid] \in Nat
  BY <1>2 DEF RepTypes
<1>4. obj_version[Cur(t).objid] <= Cur(t).version
  BY NotPassed DEF Recorded
<1>5. CASE Access(t, i).version = 0
  BY <1>2, <1>3, <1>4, <1>5, SMTT(60)
<1>6. CASE \E j \in AccessesOf(t) :
              j < i /\ Access(t, j).objid = Access(t, i).objid /\ Access(t, j).version = Access(t, i).version
  <2>1. PICK j \in AccessesOf(t) :
              j < i /\ Access(t, j).objid = Access(t, i).objid /\ Access(t, j).version = Access(t, i).version
    BY <1>6
  <2>2. Past(t, j)
    BY <1>1, <1>2, <2>1, SMTT(60) DEF Past, AccessesOf
  <2>3. Access(t, j).version <= obj_version[Access(t, j).objid]
    BY <2>2 DEF PastOld
  <2> QED BY <1>2, <1>3, <1>4, <2>1, <2>3, SMTT(60)
<1>7. CASE \E k \in 1 .. Len(version_log[t]) - 1 : version_log[t][k].memop = i - 1
  <2>1. PICK k \in 1 .. Len(version_log[t]) - 1 : version_log[t][k].memop = memop_cnt[t]
    BY <1>2, <1>7
  <2>2. TakenTo(t, memop_cnt[t])
    BY DEF Cursor, NextMemop
  <2>3. vbuf[t] \in Nat /\ Len(version_log[t]) \in Nat
    BY DEF RepTypes, Recorded, VersionLogFacts
  <2>4. wait_version[t].memop # -1 /\ vbuf[t] > 0 /\ vbuf[t] < Len(version_log[t])
        /\ wait_version[t] = version_log[t][vbuf[t]] /\ memop_cnt[t] <= wait_version[t].memop
    <3>1. ASSUME wait_version[t].memop = -1 PROVE FALSE
      <4>1. vbuf[t] = Len(version_log[t]) - 1 /\ \A l \in 1 .. vbuf[t] : version_log[t][l].memop < memop_cnt[t]
        BY <2>2, <3>1 DEF TakenTo
      <4>2. memop_cnt[t] < memop_cnt[t]
        BY <2>1, <4>1
      <4> QED BY <1>2, <4>2, SMTT(60)
    <3> QED BY <2>2, <3>1 DEF TakenTo
  <2>5. ~(k < vbuf[t])
    BY <1>2, <2>1, <2>2, <2>3, SMTT(60) DEF TakenTo
  <2>6. vbuf[t] \in 1 .. Len(version_log[t]) - 1
    BY <2>3, <2>4, SMTT(60)
  <2>7. vbuf[t] < k => wait_version[t].memop < memop_cnt[t]
    BY <2>1, <2>4, <2>6 DEF Recorded, VersionLogFacts
  <2>8. wait_version[t].memop \in Nat
    BY <2>4, <2>6 DEF Recorded, VersionLogFacts, WaitVersion
  <2> QED BY <1>2, <2>1, <2>3, <2>4, <2>5, <2>7, <2>8, SMTT(60)
<1> QED BY <1>2, <1>5, <1>6, <1>7 DEF Recorded, VersionKnown

(* A cursor that does not stand at n has passed it.                        *)
LEMMA TakenFurther ==
    ASSUME RepTypes, VersionLogFacts, NEW t \in Thread, TakenTo(t, memop_cnt[t]),
           memop_cnt[t] # wait_version[t].memop
    PROVE  TakenTo(t, memop_cnt[t] + 1)
<1>1. /\ memop_cnt[t] \in Nat /\ vbuf[t] \in Nat /\ Len(version_log[t]) \in Nat
      /\ wait_version[t].memop \in Nat \cup {-1}
  BY DEF RepTypes, VersionLogFacts
<1>2. \A k \in 1 .. Len(version_log[t]) - 1 : version_log[t][k].memop \in Nat
  BY DEF VersionLogFacts, WaitVersion
<1>3. PICK n \in Nat : n = memop_cnt[t]
  BY <1>1
<1>4. PICK x \in Nat : x = vbuf[t]
  BY <1>1
<1>5. x < Len(version_log[t]) /\ \A k \in 1 .. x - 1 : version_log[t][k].memop < n
  BY <1>3, <1>4 DEF TakenTo
<1>6. ASSUME NEW k \in 1 .. x - 1 PROVE version_log[t][k].memop < n + 1
  <2>1. k \in 1 .. Len(version_log[t]) - 1
    BY <1>1, <1>5, SMTT(60)
  <2>2. PICK y \in Nat : y = version_log[t][k].memop
    BY <1>2, <2>1
  <2>3. y < n
    BY <1>5, <2>2
  <2> QED BY <2>2, <2>3, SMTT(60)
<1>7. CASE wait_version[t].memop = -1
  <2>1. x = Len(version_log[t]) - 1 /\ \A k \in 1 .. x : version_log[t][k].memop < n
    BY <1>3, <1>4, <1>7 DEF TakenTo
  <2>2. \A k \in 1 .. x : version_log[t][k].memop < n + 1
    BY <1>2, <2>1, SMTT(60)
  <2> QED BY <1>3, <1>4, <1>5, <1>6, <1>7, <2>1, <2>2 DEF TakenTo
<1>8. CASE wait_version[t].memop # -1
  <2>1. x > 0 /\ wait_version[t] = version_log[t][x] /\ n <= wait_version[t].memop
    BY <1>3, <1>4, <1>8 DEF TakenTo
  <2>2. n + 1 <= wait_version[t].memop
    BY <1>1, <1>3, <2>1, SMTT(60)
  <2> QED BY <1>3, <1>4, <1>5, <1>6, <1>8, <2>1, <2>2 DEF TakenTo
<1> QED BY <1>7, <1>8

(* The cursors after a step that moves that of t                           *)
LEMMA CursorOf ==
    ASSUME NEW t \in Thread, Others(t), access_log' = access_log, version_log' = version_log, memop_cnt' = memop_cnt, obj_version' = obj_version,
           \A u \in Thread \ {t} : wait_version'[u] = wait_version[u] /\ vbuf'[u] = vbuf[u],
           TakenTo(t, NextMemop(t))', rpc'[t] = "assert" => WaitOver(t)', Cursor
    PROVE  Cursor'
<1> SUFFICES ASSUME NEW u \in Thread \ {t}
             PROVE  TakenTo(u, NextMemop(u))' /\ (rpc'[u] = "assert" => WaitOver(u)')
  BY DEF Cursor
<1>1. rpc'[u] = rpc[u] /\ wait_version'[u] = wait_version[u] /\ vbuf'[u] = vbuf[u]
  BY DEF Others
<1>2. NextMemop(u)' = NextMemop(u) /\ Cur(u)' = Cur(u)
  BY <1>1 DEF NextMemop, Cur, Access
<1>3. TakenTo(u, NextMemop(u)) /\ (rpc[u] = "assert" => WaitOver(u))
  BY DEF Cursor
<1>4. TakenTo(u, NextMemop(u))'
  BY <1>1, <1>2, <1>3 DEF TakenTo
<1> QED BY <1>1, <1>2, <1>3, <1>4 DEF WaitOver

LEMMA WaitVersionKeeps ==
    ASSUME Recorded, Merged, RepInv, Frozen, NEW t \in Thread, wait_object_version(t)
    PROVE  RepInv'
<1> USE DEF RepInv
<1>1. PICK to \in {"assert", "go"} :
          /\ Moves(t, "call", to)
          /\ to = "go" <=> memop_cnt[t] # wait_version[t].memop
          /\ to = "assert" => obj_version[Cur(t).objid] >= wait_version[t].version
  BY StepWaitVersion
<1>2. /\ memop_cnt[t] < Len(access_log[t])
      /\ UNCHANGED <<rmem, obj_version, memop_cnt, wait_version, vbuf, wait_reader_log, rloc>>
  BY StepWaitVersion
<1>3. rpc[t] = "call" /\ rpc'[t] = to /\ Others(t)
  BY <1>1, Moved
<1>4. Quiet(t) /\ to \notin {"count", "publish"} /\ to \notin {"check", "call"} /\ to \notin WriteLabels
      /\ to \in RepLabels
  BY <1>2, <1>3, FrozenIs DEF Quiet, WriteLabels, RepLabels, AtAccess
<1>5. RepTypes'
  <2>1. Labels'
    BY <1>2, <1>3, <1>4, FrozenIs, KeepsLabels
  <2> QED BY <1>1, <1>2, <1>4, <2>1, OnlyMoves
<1>6. AtVersion'
  <2>1. to \in AtAccess => to = "go"
    BY DEF AtAccess
  <2> QED BY <1>1, <1>2, <1>3, <1>4, <2>1, VersionIsReached, QuietAtVersion
<1>7. PastOld' /\ OldPast' /\ MemoryAt'
  BY <1>2, <1>3, <1>4, QuietPast, QuietMemory
<1>8. ReadValue' /\ MutexHeld' /\ SameLog'
  BY <1>2, <1>3, <1>4, FrozenIs, KeepsReadValue, KeepsMutex, LogsStay, KeepsSameLog
<1>9. ReadersLeft'
  BY <1>2, <1>3, <1>4, LogsStay, KeepsLeft
<1>10. ReadersWaited'
  <2>1. CountsGrow
    BY <1>2, SMTT(60) DEF CountsGrow, RepTypes
  <2> QED BY <1>2, <1>3, <2>1, LogsStay, KeepsWaited DEF Merged
<1>11. Cursor'
  <2>1. CASE to = "assert"
    <3>1. TakenTo(t, NextMemop(t)) /\ NextMemop(t)' = NextMemop(t)
      BY <1>2, <1>3, <2>1 DEF Cursor, NextMemop
    <3>2. TakenTo(t, NextMemop(t))'
      BY <1>2, <3>1, FrozenIs DEF TakenTo
    <3>3. memop_cnt[t] = wait_version[t].memop /\ obj_version[Cur(t).objid] >= wait_version[t].version
      BY <1>1, <2>1
    <3>4. Cur(t)' = Cur(t)
      BY <1>2, FrozenIs DEF Cur, Access
    <3>5. obj_version[Cur(t).objid] \in Nat /\ wait_version[t].version \in Int
      BY <1>2, CurIsAccess DEF Recorded, RepTypes
    <3>6. WaitOver(t)'
      BY <1>2, <3>3, <3>4, <3>5 DEF WaitOver
    <3> QED BY <1>2, <1>3, <3>2, <3>6, FrozenIs, CursorOf
  <2>2. CASE to = "go"
    <3>1. TakenTo(t, memop_cnt[t])
      BY <1>3 DEF Cursor, NextMemop
    <3>2. memop_cnt[t] # wait_version[t].memop
      BY <1>1, <2>2
    <3>3. TakenTo(t, memop_cnt[t] + 1)
      BY <3>1, <3>2, TakenFurther DEF Recorded
    <3>4. NextMemop(t)' = memop_cnt[t] + 1
      BY <1>2, <1>3, <2>2 DEF NextMemop
    <3>5. TakenTo(t, NextMemop(t))'
      BY <1>2, <3>3, <3>4, FrozenIs DEF TakenTo
    <3> QED BY <1>2, <1>3, <2>2, <3>5, FrozenIs, CursorOf
  <2> QED BY <2>1, <2>2
<1> QED BY <1>5, <1>6, <1>7, <1>8, <1>9, <1>10, <1>11

(* next_wait_version_log moves the cursor past the entry of this access.   *)
LEMMA CursorAdvances ==
    ASSUME RepTypes, VersionLogFacts, NEW t \in Thread, TakenTo(t, memop_cnt[t]),
           wait_version[t].memop = memop_cnt[t], access_log' = access_log, version_log' = version_log,
           wait_version' = [wait_version EXCEPT ![t] = next_wait_version(t, vbuf[t])],
           vbuf' = [vbuf EXCEPT ![t] = taken_after(t, vbuf[t])], memop_cnt' = memop_cnt
    PROVE  /\ wait_version[t].version = Cur(t).version
           /\ wait_version' \in [Thread -> [memop : Nat \cup {-1}, version : Int]]
           /\ vbuf' \in [Thread -> Nat]
           /\ \A next : next = memop_cnt[t] + 1 => TakenTo(t, next)'
<1> DEFINE log == version_log[t]
<1>1. PICK n \in Nat : n = memop_cnt[t]
  BY DEF RepTypes
<1>2. PICK x \in Nat : x = vbuf[t]
  BY DEF RepTypes
<1>3. /\ Len(log) \in Nat \ {0} /\ log[Len(log)].memop = -1
      /\ \A k \in 1 .. Len(log) - 1 :
            /\ log[k] \in WaitVersion /\ log[k].version = Access(t, log[k].memop + 1).version
      /\ \A k, j \in 1 .. Len(log) - 1 : k < j => log[k].memop < log[j].memop
  BY DEF VersionLogFacts
<1>4. /\ x < Len(log) /\ x > 0 /\ wait_version[t] = log[x]
      /\ \A k \in 1 .. x - 1 : log[k].memop < n
  <2>1. wait_version[t].memop # -1
    BY <1>1, SMTT(60)
  <2> QED BY <1>1, <1>2, <2>1 DEF TakenTo
<1>5. x \in 1 .. Len(log) - 1 /\ log[x].memop = n
  BY <1>1, <1>3, <1>4, SMTT(60)
<1>6. wait_version[t].version = Cur(t).version
  BY <1>1, <1>3, <1>4, <1>5 DEF Cur
<1>7. /\ wait_version[t] \in [memop : Nat \cup {-1}, version : Int]
      /\ wait_version'[t] = next_wait_version(t, x) /\ vbuf'[t] = taken_after(t, x)
      /\ log[x + 1].memop = -1 => wait_version'[t].memop = -1
  BY <1>2 DEF RepTypes, next_wait_version
<1>8. \A k \in 1 .. x : log[k].memop < n + 1
  <2> SUFFICES ASSUME NEW k \in 1 .. x PROVE log[k].memop < n + 1
    OBVIOUS
  <2>1. k \in 1 .. Len(log) - 1
    BY <1>4, <1>5, SMTT(60)
  <2>2. PICK y \in Nat : y = log[k].memop
    BY <1>3, <2>1 DEF WaitVersion
  <2>3. k < x \/ k = x
    BY SMTT(60)
  <2>4. y < n \/ y = n
    BY <1>3, <1>5, <2>1, <2>2, <2>3
  <2> QED BY <2>2, <2>4, SMTT(60)
<1>9. CASE log[x + 1].memop = -1
  <2>1. x + 1 = Len(log)
    <3>1. x + 1 \in 1 .. Len(log) - 1 \/ x + 1 = Len(log)
      BY <1>3, <1>4, SMTT(60)
    <3>2. x + 1 \in 1 .. Len(log) - 1 => log[x + 1].memop \in Nat
      BY <1>3 DEF WaitVersion
    <3> QED BY <1>9, <3>1, <3>2, SMTT(60)
  <2>2. next_wait_version(t, x) \in [memop : Nat \cup {-1}, version : Int] /\ taken_after(t, x) = x
    BY <1>7, <1>9 DEF next_wait_version, taken_after
  <2>3. /\ wait_version' \in [Thread -> [memop : Nat \cup {-1}, version : Int]]
        /\ vbuf' \in [Thread -> Nat] /\ vbuf'[t] = x
    BY <1>2, <1>7, <2>2 DEF RepTypes
  <2>4. x = Len(log) - 1
    <3>1. PICK z \in Nat : z = Len(log)
      BY <1>3
    <3> QED BY <2>1, <3>1, SMTT(60)
  <2>5. \A k \in 1 .. x - 1 : log[k].memop < n + 1
    BY <1>8, SMTT(60)
  <2>6. TakenTo(t, n + 1)'
    BY <1>4, <1>7, <1>8, <1>9, <2>3, <2>4, <2>5 DEF TakenTo
  <2> QED BY <1>1, <1>6, <2>3, <2>6
<1>10. CASE log[x + 1].memop # -1
  <2>1. x + 1 \in 1 .. Len(log) - 1
    <3>1. x + 1 \in 1 .. Len(log) - 1 \/ x + 1 = Len(log)
      BY <1>3, <1>4, SMTT(60)
    <3> QED BY <1>3, <1>10, <3>1
  <2>2. next_wait_version(t, x) = log[x + 1] /\ taken_after(t, x) = x + 1
    BY <1>10 DEF next_wait_version, taken_after
  <2>3. log[x + 1] \in WaitVersion
    BY <1>3, <2>1
  <2>4. log[x + 1].memop \in Nat /\ log[x + 1] \in [memop : Nat \cup {-1}, version : Int]
    BY <2>3, SMTT(60) DEF WaitVersion
  <2>5. /\ wait_version' \in [Thread -> [memop : Nat \cup {-1}, version : Int]]
        /\ vbuf' \in [Thread -> Nat] /\ vbuf'[t] = x + 1 /\ wait_version'[t] = log[x + 1]
    BY <1>2, <1>7, <2>2, <2>4, SMTT(60) DEF RepTypes
  <2>6. n + 1 <= log[x + 1].memop
    <3>1. x < x + 1
      BY SMTT(60)
    <3>2. log[x].memop < log[x + 1].memop
      BY <1>3, <1>5, <2>1, <3>1
    <3> QED BY <1>5, <2>4, <3>2, SMTT(60)
  <2>7. x + 1 < Len(log) /\ x + 1 > 0 /\ (x + 1) - 1 = x
    BY <1>3, <2>1, SMTT(60)
  <2>8. TakenTo(t, n + 1)'
    BY <1>8, <1>10, <2>5, <2>6, <2>7 DEF TakenTo
  <2> QED BY <1>1, <1>6, <2>5, <2>8
<1> QED BY <1>9, <1>10

LEMMA AssertKeeps ==
    ASSUME Recorded, Merged, RepInv, Frozen, NEW t \in Thread, assert_version(t)
    PROVE  RepInv'
<1> USE DEF RepInv
<1>1. /\ obj_version[Cur(t).objid] = wait_version[t].version
      /\ wait_version' = [wait_version EXCEPT ![t] = next_wait_version(t, vbuf[t])]
      /\ vbuf' = [vbuf EXCEPT ![t] = taken_after(t, vbuf[t])]
      /\ Moves(t, "assert", "go")
      /\ UNCHANGED <<rmem, obj_version, memop_cnt, wait_reader_log, rloc>>
  BY StepAssert DEF RepTypes
<1>2. rpc[t] = "assert" /\ rpc'[t] = "go" /\ Others(t) /\ rpc' \in [Thread -> RepLabels]
  BY <1>1, Moved DEF RepLabels, AtAccess
<1>3. Quiet(t) /\ rpc'[t] \notin WriteLabels
  BY <1>1, <1>2, FrozenIs DEF Quiet, WriteLabels
<1>4. TakenTo(t, memop_cnt[t]) /\ WaitOver(t)
  BY <1>2 DEF Cursor, NextMemop
<1>5. /\ wait_version[t].version = Cur(t).version
      /\ wait_version' \in [Thread -> [memop : Nat \cup {-1}, version : Int]]
      /\ vbuf' \in [Thread -> Nat]
      /\ \A next : next = memop_cnt[t] + 1 => TakenTo(t, next)'
  BY <1>1, <1>4, FrozenIs, CursorAdvances DEF WaitOver, Recorded
<1>6. RepTypes'
  <2>1. memop_cnt[t] < Len(access_log[t])
    BY <1>2 DEF RepTypes
  <2>2. Labels'
    BY <1>1, <1>2, <1>3, <2>1, FrozenIs, KeepsLabels
  <2> QED BY <1>1, <1>2, <1>5, <2>2, FrozenIs DEF RepTypes, Labels
<1>7. AtVersion'
  BY <1>1, <1>3, <1>5, QuietAtVersion
<1>8. PastOld' /\ OldPast' /\ MemoryAt'
  BY <1>1, <1>2, <1>3, QuietPast, QuietMemory
<1>9. ReadValue' /\ MutexHeld' /\ SameLog'
  BY <1>1, <1>2, FrozenIs, KeepsReadValue, KeepsMutex, LogsStay, KeepsSameLog
<1>10. ReadersLeft'
  BY <1>1, <1>2, LogsStay, KeepsLeft
<1>11. ReadersWaited'
  <2>1. CountsGrow
    BY <1>1, SMTT(60) DEF CountsGrow, RepTypes
  <2> QED BY <1>1, <1>2, <2>1, LogsStay, KeepsWaited DEF Merged
<1>12. Cursor'
  <2>1. NextMemop(t)' = memop_cnt[t] + 1
    BY <1>1, <1>2 DEF NextMemop
  <2>2. TakenTo(t, NextMemop(t))'
    BY <1>5, <2>1
  <2>3. \A u \in Thread \ {t} : wait_version'[u] = wait_version[u] /\ vbuf'[u] = vbuf[u]
    BY <1>1 DEF RepTypes
  <2> QED BY <1>1, <1>2, <2>2, <2>3, FrozenIs, CursorOf
<1> QED BY <1>6, <1>7, <1>8, <1>9, <1>10, <1>11, <1>12

(* A load finds the value the recorded read returned.                      *)
LEMMA ReadKeeps ==
    ASSUME Recorded, Merged, RepInv, Frozen, NEW t \in Thread, rep_read(t)
    PROVE  RepInv'
<1> USE DEF RepInv
<1>1. /\ Cur(t).acc = "R" /\ Moves(t, "go", "check")
      /\ rloc' = [rloc EXCEPT ![t].val = rmem[Cur(t).objid]]
      /\ UNCHANGED <<rmem, obj_version, memop_cnt, wait_version, vbuf, wait_reader_log>>
  BY StepRead
<1>2. rpc[t] = "go" /\ rpc'[t] = "check" /\ Others(t) /\ rpc' \in [Thread -> RepLabels]
  BY <1>1, Moved DEF RepLabels, AtAccess
<1>3. Quiet(t) /\ rpc'[t] \notin WriteLabels /\ rpc[t] \in AtAccess
  BY <1>1, <1>2, FrozenIs DEF Quiet, WriteLabels, AtAccess
<1>4. memop_cnt[t] < Len(access_log[t]) /\ Cur(t).objid \in Obj /\ memop_cnt[t] + 1 \in AccessesOf(t)
  BY <1>2, Busy DEF Recorded
<1>5. /\ rloc' \in [Thread -> [val : Val, log : ReaderEntry \cup {NoReader}]]
      /\ rloc'[t].val = rmem[Cur(t).objid] /\ \A u \in Thread : rloc'[u].log = rloc[u].log
      /\ \A u \in Thread \ {t} : rloc'[u] = rloc[u]
  BY <1>1, <1>4 DEF RepTypes
<1>6. RepTypes'
  <2>1. Labels'
    BY <1>1, <1>2, <1>3, <1>4, FrozenIs, KeepsLabels
  <2> QED BY <1>1, <1>2, <1>5, <2>1, FrozenIs DEF RepTypes, Labels
<1>7. AtVersion'
  BY <1>3, QuietAtVersion DEF AtVersion
<1>8. PastOld' /\ OldPast' /\ MemoryAt'
  BY <1>1, <1>2, <1>3, QuietPast, QuietMemory
<1>9. MutexHeld' /\ SameLog'
  BY <1>1, <1>2, FrozenIs, KeepsMutex, LogsStay, KeepsSameLog
<1>10. ReadersLeft'
  BY <1>1, <1>2, LogsStay, KeepsLeft
<1>11. ReadersWaited'
  <2>1. CountsGrow
    BY <1>1, SMTT(60) DEF CountsGrow, RepTypes
  <2> QED BY <1>1, <1>2, <1>5, <2>1, LogsStay, KeepsWaited DEF Merged
<1>12. Cursor'
  <2>1. NextMemop(t)' = NextMemop(t)
    BY <1>1, <1>2 DEF NextMemop
  <2>2. \A u \in Thread \ {t} : memop_cnt'[u] = memop_cnt[u]
    BY <1>1
  <2>3. \A u \in Thread \ {t} : rpc[u] = "assert" /\ WaitOver(u) =>
               wait_version[u].version <= obj_version'[Cur(u).objid]
    BY <1>1 DEF WaitOver
  <2> QED BY <1>1, <1>2, <2>1, <2>2, <2>3, FrozenIs, KeepsCursor
<1>13. ReadValue'
  <2>1. ~Storing(Cur(t).objid) /\ Cur(t).version = obj_version[Cur(t).objid]
    BY <1>1, <1>3, ReadAlone DEF Recorded, AtVersion
  <2>2. {rmem[Cur(t).objid]} = StoredIn(access_log, Cur(t).objid, Cur(t).version)
    BY <1>4, <2>1 DEF MemoryAt, Reached
  <2>3. {Cur(t).val} = StoredIn(access_log, Cur(t).objid, Cur(t).version)
    <3>1. Cur(t).acc # "W"
      BY <1>1
    <3> QED BY <1>4, <3>1 DEF Recorded, ValuesStored, Cur
  <2>4. rmem[Cur(t).objid] = Cur(t).val
    BY <2>2, <2>3
  <2>5. \A u \in Thread : Cur(u)' = Cur(u)
    BY <1>1, FrozenIs DEF Cur, Access
  <2> QED BY <1>2, <1>5, <2>4, <2>5 DEF ReadValue, Others
<1> QED BY <1>6, <1>7, <1>8, <1>9, <1>10, <1>11, <1>12, <1>13

LEMMA CheckKeeps ==
    ASSUME Recorded, Merged, RepInv, Frozen, NEW t \in Thread, rep_read_check(t)
    PROVE  RepInv'
<1> USE DEF RepInv
<1>1. /\ Moves(t, "check", "count")
      /\ UNCHANGED <<rmem, obj_version, memop_cnt, wait_version, vbuf, wait_reader_log, rloc>>
  BY StepCheck
<1>2. rpc[t] = "check" /\ rpc'[t] = "count" /\ Others(t)
  BY <1>1, Moved
<1>3. Quiet(t) /\ rpc'[t] \notin WriteLabels /\ rpc'[t] \notin AtAccess /\ "count" \in RepLabels
      /\ rpc[t] \in AtAccess
  BY <1>1, <1>2, FrozenIs DEF Quiet, WriteLabels, AtAccess, RepLabels
<1>4. /\ memop_cnt[t] < Len(access_log[t]) /\ Cur(t).objid \in Obj /\ memop_cnt[t] + 1 \in AccessesOf(t)
      /\ Cur(t).version \in Nat /\ memop_cnt[t] \in Nat
  BY <1>2, Busy DEF Recorded
<1>5. RepTypes'
  <2>1. Labels'
    BY <1>1, <1>2, <1>3, <1>4, FrozenIs, KeepsLabels
  <2> QED BY <1>1, <1>3, <2>1, OnlyMoves
<1>6. AtVersion'
  BY <1>3, QuietAtVersion
<1>7. /\ \A u, i : Access(u, i)' = Access(u, i) /\ AccessesOf(u)' = AccessesOf(u)
      /\ \A u : Cur(u)' = Cur(u)
  BY <1>1, FrozenIs DEF Access, AccessesOf, Cur
<1>8. \A o : Storing(o)' <=> Storing(o)
  BY <1>2, <1>7 DEF Storing, Others
<1>9. \A u \in Thread : \A i : Past(u, i)' <=> Past(u, i) \/ (u = t /\ i = memop_cnt[t] + 1)
  BY <1>1, <1>2 DEF Past, Others
<1>10. PastOld'
  <2>1. Cur(t).acc # "W" /\ Cur(t).version = obj_version[Cur(t).objid]
    BY <1>2, <1>3 DEF RepTypes, AtVersion
  <2>2. Cur(t).version <= obj_version[Cur(t).objid]
    BY <1>4, <2>1, SMTT(60)
  <2> QED BY <1>1, <1>7, <1>9, <2>1, <2>2 DEF PastOld, Cur
<1>11. OldPast'
  BY <1>1, <1>7, <1>8, <1>9 DEF OldPast
<1>12. MemoryAt'
  BY <1>1, <1>8, FrozenIs DEF MemoryAt, Reached
<1>13. ReadValue' /\ MutexHeld' /\ SameLog'
  BY <1>1, <1>2, FrozenIs, KeepsReadValue, KeepsMutex, LogsStay, KeepsSameLog
<1>14. ReadersLeft'
  BY <1>1, <1>2, LogsStay, KeepsLeft
<1>15. ReadersWaited'
  <2>1. CountsGrow
    BY <1>1, SMTT(60) DEF CountsGrow, RepTypes
  <2> QED BY <1>1, <1>2, <2>1, LogsStay, KeepsWaited DEF Merged
<1>16. Cursor'
  <2>1. NextMemop(t)' = NextMemop(t)
    BY <1>1, <1>2 DEF NextMemop
  <2>2. \A u \in Thread \ {t} : memop_cnt'[u] = memop_cnt[u]
    BY <1>1
  <2>3. \A u \in Thread \ {t} : rpc[u] = "assert" /\ WaitOver(u) =>
               wait_version[u].version <= obj_version'[Cur(u).objid]
    BY <1>1 DEF WaitOver
  <2> QED BY <1>1, <1>2, <2>1, <2>2, <2>3, FrozenIs, KeepsCursor
<1> QED BY <1>5, <1>6, <1>10, <1>11, <1>12, <1>13, <1>14, <1>15, <1>16

LEMMA CountKeeps ==
    ASSUME Recorded, Merged, RepInv, Frozen, NEW t \in Thread, count_memop(t)
    PROVE  RepInv'
<1> USE DEF RepInv
<1>1. /\ Moves(t, "count", "call")
      /\ memop_cnt' = [memop_cnt EXCEPT ![t] = memop_cnt[t] + 1]
      /\ UNCHANGED <<rmem, obj_version, wait_version, vbuf, wait_reader_log, rloc>>
  BY StepCount DEF RepTypes
<1>2. rpc[t] = "count" /\ rpc'[t] = "call" /\ Others(t) /\ rpc' \in [Thread -> RepLabels]
  BY <1>1, Moved DEF RepLabels
<1>3. memop_cnt[t] < Len(access_log[t]) /\ memop_cnt[t] \in Nat /\ Len(access_log[t]) \in Nat
  <2>1. memop_cnt[t] < Len(access_log[t]) /\ memop_cnt[t] \in Nat
    BY <1>2, Busy DEF Recorded
  <2> QED BY <2>1 DEF Recorded, LogLengths
<1>4. /\ memop_cnt' \in [Thread -> Nat] /\ memop_cnt'[t] = memop_cnt[t] + 1
      /\ \A u \in Thread \ {t} : memop_cnt'[u] = memop_cnt[u]
  BY <1>1, <1>3, SMTT(60) DEF RepTypes
<1>5. \A u \in Thread \ {t} : Cur(u)' = Cur(u)
  BY <1>4, FrozenIs DEF Cur, Access
<1>6. RepTypes'
  <2>1. rpc'[t] \notin WriteLabels /\ rpc'[t] # "check"
    BY <1>2 DEF WriteLabels
  <2>2. memop_cnt'[t] <= Len(access_log[t])
    BY <1>3, <1>4, SMTT(60)
  <2>3. \A u \in Thread \ {t} :
            /\ memop_cnt[u] <= Len(access_log[u])
            /\ rpc[u] # "call" => memop_cnt[u] < Len(access_log[u])
            /\ rpc[u] = "check" => Cur(u).acc = "R"
            /\ rpc[u] \in WriteLabels => Cur(u).acc = "W"
    BY DEF RepTypes
  <2>4. Labels'
    BY <1>2, <1>4, <1>5, <2>1, <2>2, <2>3, FrozenIs DEF Labels, Others
  <2> QED BY <1>1, <1>2, <1>4, <2>4, FrozenIs DEF RepTypes, Labels
<1>7. AtVersion'
  <2>1. rpc'[t] \notin AtAccess
    BY <1>2 DEF AtAccess
  <2> QED BY <1>1, <1>2, <1>5, <2>1, SMTT(60) DEF AtVersion, Others
<1>8. \A u, i : Access(u, i)' = Access(u, i) /\ AccessesOf(u)' = AccessesOf(u)
  BY FrozenIs DEF Access, AccessesOf
<1>9. \A o : Storing(o)' <=> Storing(o)
  BY <1>2, <1>5 DEF Storing, Others
<1>10. \A u \in Thread : \A i \in AccessesOf(u) :
           (Past(u, i)' <=> Past(u, i)) /\ (i <= memop_cnt[u] => i <= memop_cnt'[u])
  BY <1>2, <1>3, <1>4, SMTT(60) DEF Past, Others, AccessesOf
<1>11. PastOld' /\ OldPast'
  <2>1. PastOld'
    BY <1>1, <1>8, <1>10 DEF PastOld
  <2>2. OldPast'
    BY <1>1, <1>8, <1>9, <1>10 DEF OldPast
  <2> QED BY <2>1, <2>2
<1>12. MemoryAt'
  BY <1>1, <1>9, FrozenIs DEF MemoryAt, Reached
<1>13. ReadValue' /\ MutexHeld' /\ SameLog'
  BY <1>1, <1>2, <1>4, FrozenIs, KeepsReadValue, KeepsMutex, LogsStay, KeepsSameLog
<1>14. ReadersLeft'
  BY <1>1, <1>2, <1>4, LogsStay, KeepsLeft
<1>15. ReadersWaited'
  <2>1. CountsGrow
    <3> SUFFICES ASSUME NEW u \in Thread PROVE memop_cnt[u] \in Nat /\ memop_cnt'[u] \in Nat /\ memop_cnt[u] <= memop_cnt'[u]
      BY DEF CountsGrow
    <3>1. memop_cnt[u] \in Nat /\ memop_cnt'[u] \in Nat
      BY <1>4 DEF RepTypes
    <3>2. memop_cnt'[u] = memop_cnt[u] \/ memop_cnt'[u] = memop_cnt[u] + 1
      BY <1>4
    <3> QED BY <3>1, <3>2, SMTT(60)
  <2> QED BY <1>1, <1>2, <1>4, <2>1, LogsStay, KeepsWaited DEF Merged
<1>16. Cursor'
  <2>1. NextMemop(t)' = NextMemop(t)
    BY <1>2, <1>4 DEF NextMemop
  <2>2. \A u \in Thread \ {t} : rpc[u] = "assert" /\ WaitOver(u) =>
               wait_version[u].version <= obj_version'[Cur(u).objid]
    BY <1>1 DEF WaitOver
  <2> QED BY <1>1, <1>2, <1>4, <2>1, <2>2, FrozenIs, KeepsCursor
<1> QED BY <1>6, <1>7, <1>11, <1>12, <1>13, <1>14, <1>15, <1>16

LEMMA WaitReaderKeeps ==
    ASSUME Recorded, Merged, RepInv, Frozen, NEW t \in Thread, wait_reader(t)
    PROVE  RepInv'
<1> USE DEF RepInv
<1>1. /\ Waited(rloc[t].log) /\ Moves(t, "reader", "again")
      /\ UNCHANGED <<rmem, obj_version, memop_cnt, wait_version, vbuf, wait_reader_log, rloc>>
  BY StepWaitReader
<1>2. rpc[t] = "reader" /\ rpc'[t] = "again" /\ Others(t)
  BY <1>1, Moved
<1>3. Quiet(t) /\ rpc[t] \in AtAccess /\ rpc[t] \in WriteLabels /\ "again" \in RepLabels
  BY <1>1, <1>2, FrozenIs DEF Quiet, AtAccess, WriteLabels, RepLabels
<1>4. memop_cnt[t] < Len(access_log[t]) /\ Cur(t).acc = "W"
  BY <1>2, <1>3 DEF RepTypes
<1>5. RepTypes'
  <2>1. Labels'
    BY <1>1, <1>2, <1>3, <1>4, FrozenIs, KeepsLabels
  <2> QED BY <1>1, <1>3, <2>1, OnlyMoves
<1>6. AtVersion'
  BY <1>3, QuietAtVersion DEF AtVersion
<1>7. PastOld' /\ OldPast' /\ MemoryAt'
  BY <1>1, <1>2, <1>3, QuietPast, QuietMemory
<1>8. ReadValue' /\ MutexHeld' /\ SameLog'
  BY <1>1, <1>2, FrozenIs, KeepsReadValue, KeepsMutex, LogsStay, KeepsSameLog
<1>9. ReadersLeft'
  BY <1>1, <1>2, LogsStay, KeepsLeft
<1>10. ReadersWaited'
  <2>1. ASSUME NEW o \in Obj, NEW m PROVE (InSegment(o, m)' <=> InSegment(o, m)) /\ NextAt(o)' = NextAt(o)
    BY <1>1, FrozenIs DEF InSegment, NextAt
  <2>2. ASSUME NEW e PROVE Waited(e)' <=> Waited(e)
    BY <1>1 DEF Waited
  <2>3. ASSUME NEW u \in Thread, NEW e, rpc[u] = "reader", rloc[u].log = e
        PROVE  Waited(e) \/ (rpc'[u] = "reader" /\ rloc'[u].log = e /\ Cur(u)' = Cur(u))
    BY <1>1, <1>2, <2>3, FrozenIs DEF Others, Cur, Access
  <2> SUFFICES ASSUME NEW o \in Obj, NEW m \in Nat, InSegment(o, m)', (m < NextAt(o))'
               PROVE  (\/ Waited(memop_log[m])
                       \/ \E u \in Thread : rpc[u] = "reader" /\ Cur(u).objid = o /\ rloc[u].log = memop_log[m])'
    BY DEF ReadersWaited
  <2>0. InSegment(o, m) /\ m < NextAt(o)
    BY <2>1
  <2>4. CASE Waited(memop_log[m])
    BY <2>2, <2>4, FrozenIs
  <2>5. CASE \E u \in Thread : rpc[u] = "reader" /\ Cur(u).objid = o /\ rloc[u].log = memop_log[m]
    <3>1. PICK u \in Thread : rpc[u] = "reader" /\ Cur(u).objid = o /\ rloc[u].log = memop_log[m]
      BY <2>5
    <3>2. Waited(memop_log[m]) \/ (rpc'[u] = "reader" /\ rloc'[u].log = memop_log[m] /\ Cur(u)' = Cur(u))
      BY <2>3, <3>1
    <3> QED BY <2>2, <3>1, <3>2, FrozenIs
  <2> QED BY <2>0, <2>4, <2>5 DEF ReadersWaited
<1>11. Cursor'
  <2>1. NextMemop(t)' = NextMemop(t)
    BY <1>1, <1>2 DEF NextMemop
  <2>2. \A u \in Thread \ {t} : memop_cnt'[u] = memop_cnt[u]
    BY <1>1
  <2>3. \A u \in Thread \ {t} : rpc[u] = "assert" /\ WaitOver(u) =>
               wait_version[u].version <= obj_version'[Cur(u).objid]
    BY <1>1 DEF WaitOver
  <2> QED BY <1>1, <1>2, <2>1, <2>2, <2>3, FrozenIs, KeepsCursor
<1> QED BY <1>5, <1>6, <1>7, <1>8, <1>9, <1>10, <1>11

LEMMA TrylockKeeps ==
    ASSUME Recorded, Merged, RepInv, Frozen, NEW t \in Thread, trylock(t)
    PROVE  RepInv'
<1> USE DEF RepInv
<1>1. PICK from \in {"go", "again"} : /\ Moves(t, from, "scan")
                                      /\ from = "go" => Cur(t).acc = "W"
  BY StepTrylock
<1>2. PICK o : o = Cur(t).objid
  OBVIOUS
<1>3. /\ wait_reader_log' = [wait_reader_log EXCEPT ![o].mutex = TRUE]
      /\ UNCHANGED <<rmem, obj_version, memop_cnt, wait_version, vbuf, rloc>>
  BY <1>2, StepTrylock
<1>4. rpc[t] = from /\ rpc'[t] = "scan" /\ Others(t) /\ rpc' \in [Thread -> RepLabels]
  BY <1>1, Moved DEF RepLabels, AtAccess
<1>5. Quiet(t) /\ rpc[t] \in AtAccess /\ (rpc[t] = "again" => rpc[t] \in WriteLabels)
  BY <1>3, <1>4, FrozenIs DEF Quiet, AtAccess, WriteLabels
<1>6. memop_cnt[t] < Len(access_log[t]) /\ Cur(t).acc = "W" /\ o \in Obj
  BY <1>1, <1>2, <1>4, <1>5, Busy DEF RepTypes, Recorded
<1>7. /\ wait_reader_log' \in [Obj -> ReaderLog] /\ \A p \in Obj : SameNext(p)
      /\ \A p \in Obj \ {o} : wait_reader_log'[p].mutex = wait_reader_log[p].mutex
  BY <1>3, <1>6 DEF RepTypes, ReaderLog, SameNext
<1>8. RepTypes'
  <2>1. Labels'
    BY <1>3, <1>4, <1>6, FrozenIs, KeepsLabels
  <2> QED BY <1>3, <1>4, <1>7, <2>1, FrozenIs DEF RepTypes, Labels
<1>9. AtVersion'
  BY <1>5, QuietAtVersion DEF AtVersion
<1>10. PastOld' /\ OldPast' /\ MemoryAt'
  BY <1>3, <1>4, <1>5, QuietPast, QuietMemory
<1>11. ReadValue' /\ SameLog'
  BY <1>3, <1>4, <1>7, FrozenIs, KeepsReadValue, KeepsSameLog
<1>12. MutexHeld'
  <2>1. \A u \in Thread : Cur(u)' = Cur(u)
    BY <1>3, FrozenIs DEF Cur, Access
  <2> QED BY <1>2, <1>4, <1>7, <2>1, SMTT(60) DEF MutexHeld, Others
<1>13. ReadersLeft'
  BY <1>3, <1>4, <1>7, KeepsLeft
<1>14. ReadersWaited'
  <2>1. CountsGrow
    BY <1>3, SMTT(60) DEF CountsGrow, RepTypes
  <2> QED BY <1>1, <1>3, <1>4, <1>7, <2>1, KeepsWaited DEF Merged
<1>15. Cursor'
  <2>1. NextMemop(t)' = NextMemop(t)
    BY <1>1, <1>3, <1>4 DEF NextMemop
  <2>2. \A u \in Thread \ {t} : memop_cnt'[u] = memop_cnt[u]
    BY <1>3
  <2>3. \A u \in Thread \ {t} : rpc[u] = "assert" /\ WaitOver(u) =>
               wait_version[u].version <= obj_version'[Cur(u).objid]
    BY <1>3 DEF WaitOver
  <2> QED BY <1>3, <1>4, <2>1, <2>2, <2>3, FrozenIs, KeepsCursor
<1> QED BY <1>8, <1>9, <1>10, <1>11, <1>12, <1>13, <1>14, <1>15

(* The entry a scan looks at is the first one left, and of this object's   *)
(* version or a later one.                                                 *)
LEMMA ScanEntry ==
    ASSUME SegmentFacts, RepTypes, SameLog, ReadersLeft, NEW o \in Obj, HasEntry(o)
    PROVE  /\ NextAt(o) \in Nat /\ InSegment(o, NextAt(o)) /\ NextEntry(o) = memop_log[NextAt(o)]
           /\ NextEntry(o) \in ReaderEntry
           /\ obj_version[o] <= NextEntry(o).version
           /\ wait_reader_log[o].n + 1 <= Segment(o).size
<1>1. /\ wait_reader_log[o].log = Segment(o).log /\ wait_reader_log[o].size = Segment(o).size
      /\ wait_reader_log[o].n \in Nat /\ Segment(o).log \in Nat /\ Segment(o).size \in Nat \cup {-1}
  BY DEF SameLog, RepTypes, ReaderLog, SegmentFacts
<1>2. wait_reader_log[o].n < Segment(o).size
  BY <1>1 DEF HasEntry
<1>3. /\ NextAt(o) \in Nat /\ InSegment(o, NextAt(o)) /\ wait_reader_log[o].n + 1 <= Segment(o).size
      /\ NextAt(o) <= NextAt(o)
  BY <1>1, <1>2, SMTT(60) DEF NextAt, InSegment
<1>4. NextEntry(o) = memop_log[NextAt(o)]
  BY <1>1 DEF NextEntry, NextAt
<1>5. memop_log[NextAt(o)] \in ReaderEntry
  BY <1>3 DEF SegmentFacts
<1>6. obj_version[o] <= memop_log[NextAt(o)].version
  BY <1>3 DEF ReadersLeft
<1> QED BY <1>3, <1>4, <1>5, <1>6

(* While t scans, nobody waits for a reader of its object.                 *)
LEMMA ScanAlone ==
    ASSUME Recorded, RepTypes, AtVersion, NEW t \in Thread, rpc[t] \in WriteLabels,
           NEW u \in Thread, rpc[u] \in WriteLabels, Cur(u).objid = Cur(t).objid
    PROVE  u = t
<1>1. Writing(t) /\ Writing(u)
  BY DEF Writing, RepTypes, WriteLabels, AtAccess
<1> QED BY <1>1, OneWriting DEF Recorded

(* What both outcomes of a scan leave                                      *)
LEMMA ScanRest ==
    ASSUME Recorded, RepInv, Frozen, NEW t \in Thread, rpc[t] = "scan", Others(t),
           rpc'[t] \in {"reader", "store"},
           UNCHANGED <<rmem, obj_version, memop_cnt, wait_version, vbuf>>,
           \A u \in Thread \ {t} : rloc'[u] = rloc[u]
    PROVE  Labels' /\ AtVersion' /\ PastOld' /\ OldPast' /\ MemoryAt' /\ ReadValue' /\ Cursor'
<1> USE DEF RepInv
<1>1. Quiet(t) /\ rpc[t] \in AtAccess /\ rpc[t] \in WriteLabels
  BY FrozenIs DEF Quiet, AtAccess, WriteLabels
<1>2. memop_cnt[t] < Len(access_log[t]) /\ Cur(t).acc = "W"
  BY <1>1 DEF RepTypes
<1>3. Labels'
  BY <1>2, FrozenIs, KeepsLabels
<1>4. AtVersion'
  BY <1>1, QuietAtVersion DEF AtVersion
<1>5. PastOld' /\ OldPast' /\ MemoryAt'
  BY <1>1, QuietPast, QuietMemory
<1>6. ReadValue'
  BY FrozenIs, KeepsReadValue
<1>7. Cursor'
  <2>1. NextMemop(t)' = NextMemop(t)
    BY DEF NextMemop
  <2>2. \A u \in Thread \ {t} : rpc[u] = "assert" /\ WaitOver(u) =>
               wait_version[u].version <= obj_version'[Cur(u).objid]
    BY DEF WaitOver
  <2> QED BY <2>1, <2>2, FrozenIs, KeepsCursor
<1> QED BY <1>3, <1>4, <1>5, <1>6, <1>7

(* next_reader_memop takes an entry of this version,                       *)
LEMMA ScanTakes ==
    ASSUME Recorded, Merged, RepInv, Frozen, NEW t \in Thread, NEW o \in Obj, o = Cur(t).objid,
           HasEntry(o), obj_version[o] = NextEntry(o).version, Moves(t, "scan", "reader"),
           rloc' = [rloc EXCEPT ![t].log = NextEntry(o)],
           wait_reader_log' = [wait_reader_log EXCEPT ![o].n = @ + 1, ![o].mutex = FALSE],
           UNCHANGED <<rmem, obj_version, memop_cnt, wait_version, vbuf>>
    PROVE  RepInv'
<1> USE DEF RepInv
<1>1. rpc[t] = "scan" /\ rpc'[t] = "reader" /\ Others(t) /\ rpc' \in [Thread -> RepLabels]
  BY Moved DEF RepLabels, AtAccess
<1>2. /\ NextAt(o) \in Nat /\ InSegment(o, NextAt(o)) /\ NextEntry(o) = memop_log[NextAt(o)]
      /\ NextEntry(o) \in ReaderEntry /\ wait_reader_log[o].n + 1 <= Segment(o).size
  BY ScanEntry DEF Merged
<1>3. /\ rloc' \in [Thread -> [val : Val, log : ReaderEntry \cup {NoReader}]]
      /\ rloc'[t].log = NextEntry(o) /\ \A u \in Thread \ {t} : rloc'[u] = rloc[u]
  BY <1>2 DEF RepTypes
<1>4. /\ wait_reader_log' \in [Obj -> ReaderLog]
      /\ wait_reader_log'[o].n = wait_reader_log[o].n + 1 /\ wait_reader_log'[o].mutex = FALSE
      /\ wait_reader_log'[o].log = wait_reader_log[o].log /\ wait_reader_log'[o].size = wait_reader_log[o].size
      /\ \A p \in Obj \ {o} : wait_reader_log'[p] = wait_reader_log[p]
  <2>1. PICK r \in ReaderLog : r = wait_reader_log[o]
    BY DEF RepTypes
  <2>2. PICK k \in Nat : k = wait_reader_log[o].n + 1
    BY <2>1, SMTT(60) DEF ReaderLog
  <2>3. PICK s \in ReaderLog : s = [r EXCEPT !.n = k]
    BY DEF ReaderLog
  <2>4. PICK q \in ReaderLog : q = [s EXCEPT !.mutex = FALSE]
    BY DEF ReaderLog
  <2>5. /\ s.n = k /\ s.log = r.log /\ s.size = r.size
        /\ q.n = s.n /\ q.log = s.log /\ q.size = s.size /\ q.mutex = FALSE
    BY <2>3, <2>4 DEF ReaderLog
  <2>6. wait_reader_log' = [wait_reader_log EXCEPT ![o] = q]
    BY <2>1, <2>2, <2>3, <2>4 DEF RepTypes
  <2>7. wait_reader_log'[o] = q /\ wait_reader_log' \in [Obj -> ReaderLog]
        /\ \A p \in Obj \ {o} : wait_reader_log'[p] = wait_reader_log[p]
    <3>1. wait_reader_log \in [Obj -> ReaderLog]
      BY DEF RepTypes
    <3>2. o \in Obj /\ q \in ReaderLog
      OBVIOUS
    <3> QED BY ONLY <2>6, <3>1, <3>2, SMTT(60)
  <2> QED BY <2>1, <2>2, <2>5, <2>7
<1>5. Labels' /\ AtVersion' /\ PastOld' /\ OldPast' /\ MemoryAt' /\ ReadValue' /\ Cursor'
  BY <1>1, <1>3, ScanRest
<1>6. RepTypes'
  BY <1>1, <1>3, <1>4, <1>5, FrozenIs DEF RepTypes, Labels
<1>7. \A u \in Thread : Cur(u)' = Cur(u)
  BY FrozenIs DEF Cur, Access
<1>8. MutexHeld'
  BY <1>1, <1>4, <1>7, SMTT(60) DEF MutexHeld, Others
<1>9. SameLog'
  <2> SUFFICES ASSUME NEW p \in Obj
               PROVE  (/\ wait_reader_log[p].log = Segment(p).log /\ wait_reader_log[p].size = Segment(p).size
                       /\ wait_reader_log[p].n <= Segment(p).size \/ wait_reader_log[p].n = 0)'
    BY DEF SameLog
  <2>1. CASE p = o
    <3>1. wait_reader_log[o].log = Segment(o).log /\ wait_reader_log[o].size = Segment(o).size
      BY DEF SameLog
    <3>2. Segment(o)' = Segment(o)
      BY FrozenIs
    <3> QED BY <1>2, <1>4, <2>1, <3>1, <3>2
  <2>2. CASE p # o
    <3>1. wait_reader_log'[p] = wait_reader_log[p]
      BY <1>4, <2>2
    <3> QED BY <3>1, FrozenIs DEF SameLog
  <2> QED BY <2>1, <2>2
<1>10. /\ NextAt(o)' = NextAt(o) + 1 /\ \A p \in Obj \ {o} : NextAt(p)' = NextAt(p)
       /\ \A p, m : InSegment(p, m)' <=> InSegment(p, m)
  <2>1. \A p \in Obj \ {o} : NextAt(p)' = NextAt(p)
    BY <1>4, FrozenIs DEF NextAt
  <2>2. \A p, m : InSegment(p, m)' <=> InSegment(p, m)
    BY FrozenIs DEF InSegment
  <2>3. wait_reader_log[o].n \in Nat /\ Segment(o).log \in Nat /\ Segment(o)' = Segment(o)
    BY FrozenIs DEF RepTypes, ReaderLog, Merged, SegmentFacts
  <2>4. NextAt(o)' = NextAt(o) + 1
    BY <1>4, <2>3, SMTT(60) DEF NextAt
  <2> QED BY <2>1, <2>2, <2>4
<1>11. ReadersLeft'
  <2> SUFFICES ASSUME NEW p \in Obj, NEW m \in Nat, InSegment(p, m)', (NextAt(p) <= m)'
               PROVE  (/\ obj_version[p] <= memop_log[m].version
                       /\ \A u \in Thread : rpc[u] \in {"store", "publish"} /\ Cur(u).objid = p =>
                             obj_version[p] < memop_log[m].version)'
    BY DEF ReadersLeft
  <2>1. InSegment(p, m) /\ NextAt(p) <= m
    <3>1. CASE p = o
      BY <1>2, <1>10, <3>1, SMTT(60)
    <3>2. CASE p # o
      BY <1>10, <3>2
    <3> QED BY <3>1, <3>2
  <2>2. /\ obj_version[p] <= memop_log[m].version
        /\ \A u \in Thread : rpc[u] \in {"store", "publish"} /\ Cur(u).objid = p =>
              obj_version[p] < memop_log[m].version
    BY <2>1 DEF ReadersLeft
  <2> QED BY <1>1, <1>7, <2>2, FrozenIs DEF Others
<1>12. ReadersWaited'
  <2> SUFFICES ASSUME NEW p \in Obj, NEW m \in Nat, InSegment(p, m)', (m < NextAt(p))'
               PROVE  (\/ Waited(memop_log[m])
                       \/ \E u \in Thread : rpc[u] = "reader" /\ Cur(u).objid = p /\ rloc[u].log = memop_log[m])'
    BY DEF ReadersWaited
  <2>1. CASE p = o /\ m = NextAt(o)
    BY <1>1, <1>2, <1>3, <1>7, <2>1, FrozenIs
  <2>2. CASE ~(p = o /\ m = NextAt(o))
    <3>1. InSegment(p, m) /\ m < NextAt(p)
      BY <1>2, <1>10, <2>2, SMTT(60)
    <3>2. CASE Waited(memop_log[m])
      BY <3>2, FrozenIs DEF Waited
    <3>3. CASE \E u \in Thread : rpc[u] = "reader" /\ Cur(u).objid = p /\ rloc[u].log = memop_log[m]
      <4>1. PICK u \in Thread : rpc[u] = "reader" /\ Cur(u).objid = p /\ rloc[u].log = memop_log[m]
        BY <3>3
      <4>2. u # t
        BY <1>1, <4>1
      <4>3. rpc'[u] = "reader" /\ Cur(u)'.objid = p /\ rloc'[u].log = memop_log'[m]
        BY <1>1, <1>3, <1>7, <4>1, <4>2, FrozenIs DEF Others
      <4> QED BY <4>3
    <3> QED BY <3>1, <3>2, <3>3 DEF ReadersWaited
  <2> QED BY <2>1, <2>2
<1> QED BY <1>5, <1>6, <1>8, <1>9, <1>11, <1>12

(* or finds none left.                                                     *)
LEMMA ScanEnds ==
    ASSUME Recorded, Merged, RepInv, Frozen, NEW t \in Thread, NEW o \in Obj, o = Cur(t).objid,
           ~(HasEntry(o) /\ obj_version[o] = NextEntry(o).version), Moves(t, "scan", "store"),
           wait_reader_log' = [wait_reader_log EXCEPT ![o].mutex = FALSE],
           UNCHANGED <<rmem, obj_version, memop_cnt, wait_version, vbuf, rloc>>
    PROVE  RepInv'
<1> USE DEF RepInv
<1>1. rpc[t] = "scan" /\ rpc'[t] = "store" /\ Others(t) /\ rpc' \in [Thread -> RepLabels]
  BY Moved DEF RepLabels, AtAccess
<1>2. /\ wait_reader_log' \in [Obj -> ReaderLog] /\ \A p \in Obj : SameNext(p)
      /\ wait_reader_log'[o].mutex = FALSE
      /\ \A p \in Obj \ {o} : wait_reader_log'[p].mutex = wait_reader_log[p].mutex
  <2>1. wait_reader_log \in [Obj -> ReaderLog] /\ o \in Obj
    BY DEF RepTypes
  <2>2. wait_reader_log' = [wait_reader_log EXCEPT ![o].mutex = FALSE]
    OBVIOUS
  <2> QED BY ONLY <2>1, <2>2, ZenonT(60) DEF ReaderLog, SameNext
<1>3. Labels' /\ AtVersion' /\ PastOld' /\ OldPast' /\ MemoryAt' /\ ReadValue' /\ Cursor'
  BY <1>1, ScanRest
<1>4. RepTypes'
  BY <1>1, <1>2, <1>3, FrozenIs DEF RepTypes, Labels
<1>5. \A u \in Thread : Cur(u)' = Cur(u)
  BY FrozenIs DEF Cur, Access
<1>6. MutexHeld'
  BY <1>1, <1>2, <1>5, SMTT(60) DEF MutexHeld, Others
<1>7. SameLog'
  BY <1>2, KeepsSameLog
<1>8. ReadersWaited'
  <2>1. CountsGrow
    BY SMTT(60) DEF CountsGrow, RepTypes
  <2> QED BY <1>1, <1>2, <2>1, KeepsWaited DEF Merged
<1>9. ASSUME NEW m \in Nat, InSegment(o, m), NextAt(o) <= m
      PROVE  obj_version[o] < memop_log[m].version
  <2>1. HasEntry(o)
    <3>1. /\ wait_reader_log[o].size = Segment(o).size
          /\ wait_reader_log[o].n \in Nat /\ Segment(o).log \in Nat /\ Segment(o).size \in Nat \cup {-1}
      BY DEF SameLog, RepTypes, ReaderLog, Merged, SegmentFacts
    <3> QED BY ONLY <1>9, <3>1, SMTT(60) DEF InSegment, NextAt, HasEntry
  <2>2. /\ NextAt(o) \in Nat /\ InSegment(o, NextAt(o)) /\ NextEntry(o) = memop_log[NextAt(o)]
        /\ NextEntry(o) \in ReaderEntry /\ obj_version[o] <= NextEntry(o).version
    BY <2>1, ScanEntry DEF Merged
  <2>3. obj_version[o] \in Nat /\ NextEntry(o).version \in Nat
    BY <2>2 DEF RepTypes, ReaderEntry
  <2>4. obj_version[o] < NextEntry(o).version
    BY <2>1, <2>2, <2>3, SMTT(60)
  <2>5. memop_log[m].version \in Nat
    BY <1>9 DEF Merged, SegmentFacts, ReaderEntry
  <2>6. CASE m = NextAt(o)
    BY <2>2, <2>4, <2>6
  <2>7. CASE m # NextAt(o)
    <3>1. NextAt(o) < m
      BY <1>9, <2>2, <2>7, SMTT(60)
    <3>2. memop_log[NextAt(o)].version <= memop_log[m].version
      BY <1>9, <2>2, <3>1 DEF Merged, SegmentFacts
    <3> QED BY <2>2, <2>3, <2>4, <2>5, <3>2, SMTT(60)
  <2> QED BY <2>6, <2>7
<1>10. ReadersLeft'
  <2> SUFFICES ASSUME NEW p \in Obj, NEW m \in Nat, InSegment(p, m)', (NextAt(p) <= m)'
               PROVE  (/\ obj_version[p] <= memop_log[m].version
                       /\ \A u \in Thread : rpc[u] \in {"store", "publish"} /\ Cur(u).objid = p =>
                             obj_version[p] < memop_log[m].version)'
    BY DEF ReadersLeft
  <2>1. InSegment(p, m) /\ NextAt(p) <= m
    BY <1>2, FrozenIs DEF InSegment, NextAt, SameNext
  <2>2. /\ obj_version[p] <= memop_log[m].version
        /\ \A u \in Thread : rpc[u] \in {"store", "publish"} /\ Cur(u).objid = p =>
              obj_version[p] < memop_log[m].version
    BY <2>1 DEF ReadersLeft
  <2>3. p = o => obj_version[p] < memop_log[m].version
    BY <1>9, <2>1
  <2> QED BY <1>1, <1>5, <2>2, <2>3, FrozenIs DEF Others
<1> QED BY <1>3, <1>4, <1>6, <1>7, <1>8, <1>10

LEMMA ScanKeeps ==
    ASSUME Recorded, Merged, RepInv, Frozen, NEW t \in Thread, next_reader_memop(t)
    PROVE  RepInv'
<1>1. PICK o : o = Cur(t).objid
  OBVIOUS
<1>2. rpc[t] = "scan"
  BY DEF next_reader_memop, RAt
<1>3. o \in Obj
  BY <1>1, <1>2, Busy DEF RepInv, Recorded
<1> QED BY <1>1, <1>3, StepScan, ScanTakes, ScanEnds

(* When a write stores, every recorded read of the version it replaces is  *)
(* over: the writer met its entry, or that of a later read of the same     *)
(* thread, or the writer itself made the read.                             *)
LEMMA ReadsOver ==
    ASSUME Recorded, Merged, RepInv, NEW t \in Thread, rpc[t] \in {"store", "publish"},
           NEW u \in Thread, NEW i \in AccessesOf(u), Access(u, i).acc = "R",
           Access(u, i).objid = Cur(t).objid, Access(u, i).version = obj_version[Cur(t).objid]
    PROVE  i <= memop_cnt[u]
<1> USE DEF RepInv
<1>1. PICK o \in Obj : o = Cur(t).objid
  BY Busy DEF Recorded
<1>2. rpc[t] \in WriteLabels /\ rpc[t] \in AtAccess /\ rpc[t] # "call"
  BY DEF WriteLabels, AtAccess
<1>3. memop_cnt[t] + 1 \in AccessesOf(t) /\ memop_cnt[t] \in Nat /\ Cur(t).version \in Nat
  BY <1>2, Busy DEF Recorded
<1>4. Cur(t).acc = "W" /\ Cur(t).version = obj_version[o]
  BY <1>1, <1>2 DEF RepTypes, AtVersion
<1>5. i \in Nat /\ memop_cnt[u] \in Nat
  <2>1. memop_cnt[u] \in Nat
    BY DEF RepTypes
  <2>2. i \in Nat
    BY SMTT(60) DEF AccessesOf
  <2> QED BY <2>1, <2>2
<1>6. CASE \E j \in AccessesOf(u) :
              i < j /\ Access(u, j).acc = "W" /\ Access(u, j).objid = Access(u, i).objid
                    /\ Access(u, j).version = Access(u, i).version
  <2>1. PICK j \in AccessesOf(u) :
              i < j /\ Access(u, j).acc = "W" /\ Access(u, j).objid = Access(u, i).objid
                    /\ Access(u, j).version = Access(u, i).version
    BY <1>6
  <2>2. Access(t, memop_cnt[t] + 1) = Cur(t)
    BY DEF Cur
  <2>3. u = t /\ j = memop_cnt[t] + 1
    BY <1>1, <1>3, <1>4, <2>1, <2>2, SMTT(60) DEF Recorded, OneWriter
  <2> QED BY <1>3, <1>5, <2>1, <2>3, SMTT(60)
<1>7. CASE \E m \in Nat : /\ InSegment(Access(u, i).objid, m)
                          /\ memop_log[m].tid = u /\ memop_log[m].version = Access(u, i).version
                          /\ memop_log[m].memop >= i - 1
  <2>1. PICK m \in Nat : /\ InSegment(o, m)
                         /\ memop_log[m].tid = u /\ memop_log[m].version = obj_version[o]
                         /\ memop_log[m].memop >= i - 1
    BY <1>1, <1>7
  <2>2. memop_log[m].memop \in Nat /\ memop_log[m].version \in Nat /\ NextAt(o) \in Nat /\ obj_version[o] \in Nat
    <3>1. memop_log[m] \in ReaderEntry /\ Segment(o).log \in Nat
      BY <2>1 DEF Merged, SegmentFacts
    <3>2. obj_version[o] \in Nat /\ wait_reader_log[o] \in ReaderLog
      BY DEF RepTypes
    <3> QED BY ONLY <3>1, <3>2, SMTT(60) DEF NextAt, ReaderLog, ReaderEntry
  <2>3. m < NextAt(o)
    <3>1. NextAt(o) <= m => obj_version[o] < memop_log[m].version
      BY <1>1, <2>1 DEF ReadersLeft
    <3>2. PICK n \in Nat, v \in Nat : n = NextAt(o) /\ v = obj_version[o] /\ v = memop_log[m].version
      BY <2>1, <2>2
    <3>3. ~(n <= m)
      BY <3>1, <3>2, SMTT(60)
    <3> QED BY <3>2, <3>3, SMTT(60)
  <2>4. Waited(memop_log[m])
    <3>1. ASSUME NEW w \in Thread, rpc[w] = "reader", Cur(w).objid = o PROVE FALSE
      <4>1. rpc[w] \in WriteLabels
        BY <3>1 DEF WriteLabels
      <4>2. w = t
        BY <1>1, <1>2, <3>1, <4>1, ScanAlone
      <4> QED BY <3>1, <4>2
    <3> QED BY <2>1, <2>3, <3>1 DEF ReadersWaited
  <2>5. memop_cnt[u] > memop_log[m].memop
    BY <2>1, <2>4 DEF Waited
  <2> QED BY <1>5, <2>1, <2>2, <2>5, SMTT(60)
<1> QED BY <1>6, <1>7 DEF Merged, ReadsInSegments

LEMMA WriteKeeps ==
    ASSUME Recorded, Merged, RepInv, Frozen, NEW t \in Thread, rep_write(t)
    PROVE  RepInv'
<1> USE DEF RepInv
<1>1. PICK o \in Obj : o = Cur(t).objid
  <2>1. rpc[t] # "call"
    BY StepWrite DEF Moves
  <2> QED BY <2>1, Busy DEF Recorded
<1>2. /\ Moves(t, "store", "publish")
      /\ rmem' = [rmem EXCEPT ![o] = Value(t, memop_cnt[t])]
      /\ UNCHANGED <<obj_version, memop_cnt, wait_version, vbuf, wait_reader_log, rloc>>
  BY <1>1, StepWrite
<1>3. rpc[t] = "store" /\ rpc'[t] = "publish" /\ Others(t) /\ rpc' \in [Thread -> RepLabels]
  BY <1>2, Moved DEF RepLabels, AtAccess
<1>4. Quiet(t) /\ rpc[t] \in AtAccess /\ rpc[t] \in WriteLabels
  BY <1>2, <1>3, FrozenIs DEF Quiet, AtAccess, WriteLabels
<1>5. /\ memop_cnt[t] < Len(access_log[t]) /\ Cur(t).acc = "W" /\ memop_cnt[t] \in Nat
      /\ memop_cnt[t] + 1 \in AccessesOf(t)
      /\ Cur(t).val = Value(t, memop_cnt[t]) /\ Cur(t).version = obj_version[o]
  BY <1>1, <1>3, <1>4, Busy DEF RepTypes, Recorded, AtVersion
<1>6. /\ rmem' \in [Obj -> Val] /\ rmem'[o] = Cur(t).val
      /\ \A p \in Obj \ {o} : rmem'[p] = rmem[p]
  <2>1. Value(t, memop_cnt[t]) \in Val
    BY <1>5 DEF Value, Val
  <2> QED BY <1>2, <1>5, <2>1 DEF RepTypes
<1>7. RepTypes'
  <2>1. Labels'
    BY <1>2, <1>3, <1>5, FrozenIs, KeepsLabels
  <2> QED BY <1>2, <1>3, <1>6, <2>1, FrozenIs DEF RepTypes, Labels
<1>8. AtVersion'
  BY <1>4, QuietAtVersion DEF AtVersion
<1>9. /\ \A u, i : Access(u, i)' = Access(u, i) /\ AccessesOf(u)' = AccessesOf(u)
      /\ \A u : Cur(u)' = Cur(u)
  BY <1>2, FrozenIs DEF Access, AccessesOf, Cur
<1>10. \A p : Storing(p)' <=> Storing(p) \/ p = o
  BY <1>1, <1>3, <1>9 DEF Storing, Others
<1>11. \A u \in Thread : \A i : Past(u, i)' <=> Past(u, i)
  BY <1>2, <1>3 DEF Past, Others
<1>12. PastOld'
  BY <1>2, <1>9, <1>11 DEF PastOld
<1>13. OldPast'
  <2> SUFFICES ASSUME NEW u \in Thread, NEW i \in AccessesOf(u), NEW a, a = Access(u, i), NEW p, p = a.objid
               PROVE  /\ a.version < obj_version[p] => Past(u, i)
                      /\ a.acc = "R" /\ (a.version < obj_version[p]
                                \/ (a.version = obj_version[p] /\ (Storing(p) \/ p = o)))
                         => i <= memop_cnt[u]
    BY <1>2, <1>9, <1>10, <1>11 DEF OldPast
  <2>1. /\ a.version < obj_version[p] => Past(u, i)
        /\ a.acc = "R" /\ (a.version < obj_version[p] \/ (a.version = obj_version[p] /\ Storing(p)))
           => i <= memop_cnt[u]
    BY DEF OldPast
  <2>2. a.acc = "R" /\ a.version = obj_version[p] /\ p = o => i <= memop_cnt[u]
    BY <1>1, <1>3, ReadsOver
  <2> QED BY <2>1, <2>2
<1>14. MemoryAt'
  <2>1. ASSUME NEW p \in Obj, p # o PROVE {rmem'[p]} = StoredIn(access_log, p, Reached(p)')
    <3>1. Reached(p)' = Reached(p)
      BY <1>2, <1>10, <2>1 DEF Reached
    <3> QED BY <1>6, <2>1, <3>1 DEF MemoryAt
  <2>2. {rmem'[o]} = StoredIn(access_log, o, Reached(o)')
    <3>1. Reached(o)' = Cur(t).version + 2
      BY <1>2, <1>5, <1>10 DEF Reached
    <3>2. {Cur(t).val} = StoredIn(access_log, o, Cur(t).version + 2)
      BY <1>1, <1>5 DEF Recorded, ValuesStored, Cur
    <3> QED BY <1>6, <3>1, <3>2
  <2> QED BY <2>1, <2>2, FrozenIs DEF MemoryAt
<1>15. ReadValue' /\ MutexHeld' /\ SameLog'
  BY <1>2, <1>3, FrozenIs, KeepsReadValue, KeepsMutex, LogsStay, KeepsSameLog
<1>16. ReadersLeft'
  BY <1>2, <1>3, LogsStay, KeepsLeft
<1>17. ReadersWaited'
  <2>1. CountsGrow
    BY <1>2, SMTT(60) DEF CountsGrow, RepTypes
  <2> QED BY <1>2, <1>3, <2>1, LogsStay, KeepsWaited DEF Merged
<1>18. Cursor'
  <2>1. NextMemop(t)' = NextMemop(t)
    BY <1>2, <1>3 DEF NextMemop
  <2>2. \A u \in Thread \ {t} : memop_cnt'[u] = memop_cnt[u]
    BY <1>2
  <2>3. \A u \in Thread \ {t} : rpc[u] = "assert" /\ WaitOver(u) =>
               wait_version[u].version <= obj_version'[Cur(u).objid]
    BY <1>2 DEF WaitOver
  <2> QED BY <1>2, <1>3, <2>1, <2>2, <2>3, FrozenIs, KeepsCursor
<1> QED BY <1>7, <1>8, <1>12, <1>13, <1>14, <1>15, <1>16, <1>17, <1>18

(* Versions count by two.                                                  *)
LEMMA NextEven ==
    ASSUME NEW x \in Nat, NEW y \in Nat, x % 2 = 0, y % 2 = 0
    PROVE  (x < y => x + 2 <= y) /\ (x + 2) % 2 = 0
BY SMTT(60)

LEMMA PublishKeeps ==
    ASSUME Recorded, Merged, RepInv, Frozen, NEW t \in Thread, publish_version(t)
    PROVE  RepInv'
<1> USE DEF RepInv
<1>1. PICK o \in Obj : o = Cur(t).objid
  <2>1. rpc[t] # "call"
    BY StepPublish DEF Moves, RepTypes
  <2> QED BY <2>1, Busy DEF Recorded
<1>2. /\ Moves(t, "publish", "count")
      /\ obj_version' = [obj_version EXCEPT ![o] = @ + 2]
      /\ UNCHANGED <<rmem, memop_cnt, wait_version, vbuf, wait_reader_log, rloc>>
  BY <1>1, StepPublish DEF RepTypes
<1>3. rpc[t] = "publish" /\ rpc'[t] = "count" /\ Others(t) /\ rpc' \in [Thread -> RepLabels]
  BY <1>2, Moved DEF RepLabels
<1>4. rpc[t] \in AtAccess /\ rpc[t] \in WriteLabels /\ rpc[t] # "call"
      /\ rpc'[t] \notin AtAccess /\ rpc'[t] \notin WriteLabels
  BY <1>3 DEF AtAccess, WriteLabels
<1>5. PICK v \in Nat : v = obj_version[o]
  BY DEF RepTypes
<1>6. /\ memop_cnt[t] < Len(access_log[t]) /\ memop_cnt[t] \in Nat /\ memop_cnt[t] + 1 \in AccessesOf(t)
      /\ Cur(t).version % 2 = 0 /\ (Cur(t).acc = "W" => Cur(t).version < version[Cur(t).objid])
  BY <1>4, Busy DEF Recorded
<1>7. Cur(t).acc = "W" /\ Cur(t).version = obj_version[Cur(t).objid]
  BY <1>4 DEF RepTypes, AtVersion
<1>8. v % 2 = 0 /\ v < version[o] /\ Cur(t).version = v
  BY <1>1, <1>5, <1>6, <1>7
<1>9. version[o] \in Nat /\ version[o] % 2 = 0
  BY DEF Recorded, ValuesStored
<1>10. v + 2 <= version[o] /\ (v + 2) % 2 = 0
  BY <1>8, <1>9, NextEven
<1>11. /\ obj_version' \in [Obj -> Nat] /\ obj_version'[o] = v + 2
       /\ \A p \in Obj \ {o} : obj_version'[p] = obj_version[p]
       /\ \A p \in Obj : obj_version[p] \in Nat /\ obj_version[p] <= obj_version'[p]
  BY <1>2, <1>5, SMTT(60) DEF RepTypes
<1>12. /\ \A u, i : Access(u, i)' = Access(u, i) /\ AccessesOf(u)' = AccessesOf(u)
       /\ \A u : Cur(u)' = Cur(u)
  BY <1>2, FrozenIs DEF Access, AccessesOf, Cur
<1>13. Storing(o)
  BY <1>1, <1>3 DEF Storing
<1>14. ASSUME NEW u \in Thread \ {t}, rpc[u] \in AtAccess, Cur(u).objid = o PROVE FALSE
  <2>1. Cur(u).acc \in {"R", "W"}
    BY <1>14, Busy DEF Recorded, AtAccess
  <2>2. CASE Cur(u).acc = "R"
    BY <1>13, <1>14, <2>2, ReadAlone DEF Recorded
  <2>3. CASE Cur(u).acc = "W"
    <3>1. Writing(t) /\ Writing(u)
      BY <1>4, <1>7, <1>14, <2>3 DEF Writing
    <3> QED BY <1>1, <1>14, <3>1, OneWriting DEF Recorded
  <2> QED BY <2>1, <2>2, <2>3
<1>15. ~Storing(o)' /\ \A p : p # o => (Storing(p)' <=> Storing(p))
  <2>1. "publish" \in AtAccess
    BY DEF AtAccess
  <2> QED BY <1>1, <1>3, <1>12, <1>14, <2>1 DEF Storing, Others
<1>16. RepTypes'
  <2>1. Labels'
    BY <1>2, <1>3, <1>4, <1>6, FrozenIs, KeepsLabels
  <2>2. \A p \in Obj : obj_version'[p] % 2 = 0 /\ obj_version'[p] <= version[p]
    BY <1>10, <1>11 DEF RepTypes
  <2> QED BY <1>2, <1>3, <1>11, <2>1, <2>2, FrozenIs DEF RepTypes, Labels
<1>17. AtVersion'
  <2> SUFFICES ASSUME NEW u \in Thread, rpc'[u] \in AtAccess
               PROVE  Cur(u).version = obj_version'[Cur(u).objid]
    BY <1>12 DEF AtVersion
  <2>1. u # t
    BY <1>4
  <2>2. rpc[u] \in AtAccess /\ Cur(u).objid # o
    BY <1>3, <1>14, <2>1 DEF Others
  <2>3. Cur(u).objid \in Obj
    BY <2>2, Busy DEF Recorded, AtAccess
  <2> QED BY <1>11, <2>2, <2>3 DEF AtVersion
<1>18. \A u \in Thread : \A i : Past(u, i)' <=> Past(u, i) \/ (u = t /\ i = memop_cnt[t] + 1)
  BY <1>2, <1>3 DEF Past, Others
<1>19. ASSUME NEW u \in Thread, NEW i \in AccessesOf(u)
       PROVE  Access(u, i).version \in Nat /\ Access(u, i).objid \in Obj /\ Access(u, i).version % 2 = 0
              /\ Access(u, i).acc \in {"R", "W"}
  BY DEF Recorded, AccessFacts, MemAcc
<1>20. PastOld'
  <2> SUFFICES ASSUME NEW u \in Thread, NEW i \in AccessesOf(u), NEW a, a = Access(u, i), NEW p \in Obj, p = a.objid,
                      Past(u, i) \/ (u = t /\ i = memop_cnt[t] + 1)
               PROVE  a.version <= obj_version'[p] /\ (a.acc = "W" => a.version < obj_version'[p])
    BY <1>12, <1>18, <1>19 DEF PastOld
  <2>1. a.version \in Nat /\ obj_version[p] \in Nat /\ obj_version'[p] \in Nat /\ obj_version[p] <= obj_version'[p]
    BY <1>11, <1>19
  <2>2. CASE Past(u, i)
    <3>1. a.version <= obj_version[p] /\ (a.acc = "W" => a.version < obj_version[p])
      BY <2>2 DEF PastOld
    <3> QED BY ONLY <2>1, <3>1, SMTT(60)
  <2>3. CASE u = t /\ i = memop_cnt[t] + 1
    <3>1. a = Cur(t) /\ p = o
      BY <1>1, <2>3 DEF Cur
    <3> QED BY <1>8, <1>11, <3>1, SMTT(60)
  <2> QED BY <2>2, <2>3
<1>21. OldPast'
  <2> SUFFICES ASSUME NEW u \in Thread, NEW i \in AccessesOf(u), NEW a, a = Access(u, i), NEW p \in Obj, p = a.objid
               PROVE  /\ a.version < obj_version'[p] => Past(u, i) \/ (u = t /\ i = memop_cnt[t] + 1)
                      /\ a.acc = "R" /\ (a.version < obj_version'[p]
                                \/ (a.version = obj_version'[p] /\ Storing(p)'))
                         => i <= memop_cnt[u]
    BY <1>2, <1>12, <1>18, <1>19 DEF OldPast
  <2>1. /\ a.version < obj_version[p] => Past(u, i)
        /\ a.acc = "R" /\ (a.version < obj_version[p] \/ (a.version = obj_version[p] /\ Storing(p)))
           => i <= memop_cnt[u]
    BY DEF OldPast
  <2>2. CASE p # o
    BY <1>11, <1>15, <2>1, <2>2
  <2>3. CASE p = o
    <3>1. a.version \in Nat /\ a.version % 2 = 0
      BY <1>19
    <3>2. a.version < obj_version'[p] => a.version < v \/ a.version = v
      BY <1>8, <1>11, <2>3, <3>1, NextEven, SMTT(60)
    <3>3. a.acc = "R" /\ a.version < obj_version'[p] => i <= memop_cnt[u]
      BY <1>5, <1>13, <2>1, <2>3, <3>2
    <3>4. a.acc = "W" /\ a.version = v => u = t /\ i = memop_cnt[t] + 1
      <4>1. Access(t, memop_cnt[t] + 1) = Cur(t)
        BY DEF Cur
      <4> QED BY <1>1, <1>6, <1>7, <1>8, <2>3, <4>1 DEF Recorded, OneWriter
    <3>5. a.acc \in {"R", "W"} /\ (i <= memop_cnt[u] => Past(u, i))
      BY <1>19 DEF Past
    <3> QED BY <1>5, <1>15, <2>1, <2>3, <3>2, <3>3, <3>4, <3>5
  <2> QED BY <2>2, <2>3
<1>22. MemoryAt'
  <2>1. ASSUME NEW p \in Obj PROVE Reached(p)' = Reached(p)
    <3>1. CASE p = o
      BY <1>5, <1>11, <1>13, <1>15, <3>1 DEF Reached
    <3>2. CASE p # o
      BY <1>11, <1>15, <3>2 DEF Reached
    <3> QED BY <3>1, <3>2
  <2> QED BY <1>2, <2>1, FrozenIs DEF MemoryAt
<1>23. ReadValue' /\ MutexHeld' /\ SameLog'
  BY <1>2, <1>3, FrozenIs, KeepsReadValue, KeepsMutex, LogsStay, KeepsSameLog
<1>24. ReadersWaited'
  <2>1. CountsGrow
    BY <1>2, SMTT(60) DEF CountsGrow, RepTypes
  <2> QED BY <1>2, <1>3, <2>1, LogsStay, KeepsWaited DEF Merged
<1>25. Cursor'
  <2>1. NextMemop(t)' = NextMemop(t)
    BY <1>2, <1>3 DEF NextMemop
  <2>2. \A u \in Thread \ {t} : memop_cnt'[u] = memop_cnt[u]
    BY <1>2
  <2>3. ASSUME NEW u \in Thread \ {t}, rpc[u] = "assert", WaitOver(u)
        PROVE  wait_version[u].version <= obj_version'[Cur(u).objid]
    <3>1. Cur(u).objid \in Obj /\ wait_version[u].version \in Int
      BY <2>3, Busy DEF Recorded, RepTypes
    <3>2. /\ obj_version[Cur(u).objid] \in Nat /\ obj_version'[Cur(u).objid] \in Nat
          /\ obj_version[Cur(u).objid] <= obj_version'[Cur(u).objid]
      BY <1>11, <3>1
    <3>3. wait_version[u].version <= obj_version[Cur(u).objid]
      BY <2>3 DEF WaitOver
    <3> QED BY ONLY <3>1, <3>2, <3>3, SMTT(60)
  <2> QED BY <1>2, <1>3, <2>1, <2>2, <2>3, FrozenIs, KeepsCursor
<1>26. ReadersLeft'
  <2> SUFFICES ASSUME NEW p \in Obj, NEW m \in Nat, InSegment(p, m)', (NextAt(p) <= m)'
               PROVE  (/\ obj_version[p] <= memop_log[m].version
                       /\ \A u \in Thread : rpc[u] \in {"store", "publish"} /\ Cur(u).objid = p =>
                             obj_version[p] < memop_log[m].version)'
    BY DEF ReadersLeft
  <2>1. InSegment(p, m) /\ NextAt(p) <= m
    BY <1>2, FrozenIs DEF InSegment, NextAt
  <2>2. /\ obj_version[p] <= memop_log[m].version
        /\ \A u \in Thread : rpc[u] \in {"store", "publish"} /\ Cur(u).objid = p =>
              obj_version[p] < memop_log[m].version
    BY <2>1 DEF ReadersLeft
  <2>3. CASE p # o
    <3>1. rpc'[t] \notin {"store", "publish"}
      BY <1>3
    <3> QED BY <1>3, <1>11, <1>12, <2>2, <2>3, <3>1, FrozenIs DEF Others
  <2>4. CASE p = o
    <3>1. memop_log[m] \in ReaderEntry /\ memop_log[m].memop + 1 \in AccessesOf(memop_log[m].tid)
          /\ memop_log[m].version = Access(memop_log[m].tid, memop_log[m].memop + 1).version
      BY <2>1 DEF Merged, SegmentFacts
    <3>2. PICK w \in Nat : w = memop_log[m].version /\ w % 2 = 0
      BY <1>19, <3>1 DEF ReaderEntry
    <3>3. v < w
      BY <1>1, <1>3, <1>5, <2>2, <2>4, <3>2
    <3>4. v + 2 <= w
      BY <1>8, <3>2, <3>3, NextEven
    <3>5. ASSUME NEW u \in Thread, rpc'[u] \in {"store", "publish"}, Cur(u)'.objid = p PROVE FALSE
      <4>1. u # t
        BY <1>3, <3>5
      <4>2. rpc[u] \in AtAccess /\ Cur(u).objid = o
        BY <1>3, <1>12, <2>4, <3>5, <4>1 DEF Others, AtAccess
      <4> QED BY <1>14, <4>1, <4>2
    <3> QED BY <1>11, <2>4, <3>2, <3>4, <3>5, FrozenIs
  <2> QED BY <2>3, <2>4
<1> QED BY <1>16, <1>17, <1>20, <1>21, <1>22, <1>23, <1>24, <1>25, <1>26

-----------------------------------------------------------------------------
(* Replay starts: no version passed, nothing waited for, and the first     *)
(* entry of every version log taken.                                       *)
LEMMA OffIs ==
    ASSUME RepOff
    PROVE  /\ rmem \in [Obj -> {InitVal}] /\ obj_version \in [Obj -> {0}] /\ memop_cnt \in [Thread -> {0}]
           /\ wait_version \in [Thread -> {[memop |-> 0, version |-> 0]}]
           /\ vbuf \in [Thread -> Nat]
           /\ rloc \in [Thread -> {[val |-> InitVal, log |-> NoReader]}]
           /\ rpc \in [Thread -> {"off"}]
           /\ wait_reader_log \in [Obj -> {[log |-> 0, n |-> 0, size |-> -1, mutex |-> FALSE]}]
<1>2. PICK c : c = [log |-> 0, n |-> 0, size |-> -1, mutex |-> FALSE]
  OBVIOUS
<1>3. wait_reader_log = [o \in Obj |-> c]
  BY <1>2 DEF RepOff
<1>4. wait_reader_log \in [Obj -> {c}]
  BY <1>3
<1>5. PICK d : d = [memop |-> 0, version |-> 0]
  OBVIOUS
<1>6. wait_version = [t \in Thread |-> d]
  BY <1>5 DEF RepOff
<1>7. PICK e : e = [val |-> InitVal, log |-> NoReader]
  OBVIOUS
<1>8. rloc = [t \in Thread |-> e]
  BY <1>7 DEF RepOff
<1>9. /\ rmem = [o \in Obj |-> InitVal] /\ obj_version = [o \in Obj |-> 0]
      /\ memop_cnt = [t \in Thread |-> 0] /\ vbuf = [t \in Thread |-> 0] /\ rpc = [t \in Thread |-> "off"]
  BY DEF RepOff
<1>10. wait_version \in [Thread -> {d}] /\ rloc \in [Thread -> {e}]
  BY <1>6, <1>8
<1>11. /\ rmem \in [Obj -> {InitVal}] /\ obj_version \in [Obj -> {0}] /\ memop_cnt \in [Thread -> {0}]
       /\ vbuf \in [Thread -> Nat] /\ rpc \in [Thread -> {"off"}]
  BY <1>9
<1> QED BY <1>2, <1>4, <1>5, <1>7, <1>10, <1>11

LEMMA StepStart ==
    ASSUME rep_mem_init
    PROVE  /\ wait_reader_log' = [o \in Obj |-> [log |-> Segment(o).log, n |-> 0,
                                                 size |-> Segment(o).size, mutex |-> FALSE]]
           /\ wait_version' = [t \in Thread |-> next_wait_version(t, 0)]
           /\ vbuf' = [t \in Thread |-> taken_after(t, 0)]
           /\ rpc' = [t \in Thread |-> "call"]
           /\ UNCHANGED <<rmem, obj_version, memop_cnt, rloc>>
<1>2. \A o : load_wait_reader_log(o) = [log |-> Segment(o).log, n |-> 0,
                                            size |-> Segment(o).size, mutex |-> FALSE]
  BY DEF load_wait_reader_log, Segment
<1>3. /\ wait_reader_log' = [o \in Obj |-> load_wait_reader_log(o)]
      /\ wait_version' = [t \in Thread |-> next_wait_version(t, 0)]
      /\ vbuf' = [t \in Thread |-> taken_after(t, 0)]
      /\ rpc' = [t \in Thread |-> "call"]
      /\ UNCHANGED <<rmem, obj_version, memop_cnt, rloc>>
  BY DEF rep_mem_init
<1>4. wait_reader_log' = [o \in Obj |-> [log |-> Segment(o).log, n |-> 0,
                                         size |-> Segment(o).size, mutex |-> FALSE]]
  BY <1>2, <1>3
<1> QED BY <1>3, <1>4

LEMMA FirstTaken ==
    ASSUME VersionLogFacts, RepOff, NEW t \in Thread, NEW log, log = version_log[t]
    PROVE  /\ taken_after(t, 0) \in Nat /\ taken_after(t, 0) < Len(log)
           /\ next_wait_version(t, 0) \in [memop : Nat \cup {-1}, version : Int]
           /\ taken_after(t, 0) <= 1
           /\ IF next_wait_version(t, 0).memop = -1
              THEN taken_after(t, 0) = 0 /\ Len(log) = 1
              ELSE taken_after(t, 0) = 1 /\ next_wait_version(t, 0) = log[1] /\ 0 <= next_wait_version(t, 0).memop
<1>1. /\ Len(log) \in Nat \ {0} /\ log[Len(log)].memop = -1
      /\ \A k \in 1 .. Len(log) - 1 : log[k] \in WaitVersion
  BY DEF VersionLogFacts
<1>2. wait_version[t] = [memop |-> 0, version |-> 0]
  BY OffIs
<1>3. CASE log[1].memop = -1
  <2>1. Len(log) = 1
    <3>1. ASSUME log[1] \in WaitVersion PROVE FALSE
      <4>1. log[1].memop \in Nat
        BY <3>1 DEF WaitVersion
      <4> QED BY <1>3, <4>1, SMTT(60)
    <3>2. ~(1 \in 1 .. Len(log) - 1)
      BY <1>1, <3>1
    <3>3. PICK n \in Nat : n = Len(log) /\ n # 0
      BY <1>1
    <3>4. ~(1 \in 1 .. n - 1)
      BY <3>2, <3>3
    <3>5. n = 1
      BY ONLY <3>3, <3>4, SMTT(60)
    <3> QED BY <3>3, <3>5
  <2>2. taken_after(t, 0) = 0
    BY <1>3, SMTT(60) DEF taken_after
  <2>3. next_wait_version(t, 0) = [[memop |-> 0, version |-> 0] EXCEPT !.memop = -1]
    BY <1>2, <1>3, SMTT(60) DEF next_wait_version
  <2>4. next_wait_version(t, 0) = [memop |-> -1, version |-> 0]
    BY <2>3
  <2> QED BY <2>1, <2>2, <2>4, SMTT(60)
<1>4. CASE log[1].memop # -1
  <2>1. 1 < Len(log)
    BY <1>1, <1>4, SMTT(60)
  <2>2. taken_after(t, 0) = 1 /\ next_wait_version(t, 0) = log[1]
    BY <1>4, SMTT(60) DEF taken_after, next_wait_version
  <2>3. log[1] \in WaitVersion
    BY <1>1, <2>1, SMTT(60)
  <2>4. log[1].memop \in Nat /\ log[1] \in [memop : Nat \cup {-1}, version : Int]
    BY <2>3, SMTT(60) DEF WaitVersion
  <2> QED BY <1>4, <2>1, <2>2, <2>4, SMTT(60)
<1> QED BY <1>3, <1>4

LEMMA StartKeeps ==
    ASSUME Recorded, Merged, RepOff, Frozen, rep_mem_init
    PROVE  RepInv'
<1>1. /\ access_log' = access_log /\ version_log' = version_log /\ version' = version /\ memop_log' = memop_log /\ \A o : Segment(o)' = Segment(o)
  BY FrozenIs
<1>2. /\ \A t \in Thread : rpc'[t] = "call" /\ memop_cnt'[t] = 0
                           /\ wait_version'[t] = next_wait_version(t, 0) /\ vbuf'[t] = taken_after(t, 0)
      /\ \A o \in Obj : rmem'[o] = InitVal /\ obj_version'[o] = 0
  <2>1. \A t \in Thread : rpc'[t] = "call" /\ wait_version'[t] = next_wait_version(t, 0) /\ vbuf'[t] = taken_after(t, 0)
    BY StepStart
  <2>2. memop_cnt' = [t \in Thread |-> 0] /\ rmem' = [o \in Obj |-> InitVal] /\ obj_version' = [o \in Obj |-> 0]
    BY StepStart DEF RepOff
  <2> QED BY <2>1, <2>2
<1>3. \A o \in Obj : Segment(o).log \in Nat /\ Segment(o).size \in Nat \cup {-1}
  BY DEF Merged, SegmentFacts
<1>4. \A o \in Obj : /\ wait_reader_log'[o].log = Segment(o).log /\ wait_reader_log'[o].size = Segment(o).size
                     /\ wait_reader_log'[o].n = 0 /\ ~wait_reader_log'[o].mutex
  <2> SUFFICES ASSUME NEW o \in Obj
               PROVE  /\ wait_reader_log'[o].log = Segment(o).log /\ wait_reader_log'[o].size = Segment(o).size
                      /\ wait_reader_log'[o].n = 0 /\ ~wait_reader_log'[o].mutex
    OBVIOUS
  <2>1. wait_reader_log'[o] = [log |-> Segment(o).log, n |-> 0, size |-> Segment(o).size, mutex |-> FALSE]
    BY StepStart
  <2> QED BY <2>1, SMTT(60)
<1>5. \A u, i : Access(u, i)' = Access(u, i) /\ AccessesOf(u)' = AccessesOf(u)
  BY <1>1 DEF Access, AccessesOf
<1>6. ASSUME NEW t \in Thread
      PROVE  Len(access_log[t]) \in Nat /\ \A i \in AccessesOf(t) : i \in Nat /\ i > 0
  <2>1. Len(access_log[t]) \in Nat
    BY DEF Recorded, LogLengths
  <2> QED BY <2>1, SMTT(60) DEF AccessesOf
<1>7. VersionLogFacts
  BY DEF Recorded
<1>8. RepTypes'
  <2>1. rmem' \in [Obj -> Val] /\ obj_version' \in [Obj -> Nat] /\ memop_cnt' \in [Thread -> Nat]
    <3>1. InitVal \in Val
      BY DEF Val
    <3> QED BY <3>1, OffIs, StepStart, SMTT(60)
  <2>2. wait_version' \in [Thread -> [memop : Nat \cup {-1}, version : Int]] /\ vbuf' \in [Thread -> Nat]
    BY <1>7, StepStart, FirstTaken, SMTT(60)
  <2>3. wait_reader_log' \in [Obj -> ReaderLog]
    <3>1. \A o \in Obj : [log |-> Segment(o).log, n |-> 0, size |-> Segment(o).size, mutex |-> FALSE] \in ReaderLog
      BY <1>3 DEF ReaderLog
    <3> QED BY <3>1, StepStart
  <2>4. rpc' \in [Thread -> RepLabels]
    BY StepStart DEF RepLabels
  <2>5. rloc' \in [Thread -> [val : Val, log : ReaderEntry \cup {NoReader}]]
    <3>1. InitVal \in Val
      BY DEF Val
    <3>2. [val |-> InitVal, log |-> NoReader] \in [val : Val, log : ReaderEntry \cup {NoReader}]
      BY <3>1
    <3>3. rloc' = rloc
      BY StepStart
    <3> QED BY <3>2, <3>3, OffIs
  <2>6. \A o \in Obj : obj_version'[o] % 2 = 0 /\ obj_version'[o] <= version'[o]
    <3>1. \A o \in Obj : version[o] \in Nat
      BY DEF Recorded, ValuesStored
    <3> QED BY <1>1, <1>2, <3>1, SMTT(60)
  <2>7. \A t \in Thread :
          /\ memop_cnt'[t] <= Len(access_log'[t])
          /\ rpc'[t] = "call"
    <3> SUFFICES ASSUME NEW t \in Thread PROVE memop_cnt'[t] <= Len(access_log'[t]) /\ rpc'[t] = "call"
      OBVIOUS
    <3>1. Len(access_log'[t]) \in Nat
      BY <1>1, <1>6
    <3> QED BY <1>2, <3>1, SMTT(60)
  <2>8. "call" \notin WriteLabels
    BY DEF WriteLabels
  <2> QED BY <2>1, <2>2, <2>3, <2>4, <2>5, <2>6, <2>7, <2>8 DEF RepTypes
<1>9. AtVersion' /\ ReadValue'
  BY <1>2 DEF AtVersion, ReadValue, AtAccess
<1>10. PastOld'
  BY <1>2, <1>5, <1>6, SMTT(60) DEF PastOld, Past
<1>11. \A o : ~Storing(o)'
  BY <1>2 DEF Storing
<1>12. OldPast'
  <2> SUFFICES ASSUME NEW t \in Thread, NEW i \in AccessesOf(t)
               PROVE  ~(Access(t, i).version < obj_version'[Access(t, i).objid])
    BY <1>5, <1>11 DEF OldPast
  <2>1. Access(t, i).version \in Nat /\ Access(t, i).objid \in Obj
    BY DEF Recorded, AccessFacts, MemAcc
  <2> QED BY <1>2, <2>1, SMTT(60)
<1>13. MemoryAt'
  <2> SUFFICES ASSUME NEW o \in Obj PROVE {rmem'[o]} = StoredIn(access_log', o, Reached(o)')
    BY DEF MemoryAt
  <2>1. Reached(o)' = 0
    BY <1>2, <1>11 DEF Reached
  <2> QED BY <1>2, <2>1 DEF StoredIn
<1>14. Cursor'
  <2> SUFFICES ASSUME NEW t \in Thread PROVE TakenTo(t, NextMemop(t))' /\ (rpc'[t] = "assert" => WaitOver(t)')
    BY DEF Cursor
  <2>1. NextMemop(t)' = 0 /\ rpc'[t] # "assert"
    BY <1>2 DEF NextMemop
  <2>2. PICK log : log = version_log[t]
    OBVIOUS
  <2>3. PICK taken \in Nat : taken = taken_after(t, 0)
    BY <1>7, <2>2, FirstTaken
  <2>4. PICK w : w = next_wait_version(t, 0)
    OBVIOUS
  <2>5. /\ taken < Len(log) /\ taken <= 1
        /\ IF w.memop = -1 THEN taken = 0 /\ Len(log) = 1
           ELSE taken = 1 /\ w = log[1] /\ 0 <= w.memop
    BY <1>7, <2>2, <2>3, <2>4, FirstTaken
  <2>6. version_log'[t] = log /\ vbuf'[t] = taken /\ wait_version'[t] = w
    BY <1>1, <1>2, <2>2, <2>3, <2>4
  <2>7. /\ taken < Len(log)
        /\ \A k \in 1 .. taken - 1 : log[k].memop < 0
        /\ IF w.memop = -1
           THEN taken = Len(log) - 1 /\ \A k \in 1 .. taken : log[k].memop < 0
           ELSE taken > 0 /\ w = log[taken] /\ 0 <= w.memop
    <3>1. CASE w.memop = -1
      <4>1. taken = 0 /\ Len(log) = 1 /\ taken < Len(log)
        BY <2>5, <3>1
      <4>2. (\A k \in 1 .. taken - 1 : FALSE) /\ (\A k \in 1 .. taken : FALSE) /\ taken = Len(log) - 1
        BY ONLY <4>1, SMTT(60)
      <4> QED BY <3>1, <4>1, <4>2
    <3>2. CASE w.memop # -1
      <4>1. taken = 1 /\ taken < Len(log) /\ w = log[taken] /\ 0 <= w.memop /\ taken > 0
        BY <2>5, <3>2, SMTT(60)
      <4>2. \A k \in 1 .. taken - 1 : FALSE
        BY ONLY <4>1, SMTT(60)
      <4> QED BY <3>2, <4>1, <4>2
    <3> QED BY <3>1, <3>2
  <2> QED BY <2>1, <2>6, <2>7 DEF TakenTo
<1>15. MutexHeld' /\ SameLog'
  BY <1>1, <1>4 DEF MutexHeld, SameLog
<1>16. \A o \in Obj : NextAt(o)' = Segment(o).log + 1
  BY <1>1, <1>3, <1>4, SMTT(60) DEF NextAt
<1>17. ReadersWaited'
  <2> SUFFICES ASSUME NEW o \in Obj, NEW m \in Nat, InSegment(o, m)', (m < NextAt(o))' PROVE FALSE
    BY DEF ReadersWaited
  <2>1. Segment(o).log < m /\ m < Segment(o).log + 1
    BY <1>1, <1>16 DEF InSegment
  <2> QED BY <1>3, <2>1, SMTT(60)
<1>18. ReadersLeft'
  <2> SUFFICES ASSUME NEW o \in Obj, NEW m \in Nat, InSegment(o, m)' PROVE obj_version'[o] <= memop_log'[m].version
    <3>1. \A t \in Thread : ~(rpc'[t] \in {"store", "publish"})
      BY <1>2
    <3> QED BY <3>1 DEF ReadersLeft
  <2>1. InSegment(o, m)
    BY <1>1 DEF InSegment
  <2>2. memop_log[m] \in ReaderEntry
    BY <2>1 DEF Merged, SegmentFacts
  <2> QED BY <1>1, <1>2, <2>2, SMTT(60) DEF ReaderEntry
<1> QED BY <1>8, <1>9, <1>10, <1>12, <1>13, <1>14, <1>15, <1>17, <1>18 DEF RepInv

-----------------------------------------------------------------------------
(* Every step of replay keeps the invariant, and so does a step of nothing *)
(* in it.                                                                  *)
RepStill == UNCHANGED repVars

LEMMA RepStays ==
    ASSUME RepInv, Frozen, RepStill
    PROVE  RepInv'
<1>1. /\ access_log' = access_log /\ version_log' = version_log /\ version' = version
      /\ memop_log' = memop_log /\ index_log' = index_log
      /\ rmem' = rmem /\ obj_version' = obj_version /\ memop_cnt' = memop_cnt
      /\ wait_version' = wait_version /\ vbuf' = vbuf /\ wait_reader_log' = wait_reader_log
      /\ rpc' = rpc /\ rloc' = rloc
  BY DEF Frozen, RepStill, repVars
<1>2. /\ \A t : Cur(t)' = Cur(t) /\ AccessesOf(t)' = AccessesOf(t)
      /\ \A t, i : Access(t, i)' = Access(t, i) /\ Past(t, i)' = Past(t, i)
  BY <1>1 DEF Cur, Access, AccessesOf, Past
<1>3. \A o : Segment(o)' = Segment(o) /\ \A m : InSegment(o, m)' = InSegment(o, m)
  BY <1>1 DEF Segment, InSegment
<1>4. RepTypes'
  BY <1>1, <1>2 DEF RepInv, RepTypes
<1>5. AtVersion' /\ ReadValue'
  BY <1>1, <1>2 DEF RepInv, AtVersion, ReadValue
<1>6. PastOld'
  BY <1>1, <1>2 DEF RepInv, PastOld
<1>7. \A o : Storing(o)' = Storing(o) /\ Reached(o)' = Reached(o)
  BY <1>1, <1>2 DEF Storing, Reached
<1>8. OldPast'
  BY <1>1, <1>2, <1>7 DEF RepInv, OldPast
<1>9. MemoryAt'
  BY <1>1, <1>7 DEF RepInv, MemoryAt
<1>10. Cursor'
  BY <1>1, <1>2 DEF RepInv, Cursor, TakenTo, NextMemop, WaitOver
<1>11. MutexHeld'
  BY <1>1, <1>2 DEF RepInv, MutexHeld
<1>12. SameLog'
  BY <1>1, <1>3 DEF RepInv, SameLog
<1>13. ReadersWaited' /\ ReadersLeft'
  <2>1. \A o : NextAt(o)' = NextAt(o)
    BY <1>1, <1>3 DEF NextAt
  <2>2. ReadersWaited'
    BY <1>1, <1>2, <1>3, <2>1 DEF RepInv, ReadersWaited, Waited
  <2>3. ReadersLeft'
    BY <1>1, <1>2, <1>3, <2>1 DEF RepInv, ReadersLeft
  <2> QED BY <2>2, <2>3
<1> QED BY <1>4, <1>5, <1>6, <1>8, <1>9, <1>10, <1>11, <1>12, <1>13 DEF RepInv

LEMMA ReplayKeeps ==
    ASSUME Recorded, Merged, RepInv, Frozen, NEW t \in Thread, RepStep(t)
    PROVE  RepInv'
<1>1. \/ wait_object_version(t) \/ assert_version(t)
      \/ rep_read(t) \/ rep_read_check(t) \/ count_memop(t)
      \/ trylock(t) \/ next_reader_memop(t) \/ wait_reader(t)
      \/ rep_write(t) \/ publish_version(t)
  BY DEF RepStep
<1> QED BY <1>1, WaitVersionKeeps, AssertKeeps, ReadKeeps, CheckKeeps, CountKeeps, TrylockKeeps,
           ScanKeeps, WaitReaderKeeps, WriteKeeps, PublishKeeps

LEMMA OffSteps ==
    ASSUME RepOff, NEW t \in Thread
    PROVE  ~RepStep(t)
<1>1. rpc[t] = "off"
  BY DEF RepOff
<1> QED BY <1>1 DEF RepStep, wait_object_version, assert_version, rep_read,
                    rep_read_check, count_memop, trylock, AboutToScan,
                    next_reader_memop, wait_reader, rep_write, publish_version, RAt

LEMMA OffStays ==
    ASSUME RepStill, RepOff
    PROVE  RepOff'
BY DEF RepStill, repVars, RepOff

-----------------------------------------------------------------------------
(* What follows for replay, which is off or in the invariant               *)
Replaying == Recorded /\ Merged /\ RepInv

LEMMA TypesOff ==
    ASSUME RepOff
    PROVE  RepTypeOK
<1>1. /\ rmem = [o \in Obj |-> InitVal] /\ obj_version = [o \in Obj |-> 0]
      /\ memop_cnt = [t \in Thread |-> 0]
      /\ wait_version = [t \in Thread |-> [memop |-> 0, version |-> 0]]
      /\ vbuf = [t \in Thread |-> 0]
      /\ wait_reader_log = [o \in Obj |-> [log |-> 0, n |-> 0, size |-> -1, mutex |-> FALSE]]
      /\ rpc = [t \in Thread |-> "off"]
      /\ \A t \in Thread : rloc[t] = [val |-> InitVal, log |-> NoReader]
  BY DEF RepOff
<1>2. InitVal \in Val
  BY DEF Val
<1>3. /\ rmem \in [Obj -> Val] /\ obj_version \in [Obj -> Nat] /\ memop_cnt \in [Thread -> Nat]
      /\ vbuf \in [Thread -> Nat]
  BY <1>1, <1>2
<1>4. wait_version \in [Thread -> [memop : Nat \cup {-1}, version : Int]]
  BY <1>1, SMTT(60)
<1>5. wait_reader_log \in [Obj -> ReaderLog]
  BY <1>1 DEF ReaderLog
<1>6. rpc \in [Thread -> {"off", "call", "assert", "go", "check", "scan", "reader",
                          "again", "store", "publish", "count"}]
  BY <1>1
<1>7. \A t \in Thread : rloc[t].val \in Val
  BY <1>1, <1>2, SMTT(60)
<1> QED BY <1>3, <1>4, <1>5, <1>6, <1>7 DEF RepTypeOK

LEMMA TypesHold ==
    ASSUME Replaying
    PROVE  RepTypeOK
<1>1. RepTypes
  BY DEF Replaying, RepInv
<1>2. rpc \in [Thread -> {"off", "call", "assert", "go", "check", "scan", "reader",
                          "again", "store", "publish", "count"}]
  <2>1. rpc \in [Thread -> RepLabels]
    BY <1>1 DEF RepTypes
  <2>2. RepLabels \subseteq {"off", "call", "assert", "go", "check", "scan", "reader",
                             "again", "store", "publish", "count"}
    BY DEF RepLabels, AtAccess
  <2> QED BY <2>1, <2>2
<1>3. \A t \in Thread : rloc[t].val \in Val
  BY <1>1 DEF RepTypes
<1>4. /\ rmem \in [Obj -> Val] /\ obj_version \in [Obj -> Nat] /\ memop_cnt \in [Thread -> Nat]
      /\ wait_version \in [Thread -> [memop : Nat \cup {-1}, version : Int]]
      /\ vbuf \in [Thread -> Nat] /\ wait_reader_log \in [Obj -> ReaderLog]
  BY <1>1 DEF RepTypes
<1> QED BY <1>2, <1>3, <1>4 DEF RepTypeOK

(* A thread whose spin ended has the entry of its own access.              *)
LEMMA SpinOver ==
    ASSUME Replaying, NEW t \in Thread, rpc[t] = "assert"
    PROVE  obj_version[Cur(t).objid] = wait_version[t].version
<1>1. /\ AccessFacts /\ RepTypes /\ OldPast /\ Cursor /\ VersionLogFacts
  BY DEF Replaying, RepInv, Recorded
<1>2. PICK n \in Nat : n = memop_cnt[t]
  BY <1>1 DEF RepTypes
<1>3. rpc[t] # "call" /\ rpc[t] # "count"
  OBVIOUS
<1>4. memop_cnt[t] < Len(access_log[t]) /\ Cur(t).objid \in Obj /\ Cur(t).version \in Nat
  BY <1>1, <1>3, Busy
<1>5. obj_version[Cur(t).objid] <= Cur(t).version /\ obj_version[Cur(t).objid] \in Nat
  BY <1>1, <1>3, <1>4, NotPassed DEF RepTypes
<1>6. /\ TakenTo(t, NextMemop(t)) /\ wait_version[t].memop = n
      /\ wait_version[t].version <= obj_version[Cur(t).objid]
  BY <1>1, <1>2 DEF Cursor, WaitOver
<1>7. PICK log : log = version_log[t]
  OBVIOUS
<1>8. PICK k \in Nat : k = vbuf[t]
  BY <1>1 DEF RepTypes
<1>9. wait_version[t].memop # -1
  BY <1>2, <1>6, SMTT(60)
<1>10. k > 0 /\ k < Len(log) /\ wait_version[t] = log[k]
  BY <1>6, <1>7, <1>8, <1>9 DEF TakenTo
<1>11. Len(log) \in Nat
  BY <1>1, <1>7 DEF VersionLogFacts
<1>12. k \in 1 .. Len(log) - 1
  BY <1>10, <1>11, SMTT(60)
<1>13. log[k].version = Access(t, log[k].memop + 1).version
  BY <1>1, <1>7, <1>12 DEF VersionLogFacts
<1>14. wait_version[t].version = Cur(t).version
  BY <1>2, <1>6, <1>10, <1>13 DEF Cur
<1> QED BY <1>4, <1>5, <1>6, <1>14, SMTT(60)

LEMMA AssertHolds ==
    ASSUME RepOff \/ Replaying
    PROVE  \A t \in Thread : RAt(t, "assert") => obj_version[Op(t).objid] = wait_version[t].version
<1> SUFFICES ASSUME NEW t \in Thread, rpc[t] = "assert"
             PROVE  obj_version[Op(t).objid] = wait_version[t].version
  BY DEF RAt
<1>1. Replaying
  BY DEF RepOff
<1> QED BY <1>1, SpinOver, CurIsOp

LEMMA ScansAlone ==
    ASSUME RepOff \/ Replaying
    PROVE  \A t \in Thread : AboutToScan(t) => ~wait_reader_log[Op(t).objid].mutex
<1> SUFFICES ASSUME NEW t \in Thread, AboutToScan(t), wait_reader_log[Op(t).objid].mutex
             PROVE  FALSE
  OBVIOUS
<1>1. Op(t) = Cur(t)
  BY CurIsOp
<1>2. (rpc[t] = "go" /\ Cur(t).acc = "W") \/ rpc[t] = "again"
  BY <1>1 DEF AboutToScan, RAt
<1>3. Replaying
  BY <1>2 DEF RepOff
<1>4. AccessFacts /\ OneWriter /\ RepTypes /\ AtVersion /\ MutexHeld
  BY <1>3 DEF Replaying, Recorded, RepInv
<1>5. Writing(t) /\ rpc[t] # "call" /\ rpc[t] # "scan"
  BY <1>2, <1>4 DEF Writing, AtAccess, RepTypes, WriteLabels
<1>6. Cur(t).objid \in Obj
  BY <1>4, <1>5, Busy
<1>7. PICK u \in Thread : rpc[u] = "scan" /\ Cur(u).objid = Cur(t).objid
  BY <1>1, <1>4, <1>6 DEF MutexHeld
<1>8. Writing(u)
  BY <1>4, <1>7 DEF Writing, AtAccess, RepTypes, WriteLabels
<1>9. u = t
  BY <1>4, <1>5, <1>7, <1>8, OneWriting
<1> QED BY <1>5, <1>7, <1>9

LEMMA NoneSkipped ==
    ASSUME RepOff \/ Replaying
    PROVE  \A t \in Thread : RAt(t, "scan") /\ HasEntry(Op(t).objid) =>
               obj_version[Op(t).objid] <= NextEntry(Op(t).objid).version
<1> SUFFICES ASSUME NEW t \in Thread, rpc[t] = "scan", HasEntry(Op(t).objid)
             PROVE  obj_version[Op(t).objid] <= NextEntry(Op(t).objid).version
  BY DEF RAt
<1>1. Replaying
  BY DEF RepOff
<1>2. AccessFacts /\ SegmentFacts /\ RepTypes /\ SameLog /\ ReadersLeft
  BY <1>1 DEF Replaying, Recorded, Merged, RepInv
<1>3. PICK o : o = Op(t).objid /\ o = Cur(t).objid
  BY CurIsOp
<1>4. o \in Obj
  BY <1>2, <1>3, Busy
<1>5. HasEntry(o)
  BY <1>3
<1>6. obj_version[o] <= NextEntry(o).version
  BY <1>2, <1>4, <1>5, ScanEntry
<1> QED BY <1>3, <1>6

LEMMA AccessesMatch ==
    ASSUME RepOff \/ Replaying
    PROVE  \A t \in Thread :
               /\ RAt(t, "check") => check_access(t, rloc[t].val)
               /\ RAt(t, "store") => check_access(t, Value(t, memop_cnt[t]))
<1> SUFFICES ASSUME NEW t \in Thread
             PROVE  /\ rpc[t] = "check" => check_access(t, rloc[t].val)
                    /\ rpc[t] = "store" => check_access(t, Value(t, memop_cnt[t]))
  BY DEF RAt
<1>1. Op(t) = Cur(t)
  BY CurIsOp
<1>2. CASE rpc[t] = "check"
  <2>1. Replaying
    BY <1>2 DEF RepOff
  <2>2. Cur(t).val = rloc[t].val /\ Cur(t).version = obj_version[Cur(t).objid]
    BY <1>2, <2>1 DEF Replaying, RepInv, ReadValue, AtVersion, AtAccess
  <2> QED BY <1>1, <1>2, <2>2 DEF check_access
<1>3. CASE rpc[t] = "store"
  <2>1. Replaying
    BY <1>3 DEF RepOff
  <2>2. AccessFacts /\ RepTypes /\ AtVersion
    BY <2>1 DEF Replaying, Recorded, RepInv
  <2>3. Cur(t).acc = "W" /\ Cur(t).version = obj_version[Cur(t).objid]
    BY <1>3, <2>2 DEF RepTypes, WriteLabels, AtVersion, AtAccess
  <2>4. Cur(t).val = Value(t, memop_cnt[t])
    BY <1>3, <2>2, <2>3, Busy
  <2> QED BY <1>1, <1>3, <2>3, <2>4 DEF check_access
<1> QED BY <1>2, <1>3

-----------------------------------------------------------------------------
(* The end of replay                                                       *)
AllReplayed == \A t \in Thread : rpc[t] = "call" /\ ~(memop_cnt[t] < Len(access_log[t]))

LEMMA DoneIs ==
    ASSUME RepDone, RepOff \/ Replaying
    PROVE  AllReplayed /\ Replaying
<1>1. AllReplayed
  BY CurIsOp DEF RepDone, RAt, AllReplayed
<1>2. PICK t : t \in Thread
  BY ThreadAssumption
<1> QED BY <1>1, <1>2 DEF AllReplayed, RepOff

LEMMA VersionsEnd ==
    ASSUME AllReplayed, Replaying, NEW o \in Obj
    PROVE  obj_version[o] = version[o]
<1>1. LogLengths /\ AccessFacts /\ EveryVersionWritten /\ RepTypes /\ PastOld
  BY DEF Replaying, Recorded, RepInv
<1>2. PICK n \in Nat : n = obj_version[o] /\ n % 2 = 0 /\ n <= version[o]
  BY <1>1 DEF RepTypes
<1>3. version[o] \in Nat
  BY DEF Replaying, Recorded, ValuesStored
<1>4. ASSUME n < version[o] PROVE FALSE
  <2>1. PICK t \in Thread : \E i \in AccessesOf(t) :
            Access(t, i).acc = "W" /\ Access(t, i).objid = o /\ Access(t, i).version = n
    BY <1>1, <1>2, <1>4 DEF EveryVersionWritten
  <2>2. PICK i \in AccessesOf(t) : Access(t, i).acc = "W" /\ Access(t, i).objid = o /\ Access(t, i).version = n
    BY <2>1
  <2>3. memop_cnt[t] \in Nat /\ Len(access_log[t]) \in Nat /\ ~(memop_cnt[t] < Len(access_log[t]))
    BY <1>1 DEF RepTypes, LogLengths, AllReplayed
  <2>4. i <= memop_cnt[t]
    BY <2>3, SMTT(60) DEF AccessesOf
  <2>5. Past(t, i)
    BY <2>4 DEF Past
  <2>6. n < n
    BY <1>1, <1>2, <2>2, <2>5 DEF PastOld
  <2> QED BY <1>2, <2>6, SMTT(60)
<1> QED BY <1>2, <1>3, <1>4, SMTT(60)

LEMMA MemoryEnds ==
    ASSUME AllReplayed, Replaying, NEW o \in Obj
    PROVE  rmem[o] = mem[o]
<1>1. ~Storing(o)
  BY DEF AllReplayed, Storing
<1>2. {rmem[o]} = StoredIn(access_log, o, obj_version[o])
  BY <1>1 DEF Replaying, RepInv, MemoryAt, Reached
<1>3. {mem[o]} = StoredIn(access_log, o, version[o])
  BY DEF Replaying, Recorded, ValuesStored
<1>4. {rmem[o]} = {mem[o]}
  BY <1>2, <1>3, VersionsEnd
<1> QED BY <1>4

LEMMA CursorEnds ==
    ASSUME AllReplayed, Replaying, NEW t \in Thread
    PROVE  wait_version[t].memop = -1
<1> SUFFICES ASSUME wait_version[t].memop # -1 PROVE FALSE
  OBVIOUS
<1>1. LogLengths /\ RepTypes /\ Cursor /\ VersionLogFacts
  BY DEF Replaying, Recorded, RepInv
<1>2. PICK n \in Nat : n = memop_cnt[t] /\ ~(n < Len(access_log[t]))
  BY <1>1 DEF RepTypes, AllReplayed
<1>3. PICK log : log = version_log[t]
  OBVIOUS
<1>4. PICK k \in Nat : k = vbuf[t]
  BY <1>1 DEF RepTypes
<1>5. NextMemop(t) = n
  BY <1>2 DEF NextMemop, AllReplayed
<1>6. k > 0 /\ k < Len(log) /\ wait_version[t] = log[k] /\ n <= wait_version[t].memop
  BY <1>1, <1>3, <1>4, <1>5 DEF Cursor, TakenTo
<1>7. Len(log) \in Nat
  BY <1>1, <1>3 DEF VersionLogFacts
<1>8. k \in 1 .. Len(log) - 1
  BY <1>6, <1>7, SMTT(60)
<1>9. log[k] \in WaitVersion /\ log[k].memop + 1 \in AccessesOf(t)
  BY <1>1, <1>3, <1>8 DEF VersionLogFacts
<1>10. PICK m \in Nat : m = log[k].memop
  BY <1>9 DEF WaitVersion
<1>11. m + 1 \in 1 .. Len(access_log[t]) /\ Len(access_log[t]) \in Nat
  BY <1>1, <1>9, <1>10 DEF AccessesOf, LogLengths
<1> QED BY <1>2, <1>6, <1>10, <1>11, SMTT(60)

LEMMA ReadersEnd ==
    ASSUME AllReplayed, Replaying, NEW o \in Obj, HasEntry(o)
    PROVE  NextEntry(o).version = version[o]
<1>1. AccessFacts /\ SegmentFacts /\ RepTypes /\ SameLog /\ ReadersLeft
  BY DEF Replaying, Recorded, Merged, RepInv
<1>2. PICK e : e = NextEntry(o)
  OBVIOUS
<1>3. /\ NextAt(o) \in Nat /\ InSegment(o, NextAt(o)) /\ e = memop_log[NextAt(o)]
      /\ e \in ReaderEntry /\ obj_version[o] <= e.version
  BY <1>1, <1>2, ScanEntry
<1>4. /\ e.memop + 1 \in AccessesOf(e.tid) /\ e.version = Access(e.tid, e.memop + 1).version
      /\ Access(e.tid, e.memop + 1).objid = o
  BY <1>1, <1>3 DEF SegmentFacts
<1>5. e.tid \in Thread /\ e.version \in Nat
  BY <1>3 DEF ReaderEntry
<1>6. e.version <= version[o]
  BY <1>1, <1>4, <1>5 DEF AccessFacts
<1>7. obj_version[o] = version[o] /\ obj_version[o] \in Nat
  BY <1>1, VersionsEnd DEF RepTypes
<1> QED BY <1>2, <1>3, <1>5, <1>6, <1>7, SMTT(60)

LEMMA ResultHolds ==
    ASSUME mem \in [Obj -> Val], version \in [Obj -> Nat], RepOff \/ Replaying, RepDone
    PROVE  /\ rmem = mem /\ obj_version = version
           /\ \A t \in Thread : wait_version[t].memop = -1
           /\ \A o \in Obj : HasEntry(o) => NextEntry(o).version = version[o]
<1>1. AllReplayed /\ Replaying
  BY DoneIs
<1>2. /\ rmem \in [Obj -> Val] /\ obj_version \in [Obj -> Nat]
      /\ mem \in [Obj -> Val] /\ version \in [Obj -> Nat]
  BY <1>1 DEF Replaying, RepInv, RepTypes
<1>3. \A o \in Obj : rmem[o] = mem[o] /\ obj_version[o] = version[o]
  BY <1>1, VersionsEnd, MemoryEnds
<1>4. rmem = mem /\ obj_version = version
  BY <1>2, <1>3, SMTT(60)
<1>5. \A o \in Obj : HasEntry(o) => NextEntry(o).version = version[o]
  BY <1>1, ReadersEnd
<1> QED BY <1>1, <1>4, <1>5, CursorEnds

-----------------------------------------------------------------------------
(* Replay repeats the recorded accesses one at a time.  A read happens     *)
(* when it loads, a write when it stores.                                  *)
Happened(t) == rpc[t] \in {"check", "publish", "count"}
OrdDone == [t \in Thread |-> IF Happened(t) THEN memop_cnt[t] + 1 ELSE memop_cnt[t]]
OrdVer == [o \in Obj |-> Reached(o)]
OrdStays == UNCHANGED <<OrdDone, rmem, OrdVer>>

(* The recorded access may happen, and happens                             *)
MayRepeat(t, a) ==
    /\ OrdVer[a.objid] = a.version
    /\ a.acc = "W" => \A u \in Thread \ {t} : \A i \in AccessesOf(u) :
            Access(u, i).acc = "R" /\ Access(u, i).objid = a.objid /\ Access(u, i).version = OrdVer[a.objid]
            => i <= OrdDone[u]

Repeated(t, a) ==
    /\ rmem' = IF a.acc = "W" THEN [rmem EXCEPT ![a.objid] = a.val] ELSE rmem
    /\ OrdVer' = IF a.acc = "W" THEN [OrdVer EXCEPT ![a.objid] = @ + 2] ELSE OrdVer
    /\ OrdDone' = [OrdDone EXCEPT ![t] = @ + 1]

RepeatsAccess(t) ==
    LET a == Access(t, OrdDone[t] + 1)
    IN  /\ OrdDone[t] < Len(access_log[t]) /\ MayRepeat(t, a)
        /\ a.acc = "R" => rmem[a.objid] = a.val
        /\ Repeated(t, a)

(* An access that has not happened is the next one of OrderedReplay.       *)
LEMMA NextIsCur ==
    ASSUME AccessFacts, RepTypes, NEW t \in Thread, rpc[t] \in {"go", "store"}
    PROVE  /\ OrdDone[t] = memop_cnt[t] /\ Cur(t) = Access(t, OrdDone[t] + 1)
           /\ OrdDone[t] < Len(access_log[t])
           /\ Cur(t).objid \in Obj /\ memop_cnt[t] \in Nat
<1>1. ~Happened(t) /\ rpc[t] # "call"
  BY DEF Happened
<1>2. OrdDone[t] = memop_cnt[t]
  BY <1>1 DEF OrdDone
<1>3. memop_cnt[t] < Len(access_log[t]) /\ Cur(t).objid \in Obj /\ memop_cnt[t] \in Nat
  BY <1>1, Busy
<1> QED BY <1>2, <1>3 DEF Cur

(* Its step counts it.                                                     *)
LEMMA DoneGrows ==
    ASSUME RepTypes, NEW t \in Thread, rpc[t] \in {"go", "store"}, rpc'[t] \in {"check", "publish"},
           Others(t), memop_cnt' = memop_cnt
    PROVE  OrdDone' = [OrdDone EXCEPT ![t] = @ + 1]
<1>1. ~Happened(t) /\ Happened(t)' /\ \A u \in Thread \ {t} : Happened(u)' = Happened(u)
  BY DEF Happened, Others
<1> QED BY <1>1 DEF OrdDone

LEMMA VerStays ==
    ASSUME NEW t \in Thread, Quiet(t), rpc'[t] # "publish"
    PROVE  OrdVer' = OrdVer
<1>1. \A o : Storing(o)' <=> Storing(o)
  BY DEF Quiet, Others, Storing, Cur, Access
<1>2. \A o : Reached(o)' = Reached(o)
  BY <1>1 DEF Reached, Quiet
<1> QED BY <1>2 DEF OrdVer

LEMMA ReadHappens ==
    ASSUME Recorded, RepInv, RepInv', Frozen, NEW t \in Thread, rep_read(t)
    PROVE  RepeatsAccess(t)
<1>1. /\ Cur(t).acc = "R" /\ Moves(t, "go", "check")
      /\ rloc' = [rloc EXCEPT ![t].val = rmem[Cur(t).objid]]
      /\ UNCHANGED <<rmem, obj_version, memop_cnt, wait_version, vbuf, wait_reader_log>>
  BY StepRead
<1>2. RepTypes /\ AtVersion /\ OldPast /\ AccessFacts /\ access_log' = access_log /\ version_log' = version_log
  BY FrozenIs DEF RepInv, Recorded
<1>3. rpc[t] = "go" /\ rpc'[t] = "check" /\ Others(t) /\ rpc[t] \in AtAccess
  BY <1>1, <1>2, Moved DEF AtAccess
<1>4. PICK a : a = Cur(t)
  OBVIOUS
<1>5. a = Access(t, OrdDone[t] + 1) /\ OrdDone[t] < Len(access_log[t]) /\ a.objid \in Obj
  BY <1>2, <1>3, <1>4, NextIsCur
<1>6. ~Storing(a.objid) /\ a.version = obj_version[a.objid]
  BY <1>1, <1>2, <1>3, <1>4, ReadAlone DEF AtVersion
<1>7. OrdVer[a.objid] = a.version
  BY <1>5, <1>6 DEF OrdVer, Reached
<1>8. MayRepeat(t, a)
  BY <1>1, <1>4, <1>7 DEF MayRepeat
<1>9. rmem[a.objid] = a.val
  <2>1. rloc'[t].val = rmem[a.objid]
    BY <1>1, <1>2, <1>4 DEF RepTypes
  <2>2. rloc'[t].val = Cur(t)'.val
    BY <1>3 DEF RepInv, ReadValue
  <2>3. Cur(t)' = Cur(t)
    BY <1>1, <1>2 DEF Cur, Access
  <2> QED BY <1>4, <2>1, <2>2, <2>3
<1>10. Quiet(t)
  BY <1>1, <1>2, <1>3 DEF Quiet
<1>11. OrdVer' = OrdVer /\ OrdDone' = [OrdDone EXCEPT ![t] = @ + 1] /\ rmem' = rmem
  BY <1>1, <1>2, <1>3, <1>10, VerStays, DoneGrows
<1>12. Repeated(t, a)
  BY <1>1, <1>4, <1>11 DEF Repeated
<1> QED BY <1>5, <1>8, <1>9, <1>12 DEF RepeatsAccess

(* The step of a write stores and makes its object "publishing".           *)
LEMMA VerGrows ==
    ASSUME AccessFacts, OneWriter, RepTypes, AtVersion, access_log' = access_log /\ version_log' = version_log, obj_version' = obj_version,
           memop_cnt' = memop_cnt, NEW t \in Thread, Others(t), rpc[t] = "store", rpc'[t] = "publish",
           NEW a, a = Cur(t)
    PROVE  ~Storing(a.objid) /\ OrdVer' = [OrdVer EXCEPT ![a.objid] = @ + 2]
<1>1. \A u : Cur(u)' = Cur(u)
  BY DEF Cur, Access
<1>2. a.objid \in Obj
  BY Busy
<1>3. \A u \in Thread : rpc[u] \in {"store", "publish"} => Writing(u)
  BY DEF RepTypes, Writing, WriteLabels, AtAccess
<1>4. ~Storing(a.objid)
  BY <1>3, OneWriting DEF Storing
<1>5. Storing(a.objid)' /\ \A o : o # a.objid => Storing(o)' = Storing(o)
  BY <1>1 DEF Storing, Others
<1>6. Reached(a.objid)' = Reached(a.objid) + 2 /\ \A o : o # a.objid => Reached(o)' = Reached(o)
  BY <1>4, <1>5 DEF Reached
<1> QED BY <1>2, <1>4, <1>6 DEF OrdVer

LEMMA WriteHappens ==
    ASSUME Recorded, Merged, RepInv, Frozen, NEW t \in Thread, rep_write(t)
    PROVE  RepeatsAccess(t)
<1>1. /\ Moves(t, "store", "publish")
      /\ rmem' = [rmem EXCEPT ![Cur(t).objid] = Value(t, memop_cnt[t])]
      /\ UNCHANGED <<obj_version, memop_cnt, wait_version, vbuf, wait_reader_log, rloc>>
  BY StepWrite
<1>2. RepTypes /\ AtVersion /\ OldPast /\ AccessFacts /\ OneWriter /\ access_log' = access_log /\ version_log' = version_log
  BY FrozenIs DEF RepInv, Recorded
<1>3. rpc[t] = "store" /\ rpc'[t] = "publish" /\ Others(t) /\ rpc[t] \in AtAccess /\ rpc[t] \in WriteLabels
  BY <1>1, <1>2, Moved DEF AtAccess, WriteLabels
<1>4. PICK a : a = Cur(t)
  OBVIOUS
<1>5. a = Access(t, OrdDone[t] + 1) /\ OrdDone[t] < Len(access_log[t]) /\ a.objid \in Obj
  BY <1>2, <1>3, <1>4, NextIsCur
<1>6. a.acc = "W" /\ a.version = obj_version[a.objid] /\ a.val = Value(t, memop_cnt[t])
  BY <1>2, <1>3, <1>4, Busy DEF AtVersion, RepTypes
<1>7. ~Storing(a.objid) /\ OrdVer' = [OrdVer EXCEPT ![a.objid] = @ + 2]
  BY <1>1, <1>2, <1>3, <1>4, VerGrows
<1>8. OrdVer[a.objid] = obj_version[a.objid]
  BY <1>5, <1>7 DEF OrdVer, Reached
<1>9. MayRepeat(t, a)
  <2> SUFFICES ASSUME NEW u \in Thread \ {t}, NEW i \in AccessesOf(u), Access(u, i).acc = "R",
                      Access(u, i).objid = a.objid, Access(u, i).version = obj_version[a.objid]
               PROVE  i <= OrdDone[u]
    BY <1>6, <1>8 DEF MayRepeat
  <2>1. i <= memop_cnt[u]
    BY <1>3, <1>4, ReadsOver
  <2>2. memop_cnt[u] \in Nat /\ i \in Nat
    BY <1>2, SMTT(60) DEF RepTypes, AccessesOf
  <2>3. OrdDone[u] = memop_cnt[u] \/ OrdDone[u] = memop_cnt[u] + 1
    BY DEF OrdDone
  <2> QED BY <2>1, <2>2, <2>3, SMTT(60)
<1>10. OrdDone' = [OrdDone EXCEPT ![t] = @ + 1]
  BY <1>1, <1>2, <1>3, DoneGrows
<1>11. Repeated(t, a)
  BY <1>1, <1>4, <1>6, <1>7, <1>10 DEF Repeated
<1>12. a.acc # "R"
  BY <1>6
<1> QED BY <1>5, <1>9, <1>11, <1>12 DEF RepeatsAccess

(* Every other step of replay changes nothing OrderedReplay sees.          *)
LEMMA QuietStutters ==
    ASSUME RepTypes, NEW t \in Thread, Frozen, NEW from, NEW to, Moves(t, from, to),
           rmem' = rmem, obj_version' = obj_version, memop_cnt' = memop_cnt,
           \/ from \notin {"check", "publish", "count"} /\ to \notin {"check", "publish", "count"}
           \/ from = "check" /\ to = "count"
    PROVE  OrdStays
<1>1. rpc[t] = from /\ rpc'[t] = to /\ Others(t) /\ access_log' = access_log /\ version_log' = version_log
  BY Moved, FrozenIs
<1>2. OrdVer' = OrdVer
  <2>1. Quiet(t) /\ rpc'[t] # "publish"
    BY <1>1 DEF Quiet
  <2> QED BY <2>1, VerStays
<1>3. \A u \in Thread : Happened(u)' = Happened(u)
  BY <1>1, SMTT(60) DEF Happened, Others
<1>4. OrdDone' = OrdDone
  BY <1>3 DEF OrdDone
<1> QED BY <1>2, <1>4 DEF OrdStays

LEMMA CountStutters ==
    ASSUME RepTypes, NEW t \in Thread, Frozen, count_memop(t)
    PROVE  OrdStays
<1>1. /\ Moves(t, "count", "call") /\ memop_cnt' = [memop_cnt EXCEPT ![t] = memop_cnt[t] + 1]
      /\ UNCHANGED <<rmem, obj_version, wait_version, vbuf, wait_reader_log, rloc>>
  BY StepCount DEF RepTypes
<1>2. rpc[t] = "count" /\ rpc'[t] = "call" /\ Others(t) /\ access_log' = access_log /\ version_log' = version_log
  BY <1>1, Moved, FrozenIs
<1>3. \A u \in Thread \ {t} : memop_cnt'[u] = memop_cnt[u] /\ Cur(u)' = Cur(u)
  BY <1>1, <1>2 DEF RepTypes, Cur, Access
<1>4. \A o : Storing(o)' <=> Storing(o)
  BY <1>2, <1>3 DEF Storing, Others
<1>5. OrdVer' = OrdVer
  <2>1. \A o : Reached(o)' = Reached(o)
    BY <1>1, <1>4 DEF Reached
  <2> QED BY <2>1 DEF OrdVer
<1>6. Happened(t) /\ ~Happened(t)' /\ \A u \in Thread \ {t} : Happened(u)' = Happened(u)
  BY <1>2 DEF Happened, Others
<1>7. memop_cnt'[t] = memop_cnt[t] + 1
  BY <1>1 DEF RepTypes
<1>8. OrdDone' = OrdDone
  <2>1. \A u \in Thread : (IF Happened(u) THEN memop_cnt[u] + 1 ELSE memop_cnt[u])'
                          = IF Happened(u) THEN memop_cnt[u] + 1 ELSE memop_cnt[u]
    BY <1>3, <1>6, <1>7
  <2> QED BY <2>1 DEF OrdDone
<1> QED BY <1>1, <1>5, <1>8 DEF OrdStays

(* A publishing thread is the only one of its object, which is at the new  *)
(* version before and after.                                               *)
LEMMA PublishStutters ==
    ASSUME AccessFacts, OneWriter, RepTypes, AtVersion, NEW t \in Thread, Frozen, publish_version(t)
    PROVE  OrdStays
<1>1. /\ Moves(t, "publish", "count") /\ obj_version' = [obj_version EXCEPT ![Cur(t).objid] = @ + 2]
      /\ UNCHANGED <<rmem, memop_cnt, wait_version, vbuf, wait_reader_log, rloc>>
  BY StepPublish DEF RepTypes
<1>2. rpc[t] = "publish" /\ rpc'[t] = "count" /\ Others(t) /\ access_log' = access_log /\ version_log' = version_log
  BY <1>1, Moved, FrozenIs
<1>3. \A u : Cur(u)' = Cur(u)
  BY <1>1, <1>2 DEF Cur, Access
<1>4. PICK p \in Obj : p = Cur(t).objid
  BY <1>2, Busy
<1>5. \A u \in Thread : rpc[u] = "publish" => Writing(u)
  BY DEF RepTypes, Writing, WriteLabels, AtAccess
<1>6. Storing(p) /\ ~Storing(p)'
  <2>1. ASSUME NEW u \in Thread, rpc'[u] = "publish", Cur(u)'.objid = p PROVE FALSE
    <3>1. u # t /\ rpc[u] = "publish" /\ Cur(u).objid = p
      BY <1>2, <1>3, <2>1 DEF Others
    <3> QED BY <1>2, <1>4, <1>5, <3>1, OneWriting
  <2> QED BY <1>2, <1>4, <2>1 DEF Storing
<1>7. \A o \in Obj : o # p => (Storing(o)' <=> Storing(o)) /\ obj_version'[o] = obj_version[o]
  BY <1>1, <1>2, <1>3, <1>4 DEF Storing, Others, RepTypes
<1>8. obj_version'[p] = obj_version[p] + 2
  BY <1>1, <1>4 DEF RepTypes
<1>9. \A o \in Obj : Reached(o)' = Reached(o)
  BY <1>6, <1>7, <1>8 DEF Reached
<1>10. OrdVer' = OrdVer
  BY <1>9 DEF OrdVer
<1>11. \A u \in Thread : Happened(u)' = Happened(u)
  BY <1>2, SMTT(60) DEF Happened, Others
<1>12. OrdDone' = OrdDone
  BY <1>1, <1>11 DEF OrdDone
<1> QED BY <1>1, <1>10, <1>12 DEF OrdStays

LEMMA StepRefines ==
    ASSUME Replaying, RepInv', Frozen, NEW t \in Thread, RepStep(t)
    PROVE  RepeatsAccess(t) \/ OrdStays
<1>1. \/ wait_object_version(t) \/ assert_version(t)
      \/ rep_read(t) \/ rep_read_check(t) \/ count_memop(t)
      \/ trylock(t) \/ next_reader_memop(t) \/ wait_reader(t)
      \/ rep_write(t) \/ publish_version(t)
  BY DEF RepStep
<1>2. Recorded /\ Merged /\ RepInv /\ RepTypes /\ AccessFacts /\ OneWriter /\ AtVersion
  BY DEF Replaying, RepInv, Recorded
<1>3. CASE rep_read(t)
  BY <1>2, <1>3, ReadHappens
<1>4. CASE rep_write(t)
  BY <1>2, <1>4, WriteHappens
<1>5. CASE count_memop(t)
  BY <1>2, <1>5, CountStutters
<1>6. CASE publish_version(t)
  BY <1>2, <1>6, PublishStutters
<1>7. CASE \/ wait_object_version(t) \/ assert_version(t) \/ rep_read_check(t)
           \/ trylock(t) \/ next_reader_memop(t) \/ wait_reader(t)
  <2>1. /\ rmem' = rmem /\ obj_version' = obj_version /\ memop_cnt' = memop_cnt
        /\ \/ Moves(t, "call", "assert") \/ Moves(t, "call", "go") \/ Moves(t, "assert", "go")
           \/ Moves(t, "check", "count") \/ Moves(t, "go", "scan") \/ Moves(t, "again", "scan")
           \/ Moves(t, "scan", "reader") \/ Moves(t, "scan", "store") \/ Moves(t, "reader", "again")
    <3>1. CASE wait_object_version(t)
      BY <3>1, StepWaitVersion
    <3>2. CASE assert_version(t)
      BY <1>2, <3>2, StepAssert DEF RepTypes
    <3>3. CASE rep_read_check(t)
      BY <3>3, StepCheck
    <3>4. CASE trylock(t)
      BY <3>4, StepTrylock
    <3>5. CASE next_reader_memop(t)
      BY <3>5, StepScan
    <3>6. CASE wait_reader(t)
      BY <3>6, StepWaitReader
    <3> QED BY <1>7, <3>1, <3>2, <3>3, <3>4, <3>5, <3>6
  <2> QED BY <1>2, <2>1, QuietStutters
<1> QED BY <1>1, <1>3, <1>4, <1>5, <1>6, <1>7

(* Before replay nothing has happened.                                     *)
LEMMA IdleView ==
    ASSUME \A t \in Thread : rpc[t] \in {"off", "call"}
    PROVE  OrdDone = [t \in Thread |-> memop_cnt[t]] /\ OrdVer = [o \in Obj |-> obj_version[o]]
<1>1. \A t \in Thread : ~Happened(t)
  BY DEF Happened
<1>2. \A o : ~Storing(o)
  BY DEF Storing
<1> QED BY <1>1, <1>2 DEF OrdDone, OrdVer, Reached

LEMMA IdleStutters ==
    ASSUME \A t \in Thread : rpc[t] = "off", \A t \in Thread : rpc'[t] \in {"off", "call"},
           rmem' = rmem, obj_version' = obj_version, memop_cnt' = memop_cnt
    PROVE  OrdStays
<1>1. \A t \in Thread : ~Happened(t) /\ ~Happened(t)'
  BY DEF Happened
<1>2. \A o : ~Storing(o) /\ ~Storing(o)'
  BY DEF Storing
<1> QED BY <1>1, <1>2 DEF OrdStays, OrdDone, OrdVer, Reached

LEMMA StartsOff ==
    ASSUME rep_mem_init
    PROVE  ~RepInv
<1>1. PICK t : t \in Thread
  BY ThreadAssumption
<1>2. rpc[t] = "off"
  BY <1>1 DEF rep_mem_init
<1> QED BY <1>1, <1>2 DEF RepInv, RepTypes, RepLabels, AtAccess

LEMMA StartStutters ==
    ASSUME rep_mem_init
    PROVE  OrdStays
<1>1. /\ \A t \in Thread : rpc[t] = "off"
      /\ rpc' = [t \in Thread |-> "call"]
      /\ rmem' = rmem /\ obj_version' = obj_version /\ memop_cnt' = memop_cnt
  BY DEF rep_mem_init
<1>2. \A t \in Thread : rpc'[t] \in {"off", "call"}
  BY <1>1
<1> QED BY <1>1, <1>2, IdleStutters

LEMMA OffStutters ==
    ASSUME RepOff, RepStill
    PROVE  OrdStays
<1>1. \A t \in Thread : rpc[t] = "off"
  BY DEF RepOff
<1>2. rpc' = rpc /\ rmem' = rmem /\ obj_version' = obj_version /\ memop_cnt' = memop_cnt
  BY DEF RepStill, repVars
<1> QED BY <1>1, <1>2, IdleStutters

LEMMA StillStutters ==
    ASSUME Frozen, RepStill
    PROVE  OrdStays
<1>1. /\ access_log' = access_log /\ rpc' = rpc /\ rmem' = rmem /\ obj_version' = obj_version
      /\ memop_cnt' = memop_cnt
  BY DEF Frozen, RepStill, repVars
<1>2. \A t : Happened(t)' = Happened(t) /\ Cur(t)' = Cur(t)
  BY <1>1 DEF Happened, Cur, Access
<1>3. \A o : Reached(o)' = Reached(o)
  BY <1>1, <1>2 DEF Reached, Storing
<1> QED BY <1>1, <1>2, <1>3 DEF OrdStays, OrdDone, OrdVer

LEMMA OffView ==
    ASSUME RepOff
    PROVE  OrdDone = [t \in Thread |-> 0] /\ OrdVer = [o \in Obj |-> 0]
<1>1. /\ \A t \in Thread : rpc[t] \in {"off", "call"} /\ memop_cnt[t] = 0
      /\ \A o \in Obj : obj_version[o] = 0
  BY DEF RepOff
<1> QED BY <1>1, IdleView
=============================================================================
