------------------------- MODULE RecordReplayProof --------------------------
(***************************************************************************)
(* Proofs about RecordReplay: for any number of threads, objects and       *)
(* accesses, the merged log is the recorded reads by object and version,   *)
(* no assertion of replay fails, and replay repeats the recording.  The    *)
(* recording, the log processing and replay have their own proofs in       *)
(* RecorderProof, MergeProof and ReplayProof; here each finds what the one *)
(* before it leaves.                                                       *)
(***************************************************************************)
EXTENDS RecordReplay, RecorderProof

(* A leaf that names no prover is for Zenon.                               *)
USE ZenonT(60)

-----------------------------------------------------------------------------
(* What ReplayProof takes from the recording: the accesses, one by one,    *)
Access(t, i) == Recordings[t][i]
AccessesOf(t) == 1 .. Len(Recordings[t])

WritesFor(A, o, v) ==
    {w \in UNION {{t} \X (1 .. Len(A[t])) : t \in Thread} :
        LET e == A[w[1]][w[2]] IN e.acc = "W" /\ e.objid = o /\ e.version = v}

StoredFor(A, o, v) ==
    IF v = 0 THEN {InitVal} ELSE {A[w[1]][w[2]].val : w \in WritesFor(A, o, v - 2)}

LogLengths == \A t \in Thread : Len(Recordings[t]) \in Nat

AccessFacts ==
    \A t \in Thread : \A i \in AccessesOf(t) :
        LET a == Access(t, i)
        IN  /\ a \in MemAcc /\ a.version % 2 = 0
            /\ a.version <= version[a.objid]
            /\ a.acc = "W" => a.version < version[a.objid] /\ a.val = Value(t, i - 1)

ProgramOrder ==
    \A t \in Thread : \A i, j \in AccessesOf(t) :
        i < j /\ Access(t, i).objid = Access(t, j).objid =>
            /\ Access(t, i).version <= Access(t, j).version
            /\ Access(t, i).acc = "W" => Access(t, i).version < Access(t, j).version

OneWriter ==
    \A t, u \in Thread : \A i \in AccessesOf(t), j \in AccessesOf(u) :
        /\ Access(t, i).acc = "W" /\ Access(u, j).acc = "W"
        /\ Access(t, i).objid = Access(u, j).objid
        /\ Access(t, i).version = Access(u, j).version
        => t = u /\ i = j

EveryVersionWritten ==
    \A o \in Obj : \A n \in Nat :
        n < version[o] /\ n % 2 = 0 =>
            \E t \in Thread : \E i \in AccessesOf(t) :
                Access(t, i).acc = "W" /\ Access(t, i).objid = o /\ Access(t, i).version = n

ValuesStored ==
    /\ \A o \in Obj : version[o] \in Nat /\ version[o] % 2 = 0 /\ {mem[o]} = StoredFor(Recordings, o, version[o])
    /\ \A t \in Thread : \A i \in AccessesOf(t) :
          LET a == Access(t, i)
          IN  {a.val} = StoredFor(Recordings, a.objid, IF a.acc = "W" THEN a.version + 2 ELSE a.version)

VersionLogFacts ==
    \A t \in Thread :
        LET log == RecordedVersions[t]
        IN  /\ Len(log) \in Nat \ {0} /\ log[Len(log)].memop = -1
            /\ \A k \in 1 .. Len(log) - 1 :
                  /\ log[k] \in WaitVersion
                  /\ log[k].memop + 1 \in AccessesOf(t)
                  /\ log[k].version = Access(t, log[k].memop + 1).version
            /\ \A k, j \in 1 .. Len(log) - 1 : k < j => log[k].memop < log[j].memop

VersionKnown ==
    \A t \in Thread : \A i \in AccessesOf(t) :
        \/ \E k \in 1 .. Len(RecordedVersions[t]) - 1 : RecordedVersions[t][k].memop = i - 1
        \/ Access(t, i).version = 0
        \/ \E j \in AccessesOf(t) :
              j < i /\ Access(t, j).objid = Access(t, i).objid /\ Access(t, j).version = Access(t, i).version

Recorded ==
    /\ LogLengths /\ AccessFacts /\ ProgramOrder /\ OneWriter /\ EveryVersionWritten /\ ValuesStored
    /\ VersionLogFacts /\ VersionKnown

(* and what MergeProof takes: closed logs of reads, on an object in the    *)
(* order of versions.                                                      *)
ClosedLog(log) ==
    /\ Len(log) \in Nat \ {0} /\ log[Len(log)].objid = -1
    /\ \A k \in 1 .. Len(log) - 1 : log[k] \in WaitMemop
    /\ \A k, j \in 1 .. Len(log) - 1 :
          k < j /\ log[k].objid = log[j].objid => log[k].version < log[j].version

NamesReads(t, log) ==
    \A k \in 1 .. Len(log) - 1 :
        /\ log[k].memop + 1 \in AccessesOf(t)
        /\ Access(t, log[k].memop + 1).objid = log[k].objid
        /\ Access(t, log[k].memop + 1).version = log[k].version

ReadInLog(t, i, log) ==
    LET a == Access(t, i)
    IN  \/ \E j \in AccessesOf(t) :
              i < j /\ Access(t, j).acc = "W" /\ Access(t, j).objid = a.objid
                    /\ Access(t, j).version = a.version
        \/ \E k \in 1 .. Len(log) :
              log[k].objid = a.objid /\ log[k].version = a.version /\ log[k].memop >= i - 1

MemopLogFacts ==
    \A t \in Thread :
        /\ RecordedMemops[t] \in MemopLogs /\ ClosedLog(RecordedMemops[t]) /\ NamesReads(t, RecordedMemops[t])
        /\ \A i \in AccessesOf(t) :
              Access(t, i) \in MemAcc /\ (Access(t, i).acc = "R" => ReadInLog(t, i, RecordedMemops[t]))

-----------------------------------------------------------------------------
(* The recording leaves that.                                              *)
LEMMA LogsAre ==
    \A t \in Thread :
        /\ RecordedVersions[t] = thr[t].wait_version /\ RecordedMemops[t] = thr[t].wait_memop
        /\ Recordings[t] = thr[t].access /\ AccessesOf(t) = Accesses(thr[t])
        /\ \A i : Access(t, i) = thr[t].access[i]
BY DEF RecordedVersions, RecordedMemops, Recordings, Accesses, AccessesOf, Access

LEMMA StoredIs ==
    ASSUME NEW o, NEW v
    PROVE  StoredFor(Recordings, o, v) = StoredIn(thr, o, v)
<1>1. UNION {{t} \X (1 .. Len(Recordings[t])) : t \in Thread} = Events(thr)
  BY LogsAre, SMTT(60) DEF Events
<1>2. \A w \in Events(thr) : Recordings[w[1]][w[2]] = EntryOf(thr, w)
  <2> SUFFICES ASSUME NEW w \in Events(thr) PROVE Recordings[w[1]][w[2]] = EntryOf(thr, w)
    OBVIOUS
  <2>1. w[1] \in Thread
    BY SMTT(60) DEF Events
  <2> QED BY <2>1, LogsAre DEF EntryOf
<1>3. \A n : WritesFor(Recordings, o, n) = WritesOf(thr, o, n)
  BY <1>1, <1>2 DEF WritesFor, WritesOf
<1>4. \A n : \A w \in WritesOf(thr, o, n) : Recordings[w[1]][w[2]].val = EntryOf(thr, w).val
  BY <1>2 DEF WritesOf
<1>5. PICK W : W = WritesOf(thr, o, v - 2)
  OBVIOUS
<1>6. {Recordings[w[1]][w[2]].val : w \in W} = {EntryOf(thr, w).val : w \in W}
  BY <1>4, <1>5
<1>7. WritesFor(Recordings, o, v - 2) = W
  BY <1>3, <1>5
<1> QED BY <1>5, <1>6, <1>7 DEF StoredFor, StoredIn

RecordingInv == RecTypeOK /\ RecInv /\ AllNamed(thr, version, mem) /\ LogMarks

LEMMA LogLengthsHold ==
    ASSUME RecordingInv
    PROVE  /\ LogLengths
           /\ \A t \in Thread : thr[t] \in OrderLogs /\ LogInv(thr[t], version) /\ EndMarks(thr[t])
                                 /\ AccessNames(t, thr[t])
           /\ \A t \in Thread : \A i \in AccessesOf(t) : Access(t, i) \in MemAcc /\ <<t, i>> \in Events(thr)
                                 /\ EntryOf(thr, <<t, i>>) = Access(t, i)
<1>1. \A t \in Thread : thr[t] \in OrderLogs /\ LogInv(thr[t], version) /\ EndMarks(thr[t]) /\ AccessNames(t, thr[t])
  BY  DEF RecordingInv, RecTypeOK, RecInv, LogMarks
<1>2. LogLengths
  BY <1>1, LogParts, SMTT(60) DEF LogLengths, Counted
<1>3. ASSUME NEW t \in Thread, NEW i \in AccessesOf(t)
      PROVE  Access(t, i) \in MemAcc /\ <<t, i>> \in Events(thr) /\ EntryOf(thr, <<t, i>>) = Access(t, i)
  <2>1. thr[t].access \in Seq(MemAcc)
    BY <1>1 DEF OrderLogs, AccessLogs
  <2>2. i \in 1 .. Len(thr[t].access)
    BY LogsAre DEF Accesses
  <2>3. thr[t].access[i] \in MemAcc
    BY <2>1, <2>2, SMTT(60)
  <2>4. <<t, i>> \in Events(thr)
    BY <2>2, EventsAre
  <2> QED BY <2>3, <2>4, LogsAre DEF EntryOf
<1> QED BY <1>1, <1>2, <1>3

LEMMA AccessFactsHold ==
    ASSUME RecordingInv
    PROVE  AccessFacts /\ ProgramOrder
<1>1. ASSUME NEW t \in Thread, NEW i \in AccessesOf(t), NEW a, a = Access(t, i)
      PROVE  /\ a \in MemAcc /\ a.version % 2 = 0
             /\ a.version <= version[a.objid]
             /\ a.acc = "W" => a.version < version[a.objid] /\ a.val = Value(t, i - 1)
  <2>1. a \in MemAcc /\ LogInv(thr[t], version) /\ AccessNames(t, thr[t])
    BY <1>1, LogLengthsHold
  <2>2. i \in Accesses(thr[t]) /\ thr[t].access[i] = a
    BY <1>1, LogsAre DEF Accesses
  <2>3. a.objid \in Obj /\ a.version \in Nat
    BY <2>1 DEF MemAcc
  <2>4. version[a.objid] \in Nat
    BY <2>3 DEF RecordingInv, RecTypeOK
  <2>5. IF a.acc = "W" THEN a.version < version[a.objid] ELSE a.version <= version[a.objid]
    BY <2>1, <2>2 DEF LogInv, AccessesBounded
  <2>6. a.version % 2 = 0 /\ (a.acc = "W" => a.val = Value(t, i - 1))
    BY <2>1, <2>2 DEF AccessNames
  <2>7. a.version <= version[a.objid] /\ (a.acc = "W" => a.version < version[a.objid])
    BY <2>3, <2>4, <2>5, SMTT(60)
  <2> QED BY <2>1, <2>6, <2>7
<1>2. AccessFacts
  BY <1>1 DEF AccessFacts
<1>3. ASSUME NEW t \in Thread, NEW i \in AccessesOf(t), NEW j \in AccessesOf(t), i < j,
             NEW a, a = Access(t, i), NEW b, b = Access(t, j), a.objid = b.objid
      PROVE  a.version <= b.version /\ (a.acc = "W" => a.version < b.version)
  <2>1. LogInv(thr[t], version) /\ a \in MemAcc /\ b \in MemAcc
    BY <1>3, LogLengthsHold
  <2>2. i \in Accesses(thr[t]) /\ thr[t].access[i] = a /\ j \in Accesses(thr[t]) /\ thr[t].access[j] = b
    BY <1>3, LogsAre DEF Accesses
  <2>3. IF a.acc = "W" THEN a.version < b.version ELSE a.version <= b.version
    BY <1>3, <2>1, <2>2 DEF LogInv, AccessesBounded, SameObj, IsWrite
  <2>4. a.version \in Nat /\ b.version \in Nat
    BY <2>1 DEF MemAcc
  <2> QED BY <2>3, <2>4, SMTT(60)
<1>4. ProgramOrder
  BY <1>3 DEF ProgramOrder
<1> QED BY <1>2, <1>4

LEMMA NamesGive ==
    ASSUME RecordingInv
    PROVE  OneWriter /\ EveryVersionWritten /\ ValuesStored
<1>1. ASSUME NEW o \in Obj
      PROVE  version[o] \in Nat /\ version[o] % 2 = 0 /\ OneWriteEach(thr, o, version[o])
             /\ {mem[o]} = StoredIn(thr, o, version[o]) /\ ReadsStored(thr, o)
  BY  DEF RecordingInv, RecTypeOK, AllNamed, Named
<1>2. ASSUME NEW t \in Thread, NEW i \in AccessesOf(t), NEW a, a = Access(t, i), a.acc = "W"
      PROVE  WritesOf(thr, a.objid, a.version) = {<<t, i>>}
  <2>1. a \in MemAcc /\ <<t, i>> \in Events(thr) /\ EntryOf(thr, <<t, i>>) = a
    BY <1>2, LogLengthsHold
  <2>2. a.version \in Nat /\ a.objid \in Obj /\ a.version % 2 = 0 /\ a.version < version[a.objid]
    BY <1>2, <2>1, AccessFactsHold DEF AccessFacts, MemAcc
  <2>3. a.version \in 0 .. version[a.objid] - 1
    BY <1>1, <2>2, SMTT(60)
  <2>4. PICK w : WritesOf(thr, a.objid, a.version) = {w}
    BY <1>1, <2>2, <2>3 DEF OneWriteEach
  <2>5. <<t, i>> \in WritesOf(thr, a.objid, a.version)
    BY <1>2, <2>1 DEF WritesOf
  <2> QED BY <2>4, <2>5
<1>3. OneWriter
  <2> SUFFICES ASSUME NEW t \in Thread, NEW u \in Thread, NEW i \in AccessesOf(t), NEW j \in AccessesOf(u),
                      Access(t, i).acc = "W", Access(u, j).acc = "W",
                      Access(t, i).objid = Access(u, j).objid,
                      Access(t, i).version = Access(u, j).version
               PROVE  t = u /\ i = j
    BY DEF OneWriter
  <2>1. /\ WritesOf(thr, Access(t, i).objid, Access(t, i).version) = {<<t, i>>}
        /\ WritesOf(thr, Access(u, j).objid, Access(u, j).version) = {<<u, j>>}
    BY <1>2
  <2>2. {<<t, i>>} = {<<u, j>>}
    BY <2>1
  <2>3. <<t, i>> = <<u, j>>
    BY <2>2
  <2> QED BY <2>3
<1>4. EveryVersionWritten
  <2> SUFFICES ASSUME NEW o \in Obj, NEW n \in Nat, n < version[o], n % 2 = 0
               PROVE  \E t \in Thread : \E i \in AccessesOf(t) :
                         Access(t, i).acc = "W" /\ Access(t, i).objid = o /\ Access(t, i).version = n
    BY DEF EveryVersionWritten
  <2>1. n \in 0 .. version[o] - 1
    BY <1>1, SMTT(60)
  <2>2. PICK w : w \in WritesOf(thr, o, n)
    BY <1>1, <2>1 DEF OneWriteEach
  <2>3. w \in Events(thr) /\ EntryOf(thr, w).acc = "W" /\ EntryOf(thr, w).objid = o /\ EntryOf(thr, w).version = n
    BY <2>2 DEF WritesOf
  <2>4. PICK t \in Thread : \E i \in 1 .. Len(thr[t].access) : w = <<t, i>>
    BY <2>3, EventsAre, SMTT(60)
  <2>5. PICK i \in 1 .. Len(thr[t].access) : w = <<t, i>>
    BY <2>4
  <2>6. i \in AccessesOf(t)
    BY LogsAre DEF Accesses
  <2>7. EntryOf(thr, w) = Access(t, i)
    BY <2>5, <2>6, LogLengthsHold
  <2> QED BY <2>3, <2>6, <2>7
<1>5. ASSUME NEW t \in Thread, NEW i \in AccessesOf(t), NEW a, a = Access(t, i)
      PROVE  {a.val} = StoredIn(thr, a.objid, IF a.acc = "W" THEN a.version + 2 ELSE a.version)
  <2>1. a \in MemAcc /\ <<t, i>> \in Events(thr) /\ EntryOf(thr, <<t, i>>) = a
    BY <1>5, LogLengthsHold
  <2>2. a.version \in Nat /\ a.objid \in Obj /\ a.acc \in {"R", "W"}
    BY <2>1 DEF MemAcc
  <2>3. CASE a.acc = "W"
    <3>1. PICK v \in Nat : v = a.version
      BY <2>2
    <3>2. v + 2 # 0 /\ (v + 2) - 2 = v
      BY <3>1, SMTT(60)
    <3>3. {EntryOf(thr, w).val : w \in {<<t, i>>}} = {EntryOf(thr, <<t, i>>).val}
      OBVIOUS
    <3>4. WritesOf(thr, a.objid, v) = {<<t, i>>}
      BY <1>2, <1>5, <2>3, <3>1
    <3>5. StoredIn(thr, a.objid, v + 2) = {a.val}
      BY <2>1, <3>2, <3>3, <3>4 DEF StoredIn
    <3> QED BY <2>3, <3>1, <3>5
  <2>4. CASE a.acc = "R"
    <3>1. {a.val} = StoredIn(thr, a.objid, a.version)
      BY <1>1, <2>1, <2>2, <2>4 DEF ReadsStored
    <3> QED BY <2>4, <3>1
  <2> QED BY <2>2, <2>3, <2>4
<1>6. ValuesStored
  <2>1. \A o \in Obj : {mem[o]} = StoredFor(Recordings, o, version[o])
    BY <1>1, StoredIs
  <2>2. \A t \in Thread : \A i \in AccessesOf(t) :
            {Access(t, i).val} = StoredFor(Recordings, Access(t, i).objid,
                                           IF Access(t, i).acc = "W" THEN Access(t, i).version + 2
                                           ELSE Access(t, i).version)
    BY <1>5, StoredIs
  <2> QED BY <1>1, <2>1, <2>2 DEF ValuesStored
<1> QED BY <1>3, <1>4, <1>6

LEMMA VersionLogHolds ==
    ASSUME RecordingInv, AllClosed
    PROVE  VersionLogFacts /\ VersionKnown
<1>1. ASSUME NEW t \in Thread
      PROVE  /\ Closed(thr[t]) /\ EndMarks(thr[t]) /\ LogInv(thr[t], version)
             /\ thr[t].wait_version \in Seq(WaitVersion \cup {EndOfVersions})
             /\ Len(thr[t].wait_version) \in Nat \ {0}
  <2>1. Closed(thr[t]) /\ EndMarks(thr[t]) /\ LogInv(thr[t], version) /\ thr[t] \in OrderLogs
    BY LogLengthsHold DEF AllClosed
  <2>2. thr[t].wait_version \in Seq(WaitVersion \cup {EndOfVersions})
    BY <2>1 DEF OrderLogs, VersionLogs
  <2>3. Len(thr[t].wait_version) > 0
    BY <2>1 DEF EndMarks
  <2>4. Len(thr[t].wait_version) \in Nat
    BY <2>1, LogParts DEF Counted
  <2> QED BY <2>1, <2>2, <2>3, <2>4, SMTT(60)
<1>2. VersionLogFacts
  <2> SUFFICES ASSUME NEW t \in Thread, NEW log, log = thr[t].wait_version
               PROVE  /\ Len(log) \in Nat \ {0} /\ log[Len(log)].memop = -1
                      /\ \A k \in 1 .. Len(log) - 1 :
                            /\ log[k] \in WaitVersion
                            /\ log[k].memop + 1 \in AccessesOf(t)
                            /\ log[k].version = Access(t, log[k].memop + 1).version
                      /\ \A k, j \in 1 .. Len(log) - 1 : k < j => log[k].memop < log[j].memop
    BY LogsAre DEF VersionLogFacts
  <2>1. /\ Len(log) \in Nat \ {0} /\ log \in Seq(WaitVersion \cup {EndOfVersions})
        /\ \A k \in 1 .. Len(log) : log[k].memop = -1 <=> k = Len(log)
    BY <1>1 DEF EndMarks
  <2>2. log[Len(log)].memop = -1
    BY <2>1, SMTT(60)
  <2>3. ASSUME NEW k \in 1 .. Len(log) - 1
        PROVE  /\ log[k] \in WaitVersion /\ VersionEntryExact(thr[t], k) /\ k \in 1 .. Len(log)
    <3>1. k \in 1 .. Len(log) /\ k # Len(log)
      BY <2>1, SMTT(60)
    <3>2. log[k].memop # -1
      BY <2>1, <3>1
    <3>3. log[k] \in WaitVersion \cup {EndOfVersions}
      BY <2>1, <3>1, SMTT(60)
    <3>4. log[k] \in WaitVersion
      BY <3>2, <3>3, SMTT(60) DEF EndOfVersions
    <3>5. VersionEntryExact(thr[t], k)
      BY <1>1, <3>1, <3>2 DEF LogInv, VersionsExact
    <3> QED BY <3>1, <3>4, <3>5
  <2>4. ASSUME NEW k \in 1 .. Len(log) - 1
        PROVE  log[k].memop + 1 \in AccessesOf(t) /\ log[k].version = Access(t, log[k].memop + 1).version
    BY <2>3, LogsAre DEF VersionEntryExact, Accesses
  <2>5. ASSUME NEW k \in 1 .. Len(log) - 1, NEW j \in 1 .. Len(log) - 1, k < j
        PROVE  log[k].memop < log[j].memop
    BY <2>3, <2>5 DEF VersionEntryExact
  <2> QED BY <2>1, <2>2, <2>3, <2>4, <2>5
<1>3. VersionKnown
  <2> SUFFICES ASSUME NEW t \in Thread, NEW i \in AccessesOf(t)
               PROVE  \/ \E k \in 1 .. Len(RecordedVersions[t]) - 1 : RecordedVersions[t][k].memop = i - 1
                      \/ Access(t, i).version = 0
                      \/ \E j \in AccessesOf(t) :
                            j < i /\ Access(t, j).objid = Access(t, i).objid
                                  /\ Access(t, j).version = Access(t, i).version
    BY DEF VersionKnown
  <2>1. i \in Accesses(thr[t]) /\ Accesses(thr[t]) = AccessesOf(t)
    BY LogsAre
  <2>2. WaitsForVersion(thr[t], i) \/ FirstAtZero(thr[t], i) \/ FollowsOwnRead(thr[t], i)
    BY <1>1, <2>1 DEF LogInv, VersionsLogged
  <2>3. CASE WaitsForVersion(thr[t], i)
    <3>1. PICK k \in 1 .. Len(thr[t].wait_version) : thr[t].wait_version[k].memop = i - 1
      BY <2>3 DEF WaitsForVersion
    <3>2. i - 1 # -1
      BY LogLengthsHold, SMTT(60) DEF LogLengths, AccessesOf
    <3>3. k # Len(thr[t].wait_version)
      BY <1>1, <3>1, <3>2 DEF EndMarks
    <3>4. k \in 1 .. Len(thr[t].wait_version) - 1
      BY <1>1, <3>3, SMTT(60)
    <3> QED BY <3>1, <3>4, LogsAre
  <2>4. CASE FirstAtZero(thr[t], i)
    <3>1. Access(t, i) = thr[t].access[i]
      BY LogsAre
    <3> QED BY <2>4, <3>1 DEF FirstAtZero
  <2>5. CASE FollowsOwnRead(thr[t], i)
    <3>1. \A j : Access(t, j) = thr[t].access[j]
      BY LogsAre
    <3> QED BY <2>1, <2>5, <3>1 DEF FollowsOwnRead, SameObj
  <2> QED BY <2>2, <2>3, <2>4, <2>5
<1> QED BY <1>2, <1>3

LEMMA RecordingDone ==
    ASSUME RecordingInv, AllClosed
    PROVE  Recorded
BY LogLengthsHold, AccessFactsHold, NamesGive, VersionLogHolds DEF Recorded
LEMMA MemopLogHolds ==
    ASSUME RecordingInv, AllClosed
    PROVE  MemopLogFacts
<1> SUFFICES ASSUME NEW t \in Thread, NEW log, log = thr[t].wait_memop
             PROVE  /\ log \in MemopLogs /\ ClosedLog(log) /\ NamesReads(t, log)
                    /\ \A i \in AccessesOf(t) :
                          Access(t, i) \in MemAcc /\ (Access(t, i).acc = "R" => ReadInLog(t, i, log))
  BY LogsAre DEF MemopLogFacts
<1>1. AccessesOf(t) = Accesses(thr[t]) /\ \A i : Access(t, i) = thr[t].access[i]
  BY LogsAre
<1>2. Closed(thr[t]) /\ EndMarks(thr[t]) /\ LogInv(thr[t], version) /\ thr[t] \in OrderLogs
  BY LogLengthsHold DEF AllClosed
<1>3. log \in Seq(WaitMemop \cup {EndOfMemops})
  BY <1>2 DEF OrderLogs, MemopLogs
<1>4. Len(log) \in Nat /\ Len(log) > 0
  BY <1>2, LogParts DEF Counted, EndMarks
<1>5. \A k \in 1 .. Len(log) : log[k].objid = -1 <=> k = Len(log)
  BY <1>2 DEF EndMarks
<1>6. ASSUME NEW k \in 1 .. Len(log) - 1
      PROVE  k \in 1 .. Len(log) /\ log[k] \in WaitMemop /\ ReaderEntryExact(thr[t], k)
  <2>1. k \in 1 .. Len(log) /\ k # Len(log)
    BY <1>4, SMTT(60)
  <2>2. log[k].objid # -1
    BY <1>5, <2>1
  <2>3. log[k] \in WaitMemop \cup {EndOfMemops}
    BY <1>3, <2>1, SMTT(60)
  <2>4. log[k] \in WaitMemop
    BY <2>2, <2>3, SMTT(60) DEF EndOfMemops
  <2>5. ReaderEntryExact(thr[t], k)
    BY <1>2, <2>1, <2>2 DEF LogInv, ReadersExact
  <2> QED BY <2>1, <2>4, <2>5
<1>7. NamesReads(t, log)
  BY <1>1, <1>6 DEF NamesReads, ReaderEntryExact
<1>8. ASSUME NEW k \in 1 .. Len(log) - 1, NEW j \in 1 .. Len(log) - 1, k < j, log[k].objid = log[j].objid
      PROVE  log[k].version < log[j].version
  BY <1>6, <1>8 DEF ReaderEntryExact
<1>9. log[Len(log)].objid = -1
  BY <1>4, <1>5, SMTT(60)
<1>10. log \in MemopLogs /\ ClosedLog(log)
  <2>1. log \in MemopLogs
    BY <1>2 DEF OrderLogs
  <2>2. Len(log) \in Nat \ {0}
    BY <1>4, SMTT(60)
  <2> QED BY <1>6, <1>8, <1>9, <2>1, <2>2 DEF ClosedLog
<1>11. ASSUME NEW i \in AccessesOf(t)
       PROVE  Access(t, i) \in MemAcc /\ (Access(t, i).acc = "R" => ReadInLog(t, i, log))
  <2>1. PICK a : a = Access(t, i) /\ a = thr[t].access[i] /\ a \in MemAcc
    BY <1>1, LogLengthsHold
  <2>2. a.objid \in Obj /\ thr[t].fin = NObj + 1
    BY <1>2, <2>1 DEF MemAcc, Closed
  <2>3. ~(thr[t].fin <= a.objid)
    BY <2>2, NObjAssumption, SMTT(60) DEF Obj
  <2>4. ~ReaderPending(thr[t], i)
    BY <2>1, <2>3 DEF ReaderPending
  <2>5. a.acc = "R" => ReaderLogged(thr[t], i) \/ OverwrittenByItself(thr[t], i)
    BY <1>1, <1>2, <2>1, <2>4 DEF LogInv, ReadsLogged, IsRead
  <2>6. OverwrittenByItself(thr[t], i) => ReadInLog(t, i, log)
    BY <1>1 DEF OverwrittenByItself, ReadInLog, SameObj, IsWrite
  <2>7. ReaderLogged(thr[t], i) => ReadInLog(t, i, log)
    BY <1>1 DEF ReaderLogged, ReadInLog
  <2> QED BY <2>1, <2>5, <2>6, <2>7
<1> QED BY <1>7, <1>10, <1>11

LEMMA RecordingAlways == Spec => []RecordingInv
<1>1. Init => RecInit
  BY DEF Init
<1>2. [Next]_rrVars => [RecNext]_recVars
  BY DEF Next, Record, Process, StartReplay, ReplayStep, Terminating, rrVars
<1>3. Spec => RecSpec
  BY <1>1, <1>2, PTL DEF Spec, RecSpec
<1>4. RecTypeOK /\ RecInv /\ AllNamed(thr, version, mem) /\ LogMarks => RecordingInv
  BY DEF RecordingInv
<1> QED BY <1>3, <1>4, TypeCorrect, RecInvHolds, NamedAlways, MarksAlways, PTL

LEMMA RecordEnds ==
    ASSUME RecNext
    PROVE  ~AllClosed
<1> SUFFICES ASSUME AllClosed PROVE FALSE
  OBVIOUS
<1>1. PICK t \in Thread : Running(thr[t]) \/ Finishing(thr[t]) \/ Closing(thr[t])
  BY DEF RecNext, mem_read, mem_write, mem_finish_thr, MayAccess
<1>2. thr[t].fin = NObj + 1
  BY DEF AllClosed, Closed
<1> QED BY <1>1, <1>2, NObjAssumption, SMTT(60) DEF Running, Finishing, Closing, Obj

-----------------------------------------------------------------------------
(* The log processing, after the recording.  MergeProof's definitions are  *)
(* RecordReplay's.                                                         *)
M == INSTANCE MergeProof WITH wait_memop <- RecordedMemops, access_log <- Recordings

LEMMA MergeMay == (M!IsFiniteSet(Thread) /\ Thread # {}) /\ NObj \in Nat \ {0}
BY ThreadAssumption, NObjAssumption DEF IsFiniteSet, M!IsFiniteSet

LEMMA MergeIs ==
    /\ Merge!MergeInit <=> M!MergeInit
    /\ Merge!MergeNext <=> M!MergeNext
    /\ Merge!IndexedLogsExact <=> M!IndexedLogsExact
    /\ Merge!OutputFits <=> M!OutputFits
<1>1. Merge!MergeInit <=> M!MergeInit
  BY DEF Merge!MergeInit, M!MergeInit, Merge!Obj, M!Obj
<1>2. Merge!MergeNext <=> M!MergeNext
  BY DEF Merge!MergeNext, Merge!load_wait_memop_log, Merge!write_out_memop_log, Merge!enqueue_first,
        Merge!merge_top, Merge!merge_end, Merge!Ended, Merge!push_back, Merge!NoMemop, Merge!Greater,
        Merge!NextOf, Merge!BufAfter, Merge!EmptyIndex, Merge!IndexFor, Merge!reorderVars,
        M!MergeNext, M!load_wait_memop_log, M!write_out_memop_log, M!enqueue_first,
        M!merge_top, M!merge_end, M!Ended, M!push_back, M!NoMemop, M!Greater,
        M!NextOf, M!BufAfter, M!EmptyIndex, M!IndexFor, M!reorderVars
<1>3. Merge!IndexedLogsExact <=> M!IndexedLogsExact
  BY DEF Merge!IndexedLogsExact, Merge!IndexedLog, Merge!LoggedReads, Merge!Range, Merge!Cardinality,
        Merge!Obj, M!IndexedLogsExact, M!IndexedLog, M!LoggedReads, M!Range, M!Cardinality, M!Obj
<1>4. Merge!OutputFits <=> M!OutputFits
  BY DEF Merge!OutputFits, Merge!MergeTypeOK, Merge!WaitMemop, Merge!Obj, Merge!Cardinality,
        M!OutputFits, M!MergeTypeOK, M!WaitMemop, M!Obj, M!Cardinality
<1> QED BY <1>1, <1>2, <1>3, <1>4

LEMMA MemopsAre ==
    ASSUME MemopLogFacts
    PROVE  M!MemopLogFacts
BY DEF MemopLogFacts, ClosedLog, NamesReads, ReadInLog, Access, AccessesOf, MemopLogs, WaitMemop, MemAcc,
       EndOfMemops, Obj, Val, InitVal,
       M!MemopLogFacts, M!Closes, M!NamesReads, M!ReadNamed, M!MemopLog, M!Access, M!AccessesOf, M!MemopLogs,
       M!WaitMemop, M!MemAcc, M!EndOfMemops, M!Obj, M!Val, M!InitVal

ProcessingInv == Merge!MergeInit \/ (AllClosed /\ M!MergeInv)

LEMMA RecordingStaysSo ==
    ASSUME UNCHANGED recVars
    PROVE  M!RecordingStays /\ (AllClosed => AllClosed')
<1>1. thr' = thr
  BY DEF recVars
<1> QED BY <1>1 DEF M!RecordingStays, RecordedMemops, Recordings, AllClosed

LEMMA ProcessingStays ==
    ASSUME ProcessingInv, UNCHANGED <<recVars, mergeVars>>
    PROVE  ProcessingInv' /\ mpc' = mpc /\ (M!MergeInv => M!MergeInv')
<1>1. UNCHANGED recVars /\ UNCHANGED mergeVars
  OBVIOUS
<1>2. UNCHANGED M!mergeVars /\ mpc' = mpc
  BY <1>1 DEF mergeVars, M!mergeVars, M!reorderVars
<1>3. M!MergeInv => M!MergeInv'
  BY <1>1, <1>2, RecordingStaysSo, MergeMay, M!MergeStays
<1>4. Merge!MergeInit => Merge!MergeInit'
  BY <1>1 DEF mergeVars, Merge!MergeInit
<1> QED BY <1>1, <1>2, <1>3, <1>4, RecordingStaysSo DEF ProcessingInv

LEMMA ProcessingGoesOn ==
    ASSUME RecordingInv, ProcessingInv, Process
    PROVE  ProcessingInv' /\ mpc # "done"
<1>1. AllClosed /\ M!MergeNext /\ UNCHANGED recVars
  BY MergeIs DEF Process
<1>2. M!MemopLogFacts
  BY <1>1, MemopLogHolds, MemopsAre
<1>3. M!MergeInv
  BY <1>2, MergeIs, MergeMay, M!MergeStarts DEF ProcessingInv
<1>4. M!MergeInv' /\ mpc # "done"
  BY <1>1, <1>2, <1>3, RecordingStaysSo, MergeMay, M!ProcessKeeps
<1> QED BY <1>1, <1>4, RecordingStaysSo DEF ProcessingInv

LEMMA ProcessingNext ==
    ASSUME RecordingInv, ProcessingInv, [Next]_rrVars
    PROVE  ProcessingInv'
<1>1. CASE Record
  <2>1. Merge!MergeInit /\ UNCHANGED mergeVars
    BY <1>1, RecordEnds DEF Record, ProcessingInv
  <2>2. Merge!MergeInit'
    BY <2>1 DEF mergeVars, Merge!MergeInit
  <2> QED BY <2>2 DEF ProcessingInv
<1>2. CASE Process
  BY <1>2, ProcessingGoesOn
<1>3. CASE UNCHANGED <<recVars, mergeVars>>
  BY <1>3, ProcessingStays
<1>4. Record \/ Process \/ UNCHANGED <<recVars, mergeVars>>
  BY DEF Next, StartReplay, ReplayStep, Terminating, rrVars
<1> QED BY <1>1, <1>2, <1>3, <1>4

LEMMA ProcessingAlways == Spec => []ProcessingInv
<1>1. Init => ProcessingInv
  BY DEF Init, ProcessingInv
<1>2. RecordingInv /\ ProcessingInv /\ [Next]_rrVars => ProcessingInv'
  BY ProcessingNext
<1> QED BY <1>1, <1>2, RecordingAlways, PTL DEF Spec

(* The merged log of any recording is its logged reads by object and       *)
(* version: merge_memop puts every entry of every thread in its object's   *)
(* segment exactly once, whatever the threads, objects, log lengths, and   *)
(* the order the priority queue gives equal entries.                       *)
THEOREM MergeIsExact == Spec => []Merge!IndexedLogsExact
<1>1. ASSUME RecordingInv, ProcessingInv PROVE Merge!IndexedLogsExact
  <2>1. CASE mpc = "done"
    <3>1. ~Merge!MergeInit
      BY <2>1 DEF Merge!MergeInit
    <3>2. AllClosed /\ M!MergeInv
      BY <1>1, <3>1 DEF ProcessingInv
    <3>3. M!MemopLogFacts
      BY <1>1, <3>2, MemopLogHolds, MemopsAre
    <3> QED BY <3>2, <3>3, MergeMay, M!ExactHolds, MergeIs
  <2>2. CASE mpc # "done"
    BY <2>2 DEF Merge!IndexedLogsExact
  <2> QED BY <2>1, <2>2
<1> QED BY <1>1, RecordingAlways, ProcessingAlways, PTL

(* Once the threads have closed their logs, the files merge-memop creates  *)
(* with their final size are never written past it, and are full when it   *)
(* ends; no input is read past its end.                                    *)
THEOREM OutputAlwaysFits == Spec => [](AllClosed => Merge!OutputFits)
<1>1. ASSUME RecordingInv, ProcessingInv, AllClosed PROVE Merge!OutputFits
  <2>1. M!MemopLogFacts
    BY <1>1, MemopLogHolds, MemopsAre
  <2>2. M!MergeInv
    BY <1>1, <2>1, MergeIs, MergeMay, M!MergeStarts DEF ProcessingInv
  <2> QED BY <2>1, <2>2, MergeMay, M!FitsHold, MergeIs
<1> QED BY <1>1, RecordingAlways, ProcessingAlways, PTL

-----------------------------------------------------------------------------
(* Replay, after the log processing.  ReplayProof's definitions are        *)
(* RecordReplay's, and what it takes from the logs is what the recording   *)
(* and the log processing leave.                                           *)
P == INSTANCE ReplayProof WITH
        version_log <- RecordedVersions, access_log <- Recordings, index_log <- indexbuf

LEMMA ReplayMay == (P!IsFiniteSet(Thread) /\ Thread # {}) /\ NObj \in Nat \ {0}
BY ThreadAssumption, NObjAssumption DEF IsFiniteSet, P!IsFiniteSet

LEMMA RecordedIs ==
    ASSUME Recorded
    PROVE  P!Recorded
BY DEF Recorded, LogLengths, AccessFacts, ProgramOrder, OneWriter, EveryVersionWritten, ValuesStored,
       VersionLogFacts, VersionKnown, StoredFor, WritesFor, Access, AccessesOf, WaitVersion, MemAcc, Value,
       InitVal, Val, Obj,
       P!Recorded, P!LogLengths, P!AccessFacts, P!ProgramOrder, P!OneWriter, P!EveryVersionWritten,
       P!ValuesStored, P!VersionLogFacts, P!VersionKnown, P!StoredIn, P!WritesOf, P!Access, P!AccessesOf,
       P!WaitVersion, P!MemAcc, P!Value, P!InitVal, P!Val, P!Obj

LEMMA MergedIs ==
    ASSUME M!Merged
    PROVE  P!Merged
BY DEF M!Merged, M!SegmentFacts, M!ReadsInSegments, M!InSegment, M!Segment, M!ReaderEntry, M!Access,
       M!AccessesOf, M!Obj, P!Merged, P!SegmentFacts, P!ReadsInSegments, P!InSegment, P!Segment,
       P!ReaderEntry, P!Access, P!AccessesOf, P!Obj

LEMMA ReplayFinds ==
    ASSUME RecordingInv, AllClosed, M!MergeInv, mpc = "done"
    PROVE  P!Recorded /\ P!Merged
<1>1. P!Recorded
  BY RecordingDone, RecordedIs
<1>2. M!MemopLogFacts
  BY MemopLogHolds, MemopsAre
<1>3. M!Merged
  BY <1>2, MergeMay, M!MergedHolds
<1> QED BY <1>1, <1>3, MergedIs

LEMMA ReplayIs ==
    /\ Rep!RepOff <=> P!RepOff
    /\ Rep!RepOff' <=> P!RepOff'
    /\ Rep!rep_mem_init <=> P!rep_mem_init
    /\ \A t : Rep!RepStep(t) <=> P!RepStep(t)
<1>1. (Rep!RepOff <=> P!RepOff) /\ (Rep!RepOff' <=> P!RepOff')
  BY DEF Rep!RepOff, Rep!Obj, Rep!InitVal, Rep!NoReader, P!RepOff, P!Obj, P!InitVal, P!NoReader
<1>2. Rep!rep_mem_init <=> P!rep_mem_init
  BY DEF Rep!rep_mem_init, Rep!load_wait_reader_log, Rep!next_wait_version, Rep!taken_after, Rep!Obj,
               P!rep_mem_init, P!load_wait_reader_log, P!next_wait_version, P!taken_after, P!Obj
<1>3. ASSUME NEW t PROVE Rep!RepStep(t) <=> P!RepStep(t)
  BY DEF Rep!RepStep, Rep!wait_object_version, Rep!assert_version, Rep!rep_read, Rep!rep_read_check,
        Rep!count_memop, Rep!trylock, Rep!next_reader_memop, Rep!wait_reader, Rep!rep_write,
        Rep!publish_version, Rep!RAt, Rep!RGoto, Rep!MoreAccesses, Rep!Op, Rep!next_wait_version,
        Rep!taken_after, Rep!check_access, Rep!AboutToScan, Rep!NextEntry, Rep!HasEntry, Rep!Value,
        P!RepStep, P!wait_object_version, P!assert_version, P!rep_read, P!rep_read_check,
        P!count_memop, P!trylock, P!next_reader_memop, P!wait_reader, P!rep_write,
        P!publish_version, P!RAt, P!RGoto, P!MoreAccesses, P!Op, P!next_wait_version,
        P!taken_after, P!check_access, P!AboutToScan, P!NextEntry, P!HasEntry, P!Value
<1> QED BY <1>1, <1>2, <1>3

(* Replay starts when the other programs have ended, and its invariant     *)
(* holds from then on.                                                     *)
ReplayInv == Rep!RepOff \/ (AllClosed /\ M!MergeInv /\ mpc = "done" /\ P!RepInv)

Repeats == P!OrdStays \/ \E t \in Thread : P!RepeatsAccess(t)

LEMMA ReplayWaits ==
    ASSUME RecordingInv, ProcessingInv, ReplayInv, Record \/ Process
    PROVE  ReplayInv' /\ Repeats
<1>1. P!RepStill
  BY DEF Record, Process, repVars, P!RepStill, P!repVars
<1>2. P!RepOff
  BY RecordEnds, ProcessingGoesOn, ReplayIs DEF Record, ReplayInv
<1>3. P!RepOff' /\ P!OrdStays
  BY <1>1, <1>2, ReplayMay, P!OffStays, P!OffStutters
<1> QED BY <1>3, ReplayIs DEF ReplayInv, Repeats

LEMMA FrozenSo ==
    ASSUME UNCHANGED <<recVars, mergeVars>>
    PROVE  P!Frozen
<1>1. /\ thr' = thr /\ version' = version /\ mem' = mem
      /\ memop_log' = memop_log /\ indexbuf' = indexbuf
  BY DEF recVars, mergeVars
<1> QED BY <1>1 DEF P!Frozen, Recordings, RecordedVersions

LEMMA ReplayStarts ==
    ASSUME RecordingInv, ProcessingInv, ReplayInv, StartReplay
    PROVE  ReplayInv' /\ Repeats
<1>1. mpc = "done" /\ P!rep_mem_init /\ UNCHANGED <<recVars, mergeVars>>
  BY ReplayIs DEF StartReplay
<1>2. ~Merge!MergeInit
  BY <1>1 DEF Merge!MergeInit
<1>3. AllClosed /\ M!MergeInv
  BY <1>2 DEF ProcessingInv
<1>4. P!RepOff
  BY <1>1, ReplayIs, ReplayMay, P!StartsOff DEF ReplayInv
<1>5. P!RepInv' /\ P!OrdStays
  BY <1>1, <1>3, <1>4, ReplayFinds, FrozenSo, ReplayMay, P!StartKeeps, P!StartStutters
<1>6. AllClosed' /\ M!MergeInv' /\ mpc' = "done"
  BY <1>1, <1>3, RecordingStaysSo, ProcessingStays
<1> QED BY <1>5, <1>6 DEF ReplayInv, Repeats

LEMMA ReplayGoesOn ==
    ASSUME RecordingInv, ProcessingInv, ReplayInv, NEW t \in Thread, ReplayStep(t)
    PROVE  ReplayInv' /\ Repeats
<1>1. P!RepStep(t) /\ UNCHANGED <<recVars, mergeVars>>
  BY ReplayIs DEF ReplayStep
<1>2. AllClosed /\ M!MergeInv /\ mpc = "done" /\ P!RepInv
  BY <1>1, ReplayIs, ReplayMay, P!OffSteps DEF ReplayInv
<1>3. P!Recorded /\ P!Merged /\ P!Frozen
  BY <1>1, <1>2, ReplayFinds, FrozenSo
<1>4. P!RepInv'
  BY <1>1, <1>2, <1>3, ReplayMay, P!ReplayKeeps
<1>5. P!Replaying
  BY <1>2, <1>3 DEF P!Replaying
<1>6. P!RepeatsAccess(t) \/ P!OrdStays
  BY <1>1, <1>3, <1>4, <1>5, ReplayMay, P!StepRefines
<1>7. AllClosed' /\ M!MergeInv' /\ mpc' = "done"
  BY <1>1, <1>2, RecordingStaysSo, ProcessingStays
<1> QED BY <1>4, <1>6, <1>7 DEF ReplayInv, Repeats

LEMMA ReplayRests ==
    ASSUME ProcessingInv, ReplayInv, UNCHANGED rrVars
    PROVE  ReplayInv' /\ Repeats
<1>1. UNCHANGED <<recVars, mergeVars>> /\ UNCHANGED recVars /\ P!RepStill /\ P!Frozen
  BY FrozenSo DEF rrVars, repVars, P!RepStill, P!repVars
<1>2. P!RepOff => P!RepOff'
  BY <1>1, ReplayMay, P!OffStays
<1>3. (P!RepInv => P!RepInv') /\ P!OrdStays
  BY <1>1, ReplayMay, P!RepStays, P!StillStutters
<1> QED BY <1>1, <1>2, <1>3, ReplayIs, RecordingStaysSo, ProcessingStays DEF ReplayInv, Repeats

LEMMA ReplayAlways == Spec => []ReplayInv /\ [][Repeats]_rrVars
<1>1. Init => ReplayInv
  BY DEF Init, ReplayInv
<1>2. RecordingInv /\ ProcessingInv /\ ReplayInv /\ [Next]_rrVars => ReplayInv' /\ Repeats
  BY ReplayWaits, ReplayStarts, ReplayGoesOn, ReplayRests DEF Next, Terminating
<1> QED BY <1>1, <1>2, RecordingAlways, ProcessingAlways, PTL DEF Spec

LEMMA OffOrReplaying ==
    ASSUME RecordingInv, ReplayInv
    PROVE  P!RepOff \/ P!Replaying
BY ReplayFinds, ReplayIs DEF ReplayInv, P!Replaying

LEMMA ReplayShows ==
    /\ P!RepTypeOK <=> TypeOK
    /\ VersionAssertHolds <=> \A t \in Thread : P!RAt(t, "assert") =>
          obj_version[P!Op(t).objid] = wait_version[t].version
    /\ NoConcurrentReaderScan <=> \A t \in Thread : P!AboutToScan(t) => ~wait_reader_log[P!Op(t).objid].mutex
    /\ ReadersNotSkipped <=> \A t \in Thread : P!RAt(t, "scan") /\ P!HasEntry(P!Op(t).objid) =>
          obj_version[P!Op(t).objid] <= P!NextEntry(P!Op(t).objid).version
    /\ AccessesReplayed <=> \A t \in Thread :
          /\ P!RAt(t, "check") => P!check_access(t, rloc[t].val)
          /\ P!RAt(t, "store") => P!check_access(t, P!Value(t, memop_cnt[t]))
<1>1. P!RepTypeOK <=> TypeOK
  BY DEF TypeOK, Rep!RepTypeOK, Rep!Obj, Rep!Val, Rep!InitVal, Rep!ReaderLog,
               P!RepTypeOK, P!Obj, P!Val, P!InitVal, P!ReaderLog
<1> QED BY <1>1 DEF VersionAssertHolds, NoConcurrentReaderScan, ReadersNotSkipped, AccessesReplayed,
        Value, Rep!RAt, Rep!Op, Rep!AboutToScan, Rep!HasEntry, Rep!NextEntry, Rep!check_access,
        P!Value, P!RAt, P!Op, P!AboutToScan, P!HasEntry, P!NextEntry, P!check_access

LEMMA ReplaySafe ==
    ASSUME RecordingInv, ReplayInv
    PROVE  TypeOK /\ VersionAssertHolds /\ NoConcurrentReaderScan /\ ReadersNotSkipped /\ AccessesReplayed
<1>1. P!RepOff \/ P!Replaying
  BY OffOrReplaying
<1>2. P!RepTypeOK
  BY <1>1, ReplayMay, P!TypesOff, P!TypesHold
<1> QED BY <1>1, <1>2, ReplayShows, ReplayMay, P!AssertHolds, P!ScansAlone, P!NoneSkipped, P!AccessesMatch

LEMMA ReplayIsSafe ==
    RecordingInv /\ ReplayInv =>
        TypeOK /\ VersionAssertHolds /\ NoConcurrentReaderScan /\ ReadersNotSkipped /\ AccessesReplayed
BY ReplaySafe

(* mem-replay.c keeps the types of its variables, throughout test.sh's     *)
(* procedure of recording, log processing and replay.                      *)
THEOREM ReplayTypeCorrect == Spec => []TypeOK
BY ReplayIsSafe, RecordingAlways, ReplayAlways, PTL

(* assert(obj_version[objid] == wait_version.version) of                   *)
(* wait_object_version never fails: when the spin on a version ends the    *)
(* object has not moved past it, for any number of threads, objects and    *)
(* accesses.                                                               *)
THEOREM VersionAssertNeverFails == Spec => []VersionAssertHolds
BY ReplayIsSafe, RecordingAlways, ReplayAlways, PTL

(* "There should be no concurrent access to an object's memop log": the    *)
(* trylock of next_reader_memop, whose failure is only asserted against,   *)
(* never finds the mutex taken.                                            *)
THEOREM ReaderScansAlone == Spec => []NoConcurrentReaderScan
BY ReplayIsSafe, RecordingAlways, ReplayAlways, PTL

(* "Every read log should be processed": the assertion in                  *)
(* next_reader_memop never fails, since a writer consumes the entries of   *)
(* its version before it moves the object on.                              *)
THEOREM ReadersAreNotSkipped == Spec => []ReadersNotSkipped
BY ReplayIsSafe, RecordingAlways, ReplayAlways, PTL

(* check_access never reports an error: every replayed read returns the    *)
(* recorded value and every access happens at the recorded version, so     *)
(* that the replayed program goes on making the recorded accesses.         *)
THEOREM AccessesAreReplayed == Spec => []AccessesReplayed
BY ReplayIsSafe, RecordingAlways, ReplayAlways, PTL

(* The comparison test.sh ends with never fails: a replay that reached its *)
(* end leaves the recorded memory, with each object as often written, and  *)
(* no log entry unused but those of reads nobody overwrote.                *)
THEOREM ResultIsReproduced == Spec => []ResultReproduced
<1>1. ASSUME RecordingInv, ReplayInv, P!RepDone
      PROVE  /\ rmem = mem /\ obj_version = version
             /\ \A t \in Thread : wait_version[t].memop = -1
             /\ \A o \in P!Obj : P!HasEntry(o) => P!NextEntry(o).version = version[o]
  <2>1. mem \in [P!Obj -> P!Val] /\ version \in [P!Obj -> Nat]
    BY <1>1 DEF RecordingInv, RecTypeOK, Obj, Val, InitVal, P!Obj, P!Val, P!InitVal
  <2> QED BY <1>1, <2>1, OffOrReplaying, ReplayMay, P!ResultHolds
<1>2. RecordingInv /\ ReplayInv => ResultReproduced
  BY <1>1 DEF ResultReproduced, Rep!RepDone, Rep!RAt, Rep!MoreAccesses, Rep!HasEntry, Rep!NextEntry,
        Obj, P!Obj, P!RepDone, P!RAt, P!MoreAccesses, P!HasEntry, P!NextEntry
<1> QED BY <1>2, RecordingAlways, ReplayAlways, PTL

-----------------------------------------------------------------------------
LEMMA ViewIs ==
    /\ OrdDone = P!OrdDone /\ OrdVer = P!OrdVer
    /\ OrdDone' = P!OrdDone' /\ OrdVer' = P!OrdVer'
BY DEF OrdDone, OrdVer, Happened, Publishing, Rep!RAt, Rep!Op, Obj,
       P!OrdDone, P!OrdVer, P!Happened, P!Reached, P!Storing, P!Cur, P!Access, P!Obj

LEMMA RepeatIs ==
    ASSUME RecTypeOK, NEW t \in Thread, P!RepeatsAccess(t)
    PROVE  Ord!Repeat(t)
<1>1. \A u \in Thread : DOMAIN Recordings[u] = 1 .. Len(Recordings[u])
  <2>1. \A u \in Thread : Recordings[u] \in Seq(MemAcc)
    BY LogsAre DEF RecTypeOK, OrderLogs, AccessLogs
  <2> QED BY <2>1, SMTT(60)
<1>2. PICK a : a = Recordings[t][OrdDone[t] + 1]
  OBVIOUS
<1>3. OrdDone[t] < Len(Recordings[t]) /\ (a.acc = "R" => rmem[a.objid] = a.val)
  BY <1>2, ViewIs DEF P!RepeatsAccess, P!Access
<1>4. Ord!MayHappen(t, a.acc, a.objid)
  BY <1>1, <1>2, ViewIs DEF Ord!MayHappen, P!RepeatsAccess, P!MayRepeat, P!Access, P!AccessesOf
<1>5. Ord!Happens(t, a.acc, a.objid, a.val)
  BY <1>2, ViewIs DEF Ord!Happens, P!RepeatsAccess, P!Repeated, P!Access
<1> QED BY <1>2, <1>3, <1>4, <1>5 DEF Ord!Repeat

(* Replay repeats the recorded accesses one at a time, each at its         *)
(* recorded version and a write after every recorded read of the version   *)
(* it replaces, whatever steps of wait_object_version, next_reader_memop   *)
(* and wait_reader the threads interleave.                                 *)
THEOREM ReplayIsOrdered == Spec => ReplayInOrder
<1>1. Init => Ord!OrdInit
  <2>1. Rep!RepOff => OrdDone = [t \in Thread |-> 0] /\ OrdVer = [o \in P!Obj |-> 0]
    BY ViewIs, ReplayIs, ReplayMay, P!OffView
  <2> QED BY <2>1 DEF Init, Ord!OrdInit, Obj, P!Obj
<1>2. RecordingInv /\ Repeats => [\E t \in Thread : Ord!Repeat(t)]_Ord!ordVars
  BY RepeatIs, ViewIs DEF RecordingInv, Repeats, P!OrdStays, Ord!ordVars
<1>3. UNCHANGED rrVars => UNCHANGED Ord!ordVars
  <2>1. UNCHANGED rrVars => P!RepStill /\ P!Frozen
    BY FrozenSo DEF rrVars, repVars, P!RepStill, P!repVars
  <2> QED BY <2>1, ViewIs, ReplayMay, P!StillStutters DEF P!OrdStays, Ord!ordVars
<1> QED BY <1>1, <1>2, <1>3, RecordingAlways, ReplayAlways, PTL DEF Spec, ReplayInOrder, Ord!OrdSpec
=============================================================================
