--------------------------- MODULE RecorderProof ----------------------------
(***************************************************************************)
(* Proofs about Recorder, for any number of threads, objects and accesses. *)
(***************************************************************************)
EXTENDS Recorder, TLAPS

(* A leaf that names no prover is for Zenon.                               *)
USE ZenonT(60)

-----------------------------------------------------------------------------
(* Bookkeeping, field by field.                                            *)

(* Appending one entry to the version log touches nothing else             *)
LEMMA LogWaitVersion ==
    ASSUME NEW l \in OrderLogs, NEW v \in Nat
    PROVE  LET n == log_wait_version(l, v)
           IN  /\ n \in OrderLogs
               /\ n.wait_version = Append(l.wait_version, [memop |-> l.memop, version |-> v])
               /\ n.memop = l.memop /\ n.last = l.last /\ n.fin = l.fin
               /\ n.wait_memop = l.wait_memop /\ n.access = l.access
<1> DEFINE x == Append(l.wait_version, [memop |-> l.memop, version |-> v])
<1>1. x \in VersionLogs
  BY SMTT(60) DEF OrderLogs, VersionLogs, WaitVersion
<1>2. log_wait_version(l, v) = [l EXCEPT !.wait_version = x]
  BY DEF log_wait_version, OrderLogs
<1> HIDE DEF x
<1> QED BY <1>1, <1>2 DEF OrderLogs, x

(* Logging the last read appends it if there is one, and nothing else      *)
LEMMA LogLastRead ==
    ASSUME NEW l \in OrderLogs, NEW o \in Obj
    PROVE  LET n == log_last_read(l, o)
           IN  /\ n \in OrderLogs
               /\ n.wait_memop = IF l.last[o].memop >= 0
                                 THEN Append(l.wait_memop, [objid |-> o,
                                         version |-> l.last[o].version, memop |-> l.last[o].memop])
                                 ELSE l.wait_memop
               /\ n.memop = l.memop /\ n.last = l.last /\ n.fin = l.fin
               /\ n.wait_version = l.wait_version /\ n.access = l.access
<1> DEFINE e == [objid |-> o, version |-> l.last[o].version, memop |-> l.last[o].memop]
           x == Append(l.wait_memop, e)
<1>1. CASE l.last[o].memop >= 0
  <2>1. e \in WaitMemop
    BY <1>1, SMTT(60) DEF OrderLogs, LastInfos, LastObjInfo, WaitMemop, NoMemop
  <2>2. l.wait_memop \in Seq(WaitMemop \cup {EndOfMemops})
    BY DEF OrderLogs, MemopLogs
  <2>3. x \in MemopLogs
    <3> HIDE DEF e
    <3> QED BY <2>1, <2>2, SMTT(60) DEF MemopLogs
  <2>4. log_last_read(l, o) = [l EXCEPT !.wait_memop = x]
    BY <1>1 DEF log_last_read, log_other_wait_memop, OrderLogs
  <2> HIDE DEF x
  <2> QED BY <1>1, <2>3, <2>4 DEF OrderLogs, x
<1>2. CASE ~(l.last[o].memop >= 0)
  BY <1>2 DEF log_last_read
<1> QED BY <1>1, <1>2

(* What an access changes.  Ordered: n is l with the order and access logs *)
(* extended for access acc to o that saw version v.  Noted: after that,    *)
(* g_last[o] is new and the access is counted.                             *)
LogsVersion(l, o, v) == l.last[o].version # v
LogsReader(l, o, v) == LogsVersion(l, o, v) /\ l.last[o].memop >= 0

LogsExtended(l, n, acc, o, v, val) ==
    /\ n \in OrderLogs
    /\ n.fin = l.fin
    /\ n.access = Append(l.access, [acc |-> acc, objid |-> o, version |-> v, val |-> val])
    /\ n.wait_version = IF LogsVersion(l, o, v)
                        THEN Append(l.wait_version, [memop |-> l.memop, version |-> v])
                        ELSE l.wait_version
    /\ n.wait_memop = IF LogsReader(l, o, v)
                      THEN Append(l.wait_memop, [objid |-> o, version |-> l.last[o].version,
                                                 memop |-> l.last[o].memop])
                      ELSE l.wait_memop

Ordered(l, n, acc, o, v, val) ==
    LogsExtended(l, n, acc, o, v, val) /\ n.memop = l.memop /\ n.last = l.last

Noted(l, n, acc, o, v, val, new) ==
    /\ LogsExtended(l, n, acc, o, v, val)
    /\ n.memop = l.memop + 1
    /\ n.last = [l.last EXCEPT ![o] = new]

(* The common part of both: order logs, then access log                    *)
LEMMA LogOrderAndAccess ==
    ASSUME NEW l \in OrderLogs, NEW o \in Obj, NEW v \in Nat, NEW val \in Val,
           NEW acc \in {"R", "W"}
    PROVE  LET m == IF l.last[o].version # v THEN log_order(l, o, v) ELSE l
               n == log_access(m, acc, o, v, val)
           IN  Ordered(l, n, acc, o, v, val)
<1> DEFINE m == IF l.last[o].version # v THEN log_order(l, o, v) ELSE l
           a == [acc |-> acc, objid |-> o, version |-> v, val |-> val]
<1>1. /\ m \in OrderLogs
      /\ m.memop = l.memop /\ m.last = l.last /\ m.fin = l.fin /\ m.access = l.access
      /\ m.wait_version = IF LogsVersion(l, o, v)
                        THEN Append(l.wait_version, [memop |-> l.memop, version |-> v])
                        ELSE l.wait_version
      /\ m.wait_memop = IF LogsReader(l, o, v)
                      THEN Append(l.wait_memop, [objid |-> o, version |-> l.last[o].version,
                                                 memop |-> l.last[o].memop])
                      ELSE l.wait_memop
  <2>1. CASE l.last[o].version # v
    <3> DEFINE w == log_wait_version(l, v)
    <3>1. m = log_last_read(w, o)
      BY <2>1 DEF log_order
    <3>2. /\ w \in OrderLogs
          /\ w.wait_version = Append(l.wait_version, [memop |-> l.memop, version |-> v])
          /\ w.memop = l.memop /\ w.last = l.last /\ w.fin = l.fin
          /\ w.wait_memop = l.wait_memop /\ w.access = l.access
      BY LogWaitVersion
    <3> HIDE DEF w, m
    <3> QED BY <2>1, <3>1, <3>2, LogLastRead, SMTT(60) DEF LogsVersion, LogsReader
  <2>2. CASE l.last[o].version = v
    BY <2>2 DEF LogsVersion, LogsReader
  <2> QED BY <2>1, <2>2
<1> HIDE DEF m
<1>2. a \in MemAcc
  BY DEF MemAcc
<1> HIDE DEF a
<1>3. m.access \in Seq(MemAcc)
  BY <1>1 DEF OrderLogs, AccessLogs
<1> DEFINE x == Append(m.access, a)
<1>4. x \in AccessLogs
  BY <1>2, <1>3, SMTT(60) DEF AccessLogs
<1>5. log_access(m, acc, o, v, val) = [m EXCEPT !.access = x]
  BY <1>1 DEF log_access, OrderLogs, a
<1> HIDE DEF x
<1>6. LET n == log_access(m, acc, o, v, val)
      IN  /\ n \in OrderLogs
          /\ n.memop = m.memop /\ n.last = m.last /\ n.fin = m.fin /\ n.access = x
          /\ n.wait_version = m.wait_version /\ n.wait_memop = m.wait_memop
  BY <1>1, <1>4, <1>5 DEF OrderLogs
<1>7. Ordered(l, log_access(m, acc, o, v, val), acc, o, v, val)
  BY <1>1, <1>6 DEF Ordered, LogsExtended, x, a
<1> QED BY <1>7 DEF m

(* Both end by replacing g_last[o] and counting the access                 *)
LEMMA SetLastAndCount ==
    ASSUME NEW l \in OrderLogs, NEW m, NEW acc, NEW o \in Obj, NEW v, NEW val,
           NEW new \in LastObjInfo,
           Ordered(l, m, acc, o, v, val)
    PROVE  Noted(l, [m EXCEPT !.last = [@ EXCEPT ![o] = new], !.memop = @ + 1], acc, o, v, val, new)
<1> DEFINE last == [l.last EXCEPT ![o] = new]
           cnt == l.memop + 1
           n == [m EXCEPT !.last = last, !.memop = cnt]
<1>1. last \in LastInfos /\ cnt \in Nat
  BY SMTT(60) DEF OrderLogs, LastInfos
<1>2. m \in OrderLogs /\ m.last = l.last /\ m.memop = l.memop
  BY DEF Ordered, LogsExtended
<1>3. [m EXCEPT !.last = [@ EXCEPT ![o] = new], !.memop = @ + 1] = n
  BY <1>2 DEF OrderLogs
<1> HIDE DEF last, cnt
<1>4. /\ n \in OrderLogs
      /\ n.last = last /\ n.memop = cnt /\ n.fin = m.fin
      /\ n.access = m.access /\ n.wait_version = m.wait_version
      /\ n.wait_memop = m.wait_memop
  BY <1>1, <1>2 DEF OrderLogs
<1> HIDE DEF n
<1>5. Noted(l, n, acc, o, v, val, new)
  BY <1>4 DEF Noted, Ordered, LogsExtended, last, cnt
<1> QED BY <1>3, <1>5

(* note_read remembers the version read, and which access read it          *)
LEMMA NoteRead ==
    ASSUME NEW l \in OrderLogs, NEW o \in Obj, NEW v \in Nat, NEW val \in Val
    PROVE  Noted(l, note_read(l, o, v, val), "R", o, v, val, [version |-> v, memop |-> l.memop])
<1> DEFINE m == log_access(IF l.last[o].version # v THEN log_order(l, o, v) ELSE l, "R", o, v, val)
           new == [version |-> v, memop |-> l.memop]
<1>1. new \in LastObjInfo
  BY DEF OrderLogs, LastObjInfo
<1>2. Ordered(l, m, "R", o, v, val)
  BY LogOrderAndAccess
<1>3. note_read(l, o, v, val) = [m EXCEPT !.last = [@ EXCEPT ![o] = new], !.memop = @ + 1]
  BY DEF note_read
<1> HIDE DEF m, new
<1>4. Noted(l, [m EXCEPT !.last = [@ EXCEPT ![o] = new], !.memop = @ + 1], "R", o, v, val, new)
  BY <1>1, <1>2, SetLastAndCount
<1>5. Noted(l, note_read(l, o, v, val), "R", o, v, val, new)
  BY <1>3, <1>4
<1> QED BY <1>5 DEF new

(* note_write keeps the remembered version and forgets the last read       *)
LEMMA NoteWrite ==
    ASSUME NEW l \in OrderLogs, NEW o \in Obj, NEW v \in Nat, NEW val \in Val
    PROVE  Noted(l, note_write(l, o, v, val), "W", o, v, val,
                 [version |-> l.last[o].version, memop |-> NoMemop])
<1> DEFINE m == log_access(IF l.last[o].version # v THEN log_order(l, o, v) ELSE l, "W", o, v, val)
           new == [version |-> l.last[o].version, memop |-> NoMemop]
<1>1. new \in LastObjInfo
  BY DEF OrderLogs, LastInfos, LastObjInfo
<1>2. Ordered(l, m, "W", o, v, val)
  BY LogOrderAndAccess
<1>3. note_write(l, o, v, val) = [m EXCEPT !.last = [@ EXCEPT ![o] = new], !.memop = @ + 1]
  BY DEF note_write
<1> HIDE DEF m, new
<1>4. Noted(l, [m EXCEPT !.last = [@ EXCEPT ![o] = new], !.memop = @ + 1], "W", o, v, val, new)
  BY <1>1, <1>2, SetLastAndCount
<1>5. Noted(l, note_write(l, o, v, val), "W", o, v, val, new)
  BY <1>3, <1>4
<1> QED BY <1>5 DEF new

(* One iteration of mem_finish_thr's loop                                  *)
LEMMA FinishObject ==
    ASSUME NEW l \in OrderLogs, l.fin \in Obj
    PROVE  LET n == finish_object(l)
           IN  /\ n \in OrderLogs
               /\ n.fin = l.fin + 1
               /\ n.wait_memop = IF l.last[l.fin].memop >= 0
                                 THEN Append(l.wait_memop, [objid |-> l.fin,
                                         version |-> l.last[l.fin].version,
                                         memop |-> l.last[l.fin].memop])
                                 ELSE l.wait_memop
               /\ n.memop = l.memop /\ n.last = l.last
               /\ n.wait_version = l.wait_version /\ n.access = l.access
<1> DEFINE m == log_last_read(l, l.fin)
           x == l.fin + 1
<1>1. /\ m \in OrderLogs
      /\ m.wait_memop = IF l.last[l.fin].memop >= 0
                        THEN Append(l.wait_memop, [objid |-> l.fin,
                                version |-> l.last[l.fin].version, memop |-> l.last[l.fin].memop])
                        ELSE l.wait_memop
      /\ m.memop = l.memop /\ m.last = l.last /\ m.fin = l.fin
      /\ m.wait_version = l.wait_version /\ m.access = l.access
  BY LogLastRead
<1>2. finish_object(l) = [m EXCEPT !.fin = m.fin + 1]
  BY <1>1 DEF finish_object, OrderLogs
<1>3. x \in Nat
  BY SMTT(60) DEF OrderLogs
<1> HIDE DEF m
<1>4. finish_object(l) = [m EXCEPT !.fin = x]
  BY <1>1, <1>2
<1> HIDE DEF x
<1>5. LET n == finish_object(l)
      IN  /\ n \in OrderLogs /\ n.fin = x /\ n.wait_memop = m.wait_memop
          /\ n.memop = m.memop /\ n.last = m.last
          /\ n.wait_version = m.wait_version /\ n.access = m.access
  BY <1>1, <1>3, <1>4 DEF OrderLogs
<1> QED BY <1>1, <1>5 DEF x

(* The end marks                                                           *)
LEMMA MarkLogEnd ==
    ASSUME NEW l \in OrderLogs
    PROVE  LET n == mark_log_end(l)
           IN  /\ n \in OrderLogs
               /\ n.fin = l.fin + 1
               /\ n.wait_memop = Append(l.wait_memop, EndOfMemops)
               /\ n.wait_version = Append(l.wait_version, EndOfVersions)
               /\ n.memop = l.memop /\ n.last = l.last /\ n.access = l.access
<1> DEFINE x == Append(l.wait_version, EndOfVersions)
           y == Append(l.wait_memop, EndOfMemops)
           z == l.fin + 1
<1>1. x \in VersionLogs /\ y \in MemopLogs /\ z \in Nat
  <2>1. l.wait_version \in Seq(WaitVersion \cup {EndOfVersions})
    BY DEF OrderLogs, VersionLogs
  <2>2. l.wait_memop \in Seq(WaitMemop \cup {EndOfMemops})
    BY DEF OrderLogs, MemopLogs
  <2>3. z \in Nat
    BY SMTT(60) DEF OrderLogs
  <2> QED BY <2>1, <2>2, <2>3, SMTT(60) DEF VersionLogs, MemopLogs
<1>2. mark_log_end(l) = [l EXCEPT !.wait_version = x, !.wait_memop = y, !.fin = z]
  BY DEF mark_log_end, OrderLogs
<1> HIDE DEF x, y, z
<1>3. LET n == mark_log_end(l)
      IN  /\ n \in OrderLogs /\ n.fin = z /\ n.wait_memop = y /\ n.wait_version = x
          /\ n.memop = l.memop /\ n.last = l.last /\ n.access = l.access
  BY <1>1, <1>2 DEF OrderLogs
<1> QED BY <1>3 DEF x, y, z

-----------------------------------------------------------------------------
(* Type correctness.                                                       *)

(* Every variable keeps its type: in particular every logged entry is well *)
(* formed, so no -1 of g_last ever reaches a log but in the end marks.     *)
THEOREM TypeCorrect == RecSpec => []RecTypeOK
<1>1. RecInit => RecTypeOK
  <2>1. mem_init_thr \in OrderLogs
    <3>1. [o \in Obj |-> [version |-> 0, memop |-> NoMemop]] \in LastInfos
      BY DEF LastInfos, LastObjInfo
    <3>2. << >> \in VersionLogs /\ << >> \in MemopLogs /\ << >> \in AccessLogs
      BY SMTT(60) DEF VersionLogs, MemopLogs, AccessLogs
    <3> QED BY <3>1, <3>2 DEF mem_init_thr, OrderLogs
  <2> QED BY <2>1, SMTT(60) DEF RecInit, RecTypeOK, Val
<1>2. RecTypeOK /\ [RecNext]_recVars => RecTypeOK'
  <2> SUFFICES ASSUME RecTypeOK, [RecNext]_recVars
               PROVE  RecTypeOK'
    OBVIOUS
  <2>1. ASSUME NEW t \in Thread, NEW o \in Obj, mem_read(t, o)
        PROVE  RecTypeOK'
    <3>1. note_read(thr[t], o, version[o], mem[o]) \in OrderLogs
      BY NoteRead DEF RecTypeOK, Noted, LogsExtended
    <3> QED BY <2>1, <3>1 DEF RecTypeOK, mem_read
  <2>2. ASSUME NEW t \in Thread, NEW o \in Obj, mem_write(t, o)
        PROVE  RecTypeOK'
    <3>1. Value(t, thr[t].memop) \in Val
      BY DEF Value, Val, RecTypeOK, OrderLogs
    <3>2. note_write(thr[t], o, version[o], Value(t, thr[t].memop)) \in OrderLogs
      BY <3>1, NoteWrite DEF RecTypeOK, Noted, LogsExtended
    <3> QED BY <2>2, <3>1, <3>2, SMTT(60) DEF RecTypeOK, mem_write
  <2>3. ASSUME NEW t \in Thread, mem_finish_thr(t)
        PROVE  RecTypeOK'
    <3>1. CASE Finishing(thr[t]) /\ thr' = [thr EXCEPT ![t] = finish_object(@)]
      <4>1. thr[t] \in OrderLogs /\ thr[t].fin \in Obj
        BY <3>1, NObjAssumption, SMTT(60) DEF RecTypeOK, OrderLogs, Finishing, Obj
      <4>2. finish_object(thr[t]) \in OrderLogs
        BY <4>1, FinishObject
      <4> QED BY <2>3, <3>1, <4>2 DEF RecTypeOK, mem_finish_thr
    <3>2. CASE Closing(thr[t]) /\ thr' = [thr EXCEPT ![t] = mark_log_end(@)]
      <4>1. mark_log_end(thr[t]) \in OrderLogs
        BY MarkLogEnd DEF RecTypeOK
      <4> QED BY <2>3, <3>2, <4>1 DEF RecTypeOK, mem_finish_thr
    <3> QED BY <2>3, <3>1, <3>2 DEF mem_finish_thr
  <2>4. CASE UNCHANGED recVars
    BY <2>4 DEF RecTypeOK, recVars
  <2> QED BY <2>1, <2>2, <2>3, <2>4 DEF RecNext
<1> QED BY <1>1, <1>2, PTL DEF RecSpec

-----------------------------------------------------------------------------
(* The inductive invariant.                                                *)

(* The parts of a well-typed record                                        *)
Counted(l) ==
    /\ l.memop \in Nat /\ l.fin \in Nat
    /\ Len(l.access) \in Nat /\ Len(l.wait_version) \in Nat /\ Len(l.wait_memop) \in Nat

LastTyped(l) ==
    \A o \in Obj :
        /\ l.last[o].version \in Nat
        /\ l.last[o].memop \in Nat \/ l.last[o].memop = -1

AccessesTyped(l) ==
    \A i \in 1 .. Len(l.access) :
        /\ l.access[i].objid \in Obj /\ l.access[i].version \in Nat
        /\ l.access[i].acc \in {"R", "W"}

VersionsTyped(l) ==
    \A k \in 1 .. Len(l.wait_version) :
        /\ l.wait_version[k].memop \in Nat \/ l.wait_version[k].memop = -1
        /\ l.wait_version[k].version \in Int

ReadersTyped(l) ==
    \A k \in 1 .. Len(l.wait_memop) :
        l.wait_memop[k].objid # -1 =>
            /\ l.wait_memop[k].objid \in Obj
            /\ l.wait_memop[k].version \in Nat /\ l.wait_memop[k].memop \in Nat

(* A record of the right type has parts of the right type                  *)
LEMMA LogParts ==
    ASSUME NEW l \in OrderLogs
    PROVE  Counted(l) /\ LastTyped(l) /\ AccessesTyped(l) /\ VersionsTyped(l) /\ ReadersTyped(l)
<1>1. /\ l.access \in Seq(MemAcc)
      /\ l.wait_version \in Seq(WaitVersion \cup {EndOfVersions})
      /\ l.wait_memop \in Seq(WaitMemop \cup {EndOfMemops})
      /\ l.last \in [Obj -> LastObjInfo]
      /\ l.memop \in Nat /\ l.fin \in Nat
  BY DEF OrderLogs, LastInfos, VersionLogs, MemopLogs, AccessLogs
<1>2. LastTyped(l)
  BY <1>1 DEF LastTyped, LastObjInfo, NoMemop
<1>3. AccessesTyped(l)
  <2>1. \A i \in 1 .. Len(l.access) : l.access[i] \in MemAcc
    BY <1>1, SMTT(60)
  <2>2. \A a \in MemAcc : a.objid \in Obj /\ a.version \in Nat /\ a.acc \in {"R", "W"}
    BY DEF MemAcc
  <2> QED BY <2>1, <2>2 DEF AccessesTyped
<1>4. VersionsTyped(l)
  <2>1. \A k \in 1 .. Len(l.wait_version) : l.wait_version[k] \in WaitVersion \cup {EndOfVersions}
    BY <1>1, SMTT(60)
  <2>2. \A e \in WaitVersion \cup {EndOfVersions} :
          (e.memop \in Nat \/ e.memop = -1) /\ e.version \in Int
    BY SMTT(60) DEF WaitVersion, EndOfVersions
  <2> QED BY <2>1, <2>2 DEF VersionsTyped
<1>5. ReadersTyped(l)
  <2>1. \A k \in 1 .. Len(l.wait_memop) : l.wait_memop[k] \in WaitMemop \cup {EndOfMemops}
    BY <1>1, SMTT(60)
  <2>2. \A e \in WaitMemop \cup {EndOfMemops} : e.objid # -1 =>
          e.objid \in Obj /\ e.version \in Nat /\ e.memop \in Nat
    BY SMTT(60) DEF WaitMemop, EndOfMemops
  <2> QED BY <2>1, <2>2 DEF ReadersTyped
<1>6. Counted(l)
  BY <1>1, SMTT(30) DEF Counted
<1> QED BY <1>2, <1>3, <1>4, <1>5, <1>6

(* The entries of the logs after an access                                 *)
AccessAppended(l, n, acc, o, v) ==
    /\ Len(n.access) = Len(l.access) + 1
    /\ \A i \in 1 .. Len(l.access) : n.access[i] = l.access[i]
    /\ n.access[Len(l.access) + 1].acc = acc
    /\ n.access[Len(l.access) + 1].objid = o
    /\ n.access[Len(l.access) + 1].version = v

LastReplaced(l, n, o, new) ==
    n.last[o] = new /\ \A p \in Obj : p # o => n.last[p] = l.last[p]

VersionAppended(l, n, o, v) ==
    /\ \A k \in 1 .. Len(l.wait_version) : n.wait_version[k] = l.wait_version[k]
    /\ ~LogsVersion(l, o, v) => Len(n.wait_version) = Len(l.wait_version)
    /\ LogsVersion(l, o, v) =>
          /\ Len(n.wait_version) = Len(l.wait_version) + 1
          /\ n.wait_version[Len(l.wait_version) + 1].memop = l.memop
          /\ n.wait_version[Len(l.wait_version) + 1].version = v

ReaderAppended(l, n, o, when) ==
    /\ \A k \in 1 .. Len(l.wait_memop) : n.wait_memop[k] = l.wait_memop[k]
    /\ ~when => Len(n.wait_memop) = Len(l.wait_memop)
    /\ when =>
          /\ Len(n.wait_memop) = Len(l.wait_memop) + 1
          /\ n.wait_memop[Len(l.wait_memop) + 1].objid = o
          /\ n.wait_memop[Len(l.wait_memop) + 1].version = l.last[o].version
          /\ n.wait_memop[Len(l.wait_memop) + 1].memop = l.last[o].memop

(* What an access does to the entries and lengths of the logs              *)
LEMMA NotedParts ==
    ASSUME NEW l \in OrderLogs, NEW n, NEW acc, NEW o \in Obj, NEW v, NEW val, NEW new,
           Noted(l, n, acc, o, v, val, new)
    PROVE  /\ n.memop = l.memop + 1 /\ n.fin = l.fin
           /\ AccessAppended(l, n, acc, o, v)
           /\ LastReplaced(l, n, o, new)
           /\ VersionAppended(l, n, o, v)
           /\ ReaderAppended(l, n, o, LogsReader(l, o, v))
<1>1. /\ l.access \in Seq(MemAcc)
      /\ l.wait_version \in Seq(WaitVersion \cup {EndOfVersions})
      /\ l.wait_memop \in Seq(WaitMemop \cup {EndOfMemops})
      /\ l.last \in [Obj -> LastObjInfo]
  BY DEF OrderLogs, LastInfos, VersionLogs, MemopLogs, AccessLogs
<1>2. AccessAppended(l, n, acc, o, v)
  BY <1>1, SMTT(30) DEF Noted, LogsExtended, AccessAppended
<1>3. VersionAppended(l, n, o, v)
  BY <1>1, SMTT(30) DEF Noted, LogsExtended, VersionAppended
<1>4. ReaderAppended(l, n, o, LogsReader(l, o, v))
  BY <1>1, SMTT(30) DEF Noted, LogsExtended, ReaderAppended
<1>5. LastReplaced(l, n, o, new)
  BY <1>1 DEF Noted, LastReplaced
<1>6. n.memop = l.memop + 1 /\ n.fin = l.fin
  BY DEF Noted, LogsExtended
<1> QED BY <1>2, <1>3, <1>4, <1>5, <1>6

LatestIsRead(l, o, m) ==
    /\ m \in 1 .. Len(l.access) /\ l.access[m].objid = o /\ l.access[m].acc = "R"
    /\ l.access[m].version = l.last[o].version
    /\ \A j \in 1 .. Len(l.access) : j > m => l.access[j].objid # o

(* A remembered read is the thread's latest access to the object           *)
LEMMA LatestRead ==
    ASSUME NEW l, NEW o \in Obj, LastDescribesLatest(l), l.last[o].memop >= 0
    PROVE  LatestIsRead(l, o, l.last[o].memop + 1)
<1> DEFINE m == l.last[o].memop + 1
<1>1. Latest(l, m, o) /\ IsRead(l, m) /\ l.access[m].version = l.last[o].version
  BY DEF LastDescribesLatest
<1> HIDE DEF m
<1>2. LatestIsRead(l, o, m)
  BY <1>1 DEF LatestIsRead, Latest, IsRead, Accesses
<1> QED BY <1>2 DEF m

(* A step that leaves the accesses and g_last alone                        *)
LEMMA SameLast ==
    ASSUME NEW l, NEW n, n.access = l.access, n.last = l.last, LastDescribesLatest(l)
    PROVE  LastDescribesLatest(n)
<1> SUFFICES ASSUME NEW o \in Obj
             PROVE  IF n.last[o].memop >= 0
                    THEN /\ Latest(n, n.last[o].memop + 1, o)
                         /\ IsRead(n, n.last[o].memop + 1)
                         /\ n.access[n.last[o].memop + 1].version = n.last[o].version
                    ELSE \/ n.last[o].version = 0 /\ \A i \in Accesses(n) : n.access[i].objid # o
                         \/ \E i \in Accesses(n) :
                               Latest(n, i, o) /\ IsWrite(n, i) /\ n.last[o].version <= n.access[i].version
  BY DEF LastDescribesLatest
<1>1. \A i : /\ Latest(n, i, o) <=> Latest(l, i, o)
             /\ IsRead(n, i) <=> IsRead(l, i)
             /\ IsWrite(n, i) <=> IsWrite(l, i)
             /\ i \in Accesses(n) <=> i \in Accesses(l)
  BY DEF Latest, IsRead, IsWrite, Accesses
<1>2. n.last[o].memop = l.last[o].memop /\ n.last[o].version = l.last[o].version
  OBVIOUS
<1>3. CASE l.last[o].memop >= 0
  BY <1>1, <1>2, <1>3 DEF LastDescribesLatest
<1>4. CASE ~(l.last[o].memop >= 0)
  <2>1. CASE l.last[o].version = 0 /\ \A i \in Accesses(l) : l.access[i].objid # o
    BY <1>1, <1>2, <1>4, <2>1
  <2>2. CASE \E i \in Accesses(l) :
                Latest(l, i, o) /\ IsWrite(l, i) /\ l.last[o].version <= l.access[i].version
    BY <1>1, <1>2, <1>4, <2>2
  <2> QED BY <1>4, <2>1, <2>2 DEF LastDescribesLatest
<1> QED BY <1>3, <1>4

(* g_last never runs ahead of the object, and only agrees with it after a  *)
(* read, or when the thread has not accessed the object at version 0.      *)
LEMMA LastNotAhead ==
    ASSUME NEW l \in OrderLogs, NEW ver \in [Obj -> Nat], NEW o \in Obj, LogInv(l, ver)
    PROVE  /\ l.last[o].version <= ver[o]
           /\ l.last[o].memop = -1 /\ l.last[o].version = ver[o] =>
                 ver[o] = 0 /\ \A i \in 1 .. Len(l.access) : l.access[i].objid # o
<1> USE DEF Accesses, IsRead, IsWrite
<1>1. LastTyped(l) /\ AccessesTyped(l) /\ Counted(l) /\ ver[o] \in Nat
  BY LogParts
<1>2. AccessesBounded(l, ver) /\ LastDescribesLatest(l)
  BY DEF LogInv
<1>3. CASE l.last[o].memop >= 0
  <2>1. /\ l.last[o].memop + 1 \in 1 .. Len(l.access)
        /\ l.access[l.last[o].memop + 1].objid = o /\ l.access[l.last[o].memop + 1].acc = "R"
        /\ l.access[l.last[o].memop + 1].version = l.last[o].version
    BY <1>2, <1>3 DEF LastDescribesLatest, Latest
  <2>2. l.last[o].version <= ver[o]
    BY <1>2, <2>1 DEF AccessesBounded
  <2> QED BY <1>3, <2>2, SMTT(60)
<1>4. CASE ~(l.last[o].memop >= 0)
  <2>1. CASE l.last[o].version = 0 /\ \A i \in 1 .. Len(l.access) : l.access[i].objid # o
    BY <1>1, <2>1, SMTT(60)
  <2>2. CASE \E i \in 1 .. Len(l.access) :
               Latest(l, i, o) /\ IsWrite(l, i) /\ l.last[o].version <= l.access[i].version
    <3>1. PICK i \in 1 .. Len(l.access) :
              /\ l.access[i].objid = o /\ l.access[i].acc = "W"
              /\ l.last[o].version <= l.access[i].version
      BY <2>2 DEF Latest
    <3>2. l.access[i].version < ver[o] /\ l.access[i].version \in Nat
      BY <1>1, <1>2, <3>1 DEF AccessesBounded, AccessesTyped
    <3>3. l.last[o].version \in Nat
      BY <1>1 DEF LastTyped
    <3> QED BY <1>1, <3>1, <3>2, <3>3, SMTT(30)
  <2> QED BY <1>2, <1>4, <2>1, <2>2 DEF LastDescribesLatest
<1> QED BY <1>3, <1>4

(* A read still remembered makes a wait_memop entry that is exact          *)
LEMMA LastEntryExact ==
    ASSUME NEW l \in OrderLogs, NEW ver \in [Obj -> Nat], NEW o \in Obj, LogInv(l, ver),
           l.last[o].memop >= 0, l.fin <= o
    PROVE  LET m == l.last[o].memop + 1
           IN  /\ m \in 1 .. Len(l.access)
               /\ l.access[m].acc = "R" /\ l.access[m].objid = o
               /\ l.access[m].version = l.last[o].version
               /\ \A i \in 1 .. Len(l.access) :
                     l.access[i].acc = "W" /\ l.access[i].objid = o =>
                        l.access[i].version # l.last[o].version
               /\ \A k \in 1 .. Len(l.wait_memop) :
                     l.wait_memop[k].objid = o => l.wait_memop[k].version < l.last[o].version
<1> USE DEF Accesses, IsRead, IsWrite, SameObj
<1> DEFINE m == l.last[o].memop + 1
<1>1. LastTyped(l) /\ AccessesTyped(l) /\ Counted(l) /\ ReadersTyped(l)
  BY LogParts
<1>2. AccessesBounded(l, ver) /\ LastDescribesLatest(l) /\ LoggedReadsOld(l, ver)
  BY DEF LogInv
<1>3. /\ m \in 1 .. Len(l.access)
      /\ l.access[m].acc = "R" /\ l.access[m].objid = o
      /\ l.access[m].version = l.last[o].version
      /\ \A j \in 1 .. Len(l.access) : j > m => l.access[j].objid # o
  BY <1>2 DEF LastDescribesLatest, Latest
<1> HIDE DEF m
<1>4. ASSUME NEW i \in 1 .. Len(l.access), l.access[i].acc = "W", l.access[i].objid = o
      PROVE  l.access[i].version # l.last[o].version
  <2>1. i < m
    BY <1>3, <1>4, SMTT(60)
  <2>2. l.access[i].version < l.access[m].version
    BY <1>2, <1>3, <1>4, <2>1 DEF AccessesBounded
  <2>3. l.access[i].version \in Nat /\ l.access[m].version \in Nat
    BY <1>1, <1>3 DEF AccessesTyped
  <2> QED BY <1>3, <2>2, <2>3, SMTT(30)
<1>5. ASSUME NEW k \in 1 .. Len(l.wait_memop), l.wait_memop[k].objid = o
      PROVE  l.wait_memop[k].version < l.last[o].version
  <2>1. o # -1 /\ o \in Nat /\ l.fin \in Nat
    BY <1>1, NObjAssumption, SMTT(60) DEF Obj, Counted
  <2>2. /\ l.wait_memop[k].version <= l.last[o].version
        /\ l.wait_memop[k].version = l.last[o].version => l.last[o].memop = NoMemop \/ l.fin > o
    BY <1>2, <1>5, <2>1 DEF LoggedReadsOld
  <2>3. l.wait_memop[k].version \in Nat /\ l.last[o].version \in Nat
    BY <1>1, <1>5, <2>1 DEF ReadersTyped, LastTyped
  <2> QED BY <2>1, <2>2, <2>3, SMTT(30) DEF NoMemop
<1> QED BY <1>3, <1>4, <1>5 DEF m

(* A running thread makes access acc to o, and versions move from ver to   *)
(* ver2: n is its new record.                                              *)
ReadStep(l, o, new, ver) == new.version = ver[o] /\ new.memop = l.memop

WriteStep(l, o, new, ver, ver2) ==
    new.version = l.last[o].version /\ new.memop = -1 /\ ver[o] < ver2[o]

VersionStep(ver, ver2) ==
    /\ ver \in [Obj -> Nat] /\ ver2 \in [Obj -> Nat]
    /\ \A p \in Obj : ver[p] <= ver2[p]

AccessStep(l, n, acc, o, val, new, ver, ver2) ==
    /\ Noted(l, n, acc, o, ver[o], val, new)
    /\ \/ acc = "R" /\ ReadStep(l, o, new, ver)
       \/ acc = "W" /\ WriteStep(l, o, new, ver, ver2)
    /\ VersionStep(ver, ver2)
    /\ Running(l) /\ l \in OrderLogs /\ LogInv(l, ver)

(* An access preserves the invariant.  Its version is the object's current *)
(* one; a write leaves it behind.                                          *)
LEMMA NotedKeepsInv ==
    ASSUME NEW l, NEW n, NEW acc, NEW o \in Obj, NEW val, NEW new, NEW ver, NEW ver2,
           AccessStep(l, n, acc, o, val, new, ver, ver2)
    PROVE  LogInv(n, ver2)
<1> DEFINE N == Len(l.access)
           v == ver[o]
<1> USE DEF Accesses, IsRead, IsWrite, SameObj
<1>a. /\ l \in OrderLogs /\ Running(l) /\ LogInv(l, ver)
      /\ Noted(l, n, acc, o, ver[o], val, new)
  BY DEF AccessStep
<1>b. \/ acc = "R" /\ ReadStep(l, o, new, ver)
      \/ acc = "W" /\ WriteStep(l, o, new, ver, ver2)
  BY DEF AccessStep
<1>c. VersionStep(ver, ver2)
  BY DEF AccessStep
<1>1. /\ n.memop = l.memop + 1 /\ n.fin = l.fin /\ l.fin = 0
      /\ AccessAppended(l, n, acc, o, v)
      /\ LastReplaced(l, n, o, new)
      /\ VersionAppended(l, n, o, v)
      /\ ReaderAppended(l, n, o, LogsReader(l, o, v))
  BY <1>a, NotedParts DEF Running
<1>2. /\ Counted(l) /\ LastTyped(l) /\ AccessesTyped(l) /\ VersionsTyped(l) /\ ReadersTyped(l)
      /\ v \in Nat
  BY <1>a, <1>c, LogParts DEF VersionStep
<1>3. /\ AccessesBounded(l, ver) /\ LastDescribesLatest(l) /\ LoggedReadsOld(l, ver)
      /\ VersionsLogged(l) /\ ReadsLogged(l) /\ ReadersExact(l) /\ VersionsExact(l)
  BY <1>a DEF LogInv
<1>4. N = l.memop /\ N \in Nat /\ l.memop \in Nat
  BY <1>2, <1>3 DEF AccessesBounded, Counted
<1>5. /\ Len(n.access) = N + 1
      /\ \A i \in 1 .. N : n.access[i] = l.access[i]
      /\ n.access[N + 1].acc = acc /\ n.access[N + 1].objid = o /\ n.access[N + 1].version = v
  BY <1>1 DEF AccessAppended
<1>6. \A i : i \in 1 .. N + 1 <=> i \in 1 .. N \/ i = N + 1
  BY <1>4, SMTT(60)
<1>7. /\ l.last[o].version <= v /\ l.last[o].version \in Nat
      /\ l.last[o].memop = -1 /\ l.last[o].version = v =>
            v = 0 /\ \A i \in 1 .. N : l.access[i].objid # o
      /\ l.last[o].memop \in Nat \/ l.last[o].memop = -1
  <2>1. l.last[o].version \in Nat /\ (l.last[o].memop \in Nat \/ l.last[o].memop = -1)
    BY <1>2 DEF LastTyped
  <2>2. /\ l.last[o].version <= v
        /\ l.last[o].memop = -1 /\ l.last[o].version = v =>
              v = 0 /\ \A i \in 1 .. N : l.access[i].objid # o
    BY <1>a, <1>c, LastNotAhead DEF VersionStep
  <2> QED BY <2>1, <2>2
<1>10. AccessesBounded(n, ver2)
  <2>1. ASSUME NEW i \in 1 .. N
        PROVE  IF n.access[i].acc = "W" THEN n.access[i].version < ver2[n.access[i].objid]
               ELSE n.access[i].version <= ver2[n.access[i].objid]
    <3> DEFINE a == l.access[i]
    <3>1. n.access[i] = a /\ a.objid \in Obj /\ a.version \in Nat
      BY <1>2, <1>5 DEF AccessesTyped
    <3>2. IF a.acc = "W" THEN a.version < ver[a.objid] ELSE a.version <= ver[a.objid]
      BY <1>3 DEF AccessesBounded
    <3>3. ver[a.objid] <= ver2[a.objid] /\ ver[a.objid] \in Nat /\ ver2[a.objid] \in Nat
      BY <1>c, <3>1 DEF VersionStep
    <3> HIDE DEF a
    <3> QED BY <3>1, <3>2, <3>3, SMTT(30)
  <2>2. IF n.access[N + 1].acc = "W" THEN n.access[N + 1].version < ver2[n.access[N + 1].objid]
        ELSE n.access[N + 1].version <= ver2[n.access[N + 1].objid]
    BY <1>2, <1>5, <1>b, <1>c DEF VersionStep, WriteStep
  <2>3. ASSUME NEW i \in 1 .. N, NEW j \in 1 .. N, i < j, SameObj(n, i, j)
        PROVE  IF IsWrite(n, i) THEN n.access[i].version < n.access[j].version
               ELSE n.access[i].version <= n.access[j].version
    BY <1>3, <1>5, <2>3 DEF AccessesBounded
  <2>4. ASSUME NEW i \in 1 .. N, SameObj(n, i, N + 1)
        PROVE  IF IsWrite(n, i) THEN n.access[i].version < n.access[N + 1].version
               ELSE n.access[i].version <= n.access[N + 1].version
    <3>1. l.access[i].objid = o /\ n.access[i] = l.access[i]
      BY <1>5, <2>4
    <3>2. IF l.access[i].acc = "W" THEN l.access[i].version < v ELSE l.access[i].version <= v
      BY <1>3, <3>1 DEF AccessesBounded
    <3> HIDE DEF v
    <3> QED BY <1>5, <3>1, <3>2
  <2> HIDE DEF N, v
  <2>5. \A i, j \in 1 .. N + 1 : i < j /\ SameObj(n, i, j) =>
          IF IsWrite(n, i) THEN n.access[i].version < n.access[j].version
          ELSE n.access[i].version <= n.access[j].version
    <3> SUFFICES ASSUME NEW i \in 1 .. N + 1, NEW j \in 1 .. N + 1, i < j, SameObj(n, i, j)
                 PROVE  IF IsWrite(n, i) THEN n.access[i].version < n.access[j].version
                        ELSE n.access[i].version <= n.access[j].version
      OBVIOUS
    <3>1. i \in 1 .. N /\ (j \in 1 .. N \/ j = N + 1)
      BY <1>4, SMTT(60)
    <3> QED BY <2>3, <2>4, <3>1
  <2> QED BY <1>1, <1>4, <1>5, <1>6, <2>1, <2>2, <2>5 DEF AccessesBounded
<1> HIDE DEF N, v
<1>11. LastDescribesLatest(n)
  <2> SUFFICES ASSUME NEW p \in Obj
               PROVE  IF n.last[p].memop >= 0
                      THEN /\ Latest(n, n.last[p].memop + 1, p)
                           /\ IsRead(n, n.last[p].memop + 1)
                           /\ n.access[n.last[p].memop + 1].version = n.last[p].version
                      ELSE \/ /\ n.last[p].version = 0
                              /\ \A i \in Accesses(n) : n.access[i].objid # p
                           \/ \E i \in Accesses(n) :
                                 Latest(n, i, p) /\ IsWrite(n, i) /\ n.last[p].version <= n.access[i].version
    BY SMTT(30) DEF LastDescribesLatest
  <2>1. CASE p = o
    <3>1. n.last[p] = new /\ Latest(n, N + 1, p)
      BY <1>1, <1>4, <1>5, <1>6, <2>1, SMTT(30) DEF LastReplaced, Latest
    <3>2. N + 1 \in Accesses(n)
      BY <1>4, <1>5, SMTT(60)
    <3>3. CASE acc = "R"
      BY <1>4, <1>5, <1>b, <3>1, <3>3, SMTT(30) DEF v, ReadStep
    <3>4. CASE acc = "W"
      BY <1>5, <1>7, <1>b, <3>1, <3>2, <3>4, SMTT(30) DEF WriteStep
    <3> QED BY <1>b, <3>3, <3>4
  <2>2. CASE p # o
    <3>1. n.last[p] = l.last[p]
      BY <1>1, <2>2 DEF LastReplaced
    <3>2. \A i : Latest(l, i, p) => i \in 1 .. N /\ Latest(n, i, p) /\ n.access[i] = l.access[i]
      BY <1>5, <1>6, <2>2 DEF Latest, N
    <3>3. CASE l.last[p].memop >= 0
      <4>1. /\ Latest(l, l.last[p].memop + 1, p)
            /\ IsRead(l, l.last[p].memop + 1)
            /\ l.access[l.last[p].memop + 1].version = l.last[p].version
        BY <1>3, <3>3 DEF LastDescribesLatest
      <4>2. Latest(n, l.last[p].memop + 1, p) /\ n.access[l.last[p].memop + 1] = l.access[l.last[p].memop + 1]
        BY <3>2, <4>1
      <4> QED BY <3>1, <3>3, <4>1, <4>2
    <3>4. CASE ~(l.last[p].memop >= 0)
      <4>1. CASE l.last[p].version = 0 /\ \A i \in Accesses(l) : l.access[i].objid # p
        BY <1>5, <1>6, <2>2, <3>1, <3>4, <4>1 DEF N
      <4>2. CASE \E i \in Accesses(l) :
                   Latest(l, i, p) /\ IsWrite(l, i) /\ l.last[p].version <= l.access[i].version
        <5>1. PICK i \in Accesses(l) :
                   Latest(l, i, p) /\ IsWrite(l, i) /\ l.last[p].version <= l.access[i].version
          BY <4>2
        <5>2. i \in Accesses(n)
          BY <1>5, <1>6, <3>2, <5>1
        <5> QED BY <3>1, <3>2, <3>4, <5>1, <5>2
      <4>3. \/ l.last[p].version = 0 /\ \A i \in Accesses(l) : l.access[i].objid # p
            \/ \E i \in Accesses(l) :
                  Latest(l, i, p) /\ IsWrite(l, i) /\ l.last[p].version <= l.access[i].version
        BY <1>3, <3>4 DEF LastDescribesLatest
      <4> QED BY <4>1, <4>2, <4>3
    <3> QED BY <3>3, <3>4
  <2> QED BY <2>1, <2>2
<1>8. ASSUME NEW k \in 1 .. Len(n.wait_memop)
      PROVE  \/ k \in 1 .. Len(l.wait_memop) /\ n.wait_memop[k] = l.wait_memop[k]
             \/ /\ l.last[o].version # v /\ l.last[o].memop >= 0
                /\ k = Len(l.wait_memop) + 1 /\ n.wait_memop[k].objid = o
                /\ n.wait_memop[k].version = l.last[o].version
                /\ n.wait_memop[k].memop = l.last[o].memop
  <2>1. /\ \A j \in 1 .. Len(l.wait_memop) : n.wait_memop[j] = l.wait_memop[j]
        /\ Len(l.wait_memop) \in Nat
    BY <1>1, <1>2 DEF ReaderAppended, Counted
  <2>2. CASE LogsReader(l, o, v)
    <3>1. /\ Len(n.wait_memop) = Len(l.wait_memop) + 1
          /\ n.wait_memop[Len(l.wait_memop) + 1].objid = o
          /\ n.wait_memop[Len(l.wait_memop) + 1].version = l.last[o].version
          /\ n.wait_memop[Len(l.wait_memop) + 1].memop = l.last[o].memop
      BY <1>1, <2>2 DEF ReaderAppended
    <3> QED BY <2>1, <2>2, <3>1, SMTT(30) DEF LogsReader, LogsVersion
  <2>3. CASE ~LogsReader(l, o, v)
    BY <1>1, <2>1, <2>3 DEF ReaderAppended
  <2> QED BY <2>2, <2>3
<1>9. \A p \in Obj : p \in Nat /\ ver[p] \in Nat /\ ver2[p] \in Nat
  BY <1>c, NObjAssumption, SMTT(30) DEF Obj, VersionStep
<1>12. LoggedReadsOld(n, ver2)
  <2>1. ASSUME NEW k \in 1 .. Len(n.wait_memop), n.wait_memop[k].objid # -1
        PROVE  LET e == n.wait_memop[k]
               IN  /\ e.version <= n.last[e.objid].version
                   /\ e.version = n.last[e.objid].version =>
                         n.last[e.objid].memop = NoMemop \/ n.fin > e.objid
                   /\ e.version < ver2[e.objid] \/ n.fin > 0
    <3> DEFINE e == n.wait_memop[k]
    <3>1. /\ e.objid \in Obj /\ e.version \in Nat
          /\ e.version < ver[e.objid] /\ e.version <= l.last[e.objid].version
          /\ e.objid # o => (e.version = l.last[e.objid].version => l.last[e.objid].memop = NoMemop)
      <4>1. CASE k \in 1 .. Len(l.wait_memop) /\ e = l.wait_memop[k]
        <5>1. e.objid \in Obj /\ e.version \in Nat
          BY <1>2, <2>1, <4>1 DEF ReadersTyped
        <5>2. /\ e.version <= l.last[e.objid].version
              /\ e.version = l.last[e.objid].version =>
                      l.last[e.objid].memop = NoMemop \/ l.fin > e.objid
              /\ e.version < ver[e.objid] \/ l.fin > 0
          BY <1>3, <2>1, <4>1 DEF LoggedReadsOld
        <5> HIDE DEF e
        <5> QED BY <1>1, <1>9, <5>1, <5>2, SMTT(30)
      <4>2. CASE /\ l.last[o].version # v /\ l.last[o].memop >= 0
                 /\ e.objid = o /\ e.version = l.last[o].version
        <5> HIDE DEF e
        <5> QED BY <1>2, <1>7, <4>2, SMTT(30) DEF v
      <4> QED BY <1>8, <4>1, <4>2
    <3>2. ver[e.objid] <= ver2[e.objid] /\ ver[e.objid] \in Nat /\ ver2[e.objid] \in Nat
      BY <1>9, <1>c, <3>1 DEF VersionStep
    <3> HIDE DEF e
    <3>3. e.version < ver2[e.objid]
      BY <3>1, <3>2, SMTT(30)
    <3>4. CASE e.objid = o
      <4>1. n.last[o] = new
        BY <1>1 DEF LastReplaced
      <4>2. CASE acc = "R"
        BY <1>b, <3>1, <3>2, <3>3, <3>4, <4>1, <4>2, SMTT(30) DEF e, ReadStep
      <4>3. CASE acc = "W"
        BY <1>b, <3>1, <3>3, <3>4, <4>1, <4>3 DEF e, NoMemop, WriteStep
      <4> QED BY <1>b, <4>2, <4>3
    <3>5. CASE e.objid # o
      <4>1. n.last[e.objid] = l.last[e.objid]
        BY <1>1, <3>1, <3>5 DEF LastReplaced
      <4> QED BY <3>1, <3>3, <3>5, <4>1 DEF e
    <3> QED BY <3>4, <3>5
  <2>2. ASSUME NEW k \in 1 .. Len(n.wait_version)
        PROVE  n.wait_version[k].memop < n.memop
    <3>1. /\ Len(l.wait_version) \in Nat /\ l.memop \in Nat
          /\ \A j \in 1 .. Len(l.wait_version) :
                n.wait_version[j] = l.wait_version[j] /\ l.wait_version[j].memop < l.memop
                /\ l.wait_version[j].memop \in Int
      <4>1. Len(l.wait_version) \in Nat /\ l.memop \in Nat
        BY <1>2 DEF Counted
      <4>2. \A j \in 1 .. Len(l.wait_version) : n.wait_version[j] = l.wait_version[j]
        BY <1>1 DEF VersionAppended
      <4>3. \A j \in 1 .. Len(l.wait_version) : l.wait_version[j].memop < l.memop
        BY <1>3 DEF LoggedReadsOld
      <4>4. \A j \in 1 .. Len(l.wait_version) : l.wait_version[j].memop \in Int
        <5>1. \A j \in 1 .. Len(l.wait_version) :
                l.wait_version[j].memop \in Nat \/ l.wait_version[j].memop = -1
          BY <1>2 DEF VersionsTyped
        <5> QED BY <5>1, SMTT(30)
      <4> QED BY <4>1, <4>2, <4>3, <4>4
    <3>2. CASE LogsVersion(l, o, v)
      <4>1. /\ Len(n.wait_version) = Len(l.wait_version) + 1
            /\ n.wait_version[Len(l.wait_version) + 1].memop = l.memop
        BY <1>1, <3>2 DEF VersionAppended
      <4>2. CASE k \in 1 .. Len(l.wait_version)
        <5>1. /\ n.wait_version[k] = l.wait_version[k] /\ l.wait_version[k].memop < l.memop
              /\ l.wait_version[k].memop \in Int /\ l.memop \in Nat
          BY <3>1, <4>2
        <5> QED BY <1>1, <5>1, SMTT(30)
      <4>3. CASE k = Len(l.wait_version) + 1
        BY <1>1, <3>1, <4>1, <4>3, SMTT(30)
      <4> QED BY <3>1, <4>1, <4>2, <4>3, SMTT(30)
    <3>3. CASE ~LogsVersion(l, o, v)
      BY <1>1, <3>1, <3>3, SMTT(30) DEF VersionAppended
    <3> QED BY <3>2, <3>3
  <2>3. \A k \in 1 .. Len(n.wait_memop) :
          n.wait_memop[k].objid # -1 =>
             /\ n.wait_memop[k].version <= n.last[n.wait_memop[k].objid].version
             /\ n.wait_memop[k].version = n.last[n.wait_memop[k].objid].version =>
                   n.last[n.wait_memop[k].objid].memop = NoMemop \/ n.fin > n.wait_memop[k].objid
             /\ n.wait_memop[k].version < ver2[n.wait_memop[k].objid] \/ n.fin > 0
    BY <2>1
  <2>4. \A k \in 1 .. Len(n.wait_version) : n.wait_version[k].memop < n.memop
    BY <2>2
  <2> QED BY <2>3, <2>4 DEF LoggedReadsOld
<1>13. VersionsLogged(n)
  <2> SUFFICES ASSUME NEW i \in Accesses(n)
               PROVE  WaitsForVersion(n, i) \/ FirstAtZero(n, i) \/ FollowsOwnRead(n, i)
    BY DEF VersionsLogged
  <2>1. CASE i \in 1 .. N
    <3>1. WaitsForVersion(l, i) \/ FirstAtZero(l, i) \/ FollowsOwnRead(l, i)
      BY <1>3, <2>1 DEF VersionsLogged, N
    <3>2. CASE WaitsForVersion(l, i)
      <4>1. PICK k \in 1 .. Len(l.wait_version) :
                l.wait_version[k].memop = i - 1 /\ l.wait_version[k].version = l.access[i].version
        BY <3>2 DEF WaitsForVersion
      <4>2. k \in 1 .. Len(n.wait_version) /\ n.wait_version[k] = l.wait_version[k]
        BY <1>1, <1>2, SMTT(30) DEF VersionAppended, Counted
      <4> QED BY <1>5, <2>1, <4>1, <4>2 DEF WaitsForVersion
    <3>3. CASE FirstAtZero(l, i)
      <4>1. \A j \in 1 .. N + 1 : j < i => j \in 1 .. N
        BY <1>4, <2>1, SMTT(60)
      <4>2. l.access[i].version = 0 /\ \A j \in 1 .. N : j < i => ~SameObj(l, j, i)
        BY <3>3 DEF FirstAtZero, N
      <4>3. FirstAtZero(n, i)
        BY <1>5, <2>1, <4>1, <4>2 DEF FirstAtZero
      <4> QED BY <4>3
    <3>4. CASE FollowsOwnRead(l, i)
      <4>1. PICK j \in 1 .. N :
              /\ j < i /\ SameObj(l, j, i)
              /\ \A k \in 1 .. N : j < k /\ k < i => ~SameObj(l, k, i)
              /\ IsRead(l, j) /\ l.access[j].version = l.access[i].version
        BY <3>4 DEF FollowsOwnRead, N
      <4>2. \A k \in 1 .. N + 1 : j < k /\ k < i => k \in 1 .. N
        BY <1>4, <2>1, SMTT(60)
      <4> QED BY <1>5, <1>6, <2>1, <4>1, <4>2 DEF FollowsOwnRead
    <3> QED BY <3>1, <3>2, <3>3, <3>4
  <2>2. CASE i = N + 1
    <3>1. CASE l.last[o].version # v
      <4> DEFINE k == Len(l.wait_version) + 1
      <4>1. /\ k \in 1 .. Len(n.wait_version)
            /\ n.wait_version[k].memop = i - 1 /\ n.wait_version[k].version = n.access[i].version
        <5>1. /\ Len(n.wait_version) = k
              /\ n.wait_version[k].memop = l.memop /\ n.wait_version[k].version = v
          BY <1>1, <3>1 DEF VersionAppended, LogsVersion
        <5>2. k \in 1 .. k /\ i - 1 = l.memop
          BY <1>2, <1>4, <2>2, SMTT(30) DEF Counted
        <5> QED BY <1>5, <2>2, <5>1, <5>2
      <4> QED BY <4>1 DEF WaitsForVersion
    <3>2. CASE l.last[o].version = v /\ l.last[o].memop = -1
      <4>1. v = 0 /\ \A j \in 1 .. N : l.access[j].objid # o
        BY <1>7, <3>2
      <4>2. \A j \in 1 .. N + 1 : j < i => j \in 1 .. N
        BY <1>4, <2>2, SMTT(60)
      <4>3. FirstAtZero(n, i)
        BY <1>5, <2>2, <4>1, <4>2 DEF FirstAtZero
      <4> QED BY <4>3
    <3>3. CASE l.last[o].version = v /\ l.last[o].memop \in Nat
      <4> DEFINE j == l.last[o].memop + 1
      <4>1. /\ j \in 1 .. N /\ l.access[j].objid = o /\ l.access[j].acc = "R"
            /\ l.access[j].version = v
            /\ \A k \in 1 .. N : k > j => l.access[k].objid # o
        <5>1. l.last[o].memop >= 0
          BY <3>3, SMTT(60)
        <5>2. LatestIsRead(l, o, j)
          BY <1>3, <1>a, <5>1, LatestRead
        <5> HIDE DEF j
        <5> QED BY <3>3, <5>2 DEF N, LatestIsRead
      <4> HIDE DEF j
      <4>2. j < i /\ j \in 1 .. N + 1 /\ \A k \in 1 .. N + 1 : k < i => k \in 1 .. N
        BY <1>4, <2>2, <4>1, SMTT(30)
      <4>3. FollowsOwnRead(n, i)
        BY <1>5, <2>2, <4>1, <4>2 DEF FollowsOwnRead
      <4> QED BY <4>3
    <3> QED BY <1>7, <3>1, <3>2, <3>3
  <2> QED BY <1>5, <1>6, <2>1, <2>2
<1>14. ReadsLogged(n)
  <2> SUFFICES ASSUME NEW i \in Accesses(n), IsRead(n, i)
               PROVE  ReaderLogged(n, i) \/ ReaderPending(n, i) \/ OverwrittenByItself(n, i)
    BY DEF ReadsLogged
  <2>1. CASE i \in 1 .. N
    <3>1. n.access[i] = l.access[i] /\ IsRead(l, i) /\ i \in Accesses(l)
      BY <1>5, <2>1 DEF N
    <3>2. ReaderLogged(l, i) \/ ReaderPending(l, i) \/ OverwrittenByItself(l, i)
      BY <1>3, <3>1 DEF ReadsLogged
    <3>3. CASE ReaderLogged(l, i)
      <4>1. PICK k \in 1 .. Len(l.wait_memop) :
              /\ l.wait_memop[k].objid = l.access[i].objid
              /\ l.wait_memop[k].version = l.access[i].version
              /\ l.wait_memop[k].memop >= i - 1
        BY <3>3 DEF ReaderLogged
      <4>2. n.wait_memop[k] = l.wait_memop[k]
        BY <1>1 DEF ReaderAppended
      <4>3. Len(n.wait_memop) = Len(l.wait_memop) \/ Len(n.wait_memop) = Len(l.wait_memop) + 1
        BY <1>1 DEF ReaderAppended
      <4>4. Len(l.wait_memop) \in Nat
        BY <1>2 DEF Counted
      <4>5. k \in 1 .. Len(n.wait_memop)
        BY <4>3, <4>4, SMTT(60)
      <4> QED BY <3>1, <4>1, <4>2, <4>5 DEF ReaderLogged
    <3>4. CASE OverwrittenByItself(l, i)
      <4>1. PICK j \in 1 .. N :
              i < j /\ SameObj(l, i, j) /\ IsWrite(l, j) /\ l.access[j].version = l.access[i].version
        BY <3>4 DEF OverwrittenByItself, N
      <4>2. j \in Accesses(n) /\ n.access[j] = l.access[j]
        BY <1>5, <1>6
      <4> QED BY <3>1, <4>1, <4>2 DEF OverwrittenByItself
    <3>5. CASE ReaderPending(l, i)
      <4>1. /\ l.last[l.access[i].objid].version = l.access[i].version
            /\ l.last[l.access[i].objid].memop >= i - 1
            /\ l.fin <= l.access[i].objid
        BY <3>5, SMTT(30) DEF ReaderPending
      <4>2. CASE l.access[i].objid # o
        <5>1. n.last[l.access[i].objid] = l.last[l.access[i].objid]
          BY <1>1, <1>2, <3>1, <4>2 DEF LastReplaced, AccessesTyped
        <5> QED BY <1>1, <3>1, <4>1, <5>1 DEF ReaderPending
      <4>3. CASE l.access[i].objid = o /\ l.last[o].version # v
        <5> DEFINE k == Len(l.wait_memop) + 1
        <5>1. LogsReader(l, o, v)
          BY <1>7, <2>1, <4>1, <4>3, SMTT(30) DEF LogsReader, LogsVersion
        <5>2. /\ Len(n.wait_memop) = k
              /\ n.wait_memop[k].objid = o /\ n.wait_memop[k].version = l.last[o].version
              /\ n.wait_memop[k].memop = l.last[o].memop
          BY <1>1, <5>1 DEF ReaderAppended
        <5>3. k \in 1 .. k
          BY <1>2, SMTT(30) DEF Counted
        <5> HIDE DEF k
        <5> QED BY <3>1, <4>1, <4>3, <5>2, <5>3 DEF ReaderLogged
      <4>4. CASE l.access[i].objid = o /\ l.last[o].version = v /\ acc = "R"
        <5>1. n.last[o] = new /\ new.version = v /\ new.memop = l.memop
          BY <1>1, <1>b, <4>4 DEF LastReplaced, ReadStep, v
        <5>2. l.memop >= i - 1
          BY <1>4, <2>1, SMTT(60)
        <5> QED BY <1>1, <3>1, <4>1, <4>4, <5>1, <5>2 DEF ReaderPending
      <4>5. CASE l.access[i].objid = o /\ l.last[o].version = v /\ acc = "W"
        <5>1. i < N + 1 /\ N + 1 \in Accesses(n)
          BY <1>4, <1>5, <2>1, SMTT(30)
        <5> QED BY <1>5, <3>1, <4>1, <4>5, <5>1 DEF OverwrittenByItself
      <4> QED BY <1>b, <4>2, <4>3, <4>4, <4>5
    <3> QED BY <3>2, <3>3, <3>4, <3>5
  <2>2. CASE i = N + 1
    <3>1. acc = "R"
      BY <1>5, <1>b, <2>2
    <3>2. n.last[o] = new /\ new.version = v /\ new.memop = l.memop
      BY <1>1, <1>b, <3>1 DEF LastReplaced, ReadStep, v
    <3>3. l.memop >= i - 1 /\ n.fin <= o
      BY <1>1, <1>4, <1>9, <2>2, SMTT(30)
    <3> QED BY <1>5, <2>2, <3>2, <3>3 DEF ReaderPending
  <2> QED BY <1>5, <1>6, <2>1, <2>2
<1>15. ReadersExact(n)
  <2> SUFFICES ASSUME NEW k \in 1 .. Len(n.wait_memop), n.wait_memop[k].objid # -1
               PROVE  ReaderEntryExact(n, k)
    BY DEF ReadersExact
  <2> DEFINE e == n.wait_memop[k]
  <2>1. ASSUME NEW m \in 1 .. N, l.access[m].acc = "R", l.access[m].objid = e.objid,
               l.access[m].version = e.version, m = e.memop + 1,
               \A i \in 1 .. N : l.access[i].acc = "W" /\ l.access[i].objid = e.objid =>
                                     l.access[i].version # e.version,
               e.objid = o => e.version # v,
               \A j \in 1 .. Len(n.wait_memop) :
                   j < k /\ n.wait_memop[j].objid = e.objid => n.wait_memop[j].version < e.version
        PROVE  ReaderEntryExact(n, k)
    <3>1. e.memop + 1 \in Accesses(n) /\ n.access[e.memop + 1] = l.access[m]
      BY <1>5, <1>6, <2>1
    <3>2. ASSUME NEW i \in Accesses(n), IsWrite(n, i), n.access[i].objid = e.objid
          PROVE  n.access[i].version # e.version
      BY <1>5, <1>6, <2>1, <3>2
    <3> HIDE DEF e
    <3>3. /\ e.memop + 1 \in Accesses(n)
          /\ IsRead(n, e.memop + 1)
          /\ n.access[e.memop + 1].objid = e.objid
          /\ n.access[e.memop + 1].version = e.version
          /\ \A i \in Accesses(n) :
                IsWrite(n, i) /\ n.access[i].objid = e.objid => n.access[i].version # e.version
          /\ \A j \in 1 .. Len(n.wait_memop) :
                j < k /\ n.wait_memop[j].objid = e.objid => n.wait_memop[j].version < e.version
      BY <2>1, <3>1, <3>2
    <3> QED BY <3>3 DEF ReaderEntryExact, e
  <2>2. CASE k \in 1 .. Len(l.wait_memop) /\ e = l.wait_memop[k]
    <3>1. ReaderEntryExact(l, k)
      BY <1>3, <2>2, SMTT(30) DEF ReadersExact
    <3>2. /\ e.memop + 1 \in 1 .. N /\ l.access[e.memop + 1].acc = "R"
          /\ l.access[e.memop + 1].objid = e.objid /\ l.access[e.memop + 1].version = e.version
          /\ \A i \in 1 .. N : l.access[i].acc = "W" /\ l.access[i].objid = e.objid =>
                                   l.access[i].version # e.version
          /\ \A j \in 1 .. Len(l.wait_memop) :
                j < k /\ l.wait_memop[j].objid = e.objid => l.wait_memop[j].version < e.version
      BY <2>2, <3>1 DEF ReaderEntryExact, N
    <3>3. e.version < ver[e.objid] \/ l.fin > 0
      BY <1>3, <2>2 DEF LoggedReadsOld
    <3>4. e.version \in Nat /\ e.objid \in Obj
      BY <1>2, <2>2 DEF ReadersTyped
    <3>5. e.objid = o => e.version # v
      <4> HIDE DEF e
      <4> QED BY <1>1, <1>9, <3>3, <3>4, SMTT(30) DEF v
    <3>6. \A j \in 1 .. Len(n.wait_memop) :
            j < k /\ n.wait_memop[j].objid = e.objid => n.wait_memop[j].version < e.version
      <4>1. \A j \in 1 .. Len(n.wait_memop) : j < k =>
              j \in 1 .. Len(l.wait_memop) /\ n.wait_memop[j] = l.wait_memop[j]
        BY <1>2, <1>8, <2>2, SMTT(30) DEF Counted
      <4> HIDE DEF e
      <4> QED BY <3>2, <4>1
    <3> HIDE DEF e
    <3> QED BY <2>1, <3>2, <3>5, <3>6
  <2>3. CASE /\ l.last[o].version # v /\ l.last[o].memop >= 0
             /\ k = Len(l.wait_memop) + 1 /\ e.objid = o
             /\ e.version = l.last[o].version /\ e.memop = l.last[o].memop
    <3>1. l.fin <= o
      <4>1. l.fin = 0
        BY <1>1
      <4>2. o \in Nat
        BY <1>9
      <4> HIDE DEF e
      <4> QED BY <4>1, <4>2, SMTT(30)
    <3>2. /\ e.memop + 1 \in 1 .. N /\ l.access[e.memop + 1].acc = "R"
          /\ l.access[e.memop + 1].objid = o /\ l.access[e.memop + 1].version = e.version
          /\ \A i \in 1 .. N : l.access[i].acc = "W" /\ l.access[i].objid = o =>
                                   l.access[i].version # e.version
          /\ \A j \in 1 .. Len(l.wait_memop) :
                l.wait_memop[j].objid = o => l.wait_memop[j].version < e.version
      <4> HIDE DEF e
      <4>1. LET m == l.last[o].memop + 1
            IN  /\ m \in 1 .. N
                /\ l.access[m].acc = "R" /\ l.access[m].objid = o
                /\ l.access[m].version = l.last[o].version
                /\ \A i \in 1 .. N :
                      l.access[i].acc = "W" /\ l.access[i].objid = o =>
                         l.access[i].version # l.last[o].version
                /\ \A j \in 1 .. Len(l.wait_memop) :
                      l.wait_memop[j].objid = o => l.wait_memop[j].version < l.last[o].version
        <5>1. l.last[o].memop >= 0
          BY <2>3
        <5> QED BY <1>a, <1>c, <3>1, <5>1, LastEntryExact DEF N, VersionStep
      <4>2. e.version = l.last[o].version /\ e.memop = l.last[o].memop
        BY <2>3
      <4> QED BY <4>1, <4>2
    <3>3. \A j \in 1 .. Len(n.wait_memop) :
            j < k /\ n.wait_memop[j].objid = e.objid => n.wait_memop[j].version < e.version
      <4>1. \A j \in 1 .. Len(n.wait_memop) : j < k =>
              j \in 1 .. Len(l.wait_memop) /\ n.wait_memop[j] = l.wait_memop[j]
        <5>1. \A j \in 1 .. Len(l.wait_memop) : n.wait_memop[j] = l.wait_memop[j]
          BY <1>1 DEF ReaderAppended
        <5>2. \A j \in 1 .. Len(n.wait_memop) : j < k => j \in 1 .. Len(l.wait_memop)
          <6>1. k = Len(l.wait_memop) + 1 /\ Len(l.wait_memop) \in Nat
            BY <1>2, <2>3 DEF Counted
          <6> HIDE DEF e
          <6> QED BY <6>1, SMTT(30)
        <5> QED BY <5>1, <5>2
      <4> HIDE DEF e
      <4> QED BY <2>3, <3>2, <4>1
    <3> HIDE DEF e
    <3> QED BY <2>1, <2>3, <3>2, <3>3
  <2> QED BY <1>8, <2>2, <2>3
<1>16. VersionsExact(n)
  <2> SUFFICES ASSUME NEW k \in 1 .. Len(n.wait_version), n.wait_version[k].memop # -1
               PROVE  VersionEntryExact(n, k)
    BY DEF VersionsExact
  <2>1. /\ \A j \in 1 .. Len(l.wait_version) : n.wait_version[j] = l.wait_version[j]
        /\ Len(l.wait_version) \in Nat
    BY <1>1, <1>2 DEF VersionAppended, Counted
  <2>2. CASE k \in 1 .. Len(l.wait_version)
    <3>1. VersionEntryExact(l, k) /\ n.wait_version[k] = l.wait_version[k]
      BY <1>3, <2>1, <2>2 DEF VersionsExact
    <3>2. \A j \in 1 .. Len(n.wait_version) : j < k => j \in 1 .. Len(l.wait_version)
      BY <2>1, <2>2, SMTT(30)
    <3>3. l.wait_version[k].memop + 1 \in 1 .. N
      BY <3>1 DEF VersionEntryExact, N
    <3> QED BY <1>5, <1>6, <2>1, <3>1, <3>2, <3>3 DEF VersionEntryExact
  <2>3. CASE k \notin 1 .. Len(l.wait_version)
    <3>1. /\ k = Len(l.wait_version) + 1
          /\ n.wait_version[k].memop = l.memop /\ n.wait_version[k].version = v
      BY <1>1, <2>1, <2>3, SMTT(30) DEF VersionAppended
    <3>2. \A j \in 1 .. Len(n.wait_version) : j < k => n.wait_version[j].memop < l.memop
      <4>1. \A j \in 1 .. Len(n.wait_version) : j < k => j \in 1 .. Len(l.wait_version)
        BY <2>1, <3>1, SMTT(60)
      <4> QED BY <1>3, <2>1, <4>1 DEF LoggedReadsOld
    <3>3. l.memop + 1 \in Accesses(n) /\ l.memop + 1 = N + 1
      BY <1>4, <1>5, SMTT(30)
    <3> QED BY <1>5, <3>1, <3>2, <3>3 DEF VersionEntryExact
  <2> QED BY <2>2, <2>3
<1> QED BY <1>10, <1>11, <1>12, <1>13, <1>14, <1>15, <1>16 DEF LogInv

(* Other threads' writes only move versions forward                        *)
LEMMA VersionsMove ==
    ASSUME NEW l \in OrderLogs, NEW ver, NEW ver2, LogInv(l, ver), VersionStep(ver, ver2)
    PROVE  LogInv(l, ver2)
<1>1. AccessesTyped(l) /\ ReadersTyped(l)
  BY LogParts
<1>2. AccessesBounded(l, ver2)
  <2>1. ASSUME NEW i \in Accesses(l)
        PROVE  IF l.access[i].acc = "W" THEN l.access[i].version < ver2[l.access[i].objid]
               ELSE l.access[i].version <= ver2[l.access[i].objid]
    <3> DEFINE a == l.access[i]
    <3>1. a.objid \in Obj /\ a.version \in Nat
      BY <1>1 DEF AccessesTyped, Accesses
    <3>2. IF a.acc = "W" THEN a.version < ver[a.objid] ELSE a.version <= ver[a.objid]
      BY DEF LogInv, AccessesBounded
    <3> HIDE DEF a
    <3>3. ver[a.objid] <= ver2[a.objid] /\ ver[a.objid] \in Nat /\ ver2[a.objid] \in Nat
      BY <3>1 DEF VersionStep
    <3>4. IF a.acc = "W" THEN a.version < ver2[a.objid] ELSE a.version <= ver2[a.objid]
      BY <3>1, <3>2, <3>3, SMTT(30)
    <3> QED BY <3>4 DEF a
  <2> QED BY <2>1 DEF LogInv, AccessesBounded
<1>3. LoggedReadsOld(l, ver2)
  <2>1. ASSUME NEW k \in 1 .. Len(l.wait_memop), l.wait_memop[k].objid # -1
        PROVE  l.wait_memop[k].version < ver2[l.wait_memop[k].objid] \/ l.fin > 0
    <3> DEFINE e == l.wait_memop[k]
    <3>1. e.objid \in Obj /\ e.version \in Nat
      BY <1>1, <2>1 DEF ReadersTyped
    <3>2. e.version < ver[e.objid] \/ l.fin > 0
      BY <2>1 DEF LogInv, LoggedReadsOld
    <3> HIDE DEF e
    <3>3. ver[e.objid] <= ver2[e.objid] /\ ver[e.objid] \in Nat /\ ver2[e.objid] \in Nat
      BY <3>1 DEF VersionStep
    <3>4. e.version < ver2[e.objid] \/ l.fin > 0
      BY <3>1, <3>2, <3>3, SMTT(60)
    <3> QED BY <3>4 DEF e
  <2> QED BY <2>1 DEF LogInv, LoggedReadsOld
<1> QED BY <1>2, <1>3 DEF LogInv

SoundLog(l, ver) == l \in OrderLogs /\ ver \in [Obj -> Nat] /\ LogInv(l, ver)

(* The logs of a thread that logs an object's last read while finishing    *)
LEMMA FinishKeepsInv ==
    ASSUME NEW l, NEW ver, SoundLog(l, ver), l.fin \in Obj
    PROVE  LogInv(finish_object(l), ver)
<1> USE DEF Accesses, IsRead, IsWrite, SameObj
<1> DEFINE n == finish_object(l)
           o == l.fin
           K == Len(l.wait_memop)
<1>1. /\ n.fin = o + 1 /\ n.memop = l.memop /\ n.last = l.last
      /\ n.wait_version = l.wait_version /\ n.access = l.access
      /\ n.wait_memop = IF l.last[o].memop >= 0
                        THEN Append(l.wait_memop, [objid |-> o, version |-> l.last[o].version,
                                                   memop |-> l.last[o].memop])
                        ELSE l.wait_memop
  BY FinishObject DEF SoundLog
<1>2. /\ Counted(l) /\ LastTyped(l) /\ AccessesTyped(l) /\ ReadersTyped(l)
      /\ l.wait_memop \in Seq(WaitMemop \cup {EndOfMemops})
      /\ \A p \in Obj : p \in Nat /\ ver[p] \in Nat
  BY LogParts, NObjAssumption, SMTT(30) DEF SoundLog, OrderLogs, MemopLogs, Obj
<1>3. ReaderAppended(l, n, o, l.last[o].memop >= 0)
  <2> HIDE DEF n, o
  <2> QED BY <1>1, <1>2, SMTT(30) DEF ReaderAppended
<1>4. /\ AccessesBounded(l, ver) /\ LastDescribesLatest(l) /\ LoggedReadsOld(l, ver)
      /\ VersionsLogged(l) /\ ReadsLogged(l) /\ ReadersExact(l) /\ VersionsExact(l)
  BY DEF SoundLog, LogInv
<1>5. o \in Obj /\ o \in Nat /\ K \in Nat
  BY <1>2 DEF Counted
<1> HIDE DEF n, o
<1>6. ASSUME NEW k \in 1 .. Len(n.wait_memop)
      PROVE  \/ k \in 1 .. K /\ n.wait_memop[k] = l.wait_memop[k]
             \/ /\ l.last[o].memop >= 0 /\ k = K + 1
                /\ n.wait_memop[k].objid = o
                /\ n.wait_memop[k].version = l.last[o].version
                /\ n.wait_memop[k].memop = l.last[o].memop
  <2>1. CASE l.last[o].memop >= 0
    BY <1>3, <1>5, <2>1, SMTT(30) DEF ReaderAppended
  <2>2. CASE ~(l.last[o].memop >= 0)
    BY <1>3, <1>5, <2>2 DEF ReaderAppended
  <2> QED BY <2>1, <2>2
<1>7. AccessesBounded(n, ver) /\ LastDescribesLatest(n) /\ VersionsLogged(n) /\ VersionsExact(n)
  <2>1. AccessesBounded(n, ver)
    BY <1>1, <1>4 DEF AccessesBounded
  <2>2. LastDescribesLatest(n)
    BY <1>1, <1>4, SameLast
  <2>3. VersionsLogged(n)
    <3>1. \A i : /\ WaitsForVersion(n, i) <=> WaitsForVersion(l, i)
                 /\ FirstAtZero(n, i) <=> FirstAtZero(l, i)
                 /\ FollowsOwnRead(n, i) <=> FollowsOwnRead(l, i)
      BY <1>1, SMTT(30) DEF WaitsForVersion, FirstAtZero, FollowsOwnRead
    <3> QED BY <1>1, <1>4, <3>1 DEF VersionsLogged
  <2>4. VersionsExact(n)
    BY <1>1, <1>4 DEF VersionsExact, VersionEntryExact
  <2> QED BY <2>1, <2>2, <2>3, <2>4
<1>8. LoggedReadsOld(n, ver)
  <2>1. ASSUME NEW k \in 1 .. Len(n.wait_memop), n.wait_memop[k].objid # -1
        PROVE  LET e == n.wait_memop[k]
               IN  /\ e.version <= n.last[e.objid].version
                   /\ e.version = n.last[e.objid].version =>
                         n.last[e.objid].memop = NoMemop \/ n.fin > e.objid
                   /\ e.version < ver[e.objid] \/ n.fin > 0
    <3>1. n.fin > 0 /\ n.fin > o /\ n.fin \in Nat
      BY <1>1, <1>5, SMTT(30)
    <3> DEFINE e == n.wait_memop[k]
    <3>2. CASE k \in 1 .. K /\ e = l.wait_memop[k]
      <4>1. /\ e.objid \in Obj
            /\ e.version <= l.last[e.objid].version
            /\ e.version = l.last[e.objid].version =>
                  l.last[e.objid].memop = NoMemop \/ l.fin > e.objid
        BY <1>2, <1>4, <2>1, <3>2 DEF LoggedReadsOld, ReadersTyped
      <4> HIDE DEF e
      <4>2. l.fin > e.objid => n.fin > e.objid
        BY <1>1, <1>2, <4>1, SMTT(30) DEF o, Counted
      <4> QED BY <1>1, <3>1, <4>1, <4>2 DEF e
    <3>3. CASE e.objid = o /\ e.version = l.last[o].version
      <4>1. l.last[o].version \in Nat
        BY <1>2, <1>5 DEF LastTyped
      <4>2. n.last[e.objid].version = e.version
        BY <1>1, <3>3
      <4> HIDE DEF e
      <4>3. e.version <= n.last[e.objid].version /\ n.fin > e.objid
        BY <3>1, <3>3, <4>1, <4>2, SMTT(30)
      <4> QED BY <3>1, <4>3 DEF e
    <3> QED BY <1>6, <3>2, <3>3
  <2> QED BY <1>1, <1>4, <2>1 DEF LoggedReadsOld
<1>9. ReadsLogged(n)
  <2> SUFFICES ASSUME NEW i \in Accesses(l), IsRead(l, i)
               PROVE  ReaderLogged(n, i) \/ ReaderPending(n, i) \/ OverwrittenByItself(n, i)
    BY <1>1 DEF ReadsLogged
  <2>1. ReaderLogged(l, i) \/ ReaderPending(l, i) \/ OverwrittenByItself(l, i)
    BY <1>4 DEF ReadsLogged
  <2>2. CASE ReaderLogged(l, i)
    <3>1. PICK k \in 1 .. K :
            /\ l.wait_memop[k].objid = l.access[i].objid
            /\ l.wait_memop[k].version = l.access[i].version
            /\ l.wait_memop[k].memop >= i - 1
      BY <2>2 DEF ReaderLogged
    <3>2. k \in 1 .. Len(n.wait_memop) /\ n.wait_memop[k] = l.wait_memop[k]
      BY <1>3, <1>5, SMTT(30) DEF ReaderAppended
    <3> QED BY <1>1, <3>1, <3>2 DEF ReaderLogged
  <2>3. CASE OverwrittenByItself(l, i)
    BY <1>1, <2>3 DEF OverwrittenByItself
  <2>4. CASE ReaderPending(l, i)
    <3> DEFINE p == l.access[i].objid
    <3>1. /\ p \in Obj /\ p \in Nat /\ l.fin \in Nat
          /\ l.last[p].version = l.access[i].version
          /\ l.last[p].memop >= i - 1 /\ l.fin <= p
      BY <1>2, <2>4 DEF ReaderPending, AccessesTyped, Counted
    <3>2. CASE p = o
      <4> DEFINE k == K + 1
      <4>1. l.last[o].memop >= 0
        <5>1. l.last[o].memop \in Nat \/ l.last[o].memop = -1
          BY <1>2, <1>5 DEF LastTyped
        <5> HIDE DEF p
        <5>2. i - 1 >= 0 /\ i - 1 \in Int
          BY <1>2, SMTT(30) DEF Counted
        <5> QED BY <3>1, <3>2, <5>1, <5>2, SMTT(60)
      <4>2. /\ Len(n.wait_memop) = k
            /\ n.wait_memop[k].objid = o /\ n.wait_memop[k].version = l.last[o].version
            /\ n.wait_memop[k].memop = l.last[o].memop
        BY <1>3, <4>1 DEF ReaderAppended
      <4>3. k \in 1 .. k
        BY <1>5, SMTT(60)
      <4> HIDE DEF k
      <4>4. /\ k \in 1 .. Len(n.wait_memop)
            /\ n.wait_memop[k].objid = p /\ n.wait_memop[k].version = l.access[i].version
            /\ n.wait_memop[k].memop >= i - 1
        <5> HIDE DEF p
        <5> QED BY <3>1, <3>2, <4>2, <4>3, SMTT(30)
      <4> QED BY <1>1, <4>4 DEF ReaderLogged
    <3>3. CASE p # o
      <4>1. n.fin <= p
        <5> HIDE DEF p
        <5> QED BY <1>1, <3>1, <3>3, SMTT(30) DEF o
      <4> QED BY <1>1, <3>1, <4>1 DEF ReaderPending
    <3> QED BY <3>2, <3>3
  <2> QED BY <2>1, <2>2, <2>3, <2>4
<1>10. ReadersExact(n)
  <2> SUFFICES ASSUME NEW k \in 1 .. Len(n.wait_memop), n.wait_memop[k].objid # -1
               PROVE  ReaderEntryExact(n, k)
    BY DEF ReadersExact
  <2>1. \A j \in 1 .. Len(n.wait_memop) : j < k =>
          j \in 1 .. K /\ n.wait_memop[j] = l.wait_memop[j]
    <3>1. \A j \in 1 .. K : n.wait_memop[j] = l.wait_memop[j]
      BY <1>3 DEF ReaderAppended
    <3>2. \A j \in 1 .. Len(n.wait_memop) : j < k => j \in 1 .. K
      <4>1. k <= K + 1 /\ k \in Int
        BY <1>5, <1>6, SMTT(60)
      <4> QED BY <1>5, <4>1, SMTT(60)
    <3> QED BY <3>1, <3>2
  <2>2. CASE k \in 1 .. K /\ n.wait_memop[k] = l.wait_memop[k]
    <3>1. ReaderEntryExact(l, k)
      BY <1>4, <2>2 DEF ReadersExact
    <3> QED BY <1>1, <2>1, <2>2, <3>1 DEF ReaderEntryExact
  <2>3. CASE /\ l.last[o].memop >= 0 /\ k = K + 1
             /\ n.wait_memop[k].objid = o
             /\ n.wait_memop[k].version = l.last[o].version
             /\ n.wait_memop[k].memop = l.last[o].memop
    <3>1. l.fin <= o
      BY <1>5, SMTT(60) DEF o
    <3>2. LET m == l.last[o].memop + 1
          IN  /\ m \in 1 .. Len(l.access)
              /\ l.access[m].acc = "R" /\ l.access[m].objid = o
              /\ l.access[m].version = l.last[o].version
              /\ \A i \in 1 .. Len(l.access) :
                    l.access[i].acc = "W" /\ l.access[i].objid = o =>
                       l.access[i].version # l.last[o].version
              /\ \A j \in 1 .. K :
                    l.wait_memop[j].objid = o => l.wait_memop[j].version < l.last[o].version
      BY <1>5, <2>3, <3>1, LastEntryExact DEF SoundLog
    <3>3. \A j \in 1 .. Len(n.wait_memop) :
            j < k /\ n.wait_memop[j].objid = o => n.wait_memop[j].version < l.last[o].version
      BY <2>1, <3>2
    <3> HIDE DEF K
    <3> QED BY <1>1, <2>3, <3>2, <3>3 DEF ReaderEntryExact
  <2> QED BY <1>6, <2>2, <2>3
<1>11. LogInv(n, ver)
  BY <1>7, <1>8, <1>9, <1>10 DEF LogInv
<1> QED BY <1>11 DEF n

(* The end marks are no entries                                            *)
LEMMA MarkKeepsInv ==
    ASSUME NEW l, NEW ver, SoundLog(l, ver), l.fin = NObj
    PROVE  LogInv(mark_log_end(l), ver)
<1> USE DEF Accesses, IsRead, IsWrite, SameObj
<1> DEFINE n == mark_log_end(l)
           K == Len(l.wait_memop)
           V == Len(l.wait_version)
<1>1. /\ n.fin = l.fin + 1 /\ n.memop = l.memop /\ n.last = l.last /\ n.access = l.access
      /\ n.wait_memop = Append(l.wait_memop, EndOfMemops)
      /\ n.wait_version = Append(l.wait_version, EndOfVersions)
  BY MarkLogEnd DEF SoundLog
<1>2. /\ Counted(l) /\ AccessesTyped(l) /\ ReadersTyped(l)
      /\ l.wait_memop \in Seq(WaitMemop \cup {EndOfMemops})
      /\ l.wait_version \in Seq(WaitVersion \cup {EndOfVersions})
      /\ \A p \in Obj : p \in Nat /\ p < NObj
      /\ NObj \in Nat \ {0}
  <2>1. /\ l.wait_memop \in Seq(WaitMemop \cup {EndOfMemops})
        /\ l.wait_version \in Seq(WaitVersion \cup {EndOfVersions})
    BY DEF SoundLog, OrderLogs, MemopLogs, VersionLogs
  <2>2. NObj \in Nat \ {0} /\ \A p \in Obj : p \in Nat /\ p < NObj
    BY NObjAssumption, SMTT(60) DEF Obj
  <2> QED BY <2>1, <2>2, LogParts DEF SoundLog
<1> HIDE DEF n
<1>3. /\ Len(n.wait_memop) = K + 1 /\ K \in Nat
      /\ \A k \in 1 .. K : n.wait_memop[k] = l.wait_memop[k]
      /\ n.wait_memop[K + 1].objid = -1
  BY <1>1, <1>2, SMTT(30) DEF EndOfMemops
<1>4. /\ Len(n.wait_version) = V + 1 /\ V \in Nat
      /\ \A k \in 1 .. V : n.wait_version[k] = l.wait_version[k]
      /\ n.wait_version[V + 1].memop = -1
  BY <1>1, <1>2, SMTT(30) DEF EndOfVersions
<1>5. /\ AccessesBounded(l, ver) /\ LastDescribesLatest(l) /\ LoggedReadsOld(l, ver)
      /\ VersionsLogged(l) /\ ReadsLogged(l) /\ ReadersExact(l) /\ VersionsExact(l)
  BY DEF SoundLog, LogInv
<1> HIDE DEF K, V
<1>6. \A k \in 1 .. K + 1 : n.wait_memop[k].objid # -1 => k \in 1 .. K
  BY <1>3, SMTT(60)
<1>7. \A k \in 1 .. V + 1 : n.wait_version[k].memop # -1 => k \in 1 .. V
  BY <1>4, SMTT(60)
<1>8. AccessesBounded(n, ver) /\ LastDescribesLatest(n)
  <2>1. AccessesBounded(n, ver)
    BY <1>1, <1>5 DEF AccessesBounded
  <2>2. LastDescribesLatest(n)
    BY <1>1, <1>5, SameLast
  <2> QED BY <2>1, <2>2
<1>9. LoggedReadsOld(n, ver)
  <2>1. ASSUME NEW k \in 1 .. Len(n.wait_memop), n.wait_memop[k].objid # -1
        PROVE  LET e == n.wait_memop[k]
               IN  /\ e.version <= n.last[e.objid].version
                   /\ e.version = n.last[e.objid].version =>
                         n.last[e.objid].memop = NoMemop \/ n.fin > e.objid
                   /\ e.version < ver[e.objid] \/ n.fin > 0
    <3> DEFINE e == n.wait_memop[k]
    <3>1. k \in 1 .. K /\ e = l.wait_memop[k]
      BY <1>3, <1>6, <2>1
    <3>2. /\ e.objid \in Obj
          /\ e.version <= l.last[e.objid].version
      BY <1>2, <1>5, <2>1, <3>1 DEF LoggedReadsOld, ReadersTyped, K
    <3> HIDE DEF e
    <3>3. n.fin > e.objid /\ n.fin > 0
      BY <1>1, <1>2, <3>2, SMTT(30)
    <3> QED BY <1>1, <3>2, <3>3 DEF e
  <2>2. ASSUME NEW k \in 1 .. Len(n.wait_version)
        PROVE  n.wait_version[k].memop < n.memop
    <3>1. CASE k \in 1 .. V
      BY <1>1, <1>4, <1>5, <3>1 DEF LoggedReadsOld, V
    <3>2. CASE k = V + 1
      BY <1>1, <1>2, <1>4, <3>2, SMTT(30) DEF Counted
    <3> QED BY <1>4, <3>1, <3>2, SMTT(30)
  <2> QED BY <2>1, <2>2 DEF LoggedReadsOld
<1>10. VersionsLogged(n)
  <2> SUFFICES ASSUME NEW i \in Accesses(l)
               PROVE  WaitsForVersion(n, i) \/ FirstAtZero(n, i) \/ FollowsOwnRead(n, i)
    BY <1>1 DEF VersionsLogged
  <2>1. CASE WaitsForVersion(l, i)
    <3>1. PICK k \in 1 .. V :
            l.wait_version[k].memop = i - 1 /\ l.wait_version[k].version = l.access[i].version
      BY <2>1 DEF WaitsForVersion, V
    <3>2. k \in 1 .. Len(n.wait_version)
      BY <1>4, SMTT(60)
    <3> QED BY <1>1, <1>4, <3>1, <3>2 DEF WaitsForVersion
  <2>2. CASE FirstAtZero(l, i) \/ FollowsOwnRead(l, i)
    BY <1>1, <2>2 DEF FirstAtZero, FollowsOwnRead
  <2> QED BY <1>5, <2>1, <2>2 DEF VersionsLogged
<1>11. ReadsLogged(n)
  <2> SUFFICES ASSUME NEW i \in Accesses(l), IsRead(l, i)
               PROVE  ReaderLogged(n, i) \/ ReaderPending(n, i) \/ OverwrittenByItself(n, i)
    BY <1>1 DEF ReadsLogged
  <2>1. CASE ReaderLogged(l, i)
    <3>1. PICK k \in 1 .. K :
            /\ l.wait_memop[k].objid = l.access[i].objid
            /\ l.wait_memop[k].version = l.access[i].version
            /\ l.wait_memop[k].memop >= i - 1
      BY <2>1 DEF ReaderLogged, K
    <3>2. k \in 1 .. Len(n.wait_memop) /\ n.wait_memop[k] = l.wait_memop[k]
      BY <1>3, SMTT(60)
    <3> QED BY <1>1, <3>1, <3>2 DEF ReaderLogged
  <2>2. CASE OverwrittenByItself(l, i)
    BY <1>1, <2>2 DEF OverwrittenByItself
  <2>3. ~ReaderPending(l, i)
    <3> DEFINE p == l.access[i].objid
    <3>1. p \in Obj
      BY <1>2 DEF AccessesTyped
    <3> HIDE DEF p
    <3>2. p \in Nat /\ p < NObj /\ NObj \in Nat
      BY <1>2, <3>1
    <3>3. ~(l.fin <= p)
      BY <3>2, SMTT(60)
    <3> QED BY <3>3 DEF ReaderPending, p
  <2> QED BY <1>5, <2>1, <2>2, <2>3 DEF ReadsLogged
<1>12. ReadersExact(n)
  <2> SUFFICES ASSUME NEW k \in 1 .. Len(n.wait_memop), n.wait_memop[k].objid # -1
               PROVE  ReaderEntryExact(n, k)
    BY DEF ReadersExact
  <2>1. k \in 1 .. K /\ n.wait_memop[k] = l.wait_memop[k]
    BY <1>3, <1>6
  <2>2. ReaderEntryExact(l, k)
    BY <1>5, <2>1 DEF ReadersExact, K
  <2>3. \A j \in 1 .. Len(n.wait_memop) : j < k => j \in 1 .. K /\ n.wait_memop[j] = l.wait_memop[j]
    BY <1>3, <2>1, SMTT(30)
  <2> QED BY <1>1, <2>1, <2>2, <2>3 DEF ReaderEntryExact, K
<1>13. VersionsExact(n)
  <2> SUFFICES ASSUME NEW k \in 1 .. Len(n.wait_version), n.wait_version[k].memop # -1
               PROVE  VersionEntryExact(n, k)
    BY DEF VersionsExact
  <2>1. k \in 1 .. V /\ n.wait_version[k] = l.wait_version[k]
    BY <1>4, <1>7
  <2>2. VersionEntryExact(l, k)
    BY <1>5, <2>1 DEF VersionsExact, V
  <2>3. \A j \in 1 .. Len(n.wait_version) :
          j < k => j \in 1 .. V /\ n.wait_version[j] = l.wait_version[j]
    BY <1>4, <2>1, SMTT(60)
  <2> QED BY <1>1, <2>1, <2>2, <2>3 DEF VersionEntryExact, V
<1>14. LogInv(n, ver)
  BY <1>8, <1>9, <1>10, <1>11, <1>12, <1>13 DEF LogInv
<1> QED BY <1>14 DEF n

(* At every point of every recording, with any number of threads, objects  *)
(* and accesses, every thread's logs satisfy the inductive invariant.      *)
THEOREM RecInvHolds == RecSpec => []RecInv
<1>1. RecInit => RecInv
  <2> SUFFICES ASSUME RecInit, NEW t \in Thread
               PROVE  LogInv(mem_init_thr, version)
    BY DEF RecInit, RecInv
  <2>1. /\ mem_init_thr.access = << >> /\ mem_init_thr.wait_version = << >>
        /\ mem_init_thr.wait_memop = << >> /\ mem_init_thr.memop = 0
        /\ \A o \in Obj : mem_init_thr.last[o].memop = -1 /\ mem_init_thr.last[o].version = 0
    BY DEF mem_init_thr, NoMemop
  <2>2. AccessesBounded(mem_init_thr, version) /\ LastDescribesLatest(mem_init_thr)
    BY <2>1, SMTT(30) DEF AccessesBounded, LastDescribesLatest, Accesses
  <2>3. LoggedReadsOld(mem_init_thr, version)
    BY <2>1, SMTT(30) DEF LoggedReadsOld
  <2>4. /\ VersionsLogged(mem_init_thr) /\ ReadsLogged(mem_init_thr)
        /\ ReadersExact(mem_init_thr) /\ VersionsExact(mem_init_thr)
    BY <2>1, SMTT(30) DEF VersionsLogged, ReadsLogged, ReadersExact, VersionsExact, Accesses
  <2> QED BY <2>2, <2>3, <2>4 DEF LogInv
<1>2. RecTypeOK /\ RecInv /\ [RecNext]_recVars => RecInv'
  <2> SUFFICES ASSUME RecTypeOK, RecInv, [RecNext]_recVars
               PROVE  RecInv'
    OBVIOUS
  <2> USE DEF RecTypeOK
  <2>1. ASSUME NEW t \in Thread, NEW o \in Obj, mem_read(t, o)
        PROVE  RecInv'
    <3> DEFINE n == note_read(thr[t], o, version[o], mem[o])
    <3>1. LogInv(n, version)
      <4> DEFINE new == [version |-> version[o], memop |-> thr[t].memop]
      <4>1. Noted(thr[t], n, "R", o, version[o], mem[o], new)
        BY NoteRead
      <4>2. ReadStep(thr[t], o, new, version)
        BY DEF ReadStep
      <4>3. VersionStep(version, version)
        BY SMTT(60) DEF VersionStep
      <4>4. Running(thr[t]) /\ LogInv(thr[t], version) /\ thr[t] \in OrderLogs
        BY <2>1 DEF RecInv, mem_read, MayAccess
      <4> HIDE DEF n, new
      <4>5. AccessStep(thr[t], n, "R", o, mem[o], new, version, version)
        BY <4>1, <4>2, <4>3, <4>4 DEF AccessStep
      <4> QED BY <4>5, NotedKeepsInv
    <3> HIDE DEF n
    <3>2. version' = version /\ thr' = [thr EXCEPT ![t] = n]
      BY <2>1 DEF mem_read, n
    <3> QED BY <3>1, <3>2 DEF RecInv
  <2>2. ASSUME NEW t \in Thread, NEW o \in Obj, mem_write(t, o)
        PROVE  RecInv'
    <3> DEFINE val == Value(t, thr[t].memop)
               n == note_write(thr[t], o, version[o], val)
    <3>1. /\ version' = [version EXCEPT ![o] = @ + 2] /\ thr' = [thr EXCEPT ![t] = n]
          /\ version' \in [Obj -> Nat] /\ version[o] < version'[o]
          /\ \A p \in Obj : version[p] <= version'[p]
      BY <2>2, SMTT(60) DEF mem_write
    <3>2. LogInv(n, version')
      <4> DEFINE new == [version |-> thr[t].last[o].version, memop |-> NoMemop]
      <4>1. val \in Val
        BY DEF Value, Val, OrderLogs
      <4> HIDE DEF val
      <4>2. Noted(thr[t], n, "W", o, version[o], val, new)
        BY <4>1, NoteWrite
      <4>3. WriteStep(thr[t], o, new, version, version')
        BY <3>1 DEF NoMemop, WriteStep
      <4>4. VersionStep(version, version')
        BY <3>1 DEF VersionStep
      <4>5. Running(thr[t]) /\ LogInv(thr[t], version) /\ thr[t] \in OrderLogs
        BY <2>2 DEF RecInv, mem_write, MayAccess
      <4> HIDE DEF n, new
      <4>6. AccessStep(thr[t], n, "W", o, val, new, version, version')
        BY <4>2, <4>3, <4>4, <4>5 DEF AccessStep
      <4> QED BY <4>6, NotedKeepsInv
    <3> HIDE DEF n
    <3>3. ASSUME NEW u \in Thread, u # t
          PROVE  LogInv(thr[u], version')
      <4>1. thr[u] \in OrderLogs /\ LogInv(thr[u], version)
        BY DEF RecInv
      <4>2. VersionStep(version, version')
        BY <3>1 DEF VersionStep
      <4> QED BY <4>1, <4>2, VersionsMove
    <3> QED BY <3>1, <3>2, <3>3 DEF RecInv
  <2>3. ASSUME NEW t \in Thread, mem_finish_thr(t)
        PROVE  RecInv'
    <3>1. thr[t] \in OrderLogs /\ LogInv(thr[t], version) /\ version' = version
      BY <2>3 DEF RecInv, mem_finish_thr
    <3>2. CASE Finishing(thr[t]) /\ thr' = [thr EXCEPT ![t] = finish_object(@)]
      <4>1. thr[t].fin \in Obj
        BY <3>1, <3>2, NObjAssumption, SMTT(60) DEF OrderLogs, Finishing, Obj
      <4>2. LogInv(finish_object(thr[t]), version)
        BY <3>1, <4>1, FinishKeepsInv DEF SoundLog
      <4> QED BY <3>1, <3>2, <4>2 DEF RecInv
    <3>3. CASE Closing(thr[t]) /\ thr' = [thr EXCEPT ![t] = mark_log_end(@)]
      <4>1. LogInv(mark_log_end(thr[t]), version)
        BY <3>1, <3>3, MarkKeepsInv DEF Closing, SoundLog
      <4> QED BY <3>1, <3>3, <4>1 DEF RecInv
    <3> QED BY <2>3, <3>2, <3>3 DEF mem_finish_thr
  <2>4. CASE UNCHANGED recVars
    BY <2>4 DEF RecInv, recVars
  <2> QED BY <2>1, <2>2, <2>3, <2>4 DEF RecNext
<1> QED BY <1>1, <1>2, TypeCorrect, PTL DEF RecSpec

(* No read is ever missing from the logs of its thread: the writer that    *)
(* overwrites what it read will be told to wait for it.                    *)
THEOREM ReadersAreLogged == RecSpec => []ReaderLogComplete
<1>1. RecInv => ReaderLogComplete
  BY DEF RecInv, LogInv, ReaderLogComplete
<1> QED BY <1>1, RecInvHolds, PTL

(* No access whose version replay needs is missing from the version log    *)
THEOREM VersionsAreLogged == RecSpec => []VersionLogComplete
<1>1. RecInv => VersionLogComplete
  BY DEF RecInv, LogInv, VersionLogComplete
<1> QED BY <1>1, RecInvHolds, PTL

(* Every wait_memop entry names a real read, and along the log an object's *)
(* versions increase, as reorder-memop and merge-memop rely on.            *)
THEOREM ReaderLogIsExact == RecSpec => []ReaderLogExact
<1>1. RecInv => ReaderLogExact
  BY DEF RecInv, LogInv, ReaderLogExact
<1> QED BY <1>1, RecInvHolds, PTL

(* Every version log entry carries what its access saw, in the order in    *)
(* which next_wait_version_log takes them.                                 *)
THEOREM VersionLogIsExact == RecSpec => []VersionLogExact
<1>1. RecInv => VersionLogExact
  BY DEF RecInv, LogInv, VersionLogExact
<1> QED BY <1>1, RecInvHolds, PTL

-----------------------------------------------------------------------------
(* The order a recording claims has no cycle: a new access comes after all *)
(* that are there, since it sees the object's current version.             *)
LEMMA EventsAre ==
    ASSUME NEW L, NEW a
    PROVE  a \in Events(L) <=> \E t \in Thread : \E i \in 1 .. Len(L[t].access) : a = <<t, i>>
BY SMTT(60) DEF Events

(* L and N differ in one access, the last one of t in N.                   *)
OneMore(L, N, t, acc, o, v) ==
    /\ Len(L[t].access) \in Nat /\ v \in Nat
    /\ AccessAppended(L[t], N[t], acc, o, v)
    /\ \A u \in Thread \ {t} : N[u].access = L[u].access

AllBefore(L, acc, o, v) ==
    \A a \in Events(L) :
        LET x == EntryOf(L, a)
        IN  /\ x.version \in Nat
            /\ x.objid = o => x.version <= v /\ (x.acc = "W" => x.version < v)

LEMMA OneMoreEvent ==
    ASSUME NEW L, NEW N, NEW t \in Thread, NEW acc, NEW o, NEW v, OneMore(L, N, t, acc, o, v),
           NEW e, e = <<t, Len(L[t].access) + 1>>
    PROVE  /\ \A a \in Events(N) : a \in Events(L) \/ a = e
           /\ \A a \in Events(L) : EntryOf(N, a) = EntryOf(L, a)
           /\ EntryOf(N, e).acc = acc /\ EntryOf(N, e).objid = o /\ EntryOf(N, e).version = v
           /\ \A a \in Events(L) : a[1] = t => a[2] < e[2]
<1>1. /\ Len(L[t].access) \in Nat /\ Len(N[t].access) = Len(L[t].access) + 1
      /\ \A i \in 1 .. Len(L[t].access) : N[t].access[i] = L[t].access[i]
      /\ \A u \in Thread \ {t} : N[u].access = L[u].access
  BY DEF OneMore, AccessAppended
<1>2. ASSUME NEW a \in Events(N) PROVE a \in Events(L) \/ a = e
  <2>1. PICK u \in Thread : \E i \in 1 .. Len(N[u].access) : a = <<u, i>>
    BY EventsAre, SMTT(60)
  <2>2. PICK i \in 1 .. Len(N[u].access) : a = <<u, i>>
    BY <2>1
  <2>3. i \in 1 .. Len(L[u].access) \/ (u = t /\ i = Len(L[t].access) + 1)
    BY <1>1, SMTT(30)
  <2> QED BY <2>2, <2>3, EventsAre
<1>3. ASSUME NEW a \in Events(L) PROVE EntryOf(N, a) = EntryOf(L, a) /\ (a[1] = t => a[2] < e[2])
  <2>1. PICK u \in Thread : \E i \in 1 .. Len(L[u].access) : a = <<u, i>>
    BY EventsAre, SMTT(60)
  <2>2. PICK i \in 1 .. Len(L[u].access) : a = <<u, i>>
    BY <2>1
  <2> QED BY <1>1, <2>2, SMTT(30) DEF EntryOf
<1>4. EntryOf(N, e).acc = acc /\ EntryOf(N, e).objid = o /\ EntryOf(N, e).version = v
  BY DEF EntryOf, OneMore, AccessAppended
<1> QED BY <1>2, <1>3, <1>4

LEMMA LatestComesLast ==
    ASSUME NEW L, NEW N, NEW t \in Thread, NEW acc \in {"R", "W"}, NEW o, NEW v,
           OneMore(L, N, t, acc, o, v), AllBefore(L, acc, o, v), Orderable(L)
    PROVE  Orderable(N)
<1>1. PICK e : e = <<t, Len(L[t].access) + 1>>
  OBVIOUS
<1>2. /\ \A a \in Events(N) : a \in Events(L) \/ a = e
      /\ \A a \in Events(L) : EntryOf(N, a) = EntryOf(L, a)
      /\ EntryOf(N, e).acc = acc /\ EntryOf(N, e).objid = o /\ EntryOf(N, e).version = v
      /\ \A a \in Events(L) : a[1] = t => a[2] < e[2]
  BY <1>1, OneMoreEvent, SMTT(30)
<1>3. v \in Nat /\ e[1] = t /\ e[2] \in Nat
  BY <1>1, SMTT(30) DEF OneMore
<1>4. \A a, b : Before(N, a, b) <=>
          \/ a[1] = b[1] /\ a[2] < b[2]
          \/ /\ EntryOf(N, a).objid = EntryOf(N, b).objid
             /\ EntryOf(N, a).acc = "W" /\ EntryOf(N, a).version < EntryOf(N, b).version
          \/ /\ EntryOf(N, a).objid = EntryOf(N, b).objid
             /\ EntryOf(N, a).acc = "R" /\ EntryOf(N, b).acc = "W"
             /\ EntryOf(N, a).version <= EntryOf(N, b).version
  BY SMTT(30) DEF Before, EntryOf
<1>5. ~Before(N, e, e)
  BY <1>2, <1>3, <1>4, SMTT(30)
<1>6. ASSUME NEW b \in Events(L) PROVE ~Before(N, e, b)
  <2>1. /\ EntryOf(N, b).version \in Nat
        /\ EntryOf(N, b).objid = o =>
              EntryOf(N, b).version <= v /\ (EntryOf(N, b).acc = "W" => EntryOf(N, b).version < v)
    BY <1>2 DEF AllBefore
  <2>2. PICK u \in Thread : \E i \in 1 .. Len(L[u].access) : b = <<u, i>>
    BY EventsAre, SMTT(60)
  <2>3. b[1] = t => b[2] \in Nat /\ b[2] < e[2]
    BY <1>2, <2>2, SMTT(60)
  <2> QED BY <1>2, <1>3, <1>4, <2>1, <2>3, SMTT(30)
<1>7. ASSUME NEW a \in Events(L), NEW b \in Events(L), ~Before(L, a, b) PROVE ~Before(N, a, b)
  BY <1>2, <1>4, <1>7 DEF Before, EntryOf
<1> SUFFICES ASSUME NEW S \in SUBSET Events(N), S # {}
             PROVE  \E b \in S : \A a \in S : ~Before(N, a, b)
  BY DEF Orderable
<1>8. CASE S = {e}
  BY <1>5, <1>8
<1>9. CASE S # {e}
  <2>1. S \ {e} \in SUBSET Events(L) /\ S \ {e} # {}
    BY <1>2, <1>9
  <2>2. PICK b \in S \ {e} : \A a \in S \ {e} : ~Before(L, a, b)
    BY <2>1 DEF Orderable
  <2>3. \A a \in S : ~Before(N, a, b)
    BY <1>6, <1>7, <2>1, <2>2
  <2> QED BY <2>3
<1> QED BY <1>8, <1>9

LEMMA OrderKept ==
    ASSUME NEW L, NEW N, \A t \in Thread : N[t].access = L[t].access, Orderable(L)
    PROVE  Orderable(N)
<1>1. Events(N) = Events(L)
  BY DEF Events
<1>2. \A a \in Events(L) : EntryOf(N, a) = EntryOf(L, a)
  <2> SUFFICES ASSUME NEW a \in Events(L) PROVE EntryOf(N, a) = EntryOf(L, a)
    OBVIOUS
  <2>1. a[1] \in Thread
    BY EventsAre, SMTT(60)
  <2> QED BY <2>1 DEF EntryOf
<1>3. ASSUME NEW a \in Events(L), NEW b \in Events(L), ~Before(L, a, b) PROVE ~Before(N, a, b)
  BY <1>2, <1>3 DEF Before, EntryOf
<1> QED BY <1>1, <1>3 DEF Orderable

(* Every access seen so far is at or below the current version             *)
LEMMA CurrentIsLatest ==
    ASSUME RecTypeOK, RecInv, NEW o \in Obj, NEW acc
    PROVE  AllBefore(thr, acc, o, version[o])
<1> SUFFICES ASSUME NEW a \in Events(thr)
             PROVE  LET x == EntryOf(thr, a)
                    IN  /\ x.version \in Nat
                        /\ x.objid = o => x.version <= version[o] /\ (x.acc = "W" => x.version < version[o])
  BY DEF AllBefore
<1>1. PICK t \in Thread : \E i \in 1 .. Len(thr[t].access) : a = <<t, i>>
  BY EventsAre, SMTT(60)
<1>2. PICK i \in 1 .. Len(thr[t].access) : a = <<t, i>>
  BY <1>1
<1>3. thr[t] \in OrderLogs /\ AccessesBounded(thr[t], version)
  BY DEF RecTypeOK, RecInv, LogInv
<1>4. AccessesTyped(thr[t])
  BY <1>3, LogParts
<1>5. PICK x : x = thr[t].access[i]
  OBVIOUS
<1>6. /\ x.version \in Nat
      /\ IF x.acc = "W" THEN x.version < version[x.objid] ELSE x.version <= version[x.objid]
  BY <1>3, <1>4, <1>5 DEF AccessesTyped, AccessesBounded, Accesses
<1>7. EntryOf(thr, a) = x
  BY <1>2, <1>5 DEF EntryOf
<1>8. version[o] \in Nat
  BY DEF RecTypeOK
<1> QED BY <1>6, <1>7, <1>8, SMTT(30)

(* The accesses of a recording can be put in one order that respects every *)
(* thread's program order and, on every object, the versions mem_read and  *)
(* mem_write logged: there is no cycle for a replay to get stuck in.       *)
THEOREM RecordingIsOrderable == RecSpec => []Orderable(thr)
<1>1. RecInit => Orderable(thr)
  BY SMTT(30) DEF RecInit, Orderable, Events, mem_init_thr
<1>2. RecTypeOK /\ RecInv /\ Orderable(thr) /\ [RecNext]_recVars => Orderable(thr)'
  <2> SUFFICES ASSUME RecTypeOK, RecInv, Orderable(thr), [RecNext]_recVars
               PROVE  Orderable(thr')
    OBVIOUS
  <2>1. ASSUME NEW t \in Thread, NEW o \in Obj, NEW acc \in {"R", "W"}, NEW n, NEW val, NEW new,
               Noted(thr[t], n, acc, o, version[o], val, new), thr' = [thr EXCEPT ![t] = n]
        PROVE  Orderable(thr')
    <3>1. thr[t] \in OrderLogs /\ version[o] \in Nat /\ thr \in [Thread -> OrderLogs]
      BY DEF RecTypeOK
    <3>2. AccessAppended(thr[t], n, acc, o, version[o])
      BY <2>1, <3>1, NotedParts
    <3>3. Len(thr[t].access) \in Nat
      BY <3>1, LogParts DEF Counted
    <3>4. thr'[t] = n /\ \A u \in Thread \ {t} : thr'[u] = thr[u]
      BY <2>1, <3>1
    <3>5. OneMore(thr, thr', t, acc, o, version[o])
      BY <3>1, <3>2, <3>3, <3>4 DEF OneMore
    <3>6. AllBefore(thr, acc, o, version[o])
      BY CurrentIsLatest
    <3> QED BY <3>5, <3>6, LatestComesLast
  <2>2. ASSUME NEW t \in Thread, NEW n, n.access = thr[t].access, thr' = [thr EXCEPT ![t] = n]
        PROVE  Orderable(thr')
    <3>1. \A u \in Thread : thr'[u].access = thr[u].access
      BY <2>2 DEF RecTypeOK
    <3> QED BY <3>1, OrderKept
  <2>3. ASSUME NEW t \in Thread, NEW o \in Obj, mem_read(t, o)
        PROVE  Orderable(thr')
    <3>1. Noted(thr[t], note_read(thr[t], o, version[o], mem[o]), "R", o, version[o], mem[o],
                [version |-> version[o], memop |-> thr[t].memop])
      BY NoteRead DEF RecTypeOK
    <3>2. thr' = [thr EXCEPT ![t] = note_read(thr[t], o, version[o], mem[o])]
      BY <2>3 DEF mem_read
    <3> QED BY <2>1, <3>1, <3>2
  <2>4. ASSUME NEW t \in Thread, NEW o \in Obj, mem_write(t, o)
        PROVE  Orderable(thr')
    <3>1. Value(t, thr[t].memop) \in Val
      BY DEF Value, Val, RecTypeOK, OrderLogs
    <3>2. PICK val \in Val : val = Value(t, thr[t].memop)
      BY <3>1
    <3>3. Noted(thr[t], note_write(thr[t], o, version[o], val), "W", o, version[o], val,
                [version |-> thr[t].last[o].version, memop |-> NoMemop])
      BY NoteWrite DEF RecTypeOK
    <3>4. thr' = [thr EXCEPT ![t] = note_write(thr[t], o, version[o], val)]
      BY <2>4, <3>2 DEF mem_write
    <3> QED BY <2>1, <3>3, <3>4
  <2>5. ASSUME NEW t \in Thread, mem_finish_thr(t)
        PROVE  Orderable(thr')
    <3>1. CASE Finishing(thr[t]) /\ thr' = [thr EXCEPT ![t] = finish_object(@)]
      <4>1. thr[t] \in OrderLogs /\ thr[t].fin \in Obj
        BY <3>1, NObjAssumption, SMTT(60) DEF RecTypeOK, OrderLogs, Finishing, Obj
      <4>2. finish_object(thr[t]).access = thr[t].access
        BY <4>1, FinishObject
      <4> QED BY <3>1, <4>2, <2>2
    <3>2. CASE Closing(thr[t]) /\ thr' = [thr EXCEPT ![t] = mark_log_end(@)]
      <4>1. mark_log_end(thr[t]).access = thr[t].access
        BY MarkLogEnd DEF RecTypeOK
      <4> QED BY <3>2, <4>1, <2>2
    <3> QED BY <2>5, <3>1, <3>2 DEF mem_finish_thr
  <2>6. CASE UNCHANGED recVars
    BY <2>6 DEF recVars
  <2> QED BY <2>3, <2>4, <2>5, <2>6 DEF RecNext
<1> QED BY <1>1, <1>2, TypeCorrect, RecInvHolds, PTL DEF RecSpec

-----------------------------------------------------------------------------
(* Versions name writes.  The parts of the property as operators of the    *)
(* logs L, the versions ver and the memory m; what makes them inductive is *)
(* that a version outside a write is even (g_version counts by two), so    *)
(* that the version a write replaces is the only new even number below it. *)
OneWriteEach(L, o, v) ==
    \A n \in 0 .. v - 1 : n % 2 = 0 => \E w \in WritesOf(L, o, n) : WritesOf(L, o, n) = {w}

ReadsStored(L, o) ==
    \A w \in Events(L) :
        EntryOf(L, w).acc = "R" /\ EntryOf(L, w).objid = o =>
            {EntryOf(L, w).val} = StoredIn(L, o, EntryOf(L, w).version)

Named(L, o, v, val) ==
    v % 2 = 0 /\ OneWriteEach(L, o, v) /\ {val} = StoredIn(L, o, v) /\ ReadsStored(L, o)

AllNamed(L, ver, m) == \A o \in Obj : Named(L, o, ver[o], m[o])

(* The accesses of N are those of L and e.                                 *)
Grown(L, N, e) ==
    /\ Events(N) = Events(L) \cup {e} /\ e \notin Events(L)
    /\ \A a \in Events(L) : EntryOf(N, a) = EntryOf(L, a)

LEMMA EventsGrow ==
    ASSUME NEW L, NEW N, NEW t \in Thread, NEW acc, NEW o, NEW v, OneMore(L, N, t, acc, o, v),
           NEW e, e = <<t, Len(L[t].access) + 1>>
    PROVE  /\ Grown(L, N, e)
           /\ EntryOf(N, e).acc = acc /\ EntryOf(N, e).objid = o /\ EntryOf(N, e).version = v
<1>1. /\ \A a \in Events(N) : a \in Events(L) \/ a = e
      /\ \A a \in Events(L) : EntryOf(N, a) = EntryOf(L, a)
      /\ EntryOf(N, e).acc = acc /\ EntryOf(N, e).objid = o /\ EntryOf(N, e).version = v
      /\ \A a \in Events(L) : a[1] = t => a[2] < e[2]
  BY OneMoreEvent, SMTT(30)
<1>2. /\ Len(L[t].access) \in Nat /\ Len(N[t].access) = Len(L[t].access) + 1
      /\ \A u \in Thread \ {t} : N[u].access = L[u].access
  BY DEF OneMore, AccessAppended
<1>3. e \in Events(N)
  BY <1>2, EventsAre, SMTT(30)
<1>4. e[1] = t /\ e[2] \in Nat
  BY <1>2, SMTT(60)
<1>5. e \notin Events(L)
  BY <1>1, <1>4, SMTT(60)
<1>6. ASSUME NEW a \in Events(L) PROVE a \in Events(N)
  <2>1. PICK u \in Thread : \E i \in 1 .. Len(L[u].access) : a = <<u, i>>
    BY EventsAre, SMTT(60)
  <2>2. PICK i \in 1 .. Len(L[u].access) : a = <<u, i>>
    BY <2>1
  <2>3. i \in 1 .. Len(N[u].access)
    BY <1>2, SMTT(30)
  <2> QED BY <2>2, <2>3, EventsAre
<1>7. Events(N) = Events(L) \cup {e}
  BY <1>1, <1>3, <1>6
<1> QED BY <1>1, <1>5, <1>7 DEF Grown

(* An access that is no write of version v leaves the writes of v.         *)
LEMMA OtherWrites ==
    ASSUME NEW L, NEW N, NEW e, NEW o, NEW v, Grown(L, N, e),
           ~(EntryOf(N, e).acc = "W" /\ EntryOf(N, e).objid = o /\ EntryOf(N, e).version = v)
    PROVE  WritesOf(N, o, v) = WritesOf(L, o, v)
BY DEF Grown, WritesOf

LEMMA NewWrite ==
    ASSUME NEW L, NEW N, NEW e, NEW o, NEW v, Grown(L, N, e), WritesOf(L, o, v) = {},
           EntryOf(N, e).acc = "W" /\ EntryOf(N, e).objid = o /\ EntryOf(N, e).version = v
    PROVE  WritesOf(N, o, v) = {e}
BY DEF Grown, WritesOf

LEMMA StoredSame ==
    ASSUME NEW L, NEW N, NEW e, NEW o, NEW v, Grown(L, N, e),
           WritesOf(N, o, v - 2) = WritesOf(L, o, v - 2)
    PROVE  StoredIn(N, o, v) = StoredIn(L, o, v)
<1>1. \A w \in WritesOf(L, o, v - 2) : EntryOf(N, w) = EntryOf(L, w)
  BY DEF Grown, WritesOf
<1>2. {EntryOf(N, w).val : w \in WritesOf(L, o, v - 2)} = {EntryOf(L, w).val : w \in WritesOf(L, o, v - 2)}
  BY <1>1
<1> QED BY <1>2 DEF StoredIn

(* A read takes the current value; an access to another object, nothing.   *)
LEMMA NamedNoWrite ==
    ASSUME NEW L, NEW N, NEW e, NEW o, NEW v, NEW val, Grown(L, N, e), Named(L, o, v, val),
           EntryOf(N, e).objid = o =>
               EntryOf(N, e).acc = "R" /\ EntryOf(N, e).version = v /\ EntryOf(N, e).val = val
    PROVE  Named(N, o, v, val)
<1>1. \A n : WritesOf(N, o, n) = WritesOf(L, o, n)
  <2> SUFFICES ASSUME NEW n PROVE WritesOf(N, o, n) = WritesOf(L, o, n)
    OBVIOUS
  <2>1. ~(EntryOf(N, e).acc = "W" /\ EntryOf(N, e).objid = o /\ EntryOf(N, e).version = n)
    OBVIOUS
  <2> QED BY <2>1, OtherWrites, SMTT(60)
<1>2. \A n : StoredIn(N, o, n) = StoredIn(L, o, n)
  BY <1>1, StoredSame, SMTT(60)
<1>3. OneWriteEach(N, o, v)
  BY <1>1 DEF Named, OneWriteEach
<1>4. ReadsStored(N, o)
  BY <1>2 DEF Named, Grown, ReadsStored
<1> QED BY <1>2, <1>3, <1>4 DEF Named

(* A write replaces the current version, which no write had replaced, and  *)
(* is the one the next version is named after.                             *)
LEMMA NamedWrite ==
    ASSUME NEW L, NEW N, NEW e, NEW o, NEW v \in Nat, NEW old, Grown(L, N, e),
           Named(L, o, v, old), AllBefore(L, "W", o, v),
           EntryOf(N, e).acc = "W" /\ EntryOf(N, e).objid = o /\ EntryOf(N, e).version = v
    PROVE  Named(N, o, v + 2, EntryOf(N, e).val)
<1>1. \A n : n # v => WritesOf(N, o, n) = WritesOf(L, o, n)
  BY OtherWrites, SMTT(60)
<1>2. WritesOf(L, o, v) = {}
  <2> SUFFICES ASSUME NEW w \in WritesOf(L, o, v) PROVE FALSE
    OBVIOUS
  <2>1. w \in Events(L) /\ EntryOf(L, w).acc = "W" /\ EntryOf(L, w).objid = o /\ EntryOf(L, w).version = v
    BY DEF WritesOf
  <2>2. EntryOf(L, w).version < v
    BY <2>1 DEF AllBefore
  <2> QED BY <2>1, <2>2, SMTT(60)
<1>3. WritesOf(N, o, v) = {e}
  BY <1>2, NewWrite, SMTT(60)
<1>4. (v + 2) % 2 = 0 /\ v % 2 = 0
  BY SMTT(60) DEF Named
<1>5. OneWriteEach(N, o, v + 2)
  <2> SUFFICES ASSUME NEW n \in 0 .. v + 2 - 1, n % 2 = 0
               PROVE  \E w \in WritesOf(N, o, n) : WritesOf(N, o, n) = {w}
    BY SMTT(60) DEF OneWriteEach
  <2>1. CASE n = v
    BY <1>3, <2>1
  <2>2. CASE n # v
    <3>1. n \in 0 .. v - 1
      BY <1>4, <2>2, SMTT(60)
    <3>2. WritesOf(N, o, n) = WritesOf(L, o, n)
      BY <1>1, <2>2
    <3> QED BY <3>1, <3>2 DEF Named, OneWriteEach
  <2> QED BY <2>1, <2>2
<1>6. {EntryOf(N, e).val} = StoredIn(N, o, v + 2)
  <2>1. v + 2 # 0 /\ (v + 2) - 2 = v
    BY SMTT(60)
  <2>2. {EntryOf(N, w).val : w \in {e}} = {EntryOf(N, e).val}
    OBVIOUS
  <2> QED BY <1>3, <2>1, <2>2 DEF StoredIn
<1>7. ReadsStored(N, o)
  <2> SUFFICES ASSUME NEW w \in Events(N), EntryOf(N, w).acc = "R", EntryOf(N, w).objid = o
               PROVE  {EntryOf(N, w).val} = StoredIn(N, o, EntryOf(N, w).version)
    BY DEF ReadsStored
  <2>1. w # e
    OBVIOUS
  <2>2. w \in Events(L) /\ EntryOf(N, w) = EntryOf(L, w)
    BY <2>1 DEF Grown
  <2>3. PICK x : x = EntryOf(L, w).version
    OBVIOUS
  <2>4. x \in Nat /\ x <= v
    BY <2>2, <2>3 DEF AllBefore
  <2>5. x - 2 # v
    BY <2>4, SMTT(60)
  <2>6. StoredIn(N, o, x) = StoredIn(L, o, x)
    BY <1>1, <2>5, StoredSame, SMTT(60)
  <2>7. {EntryOf(L, w).val} = StoredIn(L, o, x)
    BY <2>2, <2>3 DEF Named, ReadsStored
  <2> QED BY <2>2, <2>3, <2>6, <2>7
<1> QED BY <1>4, <1>5, <1>6, <1>7 DEF Named

LEMMA NamesKept ==
    ASSUME NEW L, NEW N, NEW ver, NEW m, \A t \in Thread : N[t].access = L[t].access,
           AllNamed(L, ver, m)
    PROVE  AllNamed(N, ver, m)
<1>1. Events(N) = Events(L)
  BY DEF Events
<1>2. \A a \in Events(L) : EntryOf(N, a) = EntryOf(L, a)
  <2> SUFFICES ASSUME NEW a \in Events(L) PROVE EntryOf(N, a) = EntryOf(L, a)
    OBVIOUS
  <2>1. a[1] \in Thread
    BY EventsAre, SMTT(60)
  <2> QED BY <2>1 DEF EntryOf
<1> SUFFICES ASSUME NEW o \in Obj PROVE Named(N, o, ver[o], m[o])
  BY DEF AllNamed
<1>3. \A n : WritesOf(N, o, n) = WritesOf(L, o, n)
  BY <1>1, <1>2 DEF WritesOf
<1>4. \A n : \A w \in WritesOf(L, o, n) : EntryOf(N, w) = EntryOf(L, w)
  BY <1>2 DEF WritesOf
<1>5. \A n : StoredIn(N, o, n) = StoredIn(L, o, n)
  <2> SUFFICES ASSUME NEW n PROVE StoredIn(N, o, n) = StoredIn(L, o, n)
    OBVIOUS
  <2>1. {EntryOf(N, w).val : w \in WritesOf(L, o, n - 2)} = {EntryOf(L, w).val : w \in WritesOf(L, o, n - 2)}
    BY <1>4
  <2> QED BY <1>3, <2>1 DEF StoredIn
<1>6. Named(L, o, ver[o], m[o])
  BY DEF AllNamed
<1>7. OneWriteEach(N, o, ver[o]) /\ ReadsStored(N, o)
  BY <1>1, <1>2, <1>3, <1>5, <1>6 DEF Named, OneWriteEach, ReadsStored
<1> QED BY <1>5, <1>6, <1>7 DEF Named

(* The access mem_read and mem_write add to the logs                       *)
AccessAdded(L, N, acc, o, v, val) ==
    \E e : /\ Grown(L, N, e)
           /\ EntryOf(N, e).acc = acc /\ EntryOf(N, e).objid = o
           /\ EntryOf(N, e).version = v /\ EntryOf(N, e).val = val

LEMMA AccessNoted ==
    ASSUME RecTypeOK, NEW t \in Thread, NEW o \in Obj, NEW acc, NEW n, NEW val, NEW new,
           Noted(thr[t], n, acc, o, version[o], val, new), thr' = [thr EXCEPT ![t] = n]
    PROVE  AccessAdded(thr, thr', acc, o, version[o], val)
<1>1. thr[t] \in OrderLogs /\ version[o] \in Nat /\ thr \in [Thread -> OrderLogs]
  BY DEF RecTypeOK
<1>2. AccessAppended(thr[t], n, acc, o, version[o])
  BY <1>1, NotedParts
<1>3. Len(thr[t].access) \in Nat /\ thr[t].access \in Seq(MemAcc)
  BY <1>1, LogParts DEF Counted, OrderLogs, AccessLogs
<1>4. thr'[t] = n /\ \A u \in Thread \ {t} : thr'[u] = thr[u]
  BY <1>1
<1>5. OneMore(thr, thr', t, acc, o, version[o])
  BY <1>1, <1>2, <1>3, <1>4 DEF OneMore
<1>6. PICK e : e = <<t, Len(thr[t].access) + 1>>
  OBVIOUS
<1>7. n.access[Len(thr[t].access) + 1].val = val
  BY <1>3, SMTT(30) DEF Noted, LogsExtended
<1>8. EntryOf(thr', e).val = val
  BY <1>4, <1>6, <1>7 DEF EntryOf
<1>9. /\ Grown(thr, thr', e)
      /\ EntryOf(thr', e).acc = acc /\ EntryOf(thr', e).objid = o /\ EntryOf(thr', e).version = version[o]
  BY <1>5, <1>6, EventsGrow, SMTT(60)
<1> QED BY <1>8, <1>9 DEF AccessAdded

LEMMA ReadNamed ==
    ASSUME RecTypeOK, AllNamed(thr, version, mem), NEW t \in Thread, NEW o \in Obj, mem_read(t, o)
    PROVE  AllNamed(thr', version', mem')
<1>1. Noted(thr[t], note_read(thr[t], o, version[o], mem[o]), "R", o, version[o], mem[o],
            [version |-> version[o], memop |-> thr[t].memop])
  BY NoteRead DEF RecTypeOK
<1>2. /\ thr' = [thr EXCEPT ![t] = note_read(thr[t], o, version[o], mem[o])]
      /\ version' = version /\ mem' = mem
  BY DEF mem_read
<1>3. AccessAdded(thr, thr', "R", o, version[o], mem[o])
  BY <1>1, <1>2, AccessNoted
<1>4. PICK e : /\ Grown(thr, thr', e)
               /\ EntryOf(thr', e).acc = "R" /\ EntryOf(thr', e).objid = o
               /\ EntryOf(thr', e).version = version[o] /\ EntryOf(thr', e).val = mem[o]
  BY <1>3 DEF AccessAdded
<1>5. ASSUME NEW p \in Obj PROVE Named(thr', p, version[p], mem[p])
  <2>1. Named(thr, p, version[p], mem[p])
    BY DEF AllNamed
  <2>2. EntryOf(thr', e).objid = p =>
            EntryOf(thr', e).acc = "R" /\ EntryOf(thr', e).version = version[p] /\ EntryOf(thr', e).val = mem[p]
    BY <1>4
  <2> QED BY <1>4, <2>1, <2>2, NamedNoWrite
<1> QED BY <1>2, <1>5 DEF AllNamed

LEMMA WriteNamed ==
    ASSUME RecTypeOK, RecInv, AllNamed(thr, version, mem),
           NEW t \in Thread, NEW o \in Obj, mem_write(t, o)
    PROVE  AllNamed(thr', version', mem')
<1>1. Value(t, thr[t].memop) \in Val
  BY DEF Value, Val, RecTypeOK, OrderLogs
<1>2. PICK val \in Val : val = Value(t, thr[t].memop)
  BY <1>1
<1>3. Noted(thr[t], note_write(thr[t], o, version[o], val), "W", o, version[o], val,
            [version |-> thr[t].last[o].version, memop |-> NoMemop])
  BY NoteWrite DEF RecTypeOK
<1>4. /\ thr' = [thr EXCEPT ![t] = note_write(thr[t], o, version[o], val)]
      /\ version' = [version EXCEPT ![o] = @ + 2] /\ mem' = [mem EXCEPT ![o] = val]
  BY <1>2 DEF mem_write
<1>5. AccessAdded(thr, thr', "W", o, version[o], val)
  BY <1>3, <1>4, AccessNoted
<1>6. PICK e : /\ Grown(thr, thr', e)
               /\ EntryOf(thr', e).acc = "W" /\ EntryOf(thr', e).objid = o
               /\ EntryOf(thr', e).version = version[o] /\ EntryOf(thr', e).val = val
  BY <1>5 DEF AccessAdded
<1>7. /\ version[o] \in Nat /\ version'[o] = version[o] + 2 /\ mem'[o] = val
      /\ \A p \in Obj \ {o} : version'[p] = version[p] /\ mem'[p] = mem[p]
  BY <1>4 DEF RecTypeOK
<1>8. ASSUME NEW p \in Obj PROVE Named(thr', p, version'[p], mem'[p])
  <2>1. Named(thr, p, version[p], mem[p])
    BY DEF AllNamed
  <2>2. CASE p = o
    <3>1. AllBefore(thr, "W", o, version[o])
      BY CurrentIsLatest
    <3>2. Named(thr', o, version[o] + 2, EntryOf(thr', e).val)
      BY <1>6, <1>7, <2>1, <2>2, <3>1, NamedWrite
    <3> QED BY <1>6, <1>7, <2>2, <3>2
  <2>3. CASE p # o
    <3>1. Named(thr', p, version[p], mem[p])
      BY <1>6, <2>1, <2>3, NamedNoWrite
    <3> QED BY <1>7, <2>3, <3>1
  <2> QED BY <2>2, <2>3
<1> QED BY <1>8 DEF AllNamed

LEMMA NamedAlways == RecSpec => []AllNamed(thr, version, mem)
<1>1. RecInit => AllNamed(thr, version, mem)
  <2> SUFFICES ASSUME RecInit, NEW o \in Obj PROVE Named(thr, o, version[o], mem[o])
    BY DEF AllNamed
  <2>1. Events(thr) = {}
    BY SMTT(30) DEF RecInit, Events, mem_init_thr
  <2>2. version[o] = 0 /\ mem[o] = InitVal
    BY DEF RecInit
  <2> QED BY <2>1, <2>2, SMTT(30) DEF Named, OneWriteEach, StoredIn, ReadsStored
<1>2. RecTypeOK /\ RecInv /\ AllNamed(thr, version, mem) /\ [RecNext]_recVars
          => AllNamed(thr, version, mem)'
  <2> SUFFICES ASSUME RecTypeOK, RecInv, AllNamed(thr, version, mem), [RecNext]_recVars
               PROVE  AllNamed(thr', version', mem')
    OBVIOUS
  <2>1. ASSUME NEW t \in Thread, NEW n, n.access = thr[t].access, thr' = [thr EXCEPT ![t] = n],
               version' = version, mem' = mem
        PROVE  AllNamed(thr', version', mem')
    <3>1. \A u \in Thread : thr'[u].access = thr[u].access
      BY <2>1 DEF RecTypeOK
    <3> QED BY <2>1, <3>1, NamesKept
  <2>2. ASSUME NEW t \in Thread, mem_finish_thr(t)
        PROVE  AllNamed(thr', version', mem')
    <3>1. version' = version /\ mem' = mem
      BY <2>2 DEF mem_finish_thr
    <3>2. CASE Finishing(thr[t]) /\ thr' = [thr EXCEPT ![t] = finish_object(@)]
      <4>1. thr[t] \in OrderLogs /\ thr[t].fin \in Obj
        BY <3>2, NObjAssumption, SMTT(60) DEF RecTypeOK, OrderLogs, Finishing, Obj
      <4>2. finish_object(thr[t]).access = thr[t].access
        BY <4>1, FinishObject
      <4> QED BY <3>1, <3>2, <4>2, <2>1
    <3>3. CASE Closing(thr[t]) /\ thr' = [thr EXCEPT ![t] = mark_log_end(@)]
      <4>1. mark_log_end(thr[t]).access = thr[t].access
        BY MarkLogEnd DEF RecTypeOK
      <4> QED BY <3>1, <3>3, <4>1, <2>1
    <3> QED BY <2>2, <3>2, <3>3 DEF mem_finish_thr
  <2>3. CASE UNCHANGED recVars
    BY <2>3 DEF recVars
  <2> QED BY <2>2, <2>3, ReadNamed, WriteNamed DEF RecNext
<1> QED BY <1>1, <1>2, TypeCorrect, RecInvHolds, PTL DEF RecSpec

(* At every moment of a recording, whatever the number of threads, objects *)
(* and accesses, below an object's current version every even number was   *)
(* replaced by exactly one mem_write, the object holds what the write just *)
(* below its version stored, and so did every mem_read return: the version *)
(* in a log entry says which write the access comes after.                 *)
THEOREM VersionsName == RecSpec => []VersionsNameWrites
<1>1. AllNamed(thr, version, mem) => VersionsNameWrites
  BY DEF AllNamed, Named, OneWriteEach, ReadsStored, VersionsNameWrites
<1> QED BY <1>1, NamedAlways, PTL

-----------------------------------------------------------------------------
(* What the consumers of the logs rely on besides: an end mark is the last *)
(* entry of a closed log and of no other, accesses are outside of writes   *)
(* (even versions), and a write stores the value named after it.           *)
EndMarks(l) ==
    /\ \A k \in 1 .. Len(l.wait_version) :
          l.wait_version[k].memop = -1 <=> Closed(l) /\ k = Len(l.wait_version)
    /\ \A k \in 1 .. Len(l.wait_memop) :
          l.wait_memop[k].objid = -1 <=> Closed(l) /\ k = Len(l.wait_memop)
    /\ Closed(l) => Len(l.wait_version) > 0 /\ Len(l.wait_memop) > 0

AccessNames(t, l) ==
    \A i \in Accesses(l) :
        /\ l.access[i].version % 2 = 0
        /\ l.access[i].acc = "W" => l.access[i].val = Value(t, i - 1)

LogMarks == \A t \in Thread : EndMarks(thr[t]) /\ AccessNames(t, thr[t])

LEMMA NotedMarks ==
    ASSUME NEW t \in Thread, NEW l \in OrderLogs, NEW n, NEW acc, NEW o \in Obj, NEW v \in Nat,
           NEW val, NEW new, Noted(l, n, acc, o, v, val, new), Running(l),
           Len(l.access) = l.memop, v % 2 = 0, acc = "W" => val = Value(t, l.memop),
           EndMarks(l), AccessNames(t, l)
    PROVE  EndMarks(n) /\ AccessNames(t, n)
<1>1. /\ n.memop = l.memop + 1 /\ n.fin = l.fin
      /\ AccessAppended(l, n, acc, o, v)
      /\ VersionAppended(l, n, o, v)
      /\ ReaderAppended(l, n, o, LogsReader(l, o, v))
  BY NotedParts
<1>2. Counted(l)
  BY LogParts
<1>3. ~Closed(l) /\ ~Closed(n)
  BY <1>1, NObjAssumption, SMTT(60) DEF Running, Closed
<1>4. o # -1
  BY NObjAssumption, SMTT(60) DEF Obj
<1>5. EndMarks(n)
  <2>1. ASSUME NEW k \in 1 .. Len(n.wait_version) PROVE n.wait_version[k].memop # -1
    <3>1. k \in 1 .. Len(l.wait_version) \/ (LogsVersion(l, o, v) /\ k = Len(l.wait_version) + 1)
      BY <1>1, <1>2, SMTT(60) DEF VersionAppended, Counted
    <3>2. CASE k \in 1 .. Len(l.wait_version)
      BY <1>1, <1>3, <3>2 DEF VersionAppended, EndMarks
    <3>3. CASE LogsVersion(l, o, v) /\ k = Len(l.wait_version) + 1
      BY <1>1, <1>2, <3>3, SMTT(60) DEF VersionAppended, Counted
    <3> QED BY <3>1, <3>2, <3>3
  <2>2. ASSUME NEW k \in 1 .. Len(n.wait_memop) PROVE n.wait_memop[k].objid # -1
    <3>1. k \in 1 .. Len(l.wait_memop) \/ (LogsReader(l, o, v) /\ k = Len(l.wait_memop) + 1)
      BY <1>1, <1>2, SMTT(60) DEF ReaderAppended, Counted
    <3>2. CASE k \in 1 .. Len(l.wait_memop)
      BY <1>1, <1>3, <3>2 DEF ReaderAppended, EndMarks
    <3>3. CASE LogsReader(l, o, v) /\ k = Len(l.wait_memop) + 1
      BY <1>1, <1>4, <3>3 DEF ReaderAppended
    <3> QED BY <3>1, <3>2, <3>3
  <2> QED BY <1>3, <2>1, <2>2 DEF EndMarks
<1>6. AccessNames(t, n)
  <2> SUFFICES ASSUME NEW i \in 1 .. Len(n.access)
               PROVE  /\ n.access[i].version % 2 = 0
                      /\ n.access[i].acc = "W" => n.access[i].val = Value(t, i - 1)
    BY DEF AccessNames, Accesses
  <2>1. i \in 1 .. Len(l.access) \/ i = Len(l.access) + 1
    BY <1>1, <1>2, SMTT(60) DEF AccessAppended, Counted
  <2>2. CASE i \in 1 .. Len(l.access)
    BY <1>1, <2>2 DEF AccessAppended, AccessNames, Accesses
  <2>3. CASE i = Len(l.access) + 1
    <3>1. l.access \in Seq(MemAcc)
      BY DEF OrderLogs, AccessLogs
    <3>2. n.access[Len(l.access) + 1].val = val
      BY <3>1, SMTT(30) DEF Noted, LogsExtended
    <3>3. i - 1 = l.memop
      BY <1>2, <2>3, SMTT(60) DEF Counted
    <3> QED BY <1>1, <2>3, <3>2, <3>3 DEF AccessAppended
  <2> QED BY <2>1, <2>2, <2>3
<1> QED BY <1>5, <1>6

LEMMA FinishMarks ==
    ASSUME NEW t \in Thread, NEW l \in OrderLogs, Finishing(l), EndMarks(l), AccessNames(t, l)
    PROVE  EndMarks(finish_object(l)) /\ AccessNames(t, finish_object(l))
<1>1. l.fin \in Obj /\ ~Closed(l)
  BY NObjAssumption, SMTT(60) DEF Finishing, Closed, Obj, OrderLogs
<1>2. PICK n : n = finish_object(l)
  OBVIOUS
<1>3. /\ n.fin = l.fin + 1 /\ n.wait_version = l.wait_version /\ n.access = l.access
      /\ n.wait_memop = IF l.last[l.fin].memop >= 0
                        THEN Append(l.wait_memop, [objid |-> l.fin,
                                version |-> l.last[l.fin].version, memop |-> l.last[l.fin].memop])
                        ELSE l.wait_memop
  BY <1>1, <1>2, FinishObject
<1>4. ~Closed(n)
  BY <1>1, <1>3, NObjAssumption, SMTT(60) DEF Closed, Obj
<1>5. l.wait_memop \in Seq(WaitMemop \cup {EndOfMemops})
  BY DEF OrderLogs, MemopLogs
<1>6. l.fin # -1
  BY <1>1, NObjAssumption, SMTT(60) DEF Obj
<1>7. ASSUME NEW k \in 1 .. Len(n.wait_memop) PROVE n.wait_memop[k].objid # -1
  <2>1. \A j \in 1 .. Len(l.wait_memop) : l.wait_memop[j].objid # -1
    BY <1>1 DEF EndMarks
  <2>2. CASE n.wait_memop = l.wait_memop
    BY <2>1, <2>2
  <2>3. CASE n.wait_memop = Append(l.wait_memop, [objid |-> l.fin,
                               version |-> l.last[l.fin].version, memop |-> l.last[l.fin].memop])
    BY <1>5, <1>6, <2>1, <2>3, SMTT(60)
  <2> QED BY <1>3, <2>2, <2>3
<1> QED BY <1>1, <1>2, <1>3, <1>4, <1>7 DEF EndMarks, AccessNames, Accesses

LEMMA ClosingMarks ==
    ASSUME NEW t \in Thread, NEW l \in OrderLogs, Closing(l), EndMarks(l), AccessNames(t, l)
    PROVE  EndMarks(mark_log_end(l)) /\ AccessNames(t, mark_log_end(l))
<1>1. PICK n : n = mark_log_end(l)
  OBVIOUS
<1>2. /\ n.fin = l.fin + 1 /\ n.access = l.access
      /\ n.wait_memop = Append(l.wait_memop, EndOfMemops)
      /\ n.wait_version = Append(l.wait_version, EndOfVersions)
  BY <1>1, MarkLogEnd
<1>3. ~Closed(l) /\ Closed(n)
  BY <1>2, NObjAssumption, SMTT(60) DEF Closing, Closed
<1>4. /\ l.wait_memop \in Seq(WaitMemop \cup {EndOfMemops})
      /\ l.wait_version \in Seq(WaitVersion \cup {EndOfVersions})
  BY DEF OrderLogs, MemopLogs, VersionLogs
<1>5. /\ \A k \in 1 .. Len(l.wait_memop) : l.wait_memop[k].objid # -1
      /\ \A k \in 1 .. Len(l.wait_version) : l.wait_version[k].memop # -1
  BY <1>3 DEF EndMarks
<1>6. EndOfMemops.objid = -1 /\ EndOfVersions.memop = -1
  BY DEF EndOfMemops, EndOfVersions
<1>7. /\ \A k \in 1 .. Len(n.wait_memop) : n.wait_memop[k].objid = -1 <=> k = Len(n.wait_memop)
      /\ Len(n.wait_memop) > 0
  BY <1>2, <1>4, <1>5, <1>6, SMTT(60)
<1>8. /\ \A k \in 1 .. Len(n.wait_version) : n.wait_version[k].memop = -1 <=> k = Len(n.wait_version)
      /\ Len(n.wait_version) > 0
  BY <1>2, <1>4, <1>5, <1>6, SMTT(60)
<1> QED BY <1>1, <1>2, <1>3, <1>7, <1>8 DEF EndMarks, AccessNames, Accesses

LEMMA MarksAlways == RecSpec => []LogMarks
<1>1. RecInit => LogMarks
  <2> SUFFICES ASSUME RecInit, NEW t \in Thread
               PROVE  EndMarks(mem_init_thr) /\ AccessNames(t, mem_init_thr)
    BY DEF RecInit, LogMarks
  <2>1. /\ mem_init_thr.access = << >> /\ mem_init_thr.wait_version = << >>
        /\ mem_init_thr.wait_memop = << >> /\ mem_init_thr.fin = 0
    BY DEF mem_init_thr
  <2>2. ~Closed(mem_init_thr)
    BY <2>1, NObjAssumption, SMTT(60) DEF Closed
  <2> QED BY <2>1, <2>2, SMTT(30) DEF EndMarks, AccessNames, Accesses
<1>2. RecTypeOK /\ RecInv /\ AllNamed(thr, version, mem) /\ LogMarks /\ [RecNext]_recVars => LogMarks'
  <2> SUFFICES ASSUME RecTypeOK, RecInv, AllNamed(thr, version, mem), LogMarks, [RecNext]_recVars
               PROVE  LogMarks'
    OBVIOUS
  <2>1. ASSUME NEW t \in Thread, NEW n, thr' = [thr EXCEPT ![t] = n], EndMarks(n), AccessNames(t, n)
        PROVE  LogMarks'
    BY <2>1 DEF LogMarks, RecTypeOK
  <2>2. ASSUME NEW t \in Thread
        PROVE  thr[t] \in OrderLogs /\ Len(thr[t].access) = thr[t].memop /\ EndMarks(thr[t]) /\ AccessNames(t, thr[t])
    BY DEF RecTypeOK, RecInv, LogInv, AccessesBounded, LogMarks
  <2>3. ASSUME NEW o \in Obj PROVE version[o] \in Nat /\ version[o] % 2 = 0 /\ mem[o] \in Val
    BY DEF AllNamed, Named, RecTypeOK
  <2>4. ASSUME NEW t \in Thread, NEW o \in Obj, mem_read(t, o)
        PROVE  LogMarks'
    <3>1. PICK n : n = note_read(thr[t], o, version[o], mem[o])
      OBVIOUS
    <3>2. Noted(thr[t], n, "R", o, version[o], mem[o], [version |-> version[o], memop |-> thr[t].memop])
      BY <2>2, <2>3, <3>1, NoteRead
    <3>3. Running(thr[t]) /\ thr' = [thr EXCEPT ![t] = n]
      BY <2>4, <3>1 DEF mem_read, MayAccess
    <3>4. EndMarks(n) /\ AccessNames(t, n)
      BY <2>2, <2>3, <3>2, <3>3, NotedMarks, SMTT(60)
    <3> QED BY <2>1, <3>3, <3>4
  <2>5. ASSUME NEW t \in Thread, NEW o \in Obj, mem_write(t, o)
        PROVE  LogMarks'
    <3>1. PICK val \in Val : val = Value(t, thr[t].memop)
      BY <2>2 DEF Value, Val, OrderLogs
    <3>2. PICK n : n = note_write(thr[t], o, version[o], val)
      OBVIOUS
    <3>3. Noted(thr[t], n, "W", o, version[o], val, [version |-> thr[t].last[o].version, memop |-> NoMemop])
      BY <2>2, <2>3, <3>2, NoteWrite
    <3>4. Running(thr[t]) /\ thr' = [thr EXCEPT ![t] = n]
      BY <2>5, <3>1, <3>2 DEF mem_write, MayAccess
    <3>5. EndMarks(n) /\ AccessNames(t, n)
      BY <2>2, <2>3, <3>1, <3>3, <3>4, NotedMarks, SMTT(60)
    <3> QED BY <2>1, <3>4, <3>5
  <2>6. ASSUME NEW t \in Thread, mem_finish_thr(t)
        PROVE  LogMarks'
    <3>1. CASE Finishing(thr[t]) /\ thr' = [thr EXCEPT ![t] = finish_object(@)]
      BY <2>1, <2>2, <3>1, FinishMarks
    <3>2. CASE Closing(thr[t]) /\ thr' = [thr EXCEPT ![t] = mark_log_end(@)]
      BY <2>1, <2>2, <3>2, ClosingMarks
    <3> QED BY <2>6, <3>1, <3>2 DEF mem_finish_thr
  <2>7. CASE UNCHANGED recVars
    BY <2>7 DEF LogMarks, recVars
  <2> QED BY <2>4, <2>5, <2>6, <2>7 DEF RecNext
<1> QED BY <1>1, <1>2, TypeCorrect, RecInvHolds, NamedAlways, PTL DEF RecSpec
=============================================================================
