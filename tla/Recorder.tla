------------------------------ MODULE Recorder ------------------------------
(***************************************************************************)
(* What the recording library promises of mem_read and mem_write: each is  *)
(* one atomic access to an object's value and version, and the thread's    *)
(* order logs are extended as mem-record.c does.  The implementations      *)
(* (Seqlock here) are shown to refine this module; the consumers of the    *)
(* logs (MemopMerge, Replay) are checked on the logs it produces.          *)
(***************************************************************************)
EXTENDS OrderLog

CONSTANT MaxOps         \* bound: accesses per thread

ASSUME MaxOpsAssumption == MaxOps \in Nat

VARIABLES version,      \* g_objinfo[o].version: two per write
          mem,          \* the object's value
          thr           \* thread-local record of every thread (OrderLog)

recVars == <<version, mem, thr>>

RecTypeOK ==
    /\ version \in [Obj -> Nat]
    /\ mem \in [Obj -> Val]
    /\ thr \in [Thread -> OrderLogs]

RecInit ==
    /\ version = [o \in Obj |-> 0]
    /\ mem = [o \in Obj |-> InitVal]
    /\ thr = [t \in Thread |-> mem_init_thr]

MayAccess(t) == Running(thr[t]) /\ thr[t].memop < MaxOps

mem_read(t, o) ==
    /\ MayAccess(t)
    /\ thr' = [thr EXCEPT ![t] = note_read(@, o, version[o], mem[o])]
    /\ UNCHANGED <<version, mem>>

(* Mutant: the version moves by one                                        *)
mem_write_single_step(t, o) ==
    LET val == Value(t, thr[t].memop)
    IN  /\ MayAccess(t)
        /\ mem' = [mem EXCEPT ![o] = val]
        /\ version' = [version EXCEPT ![o] = @ + 1]
        /\ thr' = [thr EXCEPT ![t] = note_write(@, o, version[o], val)]

mem_write(t, o) ==
    LET val == Value(t, thr[t].memop)
    IN  /\ MayAccess(t)
        /\ mem' = [mem EXCEPT ![o] = val]
        /\ version' = [version EXCEPT ![o] = @ + 2]
        /\ thr' = [thr EXCEPT ![t] = note_write(@, o, version[o], val)]

(* mem_finish_thr, one loop iteration or the final marks per step: other   *)
(* threads may still be writing.                                           *)
mem_finish_thr(t) ==
    /\ \/ Finishing(thr[t]) /\ thr' = [thr EXCEPT ![t] = finish_object(@)]
       \/ Closing(thr[t]) /\ thr' = [thr EXCEPT ![t] = mark_log_end(@)]
    /\ UNCHANGED <<version, mem>>

AllClosed == \A t \in Thread : Closed(thr[t])

RecNext ==
    \/ \E t \in Thread, o \in Obj : mem_read(t, o) \/ mem_write(t, o)
    \/ \E t \in Thread : mem_finish_thr(t)

RecSpec == RecInit /\ [][RecNext]_recVars

-----------------------------------------------------------------------------
(* Vocabulary of the properties, on the record l of one thread: access i   *)
(* of the thread has memop i-1.                                            *)

Accesses(l) == 1 .. Len(l.access)
IsRead(l, i) == l.access[i].acc = "R"
IsWrite(l, i) == l.access[i].acc = "W"
SameObj(l, i, j) == l.access[i].objid = l.access[j].objid

(* i is the thread's latest access to o                                    *)
Latest(l, i, o) ==
    /\ i \in Accesses(l) /\ l.access[i].objid = o
    /\ \A j \in Accesses(l) : j > i => l.access[j].objid # o

WaitsForVersion(l, i) ==
    \E k \in 1 .. Len(l.wait_version) :
        l.wait_version[k].memop = i - 1 /\ l.wait_version[k].version = l.access[i].version

FirstAtZero(l, i) ==
    l.access[i].version = 0 /\ \A j \in Accesses(l) : j < i => ~SameObj(l, j, i)

FollowsOwnRead(l, i) ==
    \E j \in Accesses(l) :
        /\ j < i /\ SameObj(l, j, i)
        /\ \A k \in Accesses(l) : j < k /\ k < i => ~SameObj(l, k, i)
        /\ IsRead(l, j) /\ l.access[j].version = l.access[i].version

(* Every access whose version replay could not know without help is in the *)
(* version log.  An access is left out only when it is the thread's first  *)
(* to the object and saw version 0, or directly follows the thread's own   *)
(* read of the same version (the lastobj->version test of mem_read and     *)
(* mem_write).                                                             *)
VersionsLogged(l) ==
    \A i \in Accesses(l) : WaitsForVersion(l, i) \/ FirstAtZero(l, i) \/ FollowsOwnRead(l, i)

VersionLogComplete == \A t \in Thread : VersionsLogged(thr[t])

ReaderLogged(l, i) ==
    \E k \in 1 .. Len(l.wait_memop) :
        /\ l.wait_memop[k].objid = l.access[i].objid
        /\ l.wait_memop[k].version = l.access[i].version
        /\ l.wait_memop[k].memop >= i - 1

ReaderPending(l, i) ==
    LET last == l.last[l.access[i].objid]
    IN  l.fin <= l.access[i].objid /\ last.version = l.access[i].version /\ last.memop >= i - 1

OverwrittenByItself(l, i) ==
    \E j \in Accesses(l) :
        i < j /\ SameObj(l, i, j) /\ IsWrite(l, j) /\ l.access[j].version = l.access[i].version

(* No read is lost to the writer that overwrites what it read: the version *)
(* is covered by a wait_memop entry for that or a later read of the thread *)
(* (log_order, and the final loop of mem_finish_thr), is still pending in  *)
(* g_last, or was overwritten by the reading thread itself.                *)
ReadsLogged(l) ==
    \A i \in Accesses(l) : IsRead(l, i) =>
        ReaderLogged(l, i) \/ ReaderPending(l, i) \/ OverwrittenByItself(l, i)

ReaderLogComplete == \A t \in Thread : ReadsLogged(thr[t])

(* Every wait_memop entry names a real read of that version, which the     *)
(* thread itself did not overwrite; the versions of an object increase     *)
(* along the log, which is the order reorder-memop and merge-memop rely on.*)
ReaderEntryExact(l, k) ==
    LET e == l.wait_memop[k]
    IN  /\ e.memop + 1 \in Accesses(l)
        /\ IsRead(l, e.memop + 1)
        /\ l.access[e.memop + 1].objid = e.objid
        /\ l.access[e.memop + 1].version = e.version
        /\ \A i \in Accesses(l) :
              IsWrite(l, i) /\ l.access[i].objid = e.objid => l.access[i].version # e.version
        /\ \A n \in 1 .. Len(l.wait_memop) :
              n < k /\ l.wait_memop[n].objid = e.objid => l.wait_memop[n].version < e.version

ReadersExact(l) ==
    \A k \in 1 .. Len(l.wait_memop) :
        l.wait_memop[k].objid # -1 => ReaderEntryExact(l, k)

ReaderLogExact == \A t \in Thread : ReadersExact(thr[t])

(* The version log is consumed front to back by next_wait_version_log, so  *)
(* its memops must increase; each entry carries the version its access saw.*)
VersionEntryExact(l, k) ==
    LET e == l.wait_version[k]
    IN  /\ e.memop + 1 \in Accesses(l)
        /\ l.access[e.memop + 1].version = e.version
        /\ \A n \in 1 .. Len(l.wait_version) : n < k => l.wait_version[n].memop < e.memop

VersionsExact(l) ==
    \A k \in 1 .. Len(l.wait_version) :
        l.wait_version[k].memop # -1 => VersionEntryExact(l, k)

VersionLogExact == \A t \in Thread : VersionsExact(thr[t])

(* The entry of access a = <<t, i>>, the writes that replaced version v of *)
(* o, and the value the last write before version v stored                 *)
EntryOf(L, a) == L[a[1]].access[a[2]]

WritesOf(L, o, v) ==
    {w \in Events(L) : /\ EntryOf(L, w).acc = "W" /\ EntryOf(L, w).objid = o
                       /\ EntryOf(L, w).version = v}

StoredIn(L, o, v) ==
    IF v = 0 THEN {InitVal} ELSE {EntryOf(L, w).val : w \in WritesOf(L, o, v - 2)}

(* Versions name writes: below an object's current version every even      *)
(* number was replaced by exactly one write, and what a read returned is   *)
(* what the write just below its version stored.                           *)
VersionsNameWrites ==
    \A o \in Obj :
        /\ \A n \in 0 .. version[o] - 1 :
              n % 2 = 0 => \E w \in WritesOf(thr, o, n) : WritesOf(thr, o, n) = {w}
        /\ {mem[o]} = StoredIn(thr, o, version[o])
        /\ \A w \in Events(thr) :
              LET e == EntryOf(thr, w)
              IN  e.acc = "R" /\ e.objid = o => {e.val} = StoredIn(thr, o, e.version)

-----------------------------------------------------------------------------
(* The inductive invariant behind the log properties.  Of one thread's     *)
(* record l and the objects' versions ver:                                 *)

(* accesses are counted by memop, and saw versions that have been reached  *)
(* (a write: left behind), never going back on an object;                  *)
AccessesBounded(l, ver) ==
    /\ Len(l.access) = l.memop
    /\ \A i \in Accesses(l) :
          LET a == l.access[i]
          IN  IF a.acc = "W" THEN a.version < ver[a.objid] ELSE a.version <= ver[a.objid]
    /\ \A i, j \in Accesses(l) : i < j /\ SameObj(l, i, j) =>
          IF IsWrite(l, i) THEN l.access[i].version < l.access[j].version
          ELSE l.access[i].version <= l.access[j].version

(* g_last describes the latest access to the object: a read it names       *)
(* exactly, or a write of at least the remembered version, or none at all; *)
LastDescribesLatest(l) ==
    \A o \in Obj :
        LET last == l.last[o]
        IN  IF last.memop >= 0
            THEN /\ Latest(l, last.memop + 1, o)
                 /\ IsRead(l, last.memop + 1)
                 /\ l.access[last.memop + 1].version = last.version
            ELSE \/ last.version = 0 /\ \A i \in Accesses(l) : l.access[i].objid # o
                 \/ \E i \in Accesses(l) :
                       Latest(l, i, o) /\ IsWrite(l, i) /\ last.version <= l.access[i].version

(* a logged read is of a version older than the one remembered, unless the *)
(* remembered one is spent, and of one overwritten, unless the thread is   *)
(* finishing; there is no end mark before the end.                         *)
LoggedReadsOld(l, ver) ==
    /\ \A k \in 1 .. Len(l.wait_memop) :
          LET e == l.wait_memop[k]
          IN  e.objid # -1 =>
                /\ e.version <= l.last[e.objid].version
                /\ e.version = l.last[e.objid].version =>
                      l.last[e.objid].memop = NoMemop \/ l.fin > e.objid
                /\ e.version < ver[e.objid] \/ l.fin > 0
    /\ \A k \in 1 .. Len(l.wait_version) :
          l.wait_version[k].memop < l.memop

LogInv(l, ver) ==
    /\ AccessesBounded(l, ver)
    /\ LastDescribesLatest(l)
    /\ LoggedReadsOld(l, ver)
    /\ VersionsLogged(l) /\ ReadsLogged(l) /\ ReadersExact(l) /\ VersionsExact(l)

(* Every thread's logs, at every point of the recording, satisfy the       *)
(* inductive invariant of the bookkeeping in mem_read, mem_write and       *)
(* mem_finish_thr.                                                         *)
RecInv == \A t \in Thread : LogInv(thr[t], version)
=============================================================================
