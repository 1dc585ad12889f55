------------------------------ MODULE OrderLog ------------------------------
(***************************************************************************)
(* The order logs one recording thread keeps (mem-record.c): what is       *)
(* appended, when, and what is remembered of the previous access to each   *)
(* object.  Everything here is thread-local (__thread) state, so it is     *)
(* modelled by operators on one record per thread:                         *)
(*                                                                         *)
(*   memop         accesses the thread has made so far (the number of the  *)
(*                 next one)                                               *)
(*   last          g_last: for each object the version and memop of the    *)
(*                 thread's last read; memop = -1 when there was no access *)
(*                 or the last one was a write                             *)
(*   wait_version  log "version": access memop must see version            *)
(*   wait_memop    log "memop": the read memop of objid got version        *)
(*   access        log "debug-access", one entry per access                *)
(*   fin           progress of mem_finish_thr: the next object of its loop *)
(***************************************************************************)
EXTENDS Integers, Sequences, FiniteSets

CONSTANTS Thread,       \* recording threads
          NObj          \* g_nobj, the number of shared objects

ASSUME NObjAssumption == NObj \in Nat \ {0}
ASSUME ThreadAssumption == IsFiniteSet(Thread) /\ Thread # {}

Obj == 0 .. NObj - 1

(* Program data.  The value an access stores is named after the access, so *)
(* that no two writes store the same value.                                *)
InitVal == << >>
Value(t, memop) == <<t, memop>>
Val == {InitVal} \cup (Thread \X Nat)

NoMemop == -1
EndOfVersions == [memop |-> -1, version |-> -1]
EndOfMemops == [objid |-> -1, version |-> -1, memop |-> -1]

WaitVersion == [memop : Nat, version : Nat]
WaitMemop == [objid : Obj, version : Nat, memop : Nat]
MemAcc == [acc : {"R", "W"}, objid : Obj, version : Nat, val : Val]

LastObjInfo == [version : Nat, memop : Nat \cup {NoMemop}]

LastInfos == [Obj -> LastObjInfo]
VersionLogs == Seq(WaitVersion \cup {EndOfVersions})
MemopLogs == Seq(WaitMemop \cup {EndOfMemops})
AccessLogs == Seq(MemAcc)

OrderLogs ==
    [memop : Nat, last : LastInfos, wait_version : VersionLogs,
     wait_memop : MemopLogs, access : AccessLogs, fin : Nat]

-----------------------------------------------------------------------------
(* mem_init_thr: calloc'ed versions, last memops reset to -1, empty logs   *)
mem_init_thr ==
    [memop |-> 0,
     last |-> [o \in Obj |-> [version |-> 0, memop |-> NoMemop]],
     wait_version |-> << >>,
     wait_memop |-> << >>,
     access |-> << >>,
     fin |-> 0]

log_wait_version(l, version) ==
    [l EXCEPT !.wait_version = Append(@, [memop |-> l.memop, version |-> version])]

log_other_wait_memop(l, o) ==
    [l EXCEPT !.wait_memop =
        Append(@, [objid |-> o, version |-> l.last[o].version, memop |-> l.last[o].memop])]

(* Mutant: "last access was a write" is not told apart                      *)
log_last_read_always(l, o) == log_other_wait_memop(l, o)

log_last_read(l, o) ==
    IF l.last[o].memop >= 0 THEN log_other_wait_memop(l, o) ELSE l

(* Mutant: the previous read is not logged                                 *)
log_order_version_only(l, o, version) == log_wait_version(l, version)

log_order(l, o, version) == log_last_read(log_wait_version(l, version), o)

log_access(l, acc, o, version, val) ==
    [l EXCEPT !.access =
        Append(@, [acc |-> acc, objid |-> o, version |-> version, val |-> val])]

(* Bookkeeping after a read that saw version, and after a write that       *)
(* replaced version.  Only a read updates the remembered version.          *)
note_read(l, o, version, val) ==
    LET m == IF l.last[o].version # version THEN log_order(l, o, version) ELSE l
    IN  [log_access(m, "R", o, version, val) EXCEPT
            !.last = [@ EXCEPT ![o] = [version |-> version, memop |-> l.memop]],
            !.memop = @ + 1]

(* Mutant: a write that takes no logs                                      *)
note_write_unlogged(l, o, version, val) ==
    [log_access(l, "W", o, version, val) EXCEPT
        !.last = [@ EXCEPT ![o] = [version |-> l.last[o].version, memop |-> NoMemop]],
        !.memop = @ + 1]

note_write(l, o, version, val) ==
    LET m == IF l.last[o].version # version THEN log_order(l, o, version) ELSE l
    IN  [log_access(m, "W", o, version, val) EXCEPT
            !.last = [@ EXCEPT ![o] = [version |-> l.last[o].version, memop |-> NoMemop]],
            !.memop = @ + 1]

(* mem_finish_thr: one iteration of its loop, then the end marks           *)
finish_object(l) == [log_last_read(l, l.fin) EXCEPT !.fin = @ + 1]

mark_log_end(l) ==
    [l EXCEPT !.wait_version = Append(@, EndOfVersions),
              !.wait_memop = Append(@, EndOfMemops),
              !.fin = @ + 1]

Running(l) == l.fin = 0
Finishing(l) == l.fin < NObj
Closing(l) == l.fin = NObj
Closed(l) == l.fin = NObj + 1

-----------------------------------------------------------------------------
(* The order a recording L claims for its accesses: program order, and on  *)
(* each object the order of versions, a read of a version coming before    *)
(* the write that replaces it.  Access i of thread t is <<t, i>>.          *)
Events(L) == UNION {{t} \X (1 .. Len(L[t].access)) : t \in Thread}

Before(L, a, b) ==
    LET x == L[a[1]].access[a[2]]
        y == L[b[1]].access[b[2]]
    IN  \/ a[1] = b[1] /\ a[2] < b[2]
        \/ x.objid = y.objid /\ x.acc = "W" /\ x.version < y.version
        \/ x.objid = y.objid /\ x.acc = "R" /\ y.acc = "W" /\ x.version <= y.version

(* Every nonempty set of accesses has a first one                          *)
Orderable(L) ==
    \A S \in SUBSET Events(L) :
        S # {} => \E b \in S : \A a \in S : ~Before(L, a, b)
=============================================================================
