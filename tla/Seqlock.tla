------------------------------ MODULE Seqlock -------------------------------
(***************************************************************************)
(* mem-record-seqlock.c with the spinlock of spinlock.h, on x86-TSO: every *)
(* thread has a FIFO store buffer, a load takes the newest buffered store  *)
(* of its own thread before memory, and the locked instructions (xchgb of  *)
(* spin_lock, __sync_synchronize) wait for the buffer to drain.  One step  *)
(* is one shared load or store; the thread-local bookkeeping that follows  *)
(* the last one belongs to its step.                                       *)
(***************************************************************************)
EXTENDS OrderLog

CONSTANT MaxOps         \* bound: accesses per thread

ASSUME MaxOpsIsNat == MaxOps \in Nat

VARIABLES version,      \* g_objinfo[o].version in memory
          mem,          \* the object's value in memory
          write_lock,   \* g_objinfo[o].write_lock in memory
          buf,          \* store buffer of every thread, oldest first
          pc,           \* where every thread is
          loc,          \* locals of the access in progress
          thr           \* thread-local record (OrderLog)

vars == <<version, mem, write_lock, buf, pc, loc, thr>>
shared == <<version, mem, write_lock>>

BUSY == 1
PCs == {"idle", "r_version", "r_value", "r_validate",
        "w_lock", "w_odd", "w_value", "w_fence", "w_even", "w_unlock"}

Init ==
    /\ version = [o \in Obj |-> 0]
    /\ mem = [o \in Obj |-> InitVal]
    /\ write_lock = [o \in Obj |-> 0]
    /\ buf = [t \in Thread |-> << >>]
    /\ pc = [t \in Thread |-> "idle"]
    /\ loc = [t \in Thread |-> [objid |-> 0, version |-> 0, val |-> InitVal]]
    /\ thr = [t \in Thread |-> mem_init_thr]

-----------------------------------------------------------------------------
(* x86-TSO                                                                 *)

Pending(t, to, o) == {i \in 1 .. Len(buf[t]) : buf[t][i].to = to /\ buf[t][i].objid = o}

Load(t, to, o) ==
    IF Pending(t, to, o) # {}
    THEN buf[t][CHOOSE i \in Pending(t, to, o) : \A j \in Pending(t, to, o) : j <= i].val
    ELSE CASE to = "version" -> version[o] [] to = "mem" -> mem[o] [] to = "lock" -> write_lock[o]

Push(t, to, o, val) ==
    buf' = [buf EXCEPT ![t] = Append(@, [to |-> to, objid |-> o, val |-> val])]

Drained(t) == buf[t] = << >>

(* The oldest buffered store of t reaches memory                           *)
Flush(t) ==
    /\ ~Drained(t)
    /\ LET s == Head(buf[t])
       IN  /\ version' = IF s.to = "version" THEN [version EXCEPT ![s.objid] = s.val] ELSE version
           /\ mem' = IF s.to = "mem" THEN [mem EXCEPT ![s.objid] = s.val] ELSE mem
           /\ write_lock' = IF s.to = "lock" THEN [write_lock EXCEPT ![s.objid] = s.val] ELSE write_lock
    /\ buf' = [buf EXCEPT ![t] = Tail(@)]
    /\ UNCHANGED <<pc, loc, thr>>

-----------------------------------------------------------------------------
At(t, here) == pc[t] = here
Goto(t, there) == pc' = [pc EXCEPT ![t] = there]
Even(n) == n % 2 = 0

(* The program calls mem_read or mem_write on some object                  *)
Call(t, o, entry) ==
    /\ At(t, "idle") /\ Running(thr[t]) /\ thr[t].memop < MaxOps
    /\ loc' = [loc EXCEPT ![t].objid = o]
    /\ Goto(t, entry)
    /\ UNCHANGED <<shared, buf, thr>>

(* mem_read: wait for an even version, read the value, retry if the        *)
(* version moved.                                                          *)
read_version(t) ==
    LET v == Load(t, "version", loc[t].objid)
    IN  /\ At(t, "r_version")
        /\ Even(v)
        /\ loc' = [loc EXCEPT ![t].version = v]
        /\ Goto(t, "r_value")
        /\ UNCHANGED <<shared, buf, thr>>

read_value(t) ==
    /\ At(t, "r_value")
    /\ loc' = [loc EXCEPT ![t].val = Load(t, "mem", loc[t].objid)]
    /\ Goto(t, "r_validate")
    /\ UNCHANGED <<shared, buf, thr>>

(* Mutants: the second look at the version is missing, or its test is      *)
(* inverted.                                                               *)
read_validate_missing(t) ==
    /\ At(t, "r_validate")
    /\ thr' = [thr EXCEPT ![t] = note_read(@, loc[t].objid, loc[t].version, loc[t].val)]
    /\ Goto(t, "idle")
    /\ UNCHANGED <<shared, buf, loc>>

read_validate_inverted(t) ==
    /\ At(t, "r_validate")
    /\ IF Load(t, "version", loc[t].objid) # loc[t].version
       THEN /\ thr' = [thr EXCEPT ![t] = note_read(@, loc[t].objid, loc[t].version, loc[t].val)]
            /\ Goto(t, "idle")
       ELSE /\ Goto(t, "r_version")
            /\ UNCHANGED thr
    /\ UNCHANGED <<shared, buf, loc>>

read_validate(t) ==
    /\ At(t, "r_validate")
    /\ IF Load(t, "version", loc[t].objid) = loc[t].version
       THEN /\ thr' = [thr EXCEPT ![t] = note_read(@, loc[t].objid, loc[t].version, loc[t].val)]
            /\ Goto(t, "idle")
       ELSE /\ Goto(t, "r_version")
            /\ UNCHANGED thr
    /\ UNCHANGED <<shared, buf, loc>>

(* Mutant: the result of xchgb is ignored                                  *)
spin_lock_ignored(t) ==
    /\ At(t, "w_lock")
    /\ Drained(t)
    /\ write_lock' = [write_lock EXCEPT ![loc[t].objid] = BUSY]
    /\ Goto(t, "w_odd")
    /\ UNCHANGED <<version, mem, buf, loc, thr>>

(* mem_write: spin_lock's xchgb, the odd version, the value, the fence,    *)
(* the even version, spin_unlock's plain store and the bookkeeping.        *)
spin_lock(t) ==
    /\ At(t, "w_lock")
    /\ Drained(t) /\ write_lock[loc[t].objid] # BUSY
    /\ write_lock' = [write_lock EXCEPT ![loc[t].objid] = BUSY]
    /\ Goto(t, "w_odd")
    /\ UNCHANGED <<version, mem, buf, loc, thr>>

(* Mutant: the version is not made odd                                     *)
write_odd_missing(t) ==
    LET v == Load(t, "version", loc[t].objid)
    IN  /\ At(t, "w_odd")
        /\ loc' = [loc EXCEPT ![t].version = v, ![t].val = Value(t, thr[t].memop)]
        /\ Goto(t, "w_value")
        /\ UNCHANGED <<shared, buf, thr>>

write_odd(t) ==
    LET v == Load(t, "version", loc[t].objid)
    IN  /\ At(t, "w_odd")
        /\ loc' = [loc EXCEPT ![t].version = v, ![t].val = Value(t, thr[t].memop)]
        /\ Push(t, "version", loc[t].objid, v + 1)
        /\ Goto(t, "w_value")
        /\ UNCHANGED <<shared, thr>>

write_value(t) ==
    /\ At(t, "w_value")
    /\ Push(t, "mem", loc[t].objid, loc[t].val)
    /\ Goto(t, "w_fence")
    /\ UNCHANGED <<shared, loc, thr>>

(* Mutant: a compiler barrier in place of __sync_synchronize               *)
write_fence_compiler_only(t) ==
    /\ At(t, "w_fence")
    /\ Goto(t, "w_even")
    /\ UNCHANGED <<shared, buf, loc, thr>>

write_fence(t) ==
    /\ At(t, "w_fence")
    /\ Drained(t)
    /\ Goto(t, "w_even")
    /\ UNCHANGED <<shared, buf, loc, thr>>

write_even(t) ==
    /\ At(t, "w_even")
    /\ Push(t, "version", loc[t].objid, Load(t, "version", loc[t].objid) + 1)
    /\ Goto(t, "w_unlock")
    /\ UNCHANGED <<shared, loc, thr>>

spin_unlock(t) ==
    /\ At(t, "w_unlock")
    /\ Push(t, "lock", loc[t].objid, 0)
    /\ thr' = [thr EXCEPT ![t] = note_write(@, loc[t].objid, loc[t].version, loc[t].val)]
    /\ Goto(t, "idle")
    /\ UNCHANGED <<shared, loc>>

mem_finish_thr(t) ==
    /\ At(t, "idle")
    /\ \/ Finishing(thr[t]) /\ thr' = [thr EXCEPT ![t] = finish_object(@)]
       \/ Closing(thr[t]) /\ thr' = [thr EXCEPT ![t] = mark_log_end(@)]
    /\ UNCHANGED <<shared, buf, pc, loc>>

Step(t) ==
    \/ \E o \in Obj : Call(t, o, "r_version") \/ Call(t, o, "w_lock")
    \/ read_version(t) \/ read_value(t) \/ read_validate(t)
    \/ spin_lock(t) \/ write_odd(t) \/ write_value(t) \/ write_fence(t)
    \/ write_even(t) \/ spin_unlock(t)
    \/ mem_finish_thr(t)

Next == \E t \in Thread : Step(t) \/ Flush(t)

(* A runnable thread is scheduled, and a store buffer drains, eventually.  *)
Fairness == \A t \in Thread : WF_vars(Step(t)) /\ WF_vars(Flush(t))

Spec == Init /\ [][Next]_vars
FairSpec == Spec /\ Fairness

-----------------------------------------------------------------------------
(* Refinement.  A write takes effect when its value store reaches memory:  *)
(* from then on, until the even version is there, the object's version is  *)
(* the next even one, and until spin_unlock the writer's logs already      *)
(* include the write.  A read takes effect when it validates.              *)

Committed(t) ==
    \/ At(t, "w_even") \/ At(t, "w_unlock")
    \/ At(t, "w_fence") /\ Pending(t, "mem", loc[t].objid) = {}

Uncommitted(t) ==
    \/ At(t, "w_value")
    \/ At(t, "w_fence") /\ Pending(t, "mem", loc[t].objid) # {}

versionBar ==
    [o \in Obj |->
        IF Even(version[o]) THEN version[o]
        ELSE IF \E t \in Thread : loc[t].objid = o /\ Uncommitted(t) THEN version[o] - 1
        ELSE version[o] + 1]

thrBar ==
    [t \in Thread |->
        IF Committed(t) THEN note_write(thr[t], loc[t].objid, loc[t].version, loc[t].val)
        ELSE thr[t]]

Rec == INSTANCE Recorder WITH version <- versionBar, thr <- thrBar

(* Version and value are accessed atomically by mem_read and mem_write,    *)
(* and the logs are those of the atomic accesses: the seqlock, on x86-TSO, *)
(* implements Recorder ("Provide atomic version & memory access by         *)
(* seqlock").                                                              *)
AtomicAccess == Rec!RecSpec

(* Between accesses, at every point of mem_finish_thr too, a thread's logs *)
(* hold all replay needs of its accesses and nothing wrong, whatever the   *)
(* other threads are in the middle of.                                     *)
LogsCompleteExact ==
    \A t \in Thread : At(t, "idle") =>
        /\ Rec!ReadsLogged(thr[t]) /\ Rec!ReadersExact(thr[t])
        /\ Rec!VersionsLogged(thr[t]) /\ Rec!VersionsExact(thr[t])

(* The recorded versions never contradict program order: the situation the *)
(* comment in mem_read draws, where two threads each write one object and  *)
(* then read the other's old version, is not recorded.                     *)
RecordedOrderAcyclic == Orderable(thr)

(* Writers of an object exclude each other until the unlocking store is in *)
(* memory: of the threads between spin_lock and that point only one, and   *)
(* only while the lock is busy.  The unlocking store may linger in the     *)
(* store buffer while its thread goes on.                                  *)
Owns(t, o) ==
    \/ pc[t] \in {"w_odd", "w_value", "w_fence", "w_even", "w_unlock"} /\ loc[t].objid = o
    \/ Pending(t, "lock", o) # {}

WritersExclude ==
    \A o \in Obj :
        /\ \A t, u \in Thread : Owns(t, o) /\ Owns(u, o) => t = u
        /\ write_lock[o] = BUSY <=> \E t \in Thread : Owns(t, o)

(* What read_validate relies on: although the writer's stores are delayed, *)
(* in memory a version only moves one up at a time, and the value only     *)
(* changes while its version is odd.                                       *)
ChangesUnderOddVersion ==
    [][\A o \in Obj : /\ version'[o] \in {version[o], version[o] + 1}
                      /\ mem'[o] # mem[o] => ~Even(version[o])]_vars

(* No reader spins forever on an odd or moving version, no writer on the   *)
(* lock: every thread gets to close its logs, and its stores get out.      *)
EveryThreadCloses == \A t \in Thread : <>(Closed(thr[t]) /\ Drained(t))
=============================================================================
