------------------------------- MODULE Replay -------------------------------
(***************************************************************************)
(* Replay (mem-replay.c) of one recorded execution from its logs.  The     *)
(* replayed program is deterministic but for its shared reads, so access i *)
(* of a thread is the access it recorded as long as every earlier read     *)
(* returned the recorded value (AccessesReplayed).  A step is at most one  *)
(* shared load or store.                                                   *)
(***************************************************************************)
EXTENDS OrderLog

VARIABLES version_log,  \* input: "version" log of every thread
          access_log,   \* input: "debug-access" log of every thread
          memop_log,    \* input: merged "memop" log
          index_log,    \* input: "memop-index"
          rmem,         \* the object's value in the replayed execution
          obj_version,
          memop_cnt,    \* memop of every thread, read by the others
          wait_version, \* the entry every thread will wait for next
          vbuf,         \* entries of its version log a thread has taken
          wait_reader_log, \* per object: first entry, size, next entry n, mutex
          rpc,
          rloc          \* locals: value read, reader entry waited for

repVars == <<rmem, obj_version, memop_cnt, wait_version, vbuf, wait_reader_log, rpc, rloc>>

ReaderLog == [log : Nat, n : Nat, size : Nat \cup {-1}, mutex : BOOLEAN]
NoReader == [version |-> 0, memop |-> -1]

RepTypeOK ==
    /\ rmem \in [Obj -> Val]
    /\ obj_version \in [Obj -> Nat]
    /\ memop_cnt \in [Thread -> Nat]
    /\ wait_version \in [Thread -> [memop : Nat \cup {-1}, version : Int]]
    /\ vbuf \in [Thread -> Nat]
    /\ wait_reader_log \in [Obj -> ReaderLog]
    /\ rpc \in [Thread -> {"off", "call", "assert", "go", "check", "scan", "reader",
                           "again", "store", "publish", "count"}]
    /\ \A t \in Thread : rloc[t].val \in Val

-----------------------------------------------------------------------------
(* next_wait_version_log: the end mark is not consumed and leaves a memop  *)
(* no access has.                                                          *)
next_wait_version(t, taken) ==
    LET wv == version_log[t][taken + 1]
    IN  IF wv.memop = -1 THEN [wait_version[t] EXCEPT !.memop = -1] ELSE wv

taken_after(t, taken) ==
    IF version_log[t][taken + 1].memop = -1 THEN taken ELSE taken + 1

(* Mutant: objects without entries are not told apart                      *)
load_wait_reader_log_unchecked(o) ==
    IF memop_log = << >>
    THEN [log |-> 0, n |-> 0, size |-> -1, mutex |-> FALSE]
    ELSE [log |-> index_log[2 * o + 1], n |-> 0, size |-> index_log[2 * o + 2], mutex |-> FALSE]

(* load_wait_reader_log                                                    *)
load_wait_reader_log(o) ==
    IF memop_log = << >> \/ index_log[2 * o + 1] = -1
    THEN [log |-> 0, n |-> 0, size |-> -1, mutex |-> FALSE]
    ELSE [log |-> index_log[2 * o + 1], n |-> 0, size |-> index_log[2 * o + 2], mutex |-> FALSE]

RepOff ==
    /\ rmem = [o \in Obj |-> InitVal]
    /\ obj_version = [o \in Obj |-> 0]
    /\ memop_cnt = [t \in Thread |-> 0]
    /\ wait_version = [t \in Thread |-> [memop |-> 0, version |-> 0]]
    /\ vbuf = [t \in Thread |-> 0]
    /\ wait_reader_log = [o \in Obj |-> [log |-> 0, n |-> 0, size |-> -1, mutex |-> FALSE]]
    /\ rpc = [t \in Thread |-> "off"]
    /\ rloc = [t \in Thread |-> [val |-> InitVal, log |-> NoReader]]

(* mem_init and every thread's mem_init_thr: the test programs start their *)
(* accesses behind a barrier (sync_thread).                                *)
rep_mem_init ==
    /\ \A t \in Thread : rpc[t] = "off"
    /\ wait_reader_log' = [o \in Obj |-> load_wait_reader_log(o)]
    /\ wait_version' = [t \in Thread |-> next_wait_version(t, 0)]
    /\ vbuf' = [t \in Thread |-> taken_after(t, 0)]
    /\ rpc' = [t \in Thread |-> "call"]
    /\ UNCHANGED <<rmem, obj_version, memop_cnt, rloc>>

-----------------------------------------------------------------------------
RAt(t, here) == rpc[t] = here
RGoto(t, there) == rpc' = [rpc EXCEPT ![t] = there]

MoreAccesses(t) == memop_cnt[t] < Len(access_log[t])
Op(t) == access_log[t][memop_cnt[t] + 1]

(* Mutant: no access waits for a version                                   *)
wait_object_version_no_wait(t) ==
    /\ RAt(t, "call") /\ MoreAccesses(t)
    /\ RGoto(t, "go")
    /\ UNCHANGED <<rmem, obj_version, memop_cnt, wait_version, vbuf, wait_reader_log, rloc>>

(* wait_object_version: only an access the version log names waits         *)
wait_object_version(t) ==
    /\ RAt(t, "call") /\ MoreAccesses(t)
    /\ IF memop_cnt[t] = wait_version[t].memop
       THEN obj_version[Op(t).objid] >= wait_version[t].version /\ RGoto(t, "assert")
       ELSE RGoto(t, "go")
    /\ UNCHANGED <<rmem, obj_version, memop_cnt, wait_version, vbuf, wait_reader_log, rloc>>

assert_version(t) ==
    /\ RAt(t, "assert")
    /\ obj_version[Op(t).objid] = wait_version[t].version
    /\ wait_version' = [wait_version EXCEPT ![t] = next_wait_version(t, vbuf[t])]
    /\ vbuf' = [vbuf EXCEPT ![t] = taken_after(t, @)]
    /\ RGoto(t, "go")
    /\ UNCHANGED <<rmem, obj_version, memop_cnt, wait_reader_log, rloc>>

(* mem_read: the load, then check_access and memop++                       *)
rep_read(t) ==
    /\ RAt(t, "go") /\ Op(t).acc = "R"
    /\ rloc' = [rloc EXCEPT ![t].val = rmem[Op(t).objid]]
    /\ RGoto(t, "check")
    /\ UNCHANGED <<rmem, obj_version, memop_cnt, wait_version, vbuf, wait_reader_log>>

check_access(t, val) ==
    Op(t).val = val /\ Op(t).version = obj_version[Op(t).objid]

rep_read_check(t) ==
    /\ RAt(t, "check")
    /\ check_access(t, rloc[t].val)
    /\ RGoto(t, "count")
    /\ UNCHANGED <<rmem, obj_version, memop_cnt, wait_version, vbuf, wait_reader_log, rloc>>

count_memop(t) ==
    /\ RAt(t, "count")
    /\ memop_cnt' = [memop_cnt EXCEPT ![t] = @ + 1]
    /\ RGoto(t, "call")
    /\ UNCHANGED <<rmem, obj_version, wait_version, vbuf, wait_reader_log, rloc>>

(* mem_write: wait_reader calls next_reader_memop until it returns NULL    *)
AboutToScan(t) == (RAt(t, "go") /\ Op(t).acc = "W") \/ RAt(t, "again")

trylock(t) ==
    LET o == Op(t).objid
    IN  /\ AboutToScan(t)
        /\ ~wait_reader_log[o].mutex
        /\ wait_reader_log' = [wait_reader_log EXCEPT ![o].mutex = TRUE]
        /\ RGoto(t, "scan")
        /\ UNCHANGED <<rmem, obj_version, memop_cnt, wait_version, vbuf, rloc>>

(* The entry next_reader_memop looks at                                    *)
NextEntry(o) == memop_log[wait_reader_log[o].log + wait_reader_log[o].n + 1]
HasEntry(o) == wait_reader_log[o].n < wait_reader_log[o].size

(* Mutant: the entry is not consumed                                       *)
next_reader_memop_stays(t) ==
    LET o == Op(t).objid
        match == HasEntry(o) /\ obj_version[o] = NextEntry(o).version
    IN  /\ RAt(t, "scan")
        /\ wait_reader_log' = [wait_reader_log EXCEPT ![o].mutex = FALSE]
        /\ IF match
           THEN rloc' = [rloc EXCEPT ![t].log = NextEntry(o)] /\ RGoto(t, "reader")
           ELSE RGoto(t, "store") /\ UNCHANGED rloc
        /\ UNCHANGED <<rmem, obj_version, memop_cnt, wait_version, vbuf>>

next_reader_memop(t) ==
    LET o == Op(t).objid
        match == HasEntry(o) /\ obj_version[o] = NextEntry(o).version
    IN  /\ RAt(t, "scan")
        /\ HasEntry(o) => obj_version[o] <= NextEntry(o).version
        /\ IF match
           THEN /\ rloc' = [rloc EXCEPT ![t].log = NextEntry(o)]
                /\ wait_reader_log' = [wait_reader_log EXCEPT ![o].n = @ + 1, ![o].mutex = FALSE]
                /\ RGoto(t, "reader")
           ELSE /\ wait_reader_log' = [wait_reader_log EXCEPT ![o].mutex = FALSE]
                /\ RGoto(t, "store")
                /\ UNCHANGED rloc
        /\ UNCHANGED <<rmem, obj_version, memop_cnt, wait_version, vbuf>>

(* Mutant: waits for the read to be reached, not done                      *)
wait_reader_reached(t) ==
    /\ RAt(t, "reader")
    /\ memop_cnt[rloc[t].log.tid] >= rloc[t].log.memop
    /\ RGoto(t, "again")
    /\ UNCHANGED <<rmem, obj_version, memop_cnt, wait_version, vbuf, wait_reader_log, rloc>>

wait_reader(t) ==
    /\ RAt(t, "reader")
    /\ memop_cnt[rloc[t].log.tid] > rloc[t].log.memop
    /\ RGoto(t, "again")
    /\ UNCHANGED <<rmem, obj_version, memop_cnt, wait_version, vbuf, wait_reader_log, rloc>>

(* Mutant: the store is missing                                            *)
rep_write_lost(t) ==
    /\ RAt(t, "store")
    /\ check_access(t, Value(t, memop_cnt[t]))
    /\ RGoto(t, "publish")
    /\ UNCHANGED <<rmem, obj_version, memop_cnt, wait_version, vbuf, wait_reader_log, rloc>>

(* check_access, then *addr = val                                          *)
rep_write(t) ==
    LET val == Value(t, memop_cnt[t])
    IN  /\ RAt(t, "store")
        /\ check_access(t, val)
        /\ rmem' = [rmem EXCEPT ![Op(t).objid] = val]
        /\ RGoto(t, "publish")
        /\ UNCHANGED <<obj_version, memop_cnt, wait_version, vbuf, wait_reader_log, rloc>>

publish_version(t) ==
    /\ RAt(t, "publish")
    /\ obj_version' = [obj_version EXCEPT ![Op(t).objid] = @ + 2]
    /\ RGoto(t, "count")
    /\ UNCHANGED <<rmem, memop_cnt, wait_version, vbuf, wait_reader_log, rloc>>

RepStep(t) ==
    \/ wait_object_version(t) \/ assert_version(t)
    \/ rep_read(t) \/ rep_read_check(t) \/ count_memop(t)
    \/ trylock(t) \/ next_reader_memop(t) \/ wait_reader(t)
    \/ rep_write(t) \/ publish_version(t)

RepDone == \A t \in Thread : RAt(t, "call") /\ ~MoreAccesses(t)
=============================================================================
