---------------------------- MODULE RecordReplay ----------------------------
(***************************************************************************)
(* The whole procedure of test.sh: a recorded execution, the processing of *)
(* its logs, and the replay driven by them, one after the other.           *)
(***************************************************************************)
EXTENDS Recorder

VARIABLES wmlog, all, objit, sorted, buf, pq, memop_log, indexbuf, prev_id, cnt, prev_cnt, mpc,
          rmem, obj_version, memop_cnt, wait_version, vbuf, wait_reader_log, rpc, rloc

(* The files the recording leaves, by thread                               *)
RecordedMemops == [t \in Thread |-> thr[t].wait_memop]
RecordedVersions == [t \in Thread |-> thr[t].wait_version]
Recordings == [t \in Thread |-> thr[t].access]

Merge == INSTANCE MemopMerge WITH wait_memop <- RecordedMemops

Rep == INSTANCE Replay WITH
            version_log <- RecordedVersions, access_log <- Recordings, index_log <- indexbuf

mergeVars == <<wmlog, all, objit, sorted, buf, pq, memop_log, indexbuf, prev_id, cnt, prev_cnt, mpc>>
repVars == <<rmem, obj_version, memop_cnt, wait_version, vbuf, wait_reader_log, rpc, rloc>>
rrVars == <<recVars, mergeVars, repVars>>

Init == RecInit /\ Merge!MergeInit /\ Rep!RepOff

Record == RecNext /\ UNCHANGED <<mergeVars, repVars>>

Process == AllClosed /\ Merge!MergeNext /\ UNCHANGED <<recVars, repVars>>

StartReplay == mpc = "done" /\ Rep!rep_mem_init /\ UNCHANGED <<recVars, mergeVars>>

ReplayStep(t) == Rep!RepStep(t) /\ UNCHANGED <<recVars, mergeVars>>

Terminating == Rep!RepDone /\ UNCHANGED rrVars

Next == Record \/ Process \/ StartReplay \/ (\E t \in Thread : ReplayStep(t)) \/ Terminating

(* The three programs run to completion, and every replaying thread keeps  *)
(* being scheduled while it spins.                                         *)
Fairness ==
    /\ WF_rrVars(Record) /\ WF_rrVars(Process) /\ WF_rrVars(StartReplay)
    /\ \A t \in Thread : WF_rrVars(ReplayStep(t))

Spec == Init /\ [][Next]_rrVars
FairSpec == Spec /\ Fairness

-----------------------------------------------------------------------------
(* Every replay variable keeps the type mem-replay.c gives it              *)
TypeOK == Rep!RepTypeOK

(* assert(obj_version[objid] == wait_version.version) of                   *)
(* wait_object_version: a thread whose spin ended finds exactly the        *)
(* version it waited for, since the writer that would move it further      *)
(* waits for this access.                                                  *)
VersionAssertHolds ==
    \A t \in Thread : Rep!RAt(t, "assert") =>
        obj_version[Rep!Op(t).objid] = wait_version[t].version

(* "There should be no concurrent access to an object's memop log. The     *)
(* mutex is a assertion on this": trylock never finds the mutex taken.     *)
NoConcurrentReaderScan ==
    \A t \in Thread : Rep!AboutToScan(t) => ~wait_reader_log[Rep!Op(t).objid].mutex

(* "Every read log should be processed": assert(version <= log[].version)  *)
(* of next_reader_memop.  A writer never meets an entry of a version that  *)
(* was already overwritten.                                                *)
ReadersNotSkipped ==
    \A t \in Thread : Rep!RAt(t, "scan") /\ Rep!HasEntry(Rep!Op(t).objid) =>
        obj_version[Rep!Op(t).objid] <= Rep!NextEntry(Rep!Op(t).objid).version

(* check_access never reports an error: every replayed read returns the    *)
(* recorded value, and every access happens at the recorded version.       *)
AccessesReplayed ==
    \A t \in Thread :
        /\ Rep!RAt(t, "check") => Rep!check_access(t, rloc[t].val)
        /\ Rep!RAt(t, "store") => Rep!check_access(t, Value(t, memop_cnt[t]))

(* "Wait version reaches the recorded value", "Wait memory accesses that   *)
(* happen at this version": replay implements OrderedReplay.  A read       *)
(* happens when it loads, a write when it stores, whatever the threads     *)
(* between two of their own steps let others do.                           *)
Happened(t) == rpc[t] \in {"check", "publish", "count"}
Publishing(o) == \E t \in Thread : Rep!RAt(t, "publish") /\ Rep!Op(t).objid = o

OrdDone == [t \in Thread |-> IF Happened(t) THEN memop_cnt[t] + 1 ELSE memop_cnt[t]]
OrdVer == [o \in Obj |-> IF Publishing(o) THEN obj_version[o] + 2 ELSE obj_version[o]]

Ord == INSTANCE OrderedReplay WITH
            access_log <- Recordings, done <- OrdDone, value <- rmem, ver <- OrdVer

ReplayInOrder == Ord!OrdSpec

(* The result test.sh compares: replay ends with the recorded memory, each *)
(* object as often written, and no log entry of any thread left unused but *)
(* those of reads nobody overwrote.                                        *)
ResultReproduced ==
    Rep!RepDone =>
        /\ rmem = mem /\ obj_version = version
        /\ \A t \in Thread : wait_version[t].memop = -1
        /\ \A o \in Obj : Rep!HasEntry(o) => Rep!NextEntry(o).version = version[o]

(* No replaying threads wait for each other forever, on versions or on     *)
(* readers: every recorded execution is replayed to its end.               *)
ReplayCompletes == <>Rep!RepDone
=============================================================================
