---------------------------- MODULE CommitReplay ----------------------------
(***************************************************************************)
(* merge-commit.cpp and mem-replay-rtmcommit.c, run on the logs RtmCommit  *)
(* leaves as test.sh does: the threads' time stamps are merged into one    *)
(* sequence of thread ids, and replay runs one block after the other in    *)
(* that order.  The replayed program repeats the recorded accesses.        *)
(***************************************************************************)
EXTENDS RtmCommit

VARIABLES phase,        \* "record", "merge" or "replay"
          taken,        \* time stamps read from the thread's log
          ts_q,         \* merge-commit's priority queue
          commit,       \* the merged log: thread ids
          rmem,         \* objects' values in replay
          g_next_thr, pos,  \* whose turn it is; entries read from commit
          bbcnt,        \* g_sim_bbcnt of the replaying thread
          bpc           \* where the replaying thread is

mergeVars == <<taken, ts_q, commit>>
replayVars == <<rmem, g_next_thr, pos, bbcnt, bpc>>
allVars == <<commitVars, phase, mergeVars, replayVars>>

Init ==
    /\ CommitInit
    /\ phase = "record"
    /\ taken = [t \in Thread |-> 0] /\ ts_q = {} /\ commit = << >>
    /\ rmem = [o \in Obj |-> InitVal]
    /\ g_next_thr = {} /\ pos = 0
    /\ bbcnt = [t \in Thread |-> 0]
    /\ bpc = [t \in Thread |-> "call"]

Record ==
    phase = "record" /\ CommitNext /\ UNCHANGED <<phase, mergeVars, replayVars>>

-----------------------------------------------------------------------------
(* merge_commit: the next time stamp of t's log, if there is one           *)
next_ts(t) ==
    IF taken[t] < Len(commit_log[t]) THEN {[tid |-> t, ts |-> commit_log[t][taken[t] + 1]]} ELSE {}

start_merge ==
    /\ phase = "record" /\ Recorded
    /\ phase' = "merge"
    /\ ts_q' = UNION {next_ts(t) : t \in Thread}
    /\ taken' = [t \in Thread |-> Cardinality(next_ts(t))]
    /\ UNCHANGED <<commitVars, commit, replayVars>>

(* Mutant: any entry may leave the queue                                   *)
merge_top_unordered(e) ==
    /\ phase = "merge"
    /\ commit' = Append(commit, e.tid)
    /\ ts_q' = (ts_q \ {e}) \cup next_ts(e.tid)
    /\ taken' = [taken EXCEPT ![e.tid] = @ + Cardinality(next_ts(e.tid))]
    /\ UNCHANGED <<commitVars, phase, replayVars>>

merge_top(e) ==
    /\ phase = "merge"
    /\ \A f \in ts_q : e.ts <= f.ts
    /\ commit' = Append(commit, e.tid)
    /\ ts_q' = (ts_q \ {e}) \cup next_ts(e.tid)
    /\ taken' = [taken EXCEPT ![e.tid] = @ + Cardinality(next_ts(e.tid))]
    /\ UNCHANGED <<commitVars, phase, replayVars>>

-----------------------------------------------------------------------------
(* mem_init: read_next_thr gives the first block's thread its turn         *)
start_replay ==
    /\ phase = "merge" /\ ts_q = {}
    /\ phase' = "replay"
    /\ g_next_thr' = {commit[1]} /\ pos' = 1
    /\ UNCHANGED <<commitVars, mergeVars, rmem, bbcnt, bpc>>

At(t, here) == phase = "replay" /\ bpc[t] = here
Goto(t, there) == bpc' = [bpc EXCEPT ![t] = there]
Op(t) == access[t][bbcnt[t] + 1]

(* Mutant: no access waits                                                 *)
wait_turn_ignored(t) ==
    /\ At(t, "call") /\ bbcnt[t] < nops[t]
    /\ Goto(t, "access")
    /\ UNCHANGED <<commitVars, phase, mergeVars, rmem, g_next_thr, pos, bbcnt>>

(* The start of mem_read and mem_write: only the first access of a block   *)
(* waits.                                                                  *)
wait_turn(t) ==
    /\ At(t, "call") /\ bbcnt[t] < nops[t]
    /\ bbcnt[t] % RTM_BATCH_N = 0 => g_next_thr = {t}
    /\ Goto(t, "access")
    /\ UNCHANGED <<commitVars, phase, mergeVars, rmem, g_next_thr, pos, bbcnt>>

(* assert(g_next_thr == g_tid), the access, g_sim_bbcnt++; the end of a    *)
(* block in mem_read, mem_write or mem_finish_thr calls read_next_thr.     *)
replay_access(t) ==
    /\ At(t, "access") /\ g_next_thr = {t}
    /\ rmem' = IF Op(t).acc = "W" THEN [rmem EXCEPT ![Op(t).objid] = Op(t).val] ELSE rmem
    /\ bbcnt' = [bbcnt EXCEPT ![t] = @ + 1]
    /\ Goto(t, IF BlockEnds(t, bbcnt[t] + 1) THEN "next" ELSE "call")
    /\ UNCHANGED <<commitVars, phase, mergeVars, g_next_thr, pos>>

(* Mutant: the end of the log is not noticed                               *)
read_next_thr_past(t) ==
    /\ At(t, "next")
    /\ pos' = pos + 1 /\ Goto(t, "give")
    /\ UNCHANGED <<commitVars, phase, mergeVars, rmem, g_next_thr, bbcnt>>

(* read_next_thr: nothing changes at the end of the log                    *)
read_next_thr(t) ==
    /\ At(t, "next")
    /\ IF pos < Len(commit)
       THEN pos' = pos + 1 /\ Goto(t, "give")
       ELSE Goto(t, "call") /\ UNCHANGED pos
    /\ UNCHANGED <<commitVars, phase, mergeVars, rmem, g_next_thr, bbcnt>>

give_turn(t) ==
    /\ At(t, "give")
    /\ g_next_thr' = {commit[pos]}
    /\ Goto(t, "call")
    /\ UNCHANGED <<commitVars, phase, mergeVars, rmem, pos, bbcnt>>

ReplayStep(t) ==
    wait_turn(t) \/ replay_access(t) \/ read_next_thr(t) \/ give_turn(t)

Replayed == \A t \in Thread : At(t, "call") /\ bbcnt[t] = nops[t]
Terminating == Replayed /\ UNCHANGED allVars

Next ==
    \/ Record \/ start_merge \/ (\E e \in ts_q : merge_top(e)) \/ start_replay
    \/ (\E t \in Thread : ReplayStep(t))
    \/ Terminating

(* Threads keep being scheduled, while they spin too; merge-commit runs to *)
(* its end.  Nothing is assumed of aborts.                                 *)
Fairness ==
    /\ \A t \in Thread :
        /\ WF_allVars(Record /\ CommitStep(t))
        /\ WF_allVars(ReplayStep(t))
    /\ WF_allVars(start_merge \/ start_replay \/ \E e \in ts_q : merge_top(e))

Spec == Init /\ [][Next]_allVars
FairSpec == Spec /\ Fairness

-----------------------------------------------------------------------------
(* Every variable keeps its type, and no log is read past its end          *)
CommitReplayTypeOK ==
    /\ CommitTypeOK
    /\ \A t \in Thread : taken[t] \in 0 .. Len(commit_log[t]) /\ bbcnt[t] \in 0 .. nops[t]
    /\ commit \in Seq(Thread) /\ pos \in 0 .. Len(commit)
    /\ rmem \in [Obj -> Val]
    /\ g_next_thr \subseteq Thread
    /\ \A t \in Thread : bpc[t] \in {"call", "access", "next", "give"}

(* assert(g_next_thr == g_tid) of mem_read and mem_write: a replaying      *)
(* thread keeps its turn from the first access of a block to the last.     *)
TurnAssertHolds == \A t \in Thread : At(t, "access") => g_next_thr = {t}

(* What test.sh compares: every replayed read returns the recorded value,  *)
(* and replay ends with the recorded memory after all recorded blocks.     *)
BlocksReplayed ==
    /\ \A t \in Thread : At(t, "access") /\ Op(t).acc = "R" => rmem[Op(t).objid] = Op(t).val
    /\ Replayed => rmem = mem /\ pos = Len(commit)

(* Every thread gets through its blocks, aborted or not, and replay hands  *)
(* the turn on until every thread is done.                                 *)
CommitReplayCompletes == <>Replayed
=============================================================================
