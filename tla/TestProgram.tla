---------------------------- MODULE TestProgram -----------------------------
(***************************************************************************)
(* The programs test.sh records and replays, racey.c and addcnt.c, run     *)
(* twice: once on the recording library, where an access is atomic         *)
(* (Recorder), and once on the replay library (OrderedReplay).  What a     *)
(* thread accesses depends on the values it has read; nothing of the       *)
(* recorded run but the order logs enters the second one.                  *)
(*                                                                         *)
(* A thread's memop lies in its thread-local storage, and replay reads it  *)
(* through memop_cnt, after the thread has ended and was joined too.  The  *)
(* model takes it that the C library leaves that storage as it was until   *)
(* the program ends: a joined thread's counter keeps its last value.       *)
(***************************************************************************)
EXTENDS ThreadStart, Sequences

CONSTANTS MAX_ELEM, MAX_LOOP,   \* racey.c: shared objects, iterations
          PRIME1, PRIME2,
          NOBJS, NITER,         \* addcnt.c: shared objects, iterations
          WORD                  \* 2^32: values are uint32_t

ASSUME ProgramAssumption ==
    /\ {NumProcs, MAX_ELEM, MAX_LOOP, PRIME1, PRIME2, NOBJS, NITER, WORD} \subseteq Nat \ {0}
    /\ NOBJS > 1        \* access_thr_fn3 and 4 take objects in pairs

(* The objects of either program                                           *)
Obj == (0 .. MAX_ELEM - 1) \cup (0 .. NOBJS - 1)

VARIABLES pass,         \* "record", "play" or "end"
          results,      \* what the finished runs printed
          log,          \* the recorded accesses, for replay
          fn,           \* the program: addcnt's function of every thread, or 0
          joined,       \* threads main has joined
          ready,        \* threads whose mem_init_thr has set memop_cnt
          prog,         \* every thread's local variables
          made,         \* its accesses in this run
          value, ver    \* objects and versions

runVars == <<created, flag, joined, ready, tpc, prog, made, value, ver>>
progVars == <<pass, results, log, fn, runVars>>

Racey == fn = [t \in Thread |-> 0]

-----------------------------------------------------------------------------
(* racey.c.  num is the thread's g_sig between iterations.                 *)
mix(i, j) == ((i + j * PRIME2) % WORD) % PRIME1

racey_access(p) ==
    CASE p.at = 0 -> [acc |-> "R", objid |-> p.num % MAX_ELEM, val |-> 0]
      [] p.at = 1 -> [acc |-> "R", objid |-> p.num % MAX_ELEM, val |-> 0]
      [] p.at = 2 -> [acc |-> "W", objid |-> p.index2, val |-> p.num]

racey_after(p, val) ==
    CASE p.at = 0 -> [p EXCEPT !.num = mix(p.num, val), !.at = 1]
      [] p.at = 1 -> [p EXCEPT !.index2 = p.num % MAX_ELEM, !.num = mix(p.num, val), !.at = 2]
      [] p.at = 2 -> [p EXCEPT !.at = 0, !.loop = @ + 1]

(* addcnt.c: access i of an iteration of access_thr_fn1 to 4, from 0, a    *)
(* write storing the value last read plus `add', and how many there are.   *)
A(acc, o, add) == [acc |-> acc, objid |-> o, add |-> add]
pairs == NOBJS \div 2

access_thr_fn(f, i) ==
    LET up(j) == IF i % 2 = 0 THEN A("R", j, 0) ELSE A("W", j, 1)
        cross(j, k) == CASE i % 4 = 0 -> A("R", j, 0)
                         [] i % 4 = 1 -> A("W", k, 1)
                         [] i % 4 = 2 -> A("R", k, 0)
                         [] i % 4 = 3 -> A("W", j, 2)
    IN  CASE f = 1 -> up(i \div 2)
          [] f = 2 -> up(NOBJS - 1 - (i \div 2))
          [] f = 3 -> cross(2 * (i \div 4), 2 * (i \div 4) + 1)
          [] f = 4 -> cross(NOBJS - 1 - 2 * (i \div 4), NOBJS - 2 - 2 * (i \div 4))

accesses(f) == IF f \in {1, 2} THEN 2 * NOBJS ELSE 4 * pairs

addcnt_access(t, p) ==
    LET a == access_thr_fn(fn[t], p.at)
    IN  [acc |-> a.acc, objid |-> a.objid, val |-> (p.num + a.add) % WORD]

addcnt_after(t, p, val) ==
    LET last == p.at + 1 = accesses(fn[t])
    IN  [p EXCEPT !.num = IF addcnt_access(t, p).acc = "R" THEN val ELSE @,
                  !.at = IF last THEN 0 ELSE @ + 1,
                  !.loop = IF last THEN @ + 1 ELSE @]

Access(t) == IF Racey THEN racey_access(prog[t]) ELSE addcnt_access(t, prog[t])
After(t, val) == IF Racey THEN racey_after(prog[t], val) ELSE addcnt_after(t, prog[t], val)
Finished(t) == prog[t].loop = IF Racey THEN MAX_LOOP ELSE NITER

(* What main prints at the end: racey's signature of the threads' last     *)
(* states p, addcnt's objects                                              *)
signature(p) ==
    LET sig[i \in Thread] == IF i = 0 THEN p[0].num ELSE mix(p[i].num, sig[i - 1])
    IN  sig[NumProcs - 1]

Result ==
    IF Racey
    THEN <<signature(prog)>>
    ELSE [i \in 1 .. NOBJS |-> value[i - 1]]

-----------------------------------------------------------------------------
(* A process starts: main has filled the objects and called mem_init.      *)
Fresh(cr, fl, jo, rd, tp, pr, md, va, ve) ==
    /\ cr = 0 /\ fl = 0 /\ jo = 0 /\ rd = {}
    /\ tp = [t \in Thread |-> "new"]
    /\ pr = [t \in Thread |-> [at |-> 0, num |-> IF Racey THEN t ELSE 0, index2 |-> 0, loop |-> 0]]
    /\ md = [t \in Thread |-> << >>]
    /\ va = [o \in Obj |-> IF Racey THEN mix(o, o) ELSE 0]
    /\ ve = [o \in Obj |-> 0]

(* Either program.  Which functions of addcnt's thr_fn run together        *)
(* depends on the number of threads; every combination is taken.           *)
ProgInit ==
    /\ pass = "record" /\ results = << >>
    /\ log = [t \in Thread |-> << >>]
    /\ Racey \/ fn \in [Thread -> 1 .. 4]
    /\ Fresh(created, flag, joined, ready, tpc, prog, made, value, ver)

create_thread ==
    /\ pass # "end" /\ pthread_create("init")
    /\ UNCHANGED <<pass, results, log, fn, joined, ready, prog, made, value, ver>>

(* thr_start: mem_init_thr, then sync_thread                               *)
mem_init_thr(t) ==
    /\ Goto(t, "init", "arrive")
    /\ ready' = ready \cup {t}
    /\ UNCHANGED <<pass, results, log, fn, joined, created, flag, prog, made, value, ver>>

sync_arrive(t) ==
    /\ Goto(t, "arrive", "spin")
    /\ flag' = flag + 1
    /\ UNCHANGED <<pass, results, log, fn, joined, created, ready, prog, made, value, ver>>

(* Mutant: the spin ends when some thread is there                         *)
sync_leave_early(t) ==
    /\ flag > 0
    /\ Goto(t, "spin", "run")
    /\ UNCHANGED <<pass, results, log, fn, joined, created, flag, ready, prog, made, value, ver>>

(* Mutant: one thread too many is waited for                               *)
sync_leave_never(t) ==
    /\ flag > NumProcs
    /\ Goto(t, "spin", "run")
    /\ UNCHANGED <<pass, results, log, fn, joined, created, flag, ready, prog, made, value, ver>>

sync_leave(t) ==
    /\ flag = NumProcs
    /\ Goto(t, "spin", "run")
    /\ UNCHANGED <<pass, results, log, fn, joined, created, flag, ready, prog, made, value, ver>>

(* One call of mem_read or mem_write                                       *)
Ord == INSTANCE OrderedReplay WITH access_log <- log, done <- [t \in Thread |-> Len(made[t])]

mem_access(t) ==
    LET a == Access(t)
        val == IF a.acc = "R" THEN value[a.objid] ELSE a.val
    IN  /\ tpc[t] = "run" /\ ~Finished(t)
        /\ pass = "play" => Ord!MayHappen(t, a.acc, a.objid)
        /\ made' = [made EXCEPT ![t] = Append(@, [acc |-> a.acc, objid |-> a.objid, version |-> ver[a.objid], val |-> val])]
        /\ Ord!Happens(t, a.acc, a.objid, val)
        /\ prog' = [prog EXCEPT ![t] = After(t, val)]
        /\ UNCHANGED <<pass, results, log, fn, joined, created, flag, ready, tpc>>

mem_finish_thr(t) ==
    /\ Finished(t)
    /\ Goto(t, "run", "done")
    /\ UNCHANGED <<pass, results, log, fn, joined, created, flag, ready, prog, made, value, ver>>

(* main waits for the threads one after the other                          *)
pthread_join ==
    /\ created = NumProcs /\ joined < NumProcs
    /\ tpc[joined] = "done"
    /\ joined' = joined + 1
    /\ UNCHANGED <<pass, results, log, fn, created, flag, ready, tpc, prog, made, value, ver>>

(* The end of main: it prints its result, and test.sh runs the program     *)
(* again                                                                   *)
print_result ==
    /\ pass # "end" /\ joined = NumProcs
    /\ results' = Append(results, Result)
    /\ pass' = IF pass = "record" THEN "play" ELSE "end"
    /\ log' = IF pass = "record" THEN made ELSE log
    /\ IF pass = "record"
       THEN Fresh(created', flag', joined', ready', tpc', prog', made', value', ver')
       ELSE UNCHANGED runVars
    /\ UNCHANGED fn

ThreadStep(t) ==
    \/ mem_init_thr(t) \/ sync_arrive(t) \/ sync_leave(t)
    \/ mem_access(t) \/ mem_finish_thr(t)

MainStep == create_thread \/ pthread_join \/ print_result
ProgOver == pass = "end" /\ UNCHANGED progVars

ProgNext == MainStep \/ (\E t \in Thread : ThreadStep(t)) \/ ProgOver

(* Every thread, main included, keeps being scheduled                      *)
ProgSpec == ProgInit /\ [][ProgNext]_progVars
ProgFairSpec == ProgSpec /\ WF_progVars(MainStep) /\ \A t \in Thread : WF_progVars(ThreadStep(t))

-----------------------------------------------------------------------------
(* No thread reaches its first access before every thread has set its      *)
(* memop_cnt: wait_reader, which follows *memop_cnt[log->tid], finds no    *)
(* counter missing.  That the counter is there after its thread has ended  *)
(* is not stated: the model takes it from the C library.                   *)
CountersSet == \A t \in Thread : tpc[t] \in {"run", "done"} => ready = Thread

(* Replay repeats the program: although it only orders accesses by their   *)
(* numbers, every thread computes the recorded objects and values, and     *)
(* test.sh's "diff result-record result-play" finds no difference.         *)
ProgramRepeats ==
    /\ pass # "record" => \A t \in Thread : made[t] = SubSeq(log[t], 1, Len(made[t]))
    /\ pass = "end" => results[1] = results[2]

(* Both runs come to their end                                             *)
RunsComplete == <>(pass = "end")
=============================================================================
