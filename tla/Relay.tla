------------------------------- MODULE Relay --------------------------------
(***************************************************************************)
(* relay.c: the threads count one plain shared variable up to the          *)
(* finishing line, each its own leg, and wait for the leg before by        *)
(* spinning on the variable itself.  step++ is a load and a store with no  *)
(* lock around them.                                                       *)
(***************************************************************************)
EXTENDS ThreadStart

CONSTANT FinishingLine

ASSUME RelayAssumption == NumProcs \in Nat \ {0} /\ FinishingLine \in Nat

leg == FinishingLine \div NumProcs
floor(t) == leg * t
(* Mutant: the legs leave a gap                                            *)
ceiling_gap(t) == leg * (t + 1) - 1
ceiling(t) == leg * (t + 1)

VARIABLES step,
          reg           \* the value of step every thread has loaded

relayVars == <<created, flag, step, tpc, reg>>

Place == {"new", "arrive", "barrier", "spin", "test", "load", "store", "done"}

RelayInit ==
    /\ created = 0 /\ flag = 0 /\ step = 0
    /\ tpc = [t \in Thread |-> "new"]
    /\ reg = [t \in Thread |-> 0]

-----------------------------------------------------------------------------
create_runner == pthread_create("arrive") /\ UNCHANGED <<step, reg>>

sync_thread(t) ==
    \/ Goto(t, "arrive", "barrier") /\ flag' = flag + 1 /\ UNCHANGED <<created, step, reg>>
    \/ flag = NumProcs /\ Goto(t, "barrier", "spin") /\ UNCHANGED <<created, flag, step, reg>>

(* Mutant: the wait ends one step early                                    *)
spin_wait_short(t) ==
    step + 1 >= floor(t) /\ Goto(t, "spin", "test") /\ UNCHANGED <<created, flag, step, reg>>

spin_wait(t) ==
    step >= floor(t) /\ Goto(t, "spin", "test") /\ UNCHANGED <<created, flag, step, reg>>

test_step(t) ==
    Goto(t, "test", IF step < ceiling(t) THEN "load" ELSE "done") /\ UNCHANGED <<created, flag, step, reg>>

(* step++ loads step again, unless the compiler keeps what the test has    *)
(* loaded: then the two loads are one after the other.                     *)
load_step(t) ==
    /\ Goto(t, "load", "store")
    /\ reg' = [reg EXCEPT ![t] = step]
    /\ UNCHANGED <<created, flag, step>>

(* step is neither volatile nor atomic: a compiler may store every step,   *)
(* or replace the loop by its result.                                      *)
store_step(t) ==
    /\ step' \in {reg[t] + 1, ceiling(t)}
    /\ Goto(t, "store", "test")
    /\ UNCHANGED <<created, flag, reg>>

ThreadBody(t) == sync_thread(t) \/ spin_wait(t) \/ test_step(t) \/ load_step(t) \/ store_step(t)

(* main has joined all threads                                             *)
Joined == \A t \in Thread : tpc[t] = "done"
RelayOver == Joined /\ UNCHANGED relayVars

RelayNext == create_runner \/ (\E t \in Thread : ThreadBody(t)) \/ RelayOver

(* bind_core gives every thread a core of its own: all keep running.       *)
RelaySpec == RelayInit /\ [][RelayNext]_relayVars
RelayFairSpec == RelaySpec /\ WF_relayVars(create_runner) /\ \A t \in Thread : WF_relayVars(ThreadBody(t))

-----------------------------------------------------------------------------
(* step++ on the plain variable loses nothing: no other thread stores      *)
(* between a thread's load and its store, although nothing but the value   *)
(* of step keeps the threads apart.                                        *)
NoLostStep == \A t \in Thread : tpc[t] = "store" => reg[t] = step

(* A thread that runs its leg has been handed the baton by all before it,  *)
(* and when main has joined the threads every leg has been run.            *)
LegsInOrder ==
    /\ \A t \in Thread : tpc[t] \in {"test", "load", "store", "done"} => step >= floor(t)
    /\ Joined => step = leg * NumProcs

(* Every thread gets the baton and the relay ends                          *)
RelayEnds == <>Joined
=============================================================================
