---------------------------- MODULE SeqlockProof ----------------------------
(***************************************************************************)
(* For any number of threads, objects and accesses, the seqlock of         *)
(* mem-record-seqlock.c implements atomic accesses on x86-TSO: a mem_read  *)
(* or mem_write is one atomic access of Recorder, and logs what that logs. *)
(***************************************************************************)
EXTENDS Seqlock, SequenceTheorems, TLAPS

(* A leaf that names no prover is for Zenon.                               *)
USE ZenonT(60)

(* What can be in a store buffer                                           *)
V(o, n) == [to |-> "version", objid |-> o, val |-> n]
M(o, x) == [to |-> "mem", objid |-> o, val |-> x]
L(o) == [to |-> "lock", objid |-> o, val |-> 0]

Critical == {"w_odd", "w_value", "w_fence", "w_even", "w_unlock"}

(* A writer's buffer and the version in memory, at every point between     *)
(* spin_lock and spin_unlock: the odd version and the value are out before *)
(* the even version is stored.                                             *)
Writer(t) ==
    LET o == loc[t].objid
        v == loc[t].version
        x == loc[t].val
    IN  /\ pc[t] = "w_odd" => buf[t] = << >> /\ Even(version[o])
        /\ pc[t] \in Critical \ {"w_odd"} => Even(v) /\ x = Value(t, thr[t].memop)
        /\ pc[t] = "w_value" => \/ buf[t] = <<V(o, v + 1)>> /\ version[o] = v
                                \/ buf[t] = << >> /\ version[o] = v + 1
        /\ pc[t] = "w_fence" => \/ buf[t] = <<V(o, v + 1), M(o, x)>> /\ version[o] = v
                                \/ buf[t] = <<M(o, x)>> /\ version[o] = v + 1
                                \/ buf[t] = << >> /\ version[o] = v + 1
        /\ pc[t] = "w_even" => buf[t] = << >> /\ version[o] = v + 1
        /\ pc[t] = "w_unlock" => \/ buf[t] = <<V(o, v + 2)>> /\ version[o] = v + 1
                                 \/ buf[t] = << >> /\ version[o] = v + 2

(* Outside, the end of the last write may still be in the buffer.          *)
Releasing(t, o) == buf[t] = <<V(o, version[o] + 1), L(o)>>
Unlocking(t, o) == buf[t] = <<L(o)>>

Outside(t) ==
    pc[t] \notin Critical =>
        \/ buf[t] = << >>
        \/ \E o \in Obj : Releasing(t, o) /\ ~Even(version[o])
        \/ \E o \in Obj : Unlocking(t, o) /\ Even(version[o])

(* The version t sees, and a reader whose version has not moved: its value *)
(* is the one of that version.                                             *)
Seen(t, o) == IF Releasing(t, o) THEN version[o] + 1 ELSE version[o]

Reader(t) ==
    LET o == loc[t].objid
        v == loc[t].version
    IN  /\ pc[t] \in {"r_value", "r_validate"} => Even(v) /\ v <= Seen(t, o)
        /\ pc[t] = "r_validate" /\ Seen(t, o) = v => loc[t].val = mem[o]

Holds(t, o) ==
    \/ pc[t] \in Critical /\ loc[t].objid = o
    \/ pc[t] \notin Critical /\ buf[t] # << >> /\ buf[t][Len(buf[t])] = L(o)

Typed(t) ==
    /\ loc[t].objid \in Obj /\ loc[t].version \in Nat
    /\ DOMAIN loc[t] = {"objid", "version", "val"}
    /\ pc[t] # "idle" => Running(thr[t]) /\ thr[t].memop < MaxOps

ThreadInv(t) == Typed(t) /\ Writer(t) /\ Outside(t) /\ Reader(t)

LockInv ==
    \A o \in Obj :
        /\ \A t, u \in Thread : Holds(t, o) /\ Holds(u, o) => t = u
        /\ write_lock[o] = BUSY <=> \E t \in Thread : Holds(t, o)
        /\ ~Even(version[o]) => \E t \in Thread : Holds(t, o)

Functions ==
    /\ version \in [Obj -> Nat] /\ write_lock \in [Obj -> {0, BUSY}] /\ pc \in [Thread -> PCs]
    /\ DOMAIN mem = Obj /\ DOMAIN loc = Thread /\ DOMAIN buf = Thread /\ DOMAIN thr = Thread

SeqInv == Functions /\ LockInv /\ \A t \in Thread : ThreadInv(t)

-----------------------------------------------------------------------------
LEMMA EvenFacts ==
    ASSUME NEW n \in Nat
    PROVE  (Even(n + 1) <=> ~Even(n)) /\ (Even(n + 2) <=> Even(n))
BY SMTT(60) DEF Even

(* Sequences of at most two stores                                         *)
LEMMA OneStore ==
    ASSUME NEW s, NEW a, s = <<a>>
    PROVE  Head(s) = a /\ Tail(s) = << >> /\ s # << >> /\ s[Len(s)] = a
BY SMTT(60)

LEMMA TwoStores ==
    ASSUME NEW s, NEW a, NEW b, s = <<a, b>>
    PROVE  Head(s) = a /\ Tail(s) = <<b>> /\ s # << >> /\ s[Len(s)] = b
BY SMTT(60)

LEMMA PushFirst ==
    ASSUME NEW s, NEW a, s = << >>
    PROVE  Append(s, a) = <<a>>
BY SMTT(60)

LEMMA PushSecond ==
    ASSUME NEW s, NEW a, NEW b, s = <<a>>
    PROVE  Append(s, b) = <<a, b>>
<1>1. <<a>> \in Seq({a, b}) /\ <<a, b>> \in Seq({a, b}) /\ Len(<<a>>) = 1 /\ Len(<<a, b>>) = 2
  BY SMTT(60)
<1>2. Append(<<a>>, b) \in Seq({a, b}) /\ Len(Append(<<a>>, b)) = 2
  BY <1>1, SMTT(60)
<1>3. Append(<<a>>, b)[1] = a /\ Append(<<a>>, b)[2] = b
  BY <1>1, SMTT(60)
<1>4. \A i \in 1 .. Len(Append(<<a>>, b)) : Append(<<a>>, b)[i] = <<a, b>>[i]
  <2>1. \A i \in 1 .. 2 : i = 1 \/ i = 2
    BY SMTT(60)
  <2>2. <<a, b>>[1] = a /\ <<a, b>>[2] = b
    OBVIOUS
  <2> QED BY <1>2, <1>3, <2>1, <2>2
<1> QED BY <1>1, <1>2, <1>4, SeqEqual

LEMMA Stores ==
    ASSUME NEW o, NEW p, NEW n, NEW x
    PROVE  /\ L(o) = L(p) => o = p
           /\ V(o, n) # L(p) /\ V(o, n) # M(p, x) /\ M(o, x) # L(p)
           /\ V(o, n).to = "version" /\ V(o, n).objid = o /\ V(o, n).val = n
           /\ M(o, x).to = "mem" /\ M(o, x).objid = o /\ M(o, x).val = x
           /\ L(o).to = "lock" /\ L(o).objid = o /\ L(o).val = 0
BY DEF L, V, M

LEMMA HoldsPending ==
    ASSUME NEW t \in Thread, NEW o \in Obj, pc[t] \notin Critical
    PROVE  /\ Releasing(t, o) \/ Unlocking(t, o) => Holds(t, o)
           /\ Holds(t, o) /\ Outside(t) => Releasing(t, o) \/ Unlocking(t, o)
<1>1. \A p : Releasing(t, p) \/ Unlocking(t, p) => buf[t] # << >> /\ buf[t][Len(buf[t])] = L(p)
  <2> SUFFICES ASSUME NEW p, Releasing(t, p) \/ Unlocking(t, p)
               PROVE  buf[t] # << >> /\ buf[t][Len(buf[t])] = L(p)
    OBVIOUS
  <2>1. CASE Releasing(t, p)
    <3>1. buf[t] = <<V(p, version[p] + 1), L(p)>>
      BY <2>1 DEF Releasing
    <3> QED BY <3>1, TwoStores
  <2>2. CASE Unlocking(t, p)
    <3>1. buf[t] = <<L(p)>>
      BY <2>2 DEF Unlocking
    <3> QED BY <3>1, OneStore
  <2> QED BY <2>1, <2>2
<1>2. ASSUME Holds(t, o), Outside(t) PROVE Releasing(t, o) \/ Unlocking(t, o)
  <2>1. PICK p \in Obj : Releasing(t, p) \/ Unlocking(t, p)
    BY <1>2 DEF Holds, Outside
  <2>2. buf[t][Len(buf[t])] = L(p)
    BY <1>1, <2>1
  <2>3. p = o
    BY <1>2, <2>2, Stores, SMTT(30) DEF Holds
  <2> QED BY <2>1, <2>3
<1> QED BY <1>1, <1>2 DEF Holds

-----------------------------------------------------------------------------
(* What a step of t may do to the other threads: leave their state alone,  *)
(* change only objects it holds, and take and give back locks properly.    *)
OthersSame(t) ==
    \A u \in Thread \ {t} : pc'[u] = pc[u] /\ buf'[u] = buf[u] /\ loc'[u] = loc[u] /\ thr'[u] = thr[u]

ChangesHeld(t) ==
    \A o \in Obj :
        \/ version'[o] = version[o] /\ mem'[o] = mem[o]
        \/ Holds(t, o) /\ version'[o] = version[o] + 1 /\ mem'[o] = mem[o]
        \/ Holds(t, o) /\ version'[o] = version[o] /\ ~Even(version[o])

LocksProperly(t) ==
    \A o \in Obj :
        \/ write_lock'[o] = write_lock[o] /\ (Holds(t, o)' <=> Holds(t, o))
        \/ write_lock[o] # BUSY /\ write_lock'[o] = BUSY /\ Holds(t, o)'
        \/ Holds(t, o) /\ ~Holds(t, o)' /\ write_lock'[o] # BUSY /\ Even(version'[o])

LEMMA HoldsSame ==
    ASSUME NEW t \in Thread, NEW u \in Thread \ {t}, NEW o, OthersSame(t)
    PROVE  Holds(u, o)' <=> Holds(u, o)
BY DEF OthersSame, Holds

(* A thread that t does not interfere with keeps its invariant.            *)
LEMMA OtherKeepsInv ==
    ASSUME SeqInv, Functions', NEW t \in Thread, NEW u \in Thread \ {t},
           OthersSame(t), ChangesHeld(t)
    PROVE  ThreadInv(u)'
<1>1. ThreadInv(u) /\ version \in [Obj -> Nat] /\ loc[u].objid \in Obj
  BY DEF SeqInv, ThreadInv, Typed, Functions
<1>2. pc'[u] = pc[u] /\ buf'[u] = buf[u] /\ loc'[u] = loc[u] /\ thr'[u] = thr[u]
  BY DEF OthersSame
<1>3. \A o \in Obj : Holds(u, o) => ~Holds(t, o)
  BY DEF SeqInv, LockInv
<1>4. \A o \in Obj : Holds(u, o) => version'[o] = version[o] /\ mem'[o] = mem[o]
  BY <1>3 DEF ChangesHeld
<1>5. Typed(u)'
  BY <1>1, <1>2 DEF ThreadInv, Typed
<1>6. Writer(u)'
  <2>1. CASE pc[u] \in Critical
    <3>1. version'[loc[u].objid] = version[loc[u].objid]
      BY <1>1, <1>4, <2>1 DEF Holds
    <3> QED BY <1>1, <1>2, <3>1 DEF ThreadInv, Writer
  <2>2. CASE pc[u] \notin Critical
    BY <1>2, <2>2 DEF Writer, Critical
  <2> QED BY <2>1, <2>2
<1>7. ASSUME pc[u] \notin Critical, NEW o \in Obj
      PROVE  /\ Releasing(u, o)' <=> Releasing(u, o)
             /\ Unlocking(u, o)' <=> Unlocking(u, o)
             /\ Releasing(u, o) \/ Unlocking(u, o) => Holds(u, o)
  <2>1. Releasing(u, o) \/ Unlocking(u, o) => Holds(u, o)
    BY <1>7, HoldsPending
  <2>2. Unlocking(u, o)' <=> Unlocking(u, o)
    BY <1>2 DEF Unlocking
  <2>3. ASSUME Releasing(u, o)' PROVE Holds(u, o)
    <3>1. buf[u] = <<V(o, version'[o] + 1), L(o)>>
      BY <1>2, <2>3 DEF Releasing
    <3>2. buf[u] # << >> /\ buf[u][Len(buf[u])] = L(o)
      BY <3>1, TwoStores
    <3> QED BY <1>7, <3>2 DEF Holds
  <2>4. Releasing(u, o)' <=> Releasing(u, o)
    BY <1>2, <1>4, <2>1, <2>3 DEF Releasing
  <2> QED BY <2>1, <2>2, <2>4
<1>8. Outside(u)'
  BY <1>1, <1>2, <1>4, <1>7 DEF ThreadInv, Outside
<1>9. Reader(u)'
  <2>1. CASE pc[u] \in {"r_value", "r_validate"}
    <3>0. PICK o \in Obj : o = loc[u].objid
      BY <1>1
    <3> DEFINE v == loc[u].version
    <3>1. pc[u] \notin Critical /\ v \in Nat /\ version[o] \in Nat /\ version'[o] \in Nat
      BY <1>1, <2>1 DEF Critical, ThreadInv, Typed, Functions
    <3>2. CASE Holds(t, o)
      <4>1. ~Releasing(u, o) /\ ~Releasing(u, o)'
        BY <1>1, <1>3, <1>7, <3>1, <3>2
      <4>2. Seen(u, o) = version[o]
        BY <4>1 DEF Seen
      <4>3. (Seen(u, o))' = version'[o]
        BY <1>2, <4>1 DEF Seen
      <4>4. Even(v) /\ v <= version[o] /\ (pc[u] = "r_validate" /\ version[o] = v => loc[u].val = mem[o])
        BY <1>1, <2>1, <3>0, <4>2 DEF ThreadInv, Reader
      <4>5. \/ version'[o] = version[o] /\ mem'[o] = mem[o]
            \/ version'[o] = version[o] + 1
            \/ version'[o] = version[o] /\ ~Even(version[o])
        BY <1>1 DEF ChangesHeld
      <4>6. v <= version'[o] /\ (pc[u] = "r_validate" /\ version'[o] = v => loc[u].val = mem'[o])
        BY <3>1, <4>4, <4>5, SMTT(60)
      <4> QED BY <1>2, <3>0, <4>3, <4>4, <4>6 DEF Reader
    <3>3. CASE ~Holds(t, o)
      <4>1. version'[o] = version[o] /\ mem'[o] = mem[o]
        BY <1>1, <3>3 DEF ChangesHeld
      <4>2. Releasing(u, o)' <=> Releasing(u, o)
        BY <1>1, <1>7, <3>1
      <4>3. (Seen(u, o))' = Seen(u, o)
        BY <1>2, <4>1, <4>2 DEF Seen
      <4> QED BY <1>1, <1>2, <3>0, <4>1, <4>3 DEF ThreadInv, Reader
    <3> QED BY <3>2, <3>3
  <2>2. CASE pc[u] \notin {"r_value", "r_validate"}
    BY <1>2, <2>2 DEF Reader
  <2> QED BY <2>1, <2>2
<1> QED BY <1>5, <1>6, <1>8, <1>9 DEF ThreadInv

LEMMA StepKeepsInv ==
    ASSUME SeqInv, Functions', NEW t \in Thread,
           OthersSame(t), ChangesHeld(t), LocksProperly(t), ThreadInv(t)'
    PROVE  SeqInv'
<1>1. \A u \in Thread : ThreadInv(u)'
  BY OtherKeepsInv
<1>2. ASSUME NEW o \in Obj
      PROVE  /\ \A u, w \in Thread : Holds(u, o)' /\ Holds(w, o)' => u = w
             /\ write_lock'[o] = BUSY <=> \E u \in Thread : Holds(u, o)'
             /\ ~Even(version'[o]) => \E u \in Thread : Holds(u, o)'
  <2>1. \A u \in Thread \ {t} : Holds(u, o)' <=> Holds(u, o)
    BY HoldsSame
  <2>2. /\ \A u, w \in Thread : Holds(u, o) /\ Holds(w, o) => u = w
        /\ write_lock[o] = BUSY <=> \E u \in Thread : Holds(u, o)
        /\ ~Even(version[o]) => \E u \in Thread : Holds(u, o)
    BY DEF SeqInv, LockInv
  <2>3. version'[o] = version[o] \/ Holds(t, o)
    BY DEF ChangesHeld
  <2>4. CASE write_lock'[o] = write_lock[o] /\ (Holds(t, o)' <=> Holds(t, o))
    BY <2>1, <2>2, <2>3, <2>4
  <2>5. CASE write_lock[o] # BUSY /\ write_lock'[o] = BUSY /\ Holds(t, o)'
    BY <2>1, <2>2, <2>5
  <2>6. CASE Holds(t, o) /\ ~Holds(t, o)' /\ write_lock'[o] # BUSY /\ Even(version'[o])
    BY <2>1, <2>2, <2>6
  <2> QED BY <2>4, <2>5, <2>6 DEF LocksProperly
<1> QED BY <1>1, <1>2 DEF SeqInv, LockInv

-----------------------------------------------------------------------------
(* What a thread loads                                                     *)
LEMMA LoadDrained ==
    ASSUME NEW t \in Thread, NEW o \in Obj, buf[t] = << >>
    PROVE  Load(t, "version", o) = version[o] /\ Load(t, "mem", o) = mem[o]
<1>1. Pending(t, "version", o) = {} /\ Pending(t, "mem", o) = {}
  BY SMTT(60) DEF Pending
<1> QED BY <1>1 DEF Load

LEMMA LoadOutside ==
    ASSUME Functions, NEW t \in Thread, NEW o \in Obj, pc[t] \notin Critical, Outside(t)
    PROVE  Load(t, "version", o) = Seen(t, o) /\ Load(t, "mem", o) = mem[o]
<1>1. CASE buf[t] = << >>
  <2>1. ~Releasing(t, o)
    BY <1>1, SMTT(60) DEF Releasing
  <2> QED BY <1>1, <2>1, LoadDrained DEF Seen
<1>2. ASSUME NEW p \in Obj, Unlocking(t, p) PROVE Load(t, "version", o) = Seen(t, o) /\ Load(t, "mem", o) = mem[o]
  <2>1. Len(buf[t]) = 1 /\ buf[t][1].to = "lock"
    BY <1>2, Stores, SMTT(30) DEF Unlocking
  <2>2. Pending(t, "version", o) = {} /\ Pending(t, "mem", o) = {}
    BY <2>1, SMTT(60) DEF Pending
  <2>3. ~Releasing(t, o)
    BY <2>1, SMTT(60) DEF Releasing
  <2> QED BY <2>2, <2>3 DEF Load, Seen
<1>3. ASSUME NEW p \in Obj, Releasing(t, p) PROVE Load(t, "version", o) = Seen(t, o) /\ Load(t, "mem", o) = mem[o]
  <2>1. /\ Len(buf[t]) = 2 /\ buf[t][1] = V(p, version[p] + 1) /\ buf[t][2] = L(p)
    BY <1>3, SMTT(30) DEF Releasing
  <2>2. /\ buf[t][1].to = "version" /\ buf[t][1].objid = p /\ buf[t][1].val = version[p] + 1
        /\ buf[t][2].to = "lock"
    BY <2>1, Stores, SMTT(60)
  <2>3. Pending(t, "mem", o) = {} /\ Pending(t, "version", o) = IF o = p THEN {1} ELSE {}
    BY <2>1, <2>2, SMTT(30) DEF Pending
  <2>4. Load(t, "mem", o) = mem[o]
    BY <2>3 DEF Load
  <2>5. CASE o = p
    <3>1. Load(t, "version", o) = buf[t][CHOOSE i \in {1} : \A j \in {1} : j <= i].val
      BY <2>3, <2>5 DEF Load
    <3>2. (CHOOSE i \in {1} : \A j \in {1} : j <= i) = 1
      BY SMTT(60)
    <3> QED BY <1>3, <2>2, <2>4, <2>5, <3>1, <3>2 DEF Seen
  <2>6. CASE o # p
    <3>1. ~Releasing(t, o)
      BY <2>1, <2>6, Stores, SMTT(30) DEF Releasing
    <3> QED BY <2>3, <2>4, <2>6, <3>1 DEF Load, Seen
  <2> QED BY <2>5, <2>6
<1> QED BY <1>1, <1>2, <1>3 DEF Outside

(* The locals of t become a, b, c; the other threads' stay.                *)
LocIs(t, a, b, c) ==
    /\ DOMAIN loc' = Thread /\ DOMAIN loc'[t] = {"objid", "version", "val"}
    /\ loc'[t].objid = a /\ loc'[t].version = b /\ loc'[t].val = c
    /\ \A u \in Thread \ {t} : loc'[u] = loc[u]

LEMMA LocSet ==
    ASSUME NEW t \in Thread, Functions, Typed(t), NEW a, NEW b
    PROVE  /\ loc' = [loc EXCEPT ![t].objid = a] => LocIs(t, a, loc[t].version, loc[t].val)
           /\ loc' = [loc EXCEPT ![t].version = a] => LocIs(t, loc[t].objid, a, loc[t].val)
           /\ loc' = [loc EXCEPT ![t].val = a] => LocIs(t, loc[t].objid, loc[t].version, a)
           /\ loc' = [loc EXCEPT ![t].version = a, ![t].val = b] => LocIs(t, loc[t].objid, a, b)
           /\ loc' = loc => LocIs(t, loc[t].objid, loc[t].version, loc[t].val)
<1>1. DOMAIN loc = Thread /\ DOMAIN loc[t] = {"objid", "version", "val"}
  BY DEF Functions, Typed
<1>2. loc' = [loc EXCEPT ![t].objid = a] => LocIs(t, a, loc[t].version, loc[t].val)
  BY <1>1 DEF LocIs
<1>3. loc' = [loc EXCEPT ![t].version = a] => LocIs(t, loc[t].objid, a, loc[t].val)
  BY <1>1 DEF LocIs
<1>4. loc' = [loc EXCEPT ![t].val = a] => LocIs(t, loc[t].objid, loc[t].version, a)
  BY <1>1 DEF LocIs
<1>5. loc' = [loc EXCEPT ![t].version = a, ![t].val = b] => LocIs(t, loc[t].objid, a, b)
  BY <1>1, SMTT(60) DEF LocIs
<1>6. loc' = loc => LocIs(t, loc[t].objid, loc[t].version, loc[t].val)
  BY <1>1 DEF LocIs
<1> QED BY <1>2, <1>3, <1>4, <1>5, <1>6

(* A step of t that leaves memory and buffers alone                        *)
Quiet(t, q, a, b, c) ==
    /\ q \in PCs /\ pc' = [pc EXCEPT ![t] = q]
    /\ LocIs(t, a, b, c) /\ a \in Obj /\ b \in Nat
    /\ q \in Critical <=> pc[t] \in Critical
    /\ q \in Critical => a = loc[t].objid
    /\ DOMAIN thr' = Thread /\ \A u \in Thread \ {t} : thr'[u] = thr[u]
    /\ q # "idle" => Running(thr'[t]) /\ thr'[t].memop < MaxOps
    /\ UNCHANGED <<version, mem, write_lock, buf>>

LEMMA QuietStep ==
    ASSUME SeqInv, NEW t \in Thread, NEW q, NEW a, NEW b, NEW c, Quiet(t, q, a, b, c),
           Writer(t)', Reader(t)'
    PROVE  SeqInv'
<1>1. /\ pc'[t] = q /\ pc' \in [Thread -> PCs] /\ \A u \in Thread \ {t} : pc'[u] = pc[u]
      /\ LocIs(t, a, b, c)
  BY DEF SeqInv, Functions, Quiet
<1>2. UNCHANGED <<version, mem, write_lock, buf>>
  BY DEF Quiet
<1>3. Functions'
  BY <1>1, <1>2 DEF SeqInv, Functions, Quiet, LocIs
<1>4. OthersSame(t)
  BY <1>1, <1>2 DEF OthersSame, Quiet, LocIs
<1>5. ChangesHeld(t)
  BY <1>2 DEF ChangesHeld
<1>6. LocksProperly(t)
  BY <1>1, <1>2 DEF LocksProperly, Holds, Quiet, LocIs
<1>7. Typed(t)'
  BY <1>1 DEF Typed, Quiet, LocIs
<1>8. Outside(t)'
  BY <1>1, <1>2, SMTT(30) DEF SeqInv, ThreadInv, Outside, Releasing, Unlocking, Quiet
<1> QED BY <1>3, <1>4, <1>5, <1>6, <1>7, <1>8, StepKeepsInv DEF ThreadInv

LEMMA CallStep ==
    ASSUME SeqInv, NEW t \in Thread, NEW o \in Obj, NEW entry \in {"r_version", "w_lock"},
           Call(t, o, entry)
    PROVE  SeqInv'
<1>1. Typed(t) /\ Functions
  BY DEF SeqInv, ThreadInv
<1>2. /\ pc[t] = "idle" /\ pc' = [pc EXCEPT ![t] = entry] /\ thr' = thr
      /\ UNCHANGED <<version, mem, write_lock, buf>> /\ Running(thr[t]) /\ thr[t].memop < MaxOps
  BY DEF Call, At, Goto, shared
<1>3. LocIs(t, o, loc[t].version, loc[t].val)
  BY <1>1, LocSet DEF Call
<1>4. Quiet(t, entry, o, loc[t].version, loc[t].val)
  BY <1>1, <1>2, <1>3 DEF Quiet, PCs, Critical, Typed, Functions
<1>5. pc'[t] = entry
  BY <1>1, <1>2 DEF Functions
<1>6. Writer(t)' /\ Reader(t)'
  BY <1>5 DEF Writer, Reader, Critical
<1> QED BY <1>4, <1>6, QuietStep

LEMMA ReadVersionStep ==
    ASSUME SeqInv, NEW t \in Thread, read_version(t)
    PROVE  SeqInv'
<1>1. Typed(t) /\ Outside(t) /\ Functions
  BY DEF SeqInv, ThreadInv
<1>2. PICK o \in Obj, v \in {Load(t, "version", loc[t].objid)} : o = loc[t].objid /\ v = Load(t, "version", o)
  BY <1>1 DEF Typed
<1>3. /\ pc[t] = "r_version" /\ pc' = [pc EXCEPT ![t] = "r_value"] /\ thr' = thr /\ Even(v)
      /\ UNCHANGED <<version, mem, write_lock, buf>>
  BY <1>2 DEF read_version, At, Goto, shared
<1>4. v = Seen(t, o) /\ Seen(t, o) \in Nat
  BY <1>1, <1>2, <1>3, LoadOutside, SMTT(30) DEF Critical, Seen, Functions
<1>5. LocIs(t, o, v, loc[t].val)
  BY <1>1, <1>2, LocSet DEF read_version
<1>6. Quiet(t, "r_value", o, v, loc[t].val)
  BY <1>1, <1>3, <1>4, <1>5 DEF Quiet, PCs, Critical, Typed, Functions
<1>7. pc'[t] = "r_value" /\ Seen(t, o)' = Seen(t, o)
  BY <1>1, <1>3 DEF Functions, Seen, Releasing
<1>8. Writer(t)'
  BY <1>7 DEF Writer, Critical
<1>9. Reader(t)'
  BY <1>3, <1>4, <1>5, <1>7, SMTT(30) DEF Reader, LocIs
<1> QED BY <1>6, <1>8, <1>9, QuietStep

LEMMA ReadValueStep ==
    ASSUME SeqInv, NEW t \in Thread, read_value(t)
    PROVE  SeqInv'
<1>1. Typed(t) /\ Outside(t) /\ Reader(t) /\ Functions
  BY DEF SeqInv, ThreadInv
<1>2. PICK o \in Obj, v \in Nat : o = loc[t].objid /\ v = loc[t].version
  BY <1>1 DEF Typed
<1>3. /\ pc[t] = "r_value" /\ pc' = [pc EXCEPT ![t] = "r_validate"] /\ thr' = thr
      /\ UNCHANGED <<version, mem, write_lock, buf>>
  BY DEF read_value, At, Goto, shared
<1>4. Load(t, "mem", o) = mem[o]
  BY <1>1, <1>3, LoadOutside DEF Critical
<1>5. LocIs(t, o, v, mem[o])
  BY <1>1, <1>2, <1>4, LocSet DEF read_value
<1>6. Quiet(t, "r_validate", o, v, mem[o])
  BY <1>1, <1>3, <1>5 DEF Quiet, PCs, Critical, Typed, Functions
<1>7. pc'[t] = "r_validate" /\ Seen(t, o)' = Seen(t, o)
  BY <1>1, <1>3 DEF Functions, Seen, Releasing
<1>8. Writer(t)'
  BY <1>7 DEF Writer, Critical
<1>9. Reader(t)'
  BY <1>1, <1>2, <1>3, <1>5, <1>7 DEF Reader, LocIs
<1> QED BY <1>6, <1>8, <1>9, QuietStep

LEMMA ReadValidateStep ==
    ASSUME SeqInv, NEW t \in Thread, read_validate(t)
    PROVE  SeqInv'
<1>1. Typed(t) /\ Functions
  BY DEF SeqInv, ThreadInv
<1>2. PICK q \in {"idle", "r_version"} : pc' = [pc EXCEPT ![t] = q] /\ (q = "r_version" => thr' = thr)
  BY DEF read_validate, Goto
<1>3. /\ pc[t] = "r_validate" /\ DOMAIN thr' = Thread /\ \A u \in Thread \ {t} : thr'[u] = thr[u]
      /\ UNCHANGED <<version, mem, write_lock, buf, loc>>
  BY <1>1 DEF read_validate, At, shared, Functions
<1>4. LocIs(t, loc[t].objid, loc[t].version, loc[t].val)
  BY <1>1, <1>3, LocSet
<1>5. Quiet(t, q, loc[t].objid, loc[t].version, loc[t].val)
  BY <1>1, <1>2, <1>3, <1>4 DEF Quiet, PCs, Critical, Typed
<1>6. pc'[t] = q
  BY <1>1, <1>2 DEF Functions
<1>7. Writer(t)' /\ Reader(t)'
  BY <1>6 DEF Writer, Reader, Critical
<1> QED BY <1>5, <1>7, QuietStep

LEMMA FinishStep ==
    ASSUME SeqInv, NEW t \in Thread, mem_finish_thr(t)
    PROVE  SeqInv'
<1>1. Typed(t) /\ Functions
  BY DEF SeqInv, ThreadInv
<1>2. /\ pc[t] = "idle" /\ DOMAIN thr' = Thread /\ \A u \in Thread \ {t} : thr'[u] = thr[u]
      /\ UNCHANGED <<version, mem, write_lock, buf, pc, loc>>
  BY <1>1 DEF mem_finish_thr, At, shared, Functions
<1>3. pc' = [pc EXCEPT ![t] = "idle"]
  BY <1>1, <1>2 DEF Functions
<1>4. LocIs(t, loc[t].objid, loc[t].version, loc[t].val)
  BY <1>1, <1>2, LocSet
<1>5. Quiet(t, "idle", loc[t].objid, loc[t].version, loc[t].val)
  BY <1>1, <1>2, <1>3, <1>4 DEF Quiet, PCs, Critical, Typed
<1>6. Writer(t)' /\ Reader(t)'
  BY <1>2 DEF Writer, Reader, Critical
<1> QED BY <1>5, <1>6, QuietStep

LEMMA WriteFenceStep ==
    ASSUME SeqInv, NEW t \in Thread, write_fence(t)
    PROVE  SeqInv'
<1>1. Typed(t) /\ Writer(t) /\ Functions
  BY DEF SeqInv, ThreadInv
<1>2. /\ pc[t] = "w_fence" /\ pc' = [pc EXCEPT ![t] = "w_even"] /\ buf[t] = << >>
      /\ UNCHANGED <<version, mem, write_lock, buf, loc, thr>>
  BY DEF write_fence, At, Goto, Drained, shared
<1>3. LocIs(t, loc[t].objid, loc[t].version, loc[t].val)
  BY <1>1, <1>2, LocSet
<1>4. Quiet(t, "w_even", loc[t].objid, loc[t].version, loc[t].val)
  BY <1>1, <1>2, <1>3 DEF Quiet, PCs, Critical, Typed, Functions
<1>5. pc'[t] = "w_even"
  BY <1>1, <1>2 DEF Functions
<1>6. Reader(t)'
  BY <1>5 DEF Reader
<1>7. version[loc[t].objid] = loc[t].version + 1
  <2>1. /\ buf[t] # <<V(loc[t].objid, loc[t].version + 1), M(loc[t].objid, loc[t].val)>>
        /\ buf[t] # <<M(loc[t].objid, loc[t].val)>>
    BY <1>2, SMTT(30)
  <2> QED BY <1>1, <1>2, <2>1 DEF Writer
<1>8. Even(loc[t].version) /\ loc[t].val = Value(t, thr[t].memop)
  BY <1>1, <1>2 DEF Writer, Critical
<1>9. Writer(t)'
  BY <1>2, <1>5, <1>7, <1>8 DEF Writer
<1> QED BY <1>4, <1>6, <1>9, QuietStep

-----------------------------------------------------------------------------
(* A step of the writer t that puts s into its buffer                      *)
Pushes(t, q, b, c, s) ==
    /\ pc[t] \in Critical /\ q \in PCs /\ pc' = [pc EXCEPT ![t] = q]
    /\ LocIs(t, loc[t].objid, b, c) /\ b \in Nat
    /\ buf' = [buf EXCEPT ![t] = Append(@, s)]
    /\ DOMAIN thr' = Thread /\ \A u \in Thread \ {t} : thr'[u] = thr[u]
    /\ q # "idle" => Running(thr'[t]) /\ thr'[t].memop < MaxOps
    /\ UNCHANGED <<version, mem, write_lock>>

LEMMA PushStep ==
    ASSUME SeqInv, NEW t \in Thread, NEW q, NEW b, NEW c, NEW s, Pushes(t, q, b, c, s),
           \A o \in Obj : Holds(t, o)' <=> o = loc[t].objid,
           Writer(t)', Outside(t)', Reader(t)'
    PROVE  SeqInv'
<1>0. loc[t].objid \in Obj
  BY DEF SeqInv, ThreadInv, Typed
<1>1. /\ pc'[t] = q /\ pc' \in [Thread -> PCs] /\ DOMAIN buf' = Thread
      /\ \A u \in Thread \ {t} : pc'[u] = pc[u] /\ buf'[u] = buf[u]
      /\ LocIs(t, loc[t].objid, b, c)
  BY DEF SeqInv, Functions, Pushes
<1>2. UNCHANGED <<version, mem, write_lock>>
  BY DEF Pushes
<1>3. Functions'
  BY <1>1, <1>2 DEF SeqInv, Functions, Pushes, LocIs
<1>4. OthersSame(t)
  BY <1>1 DEF OthersSame, Pushes, LocIs
<1>5. ChangesHeld(t)
  BY <1>2 DEF ChangesHeld
<1>6. LocksProperly(t)
  <2>1. \A o \in Obj : Holds(t, o) <=> o = loc[t].objid
    BY DEF Holds, Pushes
  <2> QED BY <1>2, <2>1 DEF LocksProperly
<1>7. Typed(t)'
  BY <1>0, <1>1 DEF Typed, Pushes, LocIs
<1> QED BY <1>3, <1>4, <1>5, <1>6, <1>7, StepKeepsInv DEF ThreadInv

LEMMA PushInside ==
    ASSUME SeqInv, NEW t \in Thread, NEW q, NEW b, NEW c, NEW s, Pushes(t, q, b, c, s),
           q \in Critical, Writer(t)'
    PROVE  SeqInv'
<1>1. pc'[t] = q /\ loc'[t].objid = loc[t].objid
  BY DEF SeqInv, Functions, Pushes, LocIs
<1>2. \A o \in Obj : Holds(t, o)' <=> o = loc[t].objid
  BY <1>1 DEF Holds
<1>3. Outside(t)' /\ Reader(t)'
  BY <1>1 DEF Outside, Reader, Critical
<1> QED BY <1>2, <1>3, PushStep

LEMMA WriteOddStep ==
    ASSUME SeqInv, NEW t \in Thread, write_odd(t)
    PROVE  SeqInv'
<1>1. Typed(t) /\ Writer(t) /\ Functions
  BY DEF SeqInv, ThreadInv
<1>2. PICK o \in Obj, v \in {Load(t, "version", loc[t].objid)} : o = loc[t].objid /\ v = Load(t, "version", o)
  BY <1>1 DEF Typed
<1>3. /\ pc[t] = "w_odd" /\ pc' = [pc EXCEPT ![t] = "w_value"]
      /\ buf' = [buf EXCEPT ![t] = Append(@, V(o, v + 1))]
      /\ UNCHANGED <<version, mem, write_lock, thr>>
  BY <1>2 DEF write_odd, At, Goto, Push, V, shared
<1>4. buf[t] = << >> /\ Even(version[o])
  BY <1>1, <1>2, <1>3 DEF Writer
<1>5. v = version[o] /\ v \in Nat
  BY <1>1, <1>2, <1>4, LoadDrained DEF Functions
<1>6. LocIs(t, o, v, Value(t, thr[t].memop))
  BY <1>1, <1>2, LocSet DEF write_odd
<1>7. Pushes(t, "w_value", v, Value(t, thr[t].memop), V(o, v + 1))
  BY <1>1, <1>2, <1>3, <1>5, <1>6 DEF Pushes, PCs, Critical, Typed, Functions
<1>8. pc'[t] = "w_value" /\ buf'[t] = <<V(o, v + 1)>>
  <2>1. buf'[t] = Append(buf[t], V(o, v + 1)) /\ pc'[t] = "w_value"
    BY <1>1, <1>3 DEF Functions
  <2> QED BY <1>4, <2>1, PushFirst
<1>9. Writer(t)'
  BY <1>3, <1>4, <1>5, <1>6, <1>8 DEF Writer, LocIs
<1> QED BY <1>7, <1>9, PushInside DEF Critical

LEMMA WriteValueStep ==
    ASSUME SeqInv, NEW t \in Thread, write_value(t)
    PROVE  SeqInv'
<1>1. Typed(t) /\ Writer(t) /\ Functions
  BY DEF SeqInv, ThreadInv
<1>2. PICK o \in Obj, v \in Nat, x \in {loc[t].val} : o = loc[t].objid /\ v = loc[t].version /\ x = loc[t].val
  BY <1>1 DEF Typed
<1>3. /\ pc[t] = "w_value" /\ pc' = [pc EXCEPT ![t] = "w_fence"]
      /\ buf' = [buf EXCEPT ![t] = Append(@, M(o, x))]
      /\ UNCHANGED <<version, mem, write_lock, loc, thr>>
  BY <1>2 DEF write_value, At, Goto, Push, M, shared
<1>4. /\ Even(v) /\ x = Value(t, thr[t].memop)
      /\ \/ buf[t] = <<V(o, v + 1)>> /\ version[o] = v
         \/ buf[t] = << >> /\ version[o] = v + 1
  BY <1>1, <1>2, <1>3 DEF Writer, Critical
<1>5. LocIs(t, o, v, x)
  BY <1>1, <1>2, <1>3, LocSet
<1>6. Pushes(t, "w_fence", v, x, M(o, x))
  BY <1>1, <1>2, <1>3, <1>5 DEF Pushes, PCs, Critical, Typed, Functions
<1>7. pc'[t] = "w_fence" /\ buf'[t] = Append(buf[t], M(o, x))
  BY <1>1, <1>3 DEF Functions
<1>8. \/ buf'[t] = <<V(o, v + 1), M(o, x)>> /\ version'[o] = v
      \/ buf'[t] = <<M(o, x)>> /\ version'[o] = v + 1
  <2>1. CASE buf[t] = <<V(o, v + 1)>> /\ version[o] = v
    <3>1. Append(buf[t], M(o, x)) = <<V(o, v + 1), M(o, x)>>
      BY <2>1, PushSecond
    <3> QED BY <1>3, <1>7, <2>1, <3>1
  <2>2. CASE buf[t] = << >> /\ version[o] = v + 1
    <3>1. Append(buf[t], M(o, x)) = <<M(o, x)>>
      BY <2>2, PushFirst
    <3> QED BY <1>3, <1>7, <2>2, <3>1
  <2> QED BY <1>4, <2>1, <2>2
<1>9. Writer(t)'
  BY <1>3, <1>4, <1>5, <1>7, <1>8 DEF Writer, LocIs
<1> QED BY <1>6, <1>9, PushInside DEF Critical

LEMMA WriteEvenStep ==
    ASSUME SeqInv, NEW t \in Thread, write_even(t)
    PROVE  SeqInv'
<1>1. Typed(t) /\ Writer(t) /\ Functions
  BY DEF SeqInv, ThreadInv
<1>2. PICK o \in Obj, v \in Nat, x \in {loc[t].val} : o = loc[t].objid /\ v = loc[t].version /\ x = loc[t].val
  BY <1>1 DEF Typed
<1>3. pc[t] = "w_even"
  BY DEF write_even, At
<1>4. Even(v) /\ x = Value(t, thr[t].memop) /\ buf[t] = << >> /\ version[o] = v + 1
  BY <1>1, <1>2, <1>3 DEF Writer, Critical
<1>5. Load(t, "version", o) + 1 = v + 2
  BY <1>4, LoadDrained, SMTT(30)
<1>6. /\ pc' = [pc EXCEPT ![t] = "w_unlock"]
      /\ buf' = [buf EXCEPT ![t] = Append(@, V(o, v + 2))]
      /\ UNCHANGED <<version, mem, write_lock, loc, thr>>
  BY <1>2, <1>5 DEF write_even, Goto, Push, V, shared
<1>7. LocIs(t, o, v, x)
  BY <1>1, <1>2, <1>6, LocSet
<1>8. Pushes(t, "w_unlock", v, x, V(o, v + 2))
  BY <1>1, <1>2, <1>3, <1>6, <1>7 DEF Pushes, PCs, Critical, Typed, Functions
<1>9. pc'[t] = "w_unlock" /\ buf'[t] = <<V(o, v + 2)>>
  <2>1. buf'[t] = Append(buf[t], V(o, v + 2)) /\ pc'[t] = "w_unlock"
    BY <1>1, <1>6 DEF Functions
  <2> QED BY <1>4, <2>1, PushFirst
<1>10. Writer(t)'
  BY <1>4, <1>6, <1>7, <1>9 DEF Writer, LocIs
<1> QED BY <1>8, <1>10, PushInside DEF Critical

LEMMA SpinUnlockStep ==
    ASSUME SeqInv, NEW t \in Thread, spin_unlock(t)
    PROVE  SeqInv'
<1>1. Typed(t) /\ Writer(t) /\ Functions
  BY DEF SeqInv, ThreadInv
<1>2. PICK o \in Obj, v \in Nat, x \in {loc[t].val} : o = loc[t].objid /\ v = loc[t].version /\ x = loc[t].val
  BY <1>1 DEF Typed
<1>3. /\ pc[t] = "w_unlock" /\ pc' = [pc EXCEPT ![t] = "idle"]
      /\ buf' = [buf EXCEPT ![t] = Append(@, L(o))]
      /\ DOMAIN thr' = Thread /\ \A u \in Thread \ {t} : thr'[u] = thr[u]
      /\ UNCHANGED <<version, mem, write_lock, loc>>
  BY <1>1, <1>2 DEF spin_unlock, At, Goto, Push, L, shared, Functions
<1>4. /\ Even(v)
      /\ \/ buf[t] = <<V(o, v + 2)>> /\ version[o] = v + 1
         \/ buf[t] = << >> /\ version[o] = v + 2
  BY <1>1, <1>2, <1>3 DEF Writer, Critical
<1>5. LocIs(t, o, v, x)
  BY <1>1, <1>2, <1>3, LocSet
<1>6. Pushes(t, "idle", v, x, L(o))
  BY <1>1, <1>2, <1>3, <1>5 DEF Pushes, PCs, Critical, Typed, Functions
<1>7. pc'[t] = "idle" /\ buf'[t] = Append(buf[t], L(o))
  BY <1>1, <1>3 DEF Functions
<1>8. \/ buf'[t] = <<V(o, v + 2), L(o)>> /\ version'[o] = v + 1
      \/ buf'[t] = <<L(o)>> /\ version'[o] = v + 2
  <2>1. CASE buf[t] = <<V(o, v + 2)>> /\ version[o] = v + 1
    <3>1. Append(buf[t], L(o)) = <<V(o, v + 2), L(o)>>
      BY <2>1, PushSecond
    <3> QED BY <1>3, <1>7, <2>1, <3>1
  <2>2. CASE buf[t] = << >> /\ version[o] = v + 2
    <3>1. Append(buf[t], L(o)) = <<L(o)>>
      BY <2>2, PushFirst
    <3> QED BY <1>3, <1>7, <2>2, <3>1
  <2> QED BY <1>4, <2>1, <2>2
<1>9. \/ Releasing(t, o)' /\ ~Even(version'[o])
      \/ Unlocking(t, o)' /\ Even(version'[o])
  <2>1. ~Even(v + 1) /\ Even(v + 2) /\ v + 1 + 1 = v + 2
    <3>1. (Even(v + 1) <=> ~Even(v)) /\ (Even(v + 2) <=> Even(v))
      BY EvenFacts
    <3>2. v + 1 + 1 = v + 2
      BY SMTT(60)
    <3> QED BY <1>4, <3>1, <3>2
  <2>2. CASE buf'[t] = <<V(o, v + 2), L(o)>> /\ version'[o] = v + 1
    BY <2>1, <2>2 DEF Releasing
  <2>3. CASE buf'[t] = <<L(o)>> /\ version'[o] = v + 2
    BY <2>1, <2>3 DEF Unlocking
  <2> QED BY <1>8, <2>2, <2>3
<1>10. Writer(t)' /\ Outside(t)' /\ Reader(t)'
  BY <1>7, <1>9 DEF Writer, Outside, Reader, Critical
<1>11. buf'[t] # << >> /\ buf'[t][Len(buf'[t])] = L(o)
  <2>1. CASE buf'[t] = <<V(o, v + 2), L(o)>>
    BY <2>1, TwoStores
  <2>2. CASE buf'[t] = <<L(o)>>
    BY <2>2, OneStore
  <2> QED BY <1>8, <2>1, <2>2
<1>12. \A p \in Obj : Holds(t, p)' <=> p = loc[t].objid
  <2>1. \A p : L(o) = L(p) <=> o = p
    <3> SUFFICES ASSUME NEW p, L(o) = L(p) PROVE o = p
      OBVIOUS
    <3>1. L(o).objid = o /\ L(p).objid = p
      BY DEF L
    <3> QED BY <3>1
  <2>2. pc'[t] \notin Critical
    BY <1>7 DEF Critical
  <2>3. \A p : Holds(t, p)' <=> L(o) = L(p)
    BY <1>11, <2>2 DEF Holds
  <2> QED BY <1>2, <2>1, <2>3
<1> QED BY <1>6, <1>10, <1>12, PushStep

LEMMA SpinLockStep ==
    ASSUME SeqInv, NEW t \in Thread, spin_lock(t)
    PROVE  SeqInv'
<1>1. Typed(t) /\ Functions /\ LockInv
  BY DEF SeqInv, ThreadInv
<1>2. PICK o \in Obj : o = loc[t].objid
  BY <1>1 DEF Typed
<1>3. /\ pc[t] = "w_lock" /\ pc' = [pc EXCEPT ![t] = "w_odd"] /\ buf[t] = << >> /\ write_lock[o] # BUSY
      /\ write_lock' = [write_lock EXCEPT ![o] = BUSY] /\ UNCHANGED <<version, mem, buf, loc, thr>>
  BY <1>2 DEF spin_lock, At, Goto, Drained
<1>4. Even(version[o])
  BY <1>1, <1>3 DEF LockInv
<1>5. pc'[t] = "w_odd" /\ write_lock'[o] = BUSY /\ \A p \in Obj \ {o} : write_lock'[p] = write_lock[p]
  BY <1>1, <1>3 DEF Functions
<1>6. Functions' /\ OthersSame(t)
  BY <1>1, <1>3 DEF Functions, OthersSame, PCs
<1>7. ChangesHeld(t)
  BY <1>3 DEF ChangesHeld
<1>8. LocksProperly(t)
  <2>1. \A p \in Obj : ~Holds(t, p)
    BY <1>3 DEF Holds, Critical
  <2>2. \A p \in Obj : Holds(t, p)' <=> p = o
    BY <1>2, <1>3, <1>5 DEF Holds, Critical
  <2> QED BY <1>3, <1>5, <2>1, <2>2 DEF LocksProperly
<1>9. Typed(t)'
  BY <1>1, <1>3 DEF Typed
<1>10. Writer(t)' /\ Outside(t)' /\ Reader(t)'
  BY <1>2, <1>3, <1>4, <1>5 DEF Writer, Outside, Reader, Critical
<1> QED BY <1>6, <1>7, <1>8, <1>9, <1>10, StepKeepsInv DEF ThreadInv

-----------------------------------------------------------------------------
(* The oldest store of t, to o, reaches memory: a version that is one up,  *)
(* a value, or the end of the lock.                                        *)
FlushedVersion(t, o, n) ==
    /\ version' = [version EXCEPT ![o] = n] /\ mem' = mem /\ write_lock' = write_lock
    /\ buf' = [buf EXCEPT ![t] = Tail(@)] /\ UNCHANGED <<pc, loc, thr>>

FlushedValue(t, o, x) ==
    /\ version' = version /\ mem' = [mem EXCEPT ![o] = x] /\ write_lock' = write_lock
    /\ buf' = [buf EXCEPT ![t] = Tail(@)] /\ UNCHANGED <<pc, loc, thr>>

FlushedLock(t, o) ==
    /\ version' = version /\ mem' = mem /\ write_lock' = [write_lock EXCEPT ![o] = 0]
    /\ buf' = [buf EXCEPT ![t] = Tail(@)] /\ UNCHANGED <<pc, loc, thr>>

LEMMA FlushIs ==
    ASSUME NEW t \in Thread, Flush(t), NEW o, NEW n
    PROVE  /\ Head(buf[t]) = V(o, n) => FlushedVersion(t, o, n)
           /\ Head(buf[t]) = M(o, n) => FlushedValue(t, o, n)
           /\ Head(buf[t]) = L(o) => FlushedLock(t, o)
<1>1. Head(buf[t]) = V(o, n) => FlushedVersion(t, o, n)
  <2> SUFFICES ASSUME Head(buf[t]) = V(o, n) PROVE FlushedVersion(t, o, n)
    OBVIOUS
  <2> DEFINE s == Head(buf[t])
  <2>1. s.to = "version" /\ s.objid = o /\ s.val = n
    BY Stores, SMTT(30)
  <2> HIDE DEF s
  <2> QED BY <2>1 DEF Flush, FlushedVersion, s
<1>2. Head(buf[t]) = M(o, n) => FlushedValue(t, o, n)
  <2> SUFFICES ASSUME Head(buf[t]) = M(o, n) PROVE FlushedValue(t, o, n)
    OBVIOUS
  <2> DEFINE s == Head(buf[t])
  <2>1. s.to = "mem" /\ s.objid = o /\ s.val = n
    BY Stores, SMTT(30)
  <2> HIDE DEF s
  <2> QED BY <2>1 DEF Flush, FlushedValue, s
<1>3. Head(buf[t]) = L(o) => FlushedLock(t, o)
  <2> SUFFICES ASSUME Head(buf[t]) = L(o) PROVE FlushedLock(t, o)
    OBVIOUS
  <2> DEFINE s == Head(buf[t])
  <2>1. s.to = "lock" /\ s.objid = o /\ s.val = 0
    BY Stores, SMTT(30)
  <2> HIDE DEF s
  <2> QED BY <2>1 DEF Flush, FlushedLock, s
<1> QED BY <1>1, <1>2, <1>3

(* The store that leaves the buffer of a thread in mem_write               *)
LEMMA FlushInside ==
    ASSUME SeqInv, NEW t \in Thread, pc[t] \in Critical, NEW o \in Obj, o = loc[t].objid,
           NEW x, \/ FlushedVersion(t, o, version[o] + 1)
                  \/ FlushedValue(t, o, x) /\ ~Even(version[o]),
           Writer(t)'
    PROVE  SeqInv'
<1>1. Typed(t) /\ Functions
  BY DEF SeqInv, ThreadInv
<1>2. /\ UNCHANGED <<pc, loc, thr, write_lock>> /\ DOMAIN buf' = Thread
      /\ \A u \in Thread \ {t} : buf'[u] = buf[u]
  BY <1>1 DEF FlushedVersion, FlushedValue, Functions
<1>3. Holds(t, o)
  BY DEF Holds
<1>4. /\ version' \in [Obj -> Nat] /\ DOMAIN mem' = Obj
      /\ \A p \in Obj \ {o} : version'[p] = version[p] /\ mem'[p] = mem[p]
      /\ \/ version'[o] = version[o] + 1 /\ mem' = mem
         \/ version' = version /\ ~Even(version[o])
  <2>1. CASE FlushedVersion(t, o, version[o] + 1)
    BY <1>1, <2>1, SMTT(30) DEF FlushedVersion, Functions
  <2>2. CASE FlushedValue(t, o, x) /\ ~Even(version[o])
    BY <1>1, <2>2 DEF FlushedValue, Functions
  <2> QED BY <2>1, <2>2
<1>5. Functions' /\ OthersSame(t)
  BY <1>1, <1>2, <1>4 DEF Functions, OthersSame
<1>6. ChangesHeld(t)
  BY <1>3, <1>4 DEF ChangesHeld
<1>7. LocksProperly(t)
  BY <1>2 DEF LocksProperly, Holds
<1>8. Typed(t)' /\ Outside(t)' /\ Reader(t)'
  BY <1>1, <1>2 DEF Typed, Outside, Reader, Critical
<1> QED BY <1>5, <1>6, <1>7, <1>8, StepKeepsInv DEF ThreadInv

(* What a writer's flush does, by what is in its buffer                    *)
WriterFlush(t, o, v, x) ==
    \/ /\ pc[t] = "w_value" /\ buf[t] = <<V(o, v + 1)>> /\ version[o] = v
       /\ buf'[t] = << >> /\ FlushedVersion(t, o, v + 1)
    \/ /\ pc[t] = "w_fence" /\ buf[t] = <<V(o, v + 1), M(o, x)>> /\ version[o] = v
       /\ buf'[t] = <<M(o, x)>> /\ FlushedVersion(t, o, v + 1)
    \/ /\ pc[t] = "w_fence" /\ buf[t] = <<M(o, x)>> /\ version[o] = v + 1
       /\ buf'[t] = << >> /\ FlushedValue(t, o, x)
    \/ /\ pc[t] = "w_unlock" /\ buf[t] = <<V(o, v + 2)>> /\ version[o] = v + 1
       /\ buf'[t] = << >> /\ FlushedVersion(t, o, v + 2)

LEMMA WriterFlushes ==
    ASSUME SeqInv, NEW t \in Thread, pc[t] \in Critical, Flush(t)
    PROVE  WriterFlush(t, loc[t].objid, loc[t].version, loc[t].val)
<1>1. Writer(t) /\ Functions /\ buf[t] # << >>
  BY DEF SeqInv, ThreadInv, Flush, Drained
<1>2. buf'[t] = Tail(buf[t])
  BY <1>1 DEF Flush, Functions
<1> DEFINE o == loc[t].objid
           v == loc[t].version
           x == loc[t].val
<1>3. \/ pc[t] = "w_value" /\ buf[t] = <<V(o, v + 1)>> /\ version[o] = v
      \/ pc[t] = "w_fence" /\ buf[t] = <<V(o, v + 1), M(o, x)>> /\ version[o] = v
      \/ pc[t] = "w_fence" /\ buf[t] = <<M(o, x)>> /\ version[o] = v + 1
      \/ pc[t] = "w_unlock" /\ buf[t] = <<V(o, v + 2)>> /\ version[o] = v + 1
  BY <1>1 DEF Writer, Critical
<1>4. CASE pc[t] = "w_value" /\ buf[t] = <<V(o, v + 1)>> /\ version[o] = v
  <2>1. Head(buf[t]) = V(o, v + 1) /\ Tail(buf[t]) = << >>
    BY <1>4, OneStore
  <2> QED BY <1>2, <1>4, <2>1, FlushIs DEF WriterFlush
<1>5. CASE pc[t] = "w_fence" /\ buf[t] = <<V(o, v + 1), M(o, x)>> /\ version[o] = v
  <2>1. Head(buf[t]) = V(o, v + 1) /\ Tail(buf[t]) = <<M(o, x)>>
    BY <1>5, TwoStores
  <2> QED BY <1>2, <1>5, <2>1, FlushIs DEF WriterFlush
<1>6. CASE pc[t] = "w_fence" /\ buf[t] = <<M(o, x)>> /\ version[o] = v + 1
  <2>1. Head(buf[t]) = M(o, x) /\ Tail(buf[t]) = << >>
    BY <1>6, OneStore
  <2> QED BY <1>2, <1>6, <2>1, FlushIs DEF WriterFlush
<1>7. CASE pc[t] = "w_unlock" /\ buf[t] = <<V(o, v + 2)>> /\ version[o] = v + 1
  <2>1. Head(buf[t]) = V(o, v + 2) /\ Tail(buf[t]) = << >>
    BY <1>7, OneStore
  <2> QED BY <1>2, <1>7, <2>1, FlushIs DEF WriterFlush
<1> QED BY <1>3, <1>4, <1>5, <1>6, <1>7

LEMMA WriterFlushStep ==
    ASSUME SeqInv, NEW t \in Thread, pc[t] \in Critical, Flush(t)
    PROVE  SeqInv'
<1>1. Typed(t) /\ Writer(t) /\ Functions
  BY DEF SeqInv, ThreadInv
<1>2. PICK o \in Obj, v \in Nat, x \in {loc[t].val} : o = loc[t].objid /\ v = loc[t].version /\ x = loc[t].val
  BY <1>1 DEF Typed
<1>3. WriterFlush(t, o, v, x) /\ UNCHANGED <<pc, loc, thr>>
  BY <1>2, WriterFlushes DEF Flush
<1>4. Even(v) /\ x = Value(t, thr[t].memop) /\ ~Even(v + 1)
  <2>1. Even(v) /\ x = Value(t, thr[t].memop)
    BY <1>1, <1>2, <1>3 DEF Writer, WriterFlush, Critical
  <2> QED BY <2>1, EvenFacts
<1>5. CASE pc[t] = "w_value" /\ version[o] = v /\ buf'[t] = << >> /\ FlushedVersion(t, o, v + 1)
  <2>1. version'[o] = v + 1
    BY <1>1, <1>5 DEF FlushedVersion, Functions
  <2>2. Writer(t)'
    BY <1>2, <1>3, <1>4, <1>5, <2>1 DEF Writer
  <2> QED BY <1>2, <1>5, <2>2, FlushInside
<1>6. CASE pc[t] = "w_fence" /\ version[o] = v /\ buf'[t] = <<M(o, x)>> /\ FlushedVersion(t, o, v + 1)
  <2>1. version'[o] = v + 1
    BY <1>1, <1>6 DEF FlushedVersion, Functions
  <2>2. Writer(t)'
    BY <1>2, <1>3, <1>4, <1>6, <2>1 DEF Writer
  <2> QED BY <1>2, <1>6, <2>2, FlushInside
<1>7. CASE pc[t] = "w_fence" /\ version[o] = v + 1 /\ buf'[t] = << >> /\ FlushedValue(t, o, x)
  <2>1. version'[o] = v + 1
    BY <1>7 DEF FlushedValue
  <2>2. Writer(t)'
    BY <1>2, <1>3, <1>4, <1>7, <2>1 DEF Writer
  <2> QED BY <1>2, <1>4, <1>7, <2>2, FlushInside
<1>8. CASE pc[t] = "w_unlock" /\ version[o] = v + 1 /\ buf'[t] = << >> /\ FlushedVersion(t, o, v + 2)
  <2>1. version'[o] = v + 2 /\ version[o] + 1 = v + 2
    BY <1>1, <1>8, SMTT(30) DEF FlushedVersion, Functions
  <2>2. Writer(t)'
    BY <1>2, <1>3, <1>4, <1>8, <2>1 DEF Writer
  <2> QED BY <1>2, <1>8, <2>1, <2>2, FlushInside
<1> QED BY <1>3, <1>5, <1>6, <1>7, <1>8 DEF WriterFlush

(* Outside mem_write it is the even version or the unlocking store.        *)
OutsideFlush(t, o) ==
    \/ Releasing(t, o) /\ ~Even(version[o]) /\ buf'[t] = <<L(o)>> /\ FlushedVersion(t, o, version[o] + 1)
    \/ Unlocking(t, o) /\ Even(version[o]) /\ buf'[t] = << >> /\ FlushedLock(t, o)

LEMMA OutsideFlushes ==
    ASSUME SeqInv, NEW t \in Thread, pc[t] \notin Critical, Flush(t)
    PROVE  \E o \in Obj : OutsideFlush(t, o)
<1>1. Outside(t) /\ Functions /\ buf[t] # << >>
  BY DEF SeqInv, ThreadInv, Flush, Drained
<1>2. buf'[t] = Tail(buf[t])
  BY <1>1 DEF Flush, Functions
<1>3. ASSUME NEW o \in Obj, Releasing(t, o), ~Even(version[o]) PROVE OutsideFlush(t, o)
  <2>1. Head(buf[t]) = V(o, version[o] + 1) /\ Tail(buf[t]) = <<L(o)>>
    BY <1>3, TwoStores DEF Releasing
  <2> QED BY <1>2, <1>3, <2>1, FlushIs DEF OutsideFlush
<1>4. ASSUME NEW o \in Obj, Unlocking(t, o), Even(version[o]) PROVE OutsideFlush(t, o)
  <2>1. Head(buf[t]) = L(o) /\ Tail(buf[t]) = << >>
    BY <1>4, OneStore DEF Unlocking
  <2> QED BY <1>2, <1>4, <2>1, FlushIs DEF OutsideFlush
<1> QED BY <1>1, <1>3, <1>4 DEF Outside

LEMMA OutsideFlushStep ==
    ASSUME SeqInv, NEW t \in Thread, pc[t] \notin Critical, NEW o \in Obj, OutsideFlush(t, o)
    PROVE  SeqInv'
<1>1. Typed(t) /\ Reader(t) /\ Outside(t) /\ Functions
  BY DEF SeqInv, ThreadInv
<1>2. /\ UNCHANGED <<pc, loc, thr, mem>> /\ DOMAIN buf' = Thread
      /\ \A u \in Thread \ {t} : buf'[u] = buf[u]
  BY <1>1 DEF OutsideFlush, FlushedVersion, FlushedLock, Functions
<1>3. Holds(t, o) /\ \A p \in Obj : Holds(t, p) => p = o
  <2>1. Holds(t, o)
    BY HoldsPending DEF OutsideFlush
  <2> QED BY <2>1, Stores, SMTT(30) DEF Holds
<1>4. Typed(t)' /\ Writer(t)'
  BY <1>1, <1>2 DEF Typed, Writer, Critical
<1>5. PICK q \in Obj : q = loc[t].objid
  BY <1>1 DEF Typed
<1>6. CASE Releasing(t, o) /\ ~Even(version[o]) /\ buf'[t] = <<L(o)>> /\ FlushedVersion(t, o, version[o] + 1)
  <2>1. /\ version'[o] = version[o] + 1 /\ version' \in [Obj -> Nat] /\ write_lock' = write_lock
        /\ \A p \in Obj \ {o} : version'[p] = version[p]
    BY <1>1, <1>6, SMTT(30) DEF FlushedVersion, Functions
  <2>2. Even(version'[o])
    BY <1>1, <1>6, <2>1, EvenFacts, SMTT(30) DEF Functions
  <2>3. Functions' /\ OthersSame(t)
    BY <1>1, <1>2, <2>1 DEF Functions, OthersSame
  <2>4. ChangesHeld(t)
    BY <1>2, <1>3, <2>1 DEF ChangesHeld
  <2>5. \A p \in Obj : Holds(t, p)' <=> p = o
    <3>1. buf'[t] # << >> /\ buf'[t][Len(buf'[t])] = L(o)
      BY <1>6, OneStore
    <3> QED BY <1>2, <3>1, Stores, SMTT(30) DEF Holds
  <2>6. LocksProperly(t)
    BY <1>3, <2>1, <2>5 DEF LocksProperly
  <2>7. Outside(t)'
    BY <1>2, <1>6, <2>2 DEF Outside, Unlocking
  <2>8. Seen(t, q)' = Seen(t, q)
    <3>1. ~Releasing(t, q)'
      BY <1>6, SMTT(30) DEF Releasing
    <3>2. Seen(t, q)' = version'[q]
      BY <3>1 DEF Seen
    <3>3. q # o => ~Releasing(t, q)
      BY <1>3, HoldsPending
    <3> QED BY <1>6, <2>1, <3>2, <3>3 DEF Seen
  <2>9. Reader(t)'
    BY <1>1, <1>2, <1>5, <2>8 DEF Reader
  <2> QED BY <1>4, <2>3, <2>4, <2>6, <2>7, <2>9, StepKeepsInv DEF ThreadInv
<1>7. CASE Unlocking(t, o) /\ Even(version[o]) /\ buf'[t] = << >> /\ FlushedLock(t, o)
  <2>1. /\ version' = version /\ write_lock'[o] = 0 /\ write_lock' \in [Obj -> {0, BUSY}]
        /\ \A p \in Obj \ {o} : write_lock'[p] = write_lock[p]
    BY <1>1, <1>7 DEF FlushedLock, Functions
  <2>2. Functions' /\ OthersSame(t)
    BY <1>1, <1>2, <2>1 DEF Functions, OthersSame
  <2>3. ChangesHeld(t)
    BY <1>2, <2>1 DEF ChangesHeld
  <2>4. \A p \in Obj : ~Holds(t, p)'
    BY <1>2, <1>7 DEF Holds
  <2>5. LocksProperly(t)
    BY <1>3, <1>7, <2>1, <2>4, SMTT(30) DEF LocksProperly, BUSY
  <2>6. Outside(t)'
    BY <1>7 DEF Outside
  <2>7. Seen(t, q)' = Seen(t, q)
    <3>1. ~Releasing(t, q)' /\ ~Releasing(t, q)
      BY <1>7, SMTT(30) DEF Releasing, Unlocking
    <3> QED BY <2>1, <3>1 DEF Seen
  <2>8. Reader(t)'
    BY <1>1, <1>2, <1>5, <2>7 DEF Reader
  <2> QED BY <1>4, <2>2, <2>3, <2>5, <2>6, <2>8, StepKeepsInv DEF ThreadInv
<1> QED BY <1>6, <1>7 DEF OutsideFlush

-----------------------------------------------------------------------------
LEMMA SeqInvInit == Init => SeqInv
<1> SUFFICES ASSUME Init PROVE SeqInv
  OBVIOUS
<1>1. 0 \in Obj /\ Even(0)
  BY NObjAssumption, SMTT(60) DEF Obj, Even
<1>2. Functions
  BY DEF Init, Functions, PCs
<1>3. ASSUME NEW t \in Thread
      PROVE  pc[t] = "idle" /\ buf[t] = << >> /\ loc[t] = [objid |-> 0, version |-> 0, val |-> InitVal]
  BY DEF Init
<1>4. ASSUME NEW t \in Thread PROVE ThreadInv(t)
  <2>1. Typed(t)
    BY <1>1, <1>3, SMTT(60) DEF Typed
  <2> QED BY <1>3, <2>1 DEF ThreadInv, Writer, Outside, Reader, Critical
<1>5. \A t \in Thread, o \in Obj : ~Holds(t, o)
  BY <1>3 DEF Holds, Critical
<1>6. LockInv
  BY <1>1, <1>5, SMTT(30) DEF LockInv, Init, BUSY
<1> QED BY <1>2, <1>4, <1>6 DEF SeqInv

LEMMA SeqInvNext == SeqInv /\ [Next]_vars => SeqInv'
<1> SUFFICES ASSUME SeqInv, [Next]_vars PROVE SeqInv'
  OBVIOUS
<1>1. ASSUME NEW t \in Thread, Step(t) PROVE SeqInv'
  BY <1>1, CallStep, ReadVersionStep, ReadValueStep, ReadValidateStep, SpinLockStep, WriteOddStep,
     WriteValueStep, WriteFenceStep, WriteEvenStep, SpinUnlockStep, FinishStep DEF Step
<1>2. ASSUME NEW t \in Thread, Flush(t) PROVE SeqInv'
  BY <1>2, WriterFlushStep, OutsideFlushes, OutsideFlushStep
<1>3. CASE UNCHANGED vars
  <2>1. UNCHANGED <<version, mem, write_lock, buf, pc, loc, thr>>
    BY <1>3 DEF vars
  <2>2. Functions'
    BY <2>1 DEF SeqInv, Functions
  <2>3. LockInv'
    <3>1. ASSUME NEW t \in Thread, NEW o \in Obj PROVE Holds(t, o)' <=> Holds(t, o)
      BY <2>1 DEF Holds
    <3>2. \A o \in Obj : version'[o] = version[o] /\ write_lock'[o] = write_lock[o]
      BY <2>1
    <3>3. \A o \in Obj : Even(version'[o]) <=> Even(version[o])
      BY <3>2
    <3> QED BY <3>1, <3>2, <3>3, SMTT(30) DEF SeqInv, LockInv
  <2>4. ASSUME NEW t \in Thread PROVE ThreadInv(t)'
    <3>1. ThreadInv(t)
      BY DEF SeqInv
    <3>2. Typed(t)'
      BY <2>1, <3>1 DEF ThreadInv, Typed
    <3>3. Writer(t)'
      BY <2>1, <3>1 DEF ThreadInv, Writer
    <3>4. Outside(t)'
      BY <2>1, <3>1 DEF ThreadInv, Outside, Releasing, Unlocking
    <3>5. Reader(t)'
      BY <2>1, <3>1 DEF ThreadInv, Reader, Seen, Releasing, Unlocking
    <3> QED BY <3>2, <3>3, <3>4, <3>5 DEF ThreadInv
  <2> QED BY <2>2, <2>3, <2>4 DEF SeqInv
<1> QED BY <1>1, <1>2, <1>3 DEF Next

LEMMA SeqInvAlways == Spec => []SeqInv
BY SeqInvInit, SeqInvNext, PTL DEF Spec

LEMMA OwnsIsHolds ==
    ASSUME SeqInv, NEW t \in Thread, NEW o \in Obj
    PROVE  Owns(t, o) <=> Holds(t, o)
<1>1. Writer(t) /\ Outside(t) /\ Functions
  BY DEF SeqInv, ThreadInv
<1>2. CASE pc[t] \in Critical
  <2> DEFINE p == loc[t].objid
             v == loc[t].version
             x == loc[t].val
  <2>1. \/ buf[t] = << >> \/ buf[t] = <<V(p, v + 1)>> \/ buf[t] = <<V(p, v + 1), M(p, x)>>
        \/ buf[t] = <<M(p, x)>> \/ buf[t] = <<V(p, v + 2)>>
    BY <1>1, <1>2 DEF Writer, Critical
  <2>2. \A i \in 1 .. Len(buf[t]) : buf[t][i].to # "lock"
    <3>1. \A n : V(p, n).to # "lock"
      BY Stores
    <3>2. M(p, x).to # "lock"
      BY Stores
    <3> HIDE DEF p, v, x
    <3> QED BY <2>1, <3>1, <3>2, SMTT(30)
  <2>3. Pending(t, "lock", o) = {}
    BY <2>2 DEF Pending
  <2> QED BY <1>2, <2>3 DEF Owns, Holds, Critical
<1>3. CASE pc[t] \notin Critical
  <2>1. CASE buf[t] = << >>
    BY <1>3, <2>1, SMTT(30) DEF Owns, Holds, Critical, Pending
  <2>2. ASSUME NEW p \in Obj, Unlocking(t, p) PROVE Owns(t, o) <=> Holds(t, o)
    <3>1. Len(buf[t]) = 1 /\ buf[t][1] = L(p)
      BY <2>2, SMTT(60) DEF Unlocking
    <3>2. buf[t][1].to = "lock" /\ buf[t][1].objid = p /\ (L(p) = L(o) <=> p = o)
      BY <3>1, Stores, SMTT(30)
    <3>3. Pending(t, "lock", o) # {} <=> p = o
      BY <3>1, <3>2, SMTT(30) DEF Pending
    <3>4. buf[t] # << >>
      BY <2>2, OneStore DEF Unlocking
    <3> QED BY <1>3, <3>1, <3>2, <3>3, <3>4 DEF Owns, Holds, Critical
  <2>3. ASSUME NEW p \in Obj, Releasing(t, p) PROVE Owns(t, o) <=> Holds(t, o)
    <3>1. Len(buf[t]) = 2 /\ buf[t][1] = V(p, version[p] + 1) /\ buf[t][2] = L(p)
      BY <2>3, SMTT(30) DEF Releasing
    <3>2. /\ buf[t][1].to = "version" /\ buf[t][2].to = "lock" /\ buf[t][2].objid = p
          /\ L(p) = L(o) <=> p = o
      BY <3>1, Stores, SMTT(30)
    <3>3. Pending(t, "lock", o) # {} <=> p = o
      BY <3>1, <3>2, SMTT(30) DEF Pending
    <3>4. buf[t] # << >>
      BY <2>3, TwoStores DEF Releasing
    <3> QED BY <1>3, <3>1, <3>2, <3>3, <3>4 DEF Owns, Holds, Critical
  <2> QED BY <1>1, <1>3, <2>1, <2>2, <2>3 DEF Outside
<1> QED BY <1>2, <1>3

(* For any number of threads and objects: one writer at a time per object, *)
(* from spin_lock's xchgb until spin_unlock's store has left the buffer.   *)
THEOREM SeqlockWritersExclude == Spec => []WritersExclude
<1>1. SeqInv => WritersExclude
  BY OwnsIsHolds DEF WritersExclude, SeqInv, LockInv
<1> QED BY <1>1, SeqInvAlways, PTL

-----------------------------------------------------------------------------
LEMMA StepLocal ==
    ASSUME SeqInv, NEW t \in Thread, Step(t)
    PROVE  OthersSame(t) /\ version' = version /\ mem' = mem
<1>1. Functions
  BY DEF SeqInv
<1>2. ASSUME NEW o \in Obj, NEW e, Call(t, o, e) PROVE OthersSame(t) /\ version' = version /\ mem' = mem
  BY <1>1, <1>2 DEF Call, Goto, shared, OthersSame, Functions
<1>3. CASE read_version(t) \/ read_value(t) \/ read_validate(t)
  BY <1>1, <1>3 DEF read_version, read_value, read_validate, Goto, shared, OthersSame, Functions
<1>4. CASE spin_lock(t) \/ write_odd(t)
  BY <1>1, <1>4 DEF spin_lock, write_odd, Goto, Push, shared, OthersSame, Functions
<1>5. CASE write_value(t) \/ write_fence(t) \/ write_even(t)
  BY <1>1, <1>5 DEF write_value, write_fence, write_even, Goto, Push, shared, OthersSame, Functions
<1>6. CASE spin_unlock(t) \/ mem_finish_thr(t)
  BY <1>1, <1>6 DEF spin_unlock, mem_finish_thr, Goto, Push, shared, OthersSame, Functions
<1> QED BY <1>2, <1>3, <1>4, <1>5, <1>6 DEF Step

LEMMA FlushLocal ==
    ASSUME SeqInv, NEW t \in Thread, Flush(t)
    PROVE  OthersSame(t)
BY DEF SeqInv, Functions, Flush, OthersSame

(* For any number of threads and objects: in memory a version moves one up *)
(* at a time, and a value changes only under an odd version.               *)
THEOREM SeqlockChangesUnderOddVersion == Spec => ChangesUnderOddVersion
<1> DEFINE Changes == \A o \in Obj : /\ version'[o] \in {version[o], version[o] + 1}
                                     /\ mem'[o] # mem[o] => ~Even(version[o])
<1>1. ASSUME SeqInv, [Next]_vars PROVE Changes \/ UNCHANGED vars
  <2>1. ASSUME NEW t \in Thread, Step(t) PROVE Changes
    BY <1>1, <2>1, StepLocal
  <2>2. ASSUME NEW t \in Thread, Flush(t) PROVE Changes
    <3>1. CASE pc[t] \in Critical
      <4>1. Typed(t) /\ Writer(t) /\ Functions
        BY <1>1 DEF SeqInv, ThreadInv
      <4>2. PICK o \in Obj, v \in Nat, x \in {loc[t].val} : o = loc[t].objid /\ v = loc[t].version /\ x = loc[t].val
        BY <4>1 DEF Typed
      <4>3. WriterFlush(t, o, v, x)
        BY <1>1, <2>2, <3>1, <4>2, WriterFlushes
      <4>4. ~Even(v + 1)
        BY <4>1, <4>2, <4>3, EvenFacts DEF Writer, WriterFlush, Critical
      <4> QED BY <4>1, <4>3, <4>4, SMTT(30) DEF WriterFlush, FlushedVersion, FlushedValue, Functions
    <3>2. CASE pc[t] \notin Critical
      <4>1. PICK o \in Obj : OutsideFlush(t, o)
        BY <1>1, <2>2, <3>2, OutsideFlushes
      <4> QED BY <1>1, <4>1 DEF OutsideFlush, FlushedVersion, FlushedLock, SeqInv, Functions
    <3> QED BY <3>1, <3>2
  <2> QED BY <1>1, <2>1, <2>2 DEF Next
<1> QED BY <1>1, SeqInvAlways, PTL DEF Spec, ChangesUnderOddVersion

-----------------------------------------------------------------------------
(* Seqlock implements Recorder, whose bookkeeping is the one of this       *)
(* module.                                                                 *)
LEMMA SameBookkeeping ==
    ASSUME NEW l, NEW o, NEW v, NEW x
    PROVE  /\ Rec!note_read(l, o, v, x) = note_read(l, o, v, x)
           /\ Rec!note_write(l, o, v, x) = note_write(l, o, v, x)
           /\ Rec!finish_object(l) = finish_object(l) /\ Rec!mark_log_end(l) = mark_log_end(l)
           /\ Rec!mem_init_thr = mem_init_thr /\ Rec!Obj = Obj
           /\ Rec!Running(l) = Running(l) /\ Rec!Finishing(l) = Finishing(l) /\ Rec!Closing(l) = Closing(l)
<1> USE DEF Rec!log_wait_version, log_wait_version, Rec!log_other_wait_memop, log_other_wait_memop,
            Rec!log_last_read, log_last_read, Rec!log_order, log_order, Rec!log_access, log_access,
            Rec!NoMemop, NoMemop
<1>1. Rec!note_read(l, o, v, x) = note_read(l, o, v, x)
  BY DEF Rec!note_read, note_read
<1>2. Rec!note_write(l, o, v, x) = note_write(l, o, v, x)
  BY DEF Rec!note_write, note_write
<1>3. Rec!finish_object(l) = finish_object(l) /\ Rec!mark_log_end(l) = mark_log_end(l)
  BY DEF Rec!finish_object, finish_object, Rec!mark_log_end, mark_log_end,
         Rec!EndOfVersions, EndOfVersions, Rec!EndOfMemops, EndOfMemops
<1>4. Rec!mem_init_thr = mem_init_thr /\ Rec!Obj = Obj
  BY DEF Rec!mem_init_thr, mem_init_thr, Rec!Obj, Obj
<1>5. Rec!Running(l) = Running(l) /\ Rec!Finishing(l) = Finishing(l) /\ Rec!Closing(l) = Closing(l)
  BY DEF Rec!Running, Running, Rec!Finishing, Finishing, Rec!Closing, Closing
<1> QED BY <1>1, <1>2, <1>3, <1>4, <1>5

-----------------------------------------------------------------------------
(* The refinement mapping, on states of the invariant: a write has its     *)
(* effect once its value has left the buffer, and the object's version is  *)
(* then the even one to come.                                              *)
Mapping ==
    /\ \A t \in Thread :
          /\ Committed(t) <=> \/ pc[t] \in {"w_even", "w_unlock"}
                              \/ pc[t] = "w_fence" /\ buf[t] = << >>
          /\ Uncommitted(t) <=> pc[t] = "w_value" \/ (pc[t] = "w_fence" /\ buf[t] # << >>)
    /\ \A o \in Obj : Even(version[o]) => versionBar[o] = version[o]
    /\ \A t \in Thread, o \in Obj :
          Holds(t, o) /\ ~Even(version[o]) =>
              versionBar[o] = IF Uncommitted(t) THEN version[o] - 1 ELSE version[o] + 1

LEMMA ValueStores ==
    ASSUME NEW s, NEW o, NEW x
    PROVE  LET P == {i \in 1 .. Len(s) : s[i].to = "mem" /\ s[i].objid = o}
           IN  /\ s = << >> => P = {}
               /\ s = <<M(o, x)>> => P # {}
               /\ \A n : s = <<V(o, n), M(o, x)>> => P # {}
<1>1. M(o, x).to = "mem" /\ M(o, x).objid = o
  BY Stores, SMTT(60)
<1>2. s = <<M(o, x)>> => 1 \in {i \in 1 .. Len(s) : s[i].to = "mem" /\ s[i].objid = o}
  BY <1>1, SMTT(60)
<1>3. \A n : s = <<V(o, n), M(o, x)>> => 2 \in {i \in 1 .. Len(s) : s[i].to = "mem" /\ s[i].objid = o}
  BY <1>1, SMTT(60)
<1>4. s = << >> => {i \in 1 .. Len(s) : s[i].to = "mem" /\ s[i].objid = o} = {}
  BY SMTT(60)
<1> QED BY <1>2, <1>3, <1>4

LEMMA MappingHolds == SeqInv => Mapping
<1> SUFFICES ASSUME SeqInv PROVE Mapping
  OBVIOUS
<1>1. ASSUME NEW t \in Thread
      PROVE  /\ Committed(t) <=> \/ pc[t] \in {"w_even", "w_unlock"}
                                 \/ pc[t] = "w_fence" /\ buf[t] = << >>
             /\ Uncommitted(t) <=> pc[t] = "w_value" \/ (pc[t] = "w_fence" /\ buf[t] # << >>)
  <2>1. CASE pc[t] = "w_fence"
    <3>1. PICK o, v, x : o = loc[t].objid /\ v = loc[t].version /\ x = loc[t].val
      OBVIOUS
    <3>2. buf[t] = <<V(o, v + 1), M(o, x)>> \/ buf[t] = <<M(o, x)>> \/ buf[t] = << >>
      BY <2>1, <3>1 DEF SeqInv, ThreadInv, Writer
    <3>3. Pending(t, "mem", o) = {} <=> buf[t] = << >>
      <4>1. CASE buf[t] = <<V(o, v + 1), M(o, x)>>
        BY <4>1, ValueStores, TwoStores, SMTT(30) DEF Pending
      <4>2. CASE buf[t] = <<M(o, x)>>
        BY <4>2, ValueStores, OneStore, SMTT(60) DEF Pending
      <4>3. CASE buf[t] = << >>
        BY <4>3, SMTT(60) DEF Pending
      <4> QED BY <3>2, <4>1, <4>2, <4>3
    <3> QED BY <2>1, <3>1, <3>3 DEF Committed, Uncommitted, At
  <2>2. CASE pc[t] # "w_fence"
    BY <2>2 DEF Committed, Uncommitted, At
  <2> QED BY <2>1, <2>2
<1>2. \A o \in Obj : Even(version[o]) => versionBar[o] = version[o]
  BY DEF versionBar
<1>3. ASSUME NEW t \in Thread, NEW o \in Obj, Holds(t, o), ~Even(version[o])
      PROVE  versionBar[o] = IF Uncommitted(t) THEN version[o] - 1 ELSE version[o] + 1
  <2>1. \A u \in Thread : loc[u].objid = o /\ Uncommitted(u) => u = t
    BY <1>3, SMTT(30) DEF SeqInv, LockInv, Uncommitted, At, Holds, Critical
  <2>2. Uncommitted(t) => loc[t].objid = o
    BY <1>3 DEF Uncommitted, At, Holds, Critical
  <2>3. (\E u \in Thread : loc[u].objid = o /\ Uncommitted(u)) <=> Uncommitted(t)
    BY <2>1, <2>2
  <2> QED BY <1>3, <2>3 DEF versionBar
<1> QED BY <1>1, <1>2, <1>3 DEF Mapping

LEMMA MappingNext == SeqInv' => Mapping'
BY MappingHolds, PTL

-----------------------------------------------------------------------------
(* What a step of t leaves alone                                           *)
LEMMA OtherSame ==
    ASSUME NEW t \in Thread, OthersSame(t), NEW u \in Thread \ {t}
    PROVE  /\ (thrBar[u])' = thrBar[u]
           /\ Uncommitted(u)' <=> Uncommitted(u)
<1>1. pc'[u] = pc[u] /\ buf'[u] = buf[u] /\ loc'[u] = loc[u] /\ thr'[u] = thr[u]
  BY DEF OthersSame
<1>2. /\ Committed(u)' <=> Committed(u)
      /\ Uncommitted(u)' <=> Uncommitted(u)
  BY <1>1 DEF Committed, Uncommitted, Pending, At
<1> QED BY <1>1, <1>2 DEF thrBar

LEMMA VersionSame ==
    ASSUME SeqInv, SeqInv', NEW t \in Thread, OthersSame(t), NEW o \in Obj, version'[o] = version[o],
           Holds(t, o) /\ ~Even(version[o]) => (Uncommitted(t)' <=> Uncommitted(t))
    PROVE  (versionBar[o])' = versionBar[o]
<1>1. Mapping /\ Mapping'
  BY MappingHolds, MappingNext
<1>2. CASE Even(version[o])
  BY <1>1, <1>2 DEF Mapping
<1>3. CASE ~Even(version[o])
  <2>1. PICK u \in Thread : Holds(u, o)
    BY <1>3 DEF SeqInv, LockInv
  <2>2. PICK w \in Thread : Holds(w, o)'
    BY <1>3 DEF SeqInv, LockInv
  <2>3. Holds(u, o)'
    <3>1. CASE u # t
      BY <2>1, <3>1, HoldsSame
    <3>2. CASE u = t
      <4>1. w # t => Holds(w, o)
        BY <2>2, HoldsSame
      <4>2. w = t
        BY <2>1, <3>2, <4>1 DEF SeqInv, LockInv
      <4> QED BY <2>2, <3>2, <4>2
    <3> QED BY <3>1, <3>2
  <2>4. Uncommitted(u)' <=> Uncommitted(u)
    BY <1>3, <2>1, OtherSame
  <2>5. versionBar[o] = IF Uncommitted(u) THEN version[o] - 1 ELSE version[o] + 1
    BY <1>1, <1>3, <2>1 DEF Mapping
  <2>6. (versionBar[o])' = IF Uncommitted(u)' THEN version'[o] - 1 ELSE version'[o] + 1
    BY <1>1, <1>3, <2>3 DEF Mapping
  <2> QED BY <2>4, <2>5, <2>6
<1> QED BY <1>2, <1>3

LEMMA Stutters ==
    ASSUME NEW t \in Thread, OthersSame(t), mem' = mem, (thrBar[t])' = thrBar[t],
           \A o \in Obj : (versionBar[o])' = versionBar[o]
    PROVE  UNCHANGED Rec!recVars
<1>1. versionBar' = versionBar
  <2>1. versionBar = [o \in Obj |-> versionBar[o]] /\ versionBar' = [o \in Obj |-> (versionBar[o])']
    BY DEF versionBar
  <2> QED BY <2>1
<1>2. thrBar' = thrBar
  <2>1. \A u \in Thread : (thrBar[u])' = thrBar[u]
    BY OtherSame
  <2>2. thrBar = [u \in Thread |-> thrBar[u]] /\ thrBar' = [u \in Thread |-> (thrBar[u])']
    BY DEF thrBar
  <2> QED BY <2>1, <2>2
<1> QED BY <1>1, <1>2 DEF Rec!recVars

LEMMA SilentStep ==
    ASSUME SeqInv, SeqInv', NEW t \in Thread, Step(t), (thrBar[t])' = thrBar[t],
           \/ Uncommitted(t)' <=> Uncommitted(t)
           \/ pc[t] = "w_odd"
    PROVE  UNCHANGED Rec!recVars
<1>1. OthersSame(t) /\ version' = version /\ mem' = mem
  BY StepLocal
<1>2. ASSUME NEW o \in Obj, Holds(t, o), ~Even(version[o]), pc[t] = "w_odd" PROVE FALSE
  BY <1>2 DEF SeqInv, ThreadInv, Writer, Holds, Critical
<1>3. \A o \in Obj : (versionBar[o])' = versionBar[o]
  BY <1>1, <1>2, VersionSame
<1> QED BY <1>1, <1>3, Stutters

(* Steps before the value leaves the buffer, and after it is logged        *)
LEMMA OutsideSilent ==
    ASSUME SeqInv, SeqInv', NEW t \in Thread, Step(t), thr' = thr,
           pc[t] \notin Critical, pc'[t] \notin Critical \ {"w_odd"}
    PROVE  UNCHANGED Rec!recVars
<1>1. Mapping /\ Mapping'
  BY MappingHolds, MappingNext
<1>2. ~Committed(t) /\ ~Uncommitted(t) /\ ~Committed(t)' /\ ~Uncommitted(t)'
  BY <1>1 DEF Mapping, Critical
<1>3. (thrBar[t])' = thrBar[t]
  BY <1>2 DEF thrBar
<1> QED BY <1>2, <1>3, SilentStep

LEMMA WriteSilent ==
    ASSUME SeqInv, SeqInv', NEW t \in Thread,
           write_odd(t) \/ write_value(t) \/ write_fence(t) \/ write_even(t)
    PROVE  UNCHANGED Rec!recVars
<1>1. Mapping /\ Mapping' /\ Functions /\ Functions' /\ Step(t)
  BY MappingHolds, MappingNext DEF SeqInv, Step
<1>2. CASE write_odd(t)
  <2>1. pc[t] = "w_odd" /\ pc'[t] = "w_value" /\ thr' = thr
    BY <1>1, <1>2 DEF write_odd, At, Goto, Functions
  <2>2. ~Committed(t) /\ ~Committed(t)'
    BY <1>1, <2>1 DEF Mapping
  <2> QED BY <1>1, <2>1, <2>2, SilentStep DEF thrBar
<1>3. CASE write_value(t)
  <2>1. pc[t] = "w_value" /\ pc'[t] = "w_fence" /\ thr' = thr
    BY <1>1, <1>3 DEF write_value, At, Goto, Functions
  <2>2. buf'[t] # << >>
    BY <1>1, <1>3, SMTT(30) DEF write_value, Push, Functions
  <2>3. ~Committed(t) /\ ~Committed(t)' /\ Uncommitted(t) /\ Uncommitted(t)'
    BY <1>1, <2>1, <2>2 DEF Mapping
  <2> QED BY <1>1, <2>1, <2>3, SilentStep DEF thrBar
<1>4. CASE write_fence(t)
  <2>1. pc[t] = "w_fence" /\ buf[t] = << >> /\ pc'[t] = "w_even" /\ thr' = thr /\ loc' = loc
    BY <1>1, <1>4 DEF write_fence, At, Drained, Goto, Functions
  <2>2. Committed(t) /\ Committed(t)' /\ ~Uncommitted(t) /\ ~Uncommitted(t)'
    BY <1>1, <2>1 DEF Mapping
  <2> QED BY <1>1, <2>1, <2>2, SilentStep DEF thrBar
<1>5. CASE write_even(t)
  <2>1. pc[t] = "w_even" /\ pc'[t] = "w_unlock" /\ thr' = thr /\ loc' = loc
    BY <1>1, <1>5 DEF write_even, At, Goto, Functions
  <2>2. Committed(t) /\ Committed(t)' /\ ~Uncommitted(t) /\ ~Uncommitted(t)'
    BY <1>1, <2>1 DEF Mapping
  <2> QED BY <1>1, <2>1, <2>2, SilentStep DEF thrBar
<1> QED BY <1>2, <1>3, <1>4, <1>5

LEMMA UnlockSilent ==
    ASSUME SeqInv, SeqInv', NEW t \in Thread, spin_unlock(t)
    PROVE  UNCHANGED Rec!recVars
<1>1. Mapping /\ Mapping' /\ Functions /\ Step(t)
  BY MappingHolds, MappingNext DEF SeqInv, Step
<1>2. /\ pc[t] = "w_unlock" /\ pc'[t] = "idle"
      /\ thr'[t] = note_write(thr[t], loc[t].objid, loc[t].version, loc[t].val)
  BY <1>1 DEF spin_unlock, At, Goto, Functions
<1>3. Committed(t) /\ ~Committed(t)' /\ ~Uncommitted(t) /\ ~Uncommitted(t)'
  BY <1>1, <1>2 DEF Mapping
<1>4. (thrBar[t])' = thrBar[t]
  BY <1>2, <1>3 DEF thrBar
<1> QED BY <1>1, <1>3, <1>4, SilentStep

-----------------------------------------------------------------------------
(* A step that has one thread's logs change                                *)
LEMMA LogsChange ==
    ASSUME NEW t \in Thread, OthersSame(t), NEW l, (thrBar[t])' = l
    PROVE  thrBar' = [thrBar EXCEPT ![t] = l]
<1>1. \A u \in Thread \ {t} : (thrBar[u])' = thrBar[u]
  BY OtherSame
<1>2. DOMAIN thrBar = Thread
  BY DEF thrBar
<1>3. thrBar' = [u \in Thread |-> (thrBar[u])']
  BY DEF thrBar
<1> QED BY <1>1, <1>2, <1>3

LEMMA VersionsStay ==
    ASSUME \A o \in Obj : (versionBar[o])' = versionBar[o]
    PROVE  versionBar' = versionBar
<1>1. versionBar = [o \in Obj |-> versionBar[o]] /\ versionBar' = [o \in Obj |-> (versionBar[o])']
  BY DEF versionBar
<1> QED BY <1>1

(* A read takes effect when it validates: the version it saw first is then *)
(* the object's, and its value is the object's value.                      *)
LEMMA ValidateIsRead ==
    ASSUME SeqInv, SeqInv', NEW t \in Thread, read_validate(t)
    PROVE  Rec!RecNext \/ UNCHANGED Rec!recVars
<1>1. /\ Mapping /\ Mapping' /\ Functions /\ Typed(t) /\ Outside(t) /\ Reader(t) /\ Step(t)
      /\ OthersSame(t) /\ version' = version /\ mem' = mem
  <2>1. Step(t)
    BY DEF Step
  <2> QED BY <2>1, MappingHolds, MappingNext, StepLocal DEF SeqInv, ThreadInv
<1>2. PICK o \in Obj, v \in Nat : o = loc[t].objid /\ v = loc[t].version
  BY <1>1 DEF Typed
<1>3. pc[t] = "r_validate" /\ pc'[t] \in {"idle", "r_version"}
  BY <1>1 DEF read_validate, At, Goto, Functions
<1>4. Load(t, "version", o) = Seen(t, o)
  BY <1>1, <1>3, LoadOutside DEF Critical
<1>5. CASE Seen(t, o) # v
  <2>1. thr' = thr
    BY <1>2, <1>4, <1>5 DEF read_validate
  <2> QED BY <1>1, <1>3, <2>1, OutsideSilent DEF Critical
<1>6. CASE Seen(t, o) = v
  <2>1. thr'[t] = note_read(thr[t], o, v, loc[t].val) /\ loc[t].val = mem[o] /\ Even(v)
    BY <1>1, <1>2, <1>3, <1>4, <1>6 DEF read_validate, Reader, Functions
  <2>2. ~Committed(t) /\ ~Uncommitted(t) /\ ~Committed(t)' /\ ~Uncommitted(t)'
    BY <1>1, <1>3 DEF Mapping
  <2>3. versionBar[o] = v
    <3>1. CASE Releasing(t, o)
      <4>1. Holds(t, o) /\ version[o] \in Nat /\ v = version[o] + 1
        BY <1>1, <1>3, <1>6, <3>1, HoldsPending DEF Critical, Seen, Functions
      <4>2. ~Even(version[o])
        BY <2>1, <4>1, EvenFacts
      <4> QED BY <1>1, <2>2, <4>1, <4>2 DEF Mapping
    <3>2. CASE ~Releasing(t, o)
      BY <1>1, <1>6, <2>1, <3>2 DEF Seen, Mapping
    <3> QED BY <3>1, <3>2
  <2>4. versionBar' = versionBar
    BY <1>1, <2>2, VersionSame, VersionsStay
  <2>5. thrBar[t] = thr[t] /\ (thrBar[t])' = note_read(thrBar[t], o, versionBar[o], mem[o])
    BY <2>1, <2>2, <2>3 DEF thrBar
  <2>6. thrBar' = [thrBar EXCEPT ![t] = note_read(thrBar[t], o, versionBar[o], mem[o])]
    BY <1>1, <2>5, LogsChange
  <2>7. Rec!MayAccess(t)
    BY <1>1, <1>3, <2>5 DEF Typed, Rec!MayAccess, Rec!Running, Running
  <2>8. Rec!mem_read(t, o)
    BY <1>1, <2>4, <2>6, <2>7, SameBookkeeping DEF Rec!mem_read
  <2> QED BY <2>8, SameBookkeeping DEF Rec!RecNext
<1> QED BY <1>5, <1>6

LEMMA FinishIsFinish ==
    ASSUME SeqInv, SeqInv', NEW t \in Thread, mem_finish_thr(t)
    PROVE  Rec!mem_finish_thr(t)
<1>1. /\ Mapping /\ Mapping' /\ Functions /\ OthersSame(t) /\ version' = version /\ mem' = mem
  <2>1. Step(t)
    BY DEF Step
  <2> QED BY <2>1, MappingHolds, MappingNext, StepLocal DEF SeqInv
<1>2. pc[t] = "idle" /\ pc'[t] = "idle"
  BY DEF mem_finish_thr, At
<1>3. ~Committed(t) /\ ~Uncommitted(t) /\ ~Committed(t)' /\ ~Uncommitted(t)'
  BY <1>1, <1>2 DEF Mapping
<1>4. versionBar' = versionBar
  BY <1>1, <1>3, VersionSame, VersionsStay
<1>5. thrBar[t] = thr[t] /\ (thrBar[t])' = thr'[t]
  BY <1>3 DEF thrBar
<1>6. thrBar' = [thrBar EXCEPT ![t] = thr'[t]]
  BY <1>1, <1>5, LogsChange
<1>7. \/ Finishing(thr[t]) /\ thr'[t] = finish_object(thr[t])
      \/ Closing(thr[t]) /\ thr'[t] = mark_log_end(thr[t])
  BY <1>1 DEF mem_finish_thr, Functions
<1> QED BY <1>1, <1>4, <1>5, <1>6, <1>7, SameBookkeeping DEF Rec!mem_finish_thr

-----------------------------------------------------------------------------
(* A store reaches memory.  The versions are silent: the odd one comes     *)
(* before the write has its effect, the even one after.                    *)
LEMMA VersionFlushSilent ==
    ASSUME SeqInv, SeqInv', NEW t \in Thread, Flush(t), NEW o \in Obj, Holds(t, o),
           FlushedVersion(t, o, version[o] + 1), Committed(t)' <=> Committed(t),
           \/ Even(version[o]) /\ Holds(t, o)' /\ Uncommitted(t)'
           \/ ~Even(version[o]) /\ ~Uncommitted(t)
    PROVE  UNCHANGED Rec!recVars
<1>1. Mapping /\ Mapping' /\ Functions /\ OthersSame(t)
  BY MappingHolds, MappingNext, FlushLocal DEF SeqInv
<1>2. /\ version[o] \in Nat /\ version'[o] = version[o] + 1 /\ UNCHANGED <<mem, loc, thr>>
      /\ \A p \in Obj \ {o} : version'[p] = version[p]
  BY <1>1 DEF FlushedVersion, Functions
<1>3. \A p \in Obj \ {o} : ~Holds(t, p)
  BY Stores, SMTT(30) DEF Holds
<1>4. \A p \in Obj \ {o} : (versionBar[p])' = versionBar[p]
  BY <1>1, <1>2, <1>3, VersionSame
<1>5. (versionBar[o])' = versionBar[o]
  <2>1. CASE Even(version[o]) /\ Holds(t, o)' /\ Uncommitted(t)'
    <3>1. ~Even(version'[o])
      BY <1>2, <2>1, EvenFacts, SMTT(30)
    <3>2. (versionBar[o])' = version'[o] - 1
      BY <1>1, <2>1, <3>1 DEF Mapping
    <3>3. versionBar[o] = version[o]
      BY <1>1, <2>1 DEF Mapping
    <3> QED BY <1>2, <3>2, <3>3, SMTT(30)
  <2>2. CASE ~Even(version[o]) /\ ~Uncommitted(t)
    <3>1. Even(version'[o])
      BY <1>2, <2>2, EvenFacts, SMTT(30)
    <3>2. (versionBar[o])' = version'[o]
      BY <1>1, <3>1 DEF Mapping
    <3>3. versionBar[o] = version[o] + 1
      BY <1>1, <2>2 DEF Mapping
    <3> QED BY <1>2, <3>2, <3>3
  <2> QED BY <2>1, <2>2
<1>6. (thrBar[t])' = thrBar[t]
  BY <1>2 DEF thrBar
<1> QED BY <1>1, <1>2, <1>4, <1>5, <1>6, Stutters

(* The value is the write.                                                 *)
LEMMA ValueFlushIsWrite ==
    ASSUME SeqInv, SeqInv', NEW t \in Thread, Flush(t), NEW o \in Obj, NEW v \in Nat, NEW x,
           o = loc[t].objid, v = loc[t].version, x = loc[t].val,
           pc[t] = "w_fence", buf[t] # << >>, buf'[t] = << >>, version[o] = v + 1, FlushedValue(t, o, x)
    PROVE  Rec!mem_write(t, o)
<1>1. Mapping /\ Mapping' /\ Functions /\ OthersSame(t) /\ Typed(t) /\ Writer(t)
  BY MappingHolds, MappingNext, FlushLocal DEF SeqInv, ThreadInv
<1>2. UNCHANGED <<version, pc, loc, thr>> /\ mem' = [mem EXCEPT ![o] = x]
  BY DEF FlushedValue
<1>3. Even(v) /\ ~Even(version[o]) /\ x = Value(t, thr[t].memop)
  <2>1. Even(v) /\ x = Value(t, thr[t].memop)
    BY <1>1 DEF Writer, Critical
  <2> QED BY <2>1, EvenFacts, SMTT(30)
<1>4. Holds(t, o) /\ Holds(t, o)' /\ \A p \in Obj \ {o} : ~Holds(t, p)
  BY <1>2 DEF Holds, Critical
<1>5. ~Committed(t) /\ Uncommitted(t) /\ Committed(t)' /\ ~Uncommitted(t)'
  BY <1>1, <1>2 DEF Mapping
<1>6. versionBar[o] = v /\ (versionBar[o])' = versionBar[o] + 2
  <2>1. versionBar[o] = version[o] - 1
    BY <1>1, <1>3, <1>4, <1>5 DEF Mapping
  <2>2. (versionBar[o])' = version'[o] + 1
    BY <1>1, <1>2, <1>3, <1>4, <1>5 DEF Mapping
  <2> QED BY <1>2, <2>1, <2>2, SMTT(30)
<1>7. versionBar' = [versionBar EXCEPT ![o] = versionBar[o] + 2]
  <2>1. \A p \in Obj \ {o} : (versionBar[p])' = versionBar[p]
    BY <1>1, <1>2, <1>4, VersionSame
  <2>2. DOMAIN versionBar = Obj /\ versionBar' = [p \in Obj |-> (versionBar[p])']
    BY DEF versionBar
  <2> QED BY <1>6, <2>1, <2>2
<1>8. thrBar[t] = thr[t] /\ (thrBar[t])' = note_write(thrBar[t], o, versionBar[o], x)
  BY <1>2, <1>5, <1>6 DEF thrBar
<1>9. thrBar' = [thrBar EXCEPT ![t] = note_write(thrBar[t], o, versionBar[o], x)]
  BY <1>1, <1>8, LogsChange
<1>10. Rec!MayAccess(t) /\ x = Rec!Value(t, thrBar[t].memop)
  BY <1>1, <1>3, <1>8 DEF Typed, Rec!MayAccess, Rec!Running, Running, Rec!Value, Value
<1>11. Rec!note_write(thrBar[t], o, versionBar[o], x) = note_write(thrBar[t], o, versionBar[o], x)
  BY SameBookkeeping, SMTT(30)
<1> QED BY <1>2, <1>7, <1>9, <1>10, <1>11 DEF Rec!mem_write

LEMMA FlushRefines ==
    ASSUME SeqInv, SeqInv', NEW t \in Thread, Flush(t)
    PROVE  Rec!RecNext \/ UNCHANGED Rec!recVars
<1>1. Mapping /\ Mapping' /\ Functions /\ Typed(t) /\ Writer(t) /\ UNCHANGED <<pc, loc, thr>>
  BY MappingHolds, MappingNext DEF SeqInv, ThreadInv, Flush
<1>2. CASE pc[t] \in Critical
  <2>1. PICK o \in Obj, v \in Nat, x \in {loc[t].val} : o = loc[t].objid /\ v = loc[t].version /\ x = loc[t].val
    BY <1>1 DEF Typed
  <2>2. WriterFlush(t, o, v, x) /\ Holds(t, o) /\ Holds(t, o)'
    BY <1>1, <1>2, <2>1, WriterFlushes DEF Holds
  <2>3. Even(v) /\ ~Even(v + 1) /\ v + 2 = (v + 1) + 1
    <3>1. Even(v)
      BY <1>1, <2>1, <2>2 DEF Writer, WriterFlush, Critical
    <3> QED BY <3>1, EvenFacts, SMTT(30)
  <2>4. CASE pc[t] = "w_value" /\ version[o] = v /\ FlushedVersion(t, o, v + 1)
    <3>1. ~Committed(t) /\ ~Committed(t)' /\ Uncommitted(t)'
      BY <1>1, <2>4 DEF Mapping
    <3> QED BY <2>2, <2>3, <2>4, <3>1, VersionFlushSilent
  <2>5. CASE /\ pc[t] = "w_fence" /\ buf[t] = <<V(o, v + 1), M(o, x)>> /\ version[o] = v
             /\ buf'[t] = <<M(o, x)>> /\ FlushedVersion(t, o, v + 1)
    <3>1. buf[t] # << >> /\ buf'[t] # << >>
      BY <2>5, OneStore, TwoStores, SMTT(30)
    <3>2. ~Committed(t) /\ ~Committed(t)' /\ Uncommitted(t)'
      BY <1>1, <2>5, <3>1 DEF Mapping
    <3> QED BY <2>2, <2>3, <2>5, <3>2, VersionFlushSilent
  <2>6. CASE /\ pc[t] = "w_fence" /\ buf[t] = <<M(o, x)>> /\ version[o] = v + 1
             /\ buf'[t] = << >> /\ FlushedValue(t, o, x)
    <3>1. buf[t] # << >>
      BY <2>6, OneStore
    <3>2. Rec!mem_write(t, o)
      BY <2>1, <2>6, <3>1, ValueFlushIsWrite
    <3> QED BY <3>2, SameBookkeeping DEF Rec!RecNext
  <2>7. CASE pc[t] = "w_unlock" /\ version[o] = v + 1 /\ FlushedVersion(t, o, v + 2)
    <3>1. Committed(t) /\ Committed(t)' /\ ~Uncommitted(t)
      BY <1>1, <2>7 DEF Mapping
    <3> QED BY <2>2, <2>3, <2>7, <3>1, VersionFlushSilent
  <2> QED BY <2>2, <2>4, <2>5, <2>6, <2>7 DEF WriterFlush
<1>3. CASE pc[t] \notin Critical
  <2>1. PICK o \in Obj : OutsideFlush(t, o)
    BY <1>3, OutsideFlushes
  <2>2. ~Committed(t) /\ ~Uncommitted(t) /\ ~Committed(t)' /\ ~Uncommitted(t)'
    BY <1>1, <1>3 DEF Mapping, Critical
  <2>3. CASE Releasing(t, o) /\ ~Even(version[o]) /\ FlushedVersion(t, o, version[o] + 1)
    BY <1>3, <2>2, <2>3, HoldsPending, VersionFlushSilent
  <2>4. CASE FlushedLock(t, o)
    <3>1. version' = version /\ mem' = mem /\ OthersSame(t)
      BY <2>4, FlushLocal DEF FlushedLock
    <3>2. \A p \in Obj : (versionBar[p])' = versionBar[p]
      BY <2>2, <3>1, VersionSame
    <3>3. (thrBar[t])' = thrBar[t]
      BY <1>1, <2>2 DEF thrBar
    <3> QED BY <3>1, <3>2, <3>3, Stutters
  <2> QED BY <2>1, <2>3, <2>4 DEF OutsideFlush
<1> QED BY <1>2, <1>3

LEMMA StepRefines ==
    ASSUME SeqInv, SeqInv', NEW t \in Thread, Step(t)
    PROVE  Rec!RecNext \/ UNCHANGED Rec!recVars
<1>1. Functions
  BY DEF SeqInv
<1>2. ASSUME NEW o \in Obj, Call(t, o, "r_version") \/ Call(t, o, "w_lock") PROVE UNCHANGED Rec!recVars
  <2>1. pc[t] = "idle" /\ pc'[t] \in {"r_version", "w_lock"} /\ thr' = thr
    BY <1>1, <1>2 DEF Call, At, Goto, Functions
  <2> QED BY <2>1, OutsideSilent DEF Critical
<1>3. CASE read_version(t) \/ read_value(t) \/ spin_lock(t)
  <2>1. pc[t] \in {"r_version", "r_value", "w_lock"} /\ pc'[t] \in {"r_value", "r_validate", "w_odd"} /\ thr' = thr
    BY <1>1, <1>3 DEF read_version, read_value, spin_lock, At, Goto, Functions
  <2> QED BY <2>1, OutsideSilent DEF Critical
<1>4. CASE mem_finish_thr(t)
  BY <1>4, FinishIsFinish DEF Rec!RecNext
<1> QED BY <1>2, <1>3, <1>4, ValidateIsRead, WriteSilent, UnlockSilent DEF Step

LEMMA InitRefines == Init => Rec!RecInit
<1> SUFFICES ASSUME Init PROVE Rec!RecInit
  OBVIOUS
<1>1. versionBar = [o \in Obj |-> 0]
  BY SMTT(30) DEF Init, versionBar, Even
<1>2. thrBar = [t \in Thread |-> mem_init_thr]
  BY DEF Init, thrBar, Committed, At
<1> QED BY <1>1, <1>2, SameBookkeeping DEF Init, Rec!RecInit, Rec!InitVal, InitVal

(* For any number of threads, objects and accesses, the seqlock on x86-TSO *)
(* implements Recorder: mem_read and mem_write are atomic accesses to      *)
(* value and version, and log what those accesses log.                     *)
THEOREM SeqlockImplementsRecorder == Spec => AtomicAccess
<1>1. SeqInv /\ SeqInv' /\ [Next]_vars => [Rec!RecNext]_(Rec!recVars)
  <2> SUFFICES ASSUME SeqInv, SeqInv', [Next]_vars PROVE Rec!RecNext \/ UNCHANGED Rec!recVars
    OBVIOUS
  <2>1. CASE UNCHANGED vars
    BY <2>1 DEF vars, Rec!recVars, versionBar, thrBar, Committed, Uncommitted, Pending, At
  <2> QED BY <2>1, StepRefines, FlushRefines DEF Next
<1> QED BY <1>1, InitRefines, SeqInvAlways, PTL DEF Spec, AtomicAccess, Rec!RecSpec

-----------------------------------------------------------------------------
(* What RecorderProof shows of Recorder therefore holds of the seqlock.    *)
RP == INSTANCE RecorderProof WITH version <- versionBar, thr <- thrBar

LEMMA RecorderMay == (RP!IsFiniteSet(Thread) /\ Thread # {}) /\ NObj \in Nat \ {0}
BY ThreadAssumption, NObjAssumption DEF IsFiniteSet, RP!IsFiniteSet

LEMMA SameLogs ==
    ASSUME NEW l, NEW o, NEW v, NEW x
    PROVE  /\ RP!note_read(l, o, v, x) = note_read(l, o, v, x)
           /\ RP!note_write(l, o, v, x) = note_write(l, o, v, x)
           /\ RP!finish_object(l) = finish_object(l) /\ RP!mark_log_end(l) = mark_log_end(l)
           /\ RP!mem_init_thr = mem_init_thr /\ RP!Obj = Obj
           /\ RP!Running(l) = Running(l) /\ RP!Finishing(l) = Finishing(l) /\ RP!Closing(l) = Closing(l)
<1> USE DEF RP!log_wait_version, log_wait_version, RP!log_other_wait_memop, log_other_wait_memop,
            RP!log_last_read, log_last_read, RP!log_order, log_order, RP!log_access, log_access,
            RP!NoMemop, NoMemop
<1>1. RP!note_read(l, o, v, x) = note_read(l, o, v, x)
  BY DEF RP!note_read, note_read
<1>2. RP!note_write(l, o, v, x) = note_write(l, o, v, x)
  BY DEF RP!note_write, note_write
<1>3. RP!finish_object(l) = finish_object(l) /\ RP!mark_log_end(l) = mark_log_end(l)
  BY DEF RP!finish_object, finish_object, RP!mark_log_end, mark_log_end,
         RP!EndOfVersions, EndOfVersions, RP!EndOfMemops, EndOfMemops
<1>4. RP!mem_init_thr = mem_init_thr /\ RP!Obj = Obj
  BY DEF RP!mem_init_thr, mem_init_thr, RP!Obj, Obj
<1>5. RP!Running(l) = Running(l) /\ RP!Finishing(l) = Finishing(l) /\ RP!Closing(l) = Closing(l)
  BY DEF RP!Running, Running, RP!Finishing, Finishing, RP!Closing, Closing
<1> QED BY <1>1, <1>2, <1>3, <1>4, <1>5

LEMMA SameInBoth ==
    ASSUME NEW l, NEW o, NEW v, NEW x
    PROVE  /\ RP!note_read(l, o, v, x) = Rec!note_read(l, o, v, x)
           /\ RP!note_write(l, o, v, x) = Rec!note_write(l, o, v, x)
           /\ RP!finish_object(l) = Rec!finish_object(l) /\ RP!mark_log_end(l) = Rec!mark_log_end(l)
           /\ RP!mem_init_thr = Rec!mem_init_thr /\ RP!Obj = Rec!Obj
           /\ RP!Finishing(l) = Rec!Finishing(l) /\ RP!Closing(l) = Rec!Closing(l)
<1>1. /\ RP!note_read(l, o, v, x) = note_read(l, o, v, x)
      /\ RP!note_write(l, o, v, x) = note_write(l, o, v, x)
      /\ RP!finish_object(l) = finish_object(l) /\ RP!mark_log_end(l) = mark_log_end(l)
      /\ RP!mem_init_thr = mem_init_thr /\ RP!Obj = Obj
      /\ RP!Finishing(l) = Finishing(l) /\ RP!Closing(l) = Closing(l)
  BY SameLogs
<1>2. /\ Rec!note_read(l, o, v, x) = note_read(l, o, v, x)
      /\ Rec!note_write(l, o, v, x) = note_write(l, o, v, x)
      /\ Rec!finish_object(l) = finish_object(l) /\ Rec!mark_log_end(l) = mark_log_end(l)
      /\ Rec!mem_init_thr = mem_init_thr /\ Rec!Obj = Obj
      /\ Rec!Finishing(l) = Finishing(l) /\ Rec!Closing(l) = Closing(l)
  BY SameBookkeeping
<1> QED BY <1>1, <1>2

LEMMA SameActions ==
    ASSUME NEW t, NEW o
    PROVE  /\ RP!mem_read(t, o) <=> Rec!mem_read(t, o)
           /\ RP!mem_write(t, o) <=> Rec!mem_write(t, o)
           /\ RP!mem_finish_thr(t) <=> Rec!mem_finish_thr(t)
<1>1. RP!MayAccess(t) <=> Rec!MayAccess(t)
  BY DEF RP!MayAccess, Rec!MayAccess, RP!Running, Rec!Running
<1>2. RP!note_read(thrBar[t], o, versionBar[o], mem[o]) = Rec!note_read(thrBar[t], o, versionBar[o], mem[o])
  BY SameInBoth
<1>3. RP!mem_read(t, o) <=> Rec!mem_read(t, o)
  BY <1>1, <1>2 DEF RP!mem_read, Rec!mem_read
<1>4. PICK x : x = Rec!Value(t, thrBar[t].memop) /\ x = RP!Value(t, thrBar[t].memop)
  BY DEF RP!Value, Rec!Value
<1>5. RP!note_write(thrBar[t], o, versionBar[o], x) = Rec!note_write(thrBar[t], o, versionBar[o], x)
  BY SameInBoth
<1>6. RP!mem_write(t, o) <=> Rec!mem_write(t, o)
  BY <1>1, <1>4, <1>5 DEF RP!mem_write, Rec!mem_write
<1>7. /\ RP!finish_object(thrBar[t]) = Rec!finish_object(thrBar[t])
      /\ RP!mark_log_end(thrBar[t]) = Rec!mark_log_end(thrBar[t])
      /\ RP!Finishing(thrBar[t]) = Rec!Finishing(thrBar[t]) /\ RP!Closing(thrBar[t]) = Rec!Closing(thrBar[t])
  BY SameInBoth
<1>8. RP!mem_finish_thr(t) <=> Rec!mem_finish_thr(t)
  BY <1>7 DEF RP!mem_finish_thr, Rec!mem_finish_thr
<1> QED BY <1>3, <1>6, <1>8

LEMMA SameProperties ==
    ASSUME NEW l
    PROVE  /\ RP!ReadsLogged(l) <=> Rec!ReadsLogged(l)
           /\ RP!ReadersExact(l) <=> Rec!ReadersExact(l)
           /\ RP!VersionsLogged(l) <=> Rec!VersionsLogged(l)
           /\ RP!VersionsExact(l) <=> Rec!VersionsExact(l)
<1> USE DEF RP!Accesses, Rec!Accesses, RP!IsRead, Rec!IsRead, RP!IsWrite, Rec!IsWrite, RP!SameObj, Rec!SameObj
<1>1. RP!ReadsLogged(l) <=> Rec!ReadsLogged(l)
  BY DEF RP!ReadsLogged, Rec!ReadsLogged, RP!ReaderLogged, Rec!ReaderLogged,
     RP!ReaderPending, Rec!ReaderPending, RP!OverwrittenByItself, Rec!OverwrittenByItself
<1>2. RP!ReadersExact(l) <=> Rec!ReadersExact(l)
  BY DEF RP!ReadersExact, Rec!ReadersExact, RP!ReaderEntryExact, Rec!ReaderEntryExact
<1>3. RP!VersionsLogged(l) <=> Rec!VersionsLogged(l)
  BY DEF RP!VersionsLogged, Rec!VersionsLogged, RP!WaitsForVersion, Rec!WaitsForVersion,
     RP!FirstAtZero, Rec!FirstAtZero, RP!FollowsOwnRead, Rec!FollowsOwnRead
<1>4. RP!VersionsExact(l) <=> Rec!VersionsExact(l)
  BY DEF RP!VersionsExact, Rec!VersionsExact, RP!VersionEntryExact, Rec!VersionEntryExact
<1> QED BY <1>1, <1>2, <1>3, <1>4

LEMMA SameRecorder ==
    /\ RP!RecInit <=> Rec!RecInit
    /\ [RP!RecNext]_(RP!recVars) <=> [Rec!RecNext]_(Rec!recVars)
    /\ RP!ReaderLogComplete <=> Rec!ReaderLogComplete
    /\ RP!ReaderLogExact <=> Rec!ReaderLogExact
    /\ RP!VersionLogComplete <=> Rec!VersionLogComplete
    /\ RP!VersionLogExact <=> Rec!VersionLogExact
<1>1. RP!Obj = Rec!Obj /\ RP!mem_init_thr = Rec!mem_init_thr
  BY SameInBoth
<1>2. RP!RecInit <=> Rec!RecInit
  BY <1>1 DEF RP!RecInit, Rec!RecInit, RP!InitVal, Rec!InitVal
<1>3. RP!RecNext <=> Rec!RecNext
  BY <1>1, SameActions DEF RP!RecNext, Rec!RecNext
<1>4. [RP!RecNext]_(RP!recVars) <=> [Rec!RecNext]_(Rec!recVars)
  BY <1>3 DEF RP!recVars, Rec!recVars
<1>5. /\ RP!ReaderLogComplete <=> Rec!ReaderLogComplete
      /\ RP!ReaderLogExact <=> Rec!ReaderLogExact
      /\ RP!VersionLogComplete <=> Rec!VersionLogComplete
      /\ RP!VersionLogExact <=> Rec!VersionLogExact
  BY SameProperties
     DEF RP!ReaderLogComplete, Rec!ReaderLogComplete, RP!ReaderLogExact, Rec!ReaderLogExact,
         RP!VersionLogComplete, Rec!VersionLogComplete, RP!VersionLogExact, Rec!VersionLogExact
<1> QED BY <1>2, <1>4, <1>5

(* On x86-TSO, for any number of threads, objects and accesses, the logs   *)
(* the seqlock recorder takes are complete and exact.                      *)
THEOREM SeqlockLogsCompleteExact == Spec => []LogsCompleteExact
<1>1. RP!RecInit /\ [][RP!RecNext]_(RP!recVars) => []RP!ReaderLogComplete
  BY RP!ReadersAreLogged, RecorderMay, MaxOpsIsNat, PTL DEF RP!RecSpec
<1>2. RP!RecInit /\ [][RP!RecNext]_(RP!recVars) => []RP!ReaderLogExact
  BY RP!ReaderLogIsExact, RecorderMay, MaxOpsIsNat, PTL DEF RP!RecSpec
<1>3. RP!RecInit /\ [][RP!RecNext]_(RP!recVars) => []RP!VersionLogComplete
  BY RP!VersionsAreLogged, RecorderMay, MaxOpsIsNat, PTL DEF RP!RecSpec
<1>4. RP!RecInit /\ [][RP!RecNext]_(RP!recVars) => []RP!VersionLogExact
  BY RP!VersionLogIsExact, RecorderMay, MaxOpsIsNat, PTL DEF RP!RecSpec
<1>5. /\ Rec!ReaderLogComplete /\ Rec!ReaderLogExact /\ Rec!VersionLogComplete /\ Rec!VersionLogExact
      /\ SeqInv
      => LogsCompleteExact
  <2> SUFFICES ASSUME Rec!ReaderLogComplete, Rec!ReaderLogExact, Rec!VersionLogComplete, Rec!VersionLogExact,
                      NEW t \in Thread, pc[t] = "idle"
               PROVE  /\ Rec!ReadsLogged(thr[t]) /\ Rec!ReadersExact(thr[t])
                      /\ Rec!VersionsLogged(thr[t]) /\ Rec!VersionsExact(thr[t])
    BY DEF LogsCompleteExact, At
  <2>1. thrBar[t] = thr[t]
    BY DEF thrBar, Committed, At
  <2> QED BY <2>1 DEF Rec!ReaderLogComplete, Rec!ReaderLogExact, Rec!VersionLogComplete, Rec!VersionLogExact
<1> QED BY <1>1, <1>2, <1>3, <1>4, <1>5, SameRecorder, SeqlockImplementsRecorder, SeqInvAlways, PTL
        DEF AtomicAccess, Rec!RecSpec

-----------------------------------------------------------------------------
(* The threads' own records are typed because the mapped ones are: where   *)
(* the two differ the record has not changed since they were the same.     *)
LogsTyped == \A t \in Thread : thr[t] \in RP!OrderLogs

LEMMA LogsTypedNext ==
    ASSUME SeqInv, LogsTyped, RP!RecTypeOK', [Next]_vars
    PROVE  LogsTyped'
<1>1. \A u \in Thread : thrBar'[u] \in RP!OrderLogs
  BY DEF RP!RecTypeOK
<1>2. ASSUME NEW u \in Thread, pc'[u] \in {"idle", "r_version"} PROVE thr'[u] \in RP!OrderLogs
  <2>1. thrBar'[u] = thr'[u]
    BY <1>2 DEF thrBar, Committed, At
  <2> QED BY <1>1, <2>1
<1>3. ASSUME thr' = thr PROVE LogsTyped'
  BY <1>3 DEF LogsTyped
<1>4. ASSUME NEW t \in Thread, \A u \in Thread \ {t} : thr'[u] = thr[u], pc'[t] \in {"idle", "r_version"}
      PROVE  LogsTyped'
  BY <1>2, <1>4 DEF LogsTyped
<1>5. ASSUME NEW t \in Thread, Step(t) PROVE LogsTyped'
  <2>1. DOMAIN thr = Thread /\ DOMAIN pc = Thread
    BY DEF SeqInv, Functions
  <2>2. CASE read_validate(t)
    <3>1. /\ \A u \in Thread \ {t} : thr'[u] = thr[u]
          /\ pc'[t] \in {"idle", "r_version"}
      BY <2>1, <2>2 DEF read_validate, Goto
    <3> QED BY <1>4, <3>1
  <2>3. CASE spin_unlock(t)
    <3>1. (\A u \in Thread \ {t} : thr'[u] = thr[u]) /\ pc'[t] = "idle"
      BY <2>1, <2>3 DEF spin_unlock, Goto
    <3> QED BY <1>4, <3>1
  <2>4. CASE mem_finish_thr(t)
    <3>1. (\A u \in Thread \ {t} : thr'[u] = thr[u]) /\ pc'[t] = "idle"
      BY <2>1, <2>4 DEF mem_finish_thr, At
    <3> QED BY <1>4, <3>1
  <2>5. CASE \/ \E o \in Obj : Call(t, o, "r_version") \/ Call(t, o, "w_lock")
             \/ read_version(t) \/ read_value(t) \/ spin_lock(t) \/ write_odd(t)
             \/ write_value(t) \/ write_fence(t) \/ write_even(t)
    <3>1. thr' = thr
      BY <2>5 DEF Call, read_version, read_value, spin_lock, write_odd, write_value, write_fence, write_even
    <3> QED BY <1>3, <3>1
  <2> QED BY <1>5, <2>2, <2>3, <2>4, <2>5 DEF Step
<1>6. ASSUME NEW t \in Thread, Flush(t) PROVE LogsTyped'
  BY <1>3, <1>6 DEF Flush
<1>7. CASE UNCHANGED vars
  BY <1>3, <1>7 DEF vars
<1> QED BY <1>5, <1>6, <1>7 DEF Next

LEMMA WriteAppends ==
    ASSUME NEW l \in RP!OrderLogs, NEW o, NEW v, NEW x
    PROVE  /\ Len(l.access) \in Nat
           /\ Len(note_write(l, o, v, x).access) = Len(l.access) + 1
           /\ \A i \in 1 .. Len(l.access) : note_write(l, o, v, x).access[i] = l.access[i]
<1>1. l.access \in Seq(RP!MemAcc)
  BY DEF RP!OrderLogs, RP!AccessLogs
<1>2. DOMAIN l = {"memop", "last", "wait_version", "wait_memop", "access", "fin"}
  BY DEF RP!OrderLogs
<1>3. PICK e : e = [acc |-> "W", objid |-> o, version |-> v, val |-> x]
  OBVIOUS
<1>4. PICK m : m = IF l.last[o].version # v THEN log_order(l, o, v) ELSE l
  OBVIOUS
<1>5. m.access = l.access /\ DOMAIN m = DOMAIN l
  BY <1>2, <1>4 DEF log_order, log_last_read, log_other_wait_memop, log_wait_version
<1>6. log_access(m, "W", o, v, x).access = Append(l.access, e) /\ DOMAIN log_access(m, "W", o, v, x) = DOMAIN l
  BY <1>2, <1>3, <1>5 DEF log_access
<1>7. note_write(l, o, v, x).access = Append(l.access, e)
  BY <1>2, <1>4, <1>6 DEF note_write
<1>8. /\ Len(l.access) \in Nat /\ Len(Append(l.access, e)) = Len(l.access) + 1
      /\ \A i \in 1 .. Len(l.access) : Append(l.access, e)[i] = l.access[i]
  BY <1>1, SMTT(30)
<1> QED BY <1>7, <1>8

(* What can be ordered can be ordered without its last accesses            *)
LEMMA OrderableWithout ==
    ASSUME LogsTyped, Orderable(thrBar)
    PROVE  Orderable(thr)
<1>1. ASSUME NEW t \in Thread, NEW i \in 1 .. Len(thr[t].access)
      PROVE  i \in 1 .. Len(thrBar[t].access) /\ thrBar[t].access[i] = thr[t].access[i]
  <2>1. CASE Committed(t)
    <3>1. thrBar[t] = note_write(thr[t], loc[t].objid, loc[t].version, loc[t].val)
      BY <2>1 DEF thrBar
    <3>2. thr[t] \in RP!OrderLogs
      BY DEF LogsTyped
    <3> QED BY <3>1, <3>2, WriteAppends, SMTT(30)
  <2>2. CASE ~Committed(t)
    BY <2>2 DEF thrBar
  <2> QED BY <2>1, <2>2
<1>2. ASSUME NEW a \in Events(thr)
      PROVE  a \in Events(thrBar) /\ thrBar[a[1]].access[a[2]] = thr[a[1]].access[a[2]]
  <2>1. PICK t \in Thread : a \in {t} \X (1 .. Len(thr[t].access))
    BY DEF Events
  <2>2. PICK i \in 1 .. Len(thr[t].access) : a = <<t, i>>
    BY <2>1, SMTT(30)
  <2>3. a \in {t} \X (1 .. Len(thrBar[t].access)) /\ a[1] = t /\ a[2] = i
    BY <1>1, <2>2
  <2> QED BY <1>1, <2>3, SMTT(30) DEF Events
<1>3. ASSUME NEW a \in Events(thr), NEW b \in Events(thr), ~Before(thrBar, a, b)
      PROVE  ~Before(thr, a, b)
  BY <1>2, <1>3 DEF Before
<1> QED BY <1>2, <1>3 DEF Orderable

LEMMA SameOrder ==
    ASSUME NEW l PROVE RP!Orderable(l) <=> Orderable(l)
<1>1. RP!Events(l) = Events(l) /\ \A a, b : RP!Before(l, a, b) <=> Before(l, a, b)
  BY DEF RP!Events, Events, RP!Before, Before
<1> QED BY <1>1 DEF RP!Orderable, Orderable

(* On x86-TSO, for any number of threads, objects and accesses, there is   *)
(* no cycle in the order the logged versions and the programs claim: two   *)
(* threads never each write one object and read the other's old version.   *)
THEOREM SeqlockOrderAcyclic == Spec => []RecordedOrderAcyclic
<1>1. RP!RecInit /\ [][RP!RecNext]_(RP!recVars) => []RP!RecTypeOK
  BY RP!TypeCorrect, RecorderMay, MaxOpsIsNat, PTL DEF RP!RecSpec
<1>2. RP!RecInit /\ [][RP!RecNext]_(RP!recVars) => []RP!Orderable(thrBar)
  BY RP!RecordingIsOrderable, RecorderMay, MaxOpsIsNat, PTL DEF RP!RecSpec
<1>3. Spec => []RP!RecTypeOK /\ []RP!Orderable(thrBar)
  BY <1>1, <1>2, SameRecorder, SeqlockImplementsRecorder, PTL DEF AtomicAccess, Rec!RecSpec
<1>4. Init /\ RP!RecTypeOK => LogsTyped
  BY DEF Init, RP!RecTypeOK, LogsTyped, thrBar, Committed, At
<1>5. SeqInv /\ LogsTyped /\ RP!RecTypeOK' /\ [Next]_vars => LogsTyped'
  BY LogsTypedNext
<1>6. LogsTyped /\ RP!Orderable(thrBar) => RecordedOrderAcyclic
  BY SameOrder, OrderableWithout DEF RecordedOrderAcyclic
<1> QED BY <1>3, <1>4, <1>5, <1>6, SeqInvAlways, PTL DEF Spec
=============================================================================
