# mem-order: a TLA+ verification project

mem-order records the order of accesses to shared objects made by the threads of
a program, and replays the program in that order. Every object has a version;
a write moves it by two (an odd version marks a write in progress). While
recording, a thread writes two order logs: which version an access must wait for
(`version`), and which of its reads a later writer must wait for (`memop`). The
`memop` logs are grouped by object (`reorder-memop`) and merged over the threads
(`merge-memop`); replay waits for versions before each access and for readers
before each write.

This directory holds models of that pipeline, TLC configurations that check them
on small instances, and TLAPS proofs, for instances of any size, that the seqlock
recorder on x86-TSO implements atomic accesses, that its logs are complete,
exact and free of cycles, and that replay driven by the processed logs of any
recording fails no assertion and repeats it access by access.

## Parts of the system

| part | source | module | status |
|---|---|---|---|
| order logs and bookkeeping | `mem-record.c`, `mem-record.h`, `mem.h` | `OrderLog`, `Recorder` | modelled, proved |
| seqlock recorder | `mem-record-seqlock.c` | `Seqlock` | modelled, proved |
| xchg spinlock | `spinlock.h` | `Seqlock` | lock and unlock |
| log processing | `reorder-memop.cpp`, `merge-memop.cpp` | `MemopMerge` | modelled, proved |
| replay | `mem-replay.c` | `Replay`, `OrderedReplay` | modelled, safety proved |
| record, process, replay | `test.sh` | `RecordReplay` | modelled, safety proved |
| batched seqlock recorder | `mem-record-seqbatch.c` | `SeqBatch` | modelled |
| commit-order recorder | `mem-record-rtmcommit.c` | `RtmCommit` | modelled |
| ticket spinlock | `ticket-spinlock.h` | `RtmCommit` | all but the unused `ticket_trylock` |
| commit-order merge and replay | `merge-commit.cpp`, `mem-replay-rtmcommit.c` | `CommitReplay` | modelled |
| mapped log files | `log.c`, `log.h` | `MappedLog` | logs; not `create_mapped_file` |
| RTM recorder, a transaction per access | `mem-record-rtmseq.c` | `Tsx`, `RtmSeq` | modelled |
| RTM recorder, a transaction per block | `mem-record-rtmcluster.c` | `Tsx`, `RtmCluster` | modelled |
| RTM intrinsics | `tsx/rtm.h` | `Tsx`, `RtmCommit` | the four instructions |
| test programs | `racey.c`, `addcnt.c` | `ThreadStart`, `TestProgram` | modelled, safety proved |
| relay benchmark | `relay.c` | `ThreadStart`, `Relay` | modelled, safety proved |
| legacy tools, utilities | `infer.c`, `goinfer/`, `time.*`, `tls.*`, `tsx/assert.h`, `tsx/cpuid.h` | | out of scope (below) |

How they interact: a recorder (one of five) provides `mem_read`/`mem_write`; four
of them share `mem-record.c` and its logs, the commit-order recorder has its own.
The log tools run after all recording threads have closed their logs, replay
after the tools. A test program is linked once with a recorder and once with a
replay library and makes the same calls to both.

## Modules

**OrderLog** — the thread-local state of a recording thread as one record
(`memop`, `last` = `g_last`, the logs) and the functions that change it, under
their names in the source. `note_read` and `note_write` are the bookkeeping tails
of `mem_read` and `mem_write`. `fin` is the progress of `mem_finish_thr`: the
next object of its loop (0 also while the thread is running), `NObj` when only
the end marks are missing, `NObj + 1` when the logs are closed. `Orderable` says
that the order a recording claims (program order plus version order on each
object) has no cycle.

**Recorder** — the abstract specification of a recorder: `mem_read` and
`mem_write` access version and value in one step and extend the logs.
`mem_finish_thr` takes one step per loop iteration, since other threads may still
be writing. The module also states what the logs must contain.

**Seqlock** — the implementation, one shared load or store per step, on x86-TSO.
Each thread has a FIFO store buffer; loads see the thread's own buffered stores
first; `xchgb` and `__sync_synchronize` need an empty buffer; `spin_unlock` is a
plain store and does not. `AtomicAccess` is the refinement of `Recorder`: a write
takes effect when its value store reaches memory, a read when it validates.
`barrier()` only constrains the compiler and is the order of the steps.

**MemopMerge** — `reorder-memop` one log entry and then one object at a time, the
processes of all threads together (each reads one file, writes another and
depends on nothing else); `merge-memop` one queue operation at a time. Which of
several equal entries leaves `std::priority_queue` first is left open. Loops are
steps here and not recursive functions, so that what they compute is an invariant
and can be proved.

**Replay** — `mem-replay.c`, one shared load or store per step. The replayed
program repeats the recorded accesses as long as its reads returned the recorded
values, which is what `AccessesReplayed` checks; the access log stands for the
program. A failing assertion is a step that cannot be taken, and each has an
invariant saying it does not fail.

**OrderedReplay** — what replay promises: accesses happen one at a time, each at
its recorded version, a write after all recorded reads of what it replaces.
`ReplayInOrder` in `RecordReplay` is the refinement: a read happens when the value
is loaded, a write when it is stored.

**ThreadStart** — what the programs have in common: `main` creating the threads,
their places and the flag of the start barrier.

**TestProgram** — `racey.c` and `addcnt.c` run twice, on the atomic accesses of a
recorder and then on `OrderedReplay`. The start barrier and `mem_init_thr` are
steps of their own. What a thread accesses is computed from the values it has read
in this run; only the order enters from the recorded one. `main` joins the threads
one after the other (`pthread_join`) while later ones may still run, and then prints
the result (`print_result`).

**Relay** — `relay.c`: threads counting a plain shared variable, each its leg. A
load, the test and a store are separate steps. The variable is not `volatile`, so a
store may also be the result of the whole loop (`store_step`).

**RecordReplay** — `Recorder`, `MemopMerge` and `Replay` composed as `test.sh`
runs them: the logs the first leaves are the input of the second, and both of the
third.

**SeqBatch** — the seqlock recorder with deferred bookkeeping. Its shared accesses
are those of `mem-record-seqlock.c`, so they are atomic here and checked in
`Seqlock`. A queued access is its object id (complemented for a write) and
version; `process_1log` is folded over the queue when it is full and when the
thread ends. `Unbatched` is what `OrderLog` logs for the same accesses.

**Tsx** — hardware transactions beside the fallback code of `Seqlock`. The
processor is external: a transaction has a read set and a buffer of stores and
commits at once. Whoever loads or stores what another transaction has written, or
stores what it has read, dooms it (the requester wins); a buffered plain store does
so when it leaves its store buffer. A doomed transaction can only abort, and any
transaction may abort at any time. An abort restores what the thread had at
`_xbegin` (`checkpoint`) and continues in the fallback.

**RtmSeq** — `mem-record-rtmseq.c`: one transaction per access, one load or store
per step, with the test for an odd version (reads) and of `write_lock` (writes).
It uses the refinement mapping of `Seqlock`: a transaction takes effect when it
commits, a fallback as in `Seqlock`.

**RtmCluster** — `mem-record-rtmcluster.c`: a transaction per block of
`RTM_BATCH_N` accesses, the log queue (`g_batch_q`, `process_1log` is that of
`SeqBatch`, statement for statement) and `before_finish_thr`. `thr` is a history of
the accesses made and of what an unbatched recorder would log; `log` is what this
one logs. `AtomicBlocks` says that the accesses of a committed transaction happen
one after the other at one instant.

**RtmCommit** — blocks of `RTM_BATCH_N` accesses as transactions or under the
ticket lock. A transaction is a read set and a buffer of stores; whoever loads or
stores a location another transaction has written, or stores one it has read,
aborts it, inside a transaction or not, and any transaction may abort at any time.
That is the only external part. `bb_end` is one step per shared access: the test
of the lock, the time stamp, the commit; in the fallback the load and the store of
`g_time` and the unlocking.

**CommitReplay** — `merge-commit` one queue operation at a time and
`mem-replay-rtmcommit.c` one shared access at a time, on the logs `RtmCommit`
leaves. `read_next_thr` is two steps: moving the cursor and giving the turn away.

**MappedLog** — one log file byte by byte, each byte the number of the entry
written there, and its mapping: `off` and `len` are the mapped part, `buf` is
relative to it, as in `log->buf - log->start`.

**MCSeqlock, MCMerge, MCRecordReplay, MCSeqBatch, MCRtmCommit,
MCCommitReplay, MCMappedLog, MCRtmSeq, MCRtmCluster, MCTestProgram, MCRelay** —
instances for TLC. They add thread symmetry where threads are interchangeable, a
stuttering step in final states so that deadlock checking stays on, and for
`MCMerge` the set of input logs.

**RecorderProof, SeqlockProof, MergeProof, ReplayProof, RecordReplayProof,
RtmCommitOrder, RtmCommitSerial, StandaloneProof** — the proofs.

Definitions whose comment says "Mutant" are wrong variants of the definition that
follows them. No specification uses them; each stands for a plausible bug that one
of the properties detects when it replaces the real definition.

### Abstractions

* One address per object; `calc_objid` is the test program's, and the objects of
  both programs are numbered as it does.
* Values are names of writes (`<<thread, memop>>`), so no two writes store the
  same value and reading a wrong one always shows.
* `DEBUG_ACCESS` is taken as defined. The access log is what the properties speak
  about, and in replay it adds checks that are shown never to fail, so leaving it
  undefined only removes steps.
* `version_t` and `memop_t` are 64-bit `long`s counting accesses; they are not
  wrapped.
* Logs are sequences outside `MappedLog`, which shows that what is written to a
  mapped log is what is read from it. Failing system calls (nearly all exit) are
  left out, except for the mapping of an empty file, which ends the program that
  opens it (mode `"exit"`).
* `RtmCommit` has sequentially consistent memory: all stores of the fallback path
  happen between `xadd` and the unlocking store, and no transaction can commit in
  between. `gettime` is `addtime`, as defined. Abort codes are not distinguished.
  The times are 64 bits wide and not wrapped.
* `mem_finish_thr` of the commit-order recorder and replay ends a partial block.
  `nops`, the length of a thread's program, is chosen initially so that
  `BlockEnds` can say where. It is at least 1: the commit log of a thread without
  accesses would be an empty file, which `merge-commit` cannot map.
* Replay is modelled with sequentially consistent memory in source order. gcc
  -O2 keeps the order of its stores (`*addr`, `obj_version`, `memop`), and under
  TSO stores become visible in order and loads are not reordered with each other.
  A store may be delayed past a later load of its thread; every load that must
  see another thread's store waits for it (`obj_version`, `*memop_cnt`), and
  conflicting accesses are ordered by those waits.
* `rep_mem_init` initialises all replaying threads at once: no thread gets to its
  first access before all have set their counters, which `TestProgram` checks and
  `StandaloneProof` proves (`CountersSet`).
* `memop_cnt` points into a thread's thread-local storage, and `wait_reader` follows
  it also when that thread has ended or was joined. The models take it that the counter
  keeps its last value there until the program ends. That rests on the C library;
  `CountersSet` says that counters are set before they are used, not that they last.
* `mem-record-rtmcluster.c` writes no access log (`mem.h`: "Note RTM cluster can't
  use DEBUG_ACCESS"), which is why it is a history variable there.
* In `addcnt.c` the index `i % sizeof(thr_fn)/sizeof(thr_fn[0])` gives the first
  eight threads the first function, the next eight the second, and so on. With two
  threads in the model every combination of functions is taken, standing for two
  of many threads. `g_obj` is not initialised by the program; it is zero in both
  runs, as fresh pages are.
* `WORD` stands for 2^32, the range of `uint32_t`, `PRIME1` and `PRIME2` for the
  primes of `racey.c`. In the `programs` run `WORD` is small enough for `mix` to wrap.

## Runs

| run | instance | distinct states | checks |
|---|---|---|---|
| `seqlock` | 2 threads, 2 objects, 2 accesses each | 173 074 | refinement, acyclic recorded order, exclusion; every thread closes its logs |
| `merge` | 3 threads, 3 objects, up to 2 entries each | 173 347 | index and output files |
| `record_replay` | 2 threads, 2 objects, 3 accesses each, 5 in all | 601 446 | assertions, values, result; refinement |
| `replay_three` | 3 threads, 1 object, 3 accesses each, 4 in all | 128 588 | logs complete and exact; replay ends |
| `seqbatch` | 2 threads, 2 objects, 3 accesses each, queue of 2 | 264 182 | queue limit; same logs as unbatched |
| `rtm_commit` | 2 threads, 2 objects, 3 accesses each, blocks of 2 | 824 725 | exclusion, total and serial commit order |
| `commit_replay` | 2 threads, 1 object, 3 accesses each, blocks of 2 | 99 117 | turn assertion, values, result; recording and replay end |
| `rtmseq` | 2 threads, 2 objects, 2 accesses each | 187 477 | refinement, exclusive writes |
| `rtmcluster` | 2 threads, 2 objects, 3 accesses each, 4 in all, blocks of 2 | 473 908 | queue, counter and logs; atomic blocks |
| `programs` | 2 threads; `racey` 2 elements, 3 iterations; `addcnt` 3 objects, 1 iteration, all functions | 83 676 | same accesses and result; both runs end |
| `relay` | 3 threads, finishing line 11 | 802 | legs in order; the relay ends |
| `mapped_log` | pages of 6 bytes, entries of 1 to 6 bytes, up to 20 | 1 758 | layout of the file; reading back |

* **seqlock**: `AtomicAccess`; `RecordedOrderAcyclic`, the situation drawn in the
  comment of `mem_read` and all others like it; `WritersExclude`, with the
  unlocking store still in the buffer; `ChangesUnderOddVersion`, what the
  validation of reads relies on; `LogsCompleteExact`, the log properties of
  `Recorder` for the logs taken by this implementation; `EveryThreadCloses`, no
  one spins forever on a lock or an odd version.
* **merge**: `IndexedLogsExact` (through the index, replay finds for each object
  exactly its reads, by version) and `OutputFits` (no write past the mapped files,
  and the assertion on entry counts).
* **record_replay**: the assertion of `wait_object_version`
  (`VersionAssertHolds`), the mutex used as an assertion
  (`NoConcurrentReaderScan`), the assertion of `next_reader_memop`
  (`ReadersNotSkipped`), `check_access` (`AccessesReplayed`) and the comparison
  `test.sh` makes (`ResultReproduced`); `ReplayInOrder`, that replay implements
  `OrderedReplay`; `TypeOK`, that no log is read past its end.
* **replay_three**: several readers of one version. Of the recording
  `VersionsNameWrites` (a version identifies a write and the value read at it),
  `RecTypeOK`, and `RecInv`, the invariant of the proofs: it contains
  `VersionLogComplete` and `ReaderLogComplete` (nothing replay needs is missing,
  also while threads are finishing at different times), `ReaderLogExact` and
  `VersionLogExact` (every entry is true, and in the order its consumer relies on).
  Of the replay `ReplayCompletes`, no circular waiting.
* **seqbatch**: `BatchedLogsSame`, the comment "Same with mem-record-seqlock,
  except batches log taking", at every fill level of the queue and every stage of
  `mem_finish_thr`; `BatchTypeOK` includes that the queue is never overrun.
* **rtm_commit**: `FallbackExclusive` (tickets wrap around in the run),
  `TimesUnique` (the merge has no ties) and `CommitOrderSerial` (in the order of
  the logged times every read returns the last write).
* **commit_replay**: the assertion on `g_next_thr` (`TurnAssertHolds`), what
  `test.sh` compares (`BlocksReplayed`), `CommitReplayTypeOK`, that no commit log is
  read past its end, and `CommitReplayCompletes`, although any transaction may abort.
* **rtmseq**: `AtomicAccess` as for the seqlock, with transactions and fallbacks of
  different threads interleaved; `VersionStepsExclusive`, the comment "we must check
  for lock being taken since we need to ensure exclusive write". That the recorded
  order has no cycle follows from the refinement by `RecordingIsOrderable`.
* **rtmcluster**: `BlocksAligned` (queue, counter and transaction stay in step
  through commits, aborts and half-done blocks, and `assert(!_xtest())` holds),
  `ClusterLogsSame` and `AtomicBlocks`; with two objects, the situation of the
  comment "Here we only check for a single object's write lock, it's not enough".
* **programs**: `CountersSet`; `ProgramRepeats`, that replay reproduces a program
  whose accesses depend on what it reads, and the result `test.sh` compares;
  `RunsComplete`.
* **relay**: `LegsInOrder`, `RelayEnds`.
* **mapped_log**: `EntriesContiguous` (entries that straddle a page or end on one,
  over several enlargements, and the assertion of `enlarge_mapped_log`) and
  `ReadBack`: all entries come back, and opening exits only if there are none.

No run found a disagreement between the code and its comments or assertions.

### Bounds

`MaxOps` bounds a thread's accesses, `MaxAccesses` those of all threads together in
`MCRecordReplay` and `MCRtmCluster`, `MaxEntries` the entries of a log in `MCMerge` and `MCMappedLog`.
Two threads and two objects with two accesses each are the smallest instance of the
reordering the fence is there for; the `seqlock` run without the fence fails on it.
Three accesses let a thread read, be overtaken by a writer, and come back (a lazily
logged read, a stale `g_last` version), or read, write and read one object. With
`MaxAccesses` = 6 `record_replay` passes too, with 2 522 119 states and several
minutes; five keep the run short and still break every mutant of it. Three threads
are needed for two readers of a version another thread overwrites. Three objects in
`merge` give empty objects before, between and after the others. A queue of two
entries is emptied once and left half full by three accesses. Three accesses in
blocks of two give a full and a partial block, and enough fallbacks for `TicketMod`
= 3 tickets, standing for 2^16, to wrap; the code needs only that there are fewer
threads than tickets (`CommitAssumption`). The times and the lock are the same with
any number of objects, so replay is run on one. `PAGE_SIZE` = 6 has entry sizes
that divide a page and some that do not, and `Buffers` = 1 is the code's
`LOG_BUFFER_SIZE` of one page.

In `rtmcluster` three accesses in blocks of two give a full block and a partial
one, which is still open when the thread ends; two objects are needed for a
transaction that mixes objects, and four accesses in all for two full blocks that
meet, or a full and a partial one that meet a single access.
Two elements make the threads of `racey` meet in every iteration, and with three
iterations what one reads depends on what the other made of its earlier writes.
Three objects in `addcnt` give an odd one out in the functions that work on pairs.
Three threads and a finishing line that is no multiple of them give `relay` a
first, a middle and a last leg. The proofs lift the bounds for every safety property
of `Recorder`, `Seqlock`, `MemopMerge`, `RecordReplay`, `RtmCommit`, `MappedLog`,
`TestProgram` and `Relay` that a run checks.

### Fairness

`Seqlock`: weak fairness of each thread's steps and of each store buffer's drain:
a runnable thread is scheduled eventually and a store becomes visible eventually.
A thread chooses its access before it waits for a lock or an even version, so
waiting cannot be avoided by choosing another access. A program makes finitely
many accesses; with unboundedly many writes a reader may retry forever, as with
any seqlock. `RecordReplay`: weak fairness of recording and processing as
programs that run to their end, and of each replaying thread, which keeps being
scheduled while it spins. `CommitReplay`: weak fairness of each thread's own steps
while recording and replaying, and of the merge. Aborts are not assumed to happen
or to stop: an aborted block goes to the lock and is never a transaction again.
`TestProgram` and `Relay`: weak fairness of `main` and of each thread, which keeps
being scheduled while it spins.

Liveness of `RtmSeq` and `RtmCluster` is not checked as a temporal property. Waiting
for a lock or an even version is a guard in these models and deadlock checking is on,
so a thread left waiting for what nobody will do any more is found once the others
have closed their logs. Endless retrying of a read would not be found there; the
fallback's read loop is the one of `Seqlock`, where `EveryThreadCloses` covers it.

## Proofs

The assumptions are those the modules name: at least one object
(`NObjAssumption`), finitely many threads and at least one (`ThreadAssumption`: the
size of the merged file is a count over all threads, and without threads a replay that
has not begun could not be told from one that has ended), a bound on accesses that is a natural number
(`MaxOpsAssumption`, `MaxOpsIsNat`; its value is not used), and parameters of
the programs that are natural numbers and, but for the finishing line, positive
(`ProgramAssumption`, `RelayAssumption`), as are the sizes of a log's pages and
buffers (`LogAssumption`). `addcnt` has at least two objects, or the functions that
take objects in pairs would make no access (`NOBJS` is 10 there). In the programs
threads are numbered, and in `RtmCommit` they are fewer than the ticket numbers
(`CommitAssumption`): a ticket is an `unsigned short`, and with 65536 waiting threads
two of them would hold the same one.

### The bookkeeping: `RecorderProof`

* `TypeCorrect`: `RecSpec => []RecTypeOK`. In particular no `-1` of `g_last`
  reaches a log except in the end marks.
* `RecInvHolds`: `RecSpec => []RecInv`.
* `ReadersAreLogged`, `VersionsAreLogged`, `ReaderLogIsExact`,
  `VersionLogIsExact`: the log properties, conjuncts of `RecInv`.
* `RecordingIsOrderable`: `RecSpec => []Orderable(thr)`. A new access comes after
  all that are there: it sees the object's current version, and no earlier access
  saw a later one.
* `VersionsName`: `RecSpec => []VersionsNameWrites`. `AllNamed` adds that versions
  are even between accesses. The version a write replaces had been replaced by no
  other, by `AccessesBounded` below, and is the only new even number below the
  object's version, so the writes named by the older numbers stay the same.

The log properties are not inductive: whether the next entry will be exact depends
on what `g_last` says about earlier accesses. `LogInv` adds, for one thread's record
and the objects' versions,

* `AccessesBounded`: a thread saw no version that has not been reached, its
  writes replaced versions that are gone, and on one object the versions it saw
  never go back;
* `LastDescribesLatest`: `g_last[o]` names the thread's latest access to `o`
  exactly if that was a read; after a write its version is no newer than the one
  the write replaced, although `mem_write` does not update it;
* `LoggedReadsOld`: a logged read is older than the one remembered, unless that
  one is spent. This is what keeps versions increasing along the log.

The proof has three layers: what each bookkeeping function does to each field
(`LogWaitVersion` to `MarkLogEnd`, both accesses summarised by `Noted`); that an
access, a loop iteration of `mem_finish_thr`, the end marks, and other threads'
writes preserve `LogInv` (`NotedKeepsInv`, `FinishKeepsInv`, `MarkKeepsInv`,
`VersionsMove`); and the step over `RecNext`.

### The seqlock: `SeqlockProof`

* `SeqlockWritersExclude`, `SeqlockChangesUnderOddVersion`: the properties of the
  `seqlock` run that the refinement rests on.
* `SeqlockImplementsRecorder`: `Spec => AtomicAccess`, the refinement.
* `SeqlockLogsCompleteExact`, `SeqlockOrderAcyclic`: what `RecorderProof` shows of
  atomic accesses, carried over to the seqlock.

The inductive invariant `SeqInv` says what can be in a store buffer. Between
`spin_lock` and `spin_unlock` (`Writer`) it holds the stores of the current write
that have not reached memory, in order, and the version in memory tells how many
have; the fence is where both the odd version and the value are known to be out.
Outside (`Outside`) it holds at most the even version and the unlocking store of
the last write, so that the version this thread sees (`Seen`) may be ahead of
memory by one. `Reader` says that while the version a reader saw first is still the
one it sees, the value it has loaded is the object's. `LockInv` ties the lock to the
one thread that holds it or still has its release in the buffer, and an odd version
to a holder. One lemma per action shows what becomes of the thread's own part, and
`OtherKeepsInv` that the others' parts survive.

For the refinement, `Mapping` gives `versionBar` and `thrBar` on states of the
invariant. A read is the abstract read when it validates, a write the abstract
write when its value leaves the buffer (`ValidateIsRead`, `ValueFlushIsWrite`); every
other step is a stutter or the same step of `mem_finish_thr`. The mapped logs are
the thread's own, except for a write in progress that has already taken effect.
That is why the carried-over theorems speak of idle threads
(`SeqlockLogsCompleteExact`), or need that an order without cycles stays one when
its last accesses are taken away (`SeqlockOrderAcyclic`).

### Log processing: `MergeProof`

The module takes closed logs of a recording (`MemopLogFacts`: ended by the mark, every
entry naming a read of its thread, an object's versions increasing along the log, no
read of the recording missing) and shows that every step of `MemopMerge` keeps
`MergeInv`, and what `MergeInv` means at the end.

* `Reordered`: `reorder-memop` has kept, of the entries it has read, each under its
  object and in the order read (`ReadIn`), and has written those of the objects below
  `objit`, by object and version (`WrittenOut`).
* `QueueFacts`: the queue holds the last entry taken from every file that has not been
  used up. That is what makes the smallest entry of the queue the smallest of all that
  are left.
* `OutputFacts`: the output is exactly the entries taken and no longer queued, no two
  the same, by object and version, and nothing queued comes before them.
* `IndexFacts`: the index has a pair for every object below `prev_id`, the open pair of
  `prev_id` itself, and every pair (`PairIs`) delimits exactly the entries of its object
  or is (-1, 0) where there are none. `IndexDone` is the same for all objects.

`ProcessingSpec` is processing alone, started on any such logs, and the results are
`MergedLogIsExact` (`ProcessingSpec => []IndexedLogsExact`) and `MergedLogFits`
(`ProcessingSpec => []OutputFits`).

`ExactHolds` is `IndexedLogsExact`. It compares lengths with cardinalities, and so needs
that an index range enumerates the set of its entries without repetition
(`LenIsCardinality`). `FitsHold` is `OutputFits`; it counts the entries of all files,
which is where threads must be finitely many. `MergedHolds` is what replay needs: the
segment of an object holds reads of it by version (`SegmentFacts`), and for every read
that its own thread did not overwrite an entry of its thread that is not earlier
(`ReadsInSegments`).

### Replay: `ReplayProof`

The module takes the logs of a recording, access by access (`Recorded`: versions even
and in program order, each overwritten by one write, every value what the write before
it stored, a version log entry wherever the version cannot be known otherwise), and the
merged log (`Merged`), and shows that every step of `Replay` keeps `RepInv`.

* `AtVersion`: a thread past its wait is at the recorded version of its access, and
  stays there: whoever would move the version waits for it.
* `PastOld`, `OldPast`: what has been replayed is of versions reached, and what is of
  versions left behind has been replayed. The second is the purpose of the reader log:
  a read counts as replayed only once its `memop` shows it, because that is what the
  writer looks at; a write already when it has published its version.
* `MemoryAt`, `ReadValue`: an object holds what the recording had stored at the version
  replay has reached, counting a store not yet published (`Storing`).
* `Cursor`: the version log has been read up to the entry of the next access or the
  first one after it (`TakenTo`). A thread without an entry for its access is at the
  right version because of `VersionKnown` and the accesses it has made.
* `MutexHeld`, `SameLog`, `ReadersWaited`, `ReadersLeft`: the entries of an object's
  reader log already used were waited for, but for the one waited for now; those left
  are of this version or later, and of later ones once the writer stores. The assertion
  of `next_reader_memop` and the mutex used as an assertion rest on there being one
  writer per version (`OneWriter`).

There is a lemma for every action (`AssertKeeps` to `PublishKeeps`). The same invariant
carries the refinement: `RepeatsAccess` says that a load or a store is an
access of `OrderedReplay`, and every other step is a stutter.

### The pipeline: `RecordReplayProof`

* `MergeIsExact`: `Spec => []Merge!IndexedLogsExact`; `OutputAlwaysFits`:
  `Spec => [](AllClosed => Merge!OutputFits)`, the results of `MergeProof` for the logs
  of a recording. While threads are still recording,
  their logs lack the end mark that reading must stop at, and processing has not begun.
* `ReplayTypeCorrect`, `VersionAssertNeverFails`, `ReaderScansAlone`,
  `ReadersAreNotSkipped`, `AccessesAreReplayed`, `ResultIsReproduced`:
  `Spec => []TypeOK` and the same for the other invariants of the `record_replay` run.
* `ReplayIsOrdered`: `Spec => ReplayInOrder`, the refinement of `OrderedReplay`.

Each part finds what the one before it leaves. `RecordingInv` is the invariant of
`RecorderProof` with the end marks (`LogMarks`); `RecordingDone` and `MemopLogHolds`
read `Recorded` and `MemopLogFacts` off it once all logs are closed. `ProcessingInv`
says that processing has not begun or that the recording is closed and `MergeInv`
holds; `ReplayInv` that replay has not begun or that processing is done and `RepInv`
holds. `MergeProof` and `ReplayProof` are used through `INSTANCE`, with the recorded
logs for their input variables.

### Commit order: `RtmCommitOrder`, `RtmCommitSerial`

* `CommitTyping`: `CommitSpec => []CommitTypeOK`.
* `FallbackExcludes`, `CommitTimesUnique`: the ticket lock excludes and the logged
  times differ, so that the order `merge-commit` gives the blocks is total.
* `CommitsSerial`: `CommitSpec => []CommitOrderSerial`. The committed blocks, taken
  in the order of their times, are a serial execution.

The inductive invariant is `Ordered /\ Serial`. `Ordered` is about who may do what:

* `TxInv`, `Isolated`: what a transaction has written no other one has read or
  written; from the test of the lock on it watches the lock, which is free; from
  `gettime` on the next time is in its buffer and `g_time` has not moved.
* `LockInv`: the tickets between the one being served and the next one to be given
  out are those of the threads in the queue, each its own. The distance is taken
  modulo the number of tickets, so wrapping around is part of the proof.
* `TimeInv`, `BlockInv`: all logged times are in the past, also for a thread that has
  taken its time under the lock and not logged it; and how many accesses of the
  unfinished block a thread has made at each program point.

`Serial` is about values. `CommitOrderSerial` alone is not inductive, because a block
is judged only when it commits and its reads were made long before.

* `MemInv`: an object holds what the last committed write stored, or what the lock's
  holder has written in its unfinished block.
* `BufferInv`, `ReadInv`: a transaction's stores are in its buffer; a read of an
  unfinished block returned the block's own last write to the object, or else what
  memory holds now and the transaction still watches, or, under the lock, what
  the last committed write stored.

A commit is then placed after all others: its time is the largest, and the reads of
its block saw the last committed values. `RtmCommitOrder` shows that every step
keeps the first part (`BaseNext`, `OrderedStep`), with `ActionMoves` saying once for
all actions what a step does to the queue; `RtmCommitSerial` that it keeps the second
(`SerialNextStep`), treats the two steps that change the queue, which need finite
cardinalities, and concludes.

### Log files and programs: `StandaloneProof`

* `LogContiguous`, `LogReadBack`: `EntriesContiguous` and `ReadBack`. `LogInv` says
  what the mapping is while the log is written (`Mapped`): it ends with the file, its
  length is a positive multiple of the page size, and the file's length is a multiple
  of `LOG_BUFFER_SIZE`. That is what makes the page `enlarge_mapped_log` maps again
  the one that holds the next free byte (`SamePlace`), also when the mapping was full
  to its last byte.
* `RelayLosesNoStep` (`NoLostStep`), `RelayLegsInOrder`. `RelayInv`: a thread between
  its test and its store is on its own leg, and legs do not overlap, so no two threads
  are there.
* `BarrierProtectsCounters`: `ProgSpec => []CountersSet`. `BarrierInv`: `flag` is
  the number of threads that have arrived, they are all ready, and none runs before
  all have arrived.
* `ReplayRepeatsProgram`: `ProgSpec => []ProgramRepeats`. The two runs share nothing but
  the order, so the invariant (`RepeatInv`) must say why a thread of the second one is in
  the state it had in the first. It claims a history (`Traced`): a state of the thread
  after each of its recorded accesses, each following from the one before and the value
  the access returned. A replayed thread that has repeated n accesses is in the n-th
  state of the history, so it makes the recorded access next. That it gets the recorded
  value is `Consistent`, which both runs satisfy: a version was stored by one write, and
  the value of an object or of a read is what that write stored. `JoinInv` says that
  the threads joined have finished, so that the result is printed after all accesses.

### Only model-checked

`SeqBatch`, `RtmSeq`, `RtmCluster` and `CommitReplay`. What a fold over a batch or a
cluster leaves in the logs (`BatchedLogsSame`, `ClusterLogsSame`) needs induction over
data, which the prover does not have; `AtomicAccess` of `RtmSeq`, `AtomicBlocks`,
`BlocksAligned`, `BatchTypeOK` and the invariants of `CommitReplay` have no proof yet.
Liveness under fairness (`EveryThreadCloses`, `ReplayCompletes`, `CommitReplayCompletes`,
`RunsComplete`, `RelayEnds`) and `ENABLED` are outside the prover's reach and stay with
TLC. The project has no `RECURSIVE` operators.

## Not modelled

* `infer.c` and `goinfer/` read a text log format the recorders no longer write.
* Clock, thread-local-storage emulation (`tls.*`), debug and statistics output
  (`RTM_STAT`) and the stand-alone `replay-log/mmap-test.c` have no state the order
  of accesses depends on.
* `create_mapped_file` and failing system calls of `log.c`: nearly all exit.
* `spin_trylock` and `ticket_trylock` have no callers; `tsx/assert.h` is only used
  in commented-out code, `tsx/cpuid.h` tests for the processor.
* Programs linked with neither library (`DUMMY`) make plain accesses; nothing is
  promised of them.
* Compilers that reorder the plain stores of `mem-replay.c`, and memory models
  weaker than x86-TSO.

## Plan

1. `SeqBatch` and `RtmCluster` as refinements of `Recorder` with the logs taken
   later, and their logs through `RecordReplay`.
2. Proofs: the turn of `CommitReplay`, the blocks of `RtmCluster`, and the refinement of
   `RtmSeq` along that of `Seqlock`.
