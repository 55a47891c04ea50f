# Software transactional memory: a TLA+ development

This directory specifies and verifies the program in this repository: a word-based software
transactional memory of the TL2 family (`src/353055`), the lock-based one it is compared with
(`src/reference`), the C++ program that drives and grades both (`src/grading`), and the small programs
on synchronization beside them (`src/sync-examples`, `src/playground`).
The modules are translated from the source; the comments in the modules name the code they model.
`PROJECT.json` maps each definition to its lines.

How to run, in this directory: `tlc -workers 2 -config transactions.cfg MCTL2History` model-checks a run
(section 3 names the module of each configuration) and `tlapm TL2Proofs.tla`, and so on for each module whose name
ends in `Proofs`, checks the proofs. All of them together take a few minutes.

## 1. The system

| Component | State it keeps | Operations | Talks to |
|---|---|---|---|
| TL2 transactions (`353055/tm.c`, `helper_functions.h`, `data_structures.h`) | `global_clock`; per word: contents, `lock_bit`, `lock_version_number`; per transaction: `rv`, `wv`, read list, write list, filter | `tm_begin`, `tm_read`, `tm_write`, `tm_end` | other transactions, through the clock, the lock bits, the versions and the words |
| Bloom filter (`bloom_filter.h`) | one bit array per transaction | `initBloomFilter`, `addToBloomFilter`, `isInBloomFilter` | reads the shared words it hashes |
| Segment table and region (`tm.c`, `helper_functions.h`) | `segments_list`, `num_allocs`, `max_size`, `allocation_lock` | `tm_create`, `tm_alloc`, address translation, `tm_free` (does nothing), `tm_destroy` | every read and write goes through the table |
| Reader-writer lock (`readers_writer.h`) | `readers`, `writer`, mutex, two condition variables | init, lock and unlock for readers and writers | compiled into `tm.c`, whose calls to it are commented out |
| Reference memory (`reference/`) | one `pthread_rwlock`, a doubly linked list of segments | the same interface | used by the harness to set its time limits |
| Harness (`grading/grading.cpp`, `common.hpp`) | `Sync` (status, count, message, latch), `Barrier`; of `main`: the library, the exit code | master: notify, wait, join; worker: wait, notify; `bounded_run`; load, create, measure, destroy, unload | master and workers, runners of `bounded_run` |
| Workload (`grading/workload.hpp`) | accounts in linked segments, inside the transactional memory | sums, transfers, account creation and removal, the counter check | runs transactions of the library under test |
| C++ wrapper (`grading/transactional.hpp`) | whether a transaction was ended or aborted | begin, end, read, write, alloc, free; the retry loop | turns a `false` of the library into an exception and a retry |
| Exercises (`playground`, `sync-examples`) | a counter, a leader per round, a bounded buffer; a mutex with a condition variable | counters, elections, producers and consumers, twelve programs and one with an empty lock | nothing else |
| `template`, `include`, `submit.py`, `353055/testing.c` | none of their own | | |

### What is hard here, and what makes each part correct

* **TL2.** A read samples the version, copies the word and tests lock bit and version again, while
  a commit stores the contents, then the version, then clears the bit, word by word. Correct means:
  what a transaction reads, even one that is about to abort, is one snapshot; no update is lost; the
  lock bits come back in every outcome; a call never waits for another transaction. The commit's
  own order - locks, then clock, then validation - decides the first two.
* **Filter.** It may err only towards "perhaps". It hashes the *contents* of the location it is
  given, so its answer depends on other transactions.
* **Segments.** `tm_alloc` extends the table under a lock that readers of the table do not take.
  Correct means: an address keeps leading to its segment, a lookup finds a table that still exists,
  `tm_alloc` returns, and nothing is left at the end.
* **Reader-writer lock.** Exclusion, and no lost wakeup.
* **Harness.** The status word and one counter carry both halves of a round; a round must not start
  before the previous one is over, the verdict must count every worker, and nobody may be left waiting.
  `bounded_run` gives up on threads that still run; the library must not be unloaded under one.
* **Workload and wrapper.** They rest on the isolation the library promises, on transactions
  being ended exactly once, and on retries that stop.
* **Exercises.** The wrong ones are wrong in a test-then-set; the right ones rest on the order in which a
  slot is filled and announced, and on nobody sleeping through the last broadcast.

`PROJECT.json` lists the hazards one by one with the lines where they bite.

## 2. Modules and how they correspond to the code

| Module | Models | Extends / composes |
|---|---|---|
| `TL2` | the life of a transaction, one step per access to shared memory | |
| `TL2History` | ghosts: what transactions read and committed; the isolation properties | `TL2`; implements `SnapshotTM` |
| `SnapshotTM` | the memory TL2 promises: snapshots and commits, no locks | |
| `TL2Proofs` | proofs about `TL2`: types, cursors, locks | `TL2` |
| `TL2HistoryProofs` | proofs about `TL2History`: snapshots, lost updates, the order of commits; that it implements `SnapshotTM`; the write list, the filter and aborts | `TL2History`, `TL2Proofs` |
| `MCTL2`, `MCTL2History` | threads, words, clients and filters for TLC | |
| `Segments`, `MCSegments` | `tm_create`, `tm_alloc`, lookups, `tm_destroy` | |
| `SegmentsProofs` | proofs about addresses and destruction | `Segments` |
| `RWLock`, `MCRWLock` | `readers_writer.h` | |
| `RWLockProofs` | proofs about exclusion and wakeups | `RWLock` |
| `ReferenceTM` | the memory of `src/reference`: its operations, for a client to compose | |
| `Bank`, `MCBank` | `WorkloadBank::run`, its transactions and the accounts | `ReferenceTM` |
| `BankProofs` | proofs about the list of segments, the sums and the money | `Bank` |
| `BankOnTL2`, `MCBankOnTL2` | `WorkloadBank`'s `init`, `run` and `check`, and the retry loop of `transactional.hpp` | `TL2` |
| `BankOnTL2Proofs` | proofs about the counter of `check` | `BankOnTL2`, `TL2Proofs` |
| `Barrier` | the spin barrier of `common.hpp` | |
| `Harness` | `Sync` and `Latch`, the master and worker loops of `measure`, the barriers of `check` | `Barrier`; implements `Rounds` |
| `Rounds` | what master and workers promise together, a round at a time | |
| `BoundedRun` | `bounded_run` of `common.hpp` | |
| `Grading`, `MCGrading` | `main` for one library | `Harness`, `BoundedRun` |
| `GradingProofs` | proofs about barrier, rounds, `bounded_run` and the end of the program | `Grading` |
| `SyncLock` | the lock of `sync-examples`, and the frame its programs share | |
| `Counters`, `Elections`, `ProCon` | the programs | `SyncLock` |
| `Channel` | a bounded channel, what a producer and a consumer promise | |
| `SyncExamples` | any one of the programs | `Counters`, `Elections`, `ProCon`; implements `Channel` |
| `SyncExamplesProofs` | proofs about counts, leaders and the channel | `SyncExamples` |

### TL2

`clock`, `mem`, `version`, `lockBit` are the shared fields; `isRo .. filter` are `struct Transaction`;
`word, before, buf, left` are the locals of `tm_read` and `tm_write`; `cur, until` are the list cursors of
`tm_end`'s helpers. `pc` says how far a call has got. The linked lists grow at the head; they are
sequences growing at the end, so "next" is index - 1 and `NULL` is index 0.

| Code | Actions |
|---|---|
| `tm_begin` | `tm_begin` |
| `tm_read` | `tm_read` (first version load), `ReadLookup`, `ReadCopy`, `ReadCheckLock`, `ReadCheckVersion` |
| `tm_write` | `tm_write` (update in place, or go on to insert), `WriteInsert` |
| `tm_end`, nothing written | `EndWithoutWrites` |
| `acquireLocks`, `releaseLocks` | `EndWithWrites`, `AcquireLock`, `ReleaseLock`, `AbortCommit` |
| timestamp, `validate` | `IncClock`, `ValidateVersion`, `ValidateLock`, `ValidateDone` |
| `writeToLocations`, `cleanTransaction` | `CopyBack`, `StoreVersion`, `Unlock` |

What the granularity assumes, and why:

* Shared accesses happen one at a time in source order. `lock_bit` and `global_clock` are sequentially
  consistent atomics, each one a compiler barrier, and the machine the program is built for (x86-64) orders
  stores among themselves and loads among themselves; the compare-and-swap and the fetch-and-add are full
  fences. The version and the words are plain fields, and the copy of a word may be seen in
  pieces: `Unit` is the set of pieces, copied in any order.
* A call on several words is the code's own loop over words; each turn of it is a call on one word.
  The client may stop after any of them, so every call of the code is a sequence of calls of the model.
* The two re-reads of the version in `tm_read`'s last test (`tm.c:279`) are one step.
* The filter's answer depends on what the memory holds now. `hashFunction` walks from the location to the next zero
  byte, so the bits `Bits(w, mem)` of a word are some function of the memory, the words behind it included. The theorems
  assume no more of it; in the runs contents that stand for bytes without a zero are hashed together with the next word (`OwnBits`).
  The hash reads the memory in one step.
* A failed `malloc` of a list node ends the transaction; whether it can happen is the constant `MallocMayFail`.

The abstract memory `SnapshotTM` knows timestamps, committed write sets and, per transaction, a snapshot, what was
read and what is pending. The mapping (`TL2History!TM`) takes `now` for `clock`, a transaction as running
until its validation is over, its snapshot for `rv`, and its pending writes for what the write list says of each
word. A timestamp may be drawn for nothing (`Tick`: the validation fails), and a commit may take effect at
one that is in the past of younger transactions; `Commit` says why nobody's past changes by it. What
`SnapshotTM` does not promise is that the words a transaction only read are still the same when it commits: TL2 does not
keep that promise (`removal`).

### Segments

`list` is the pointer `segments_list`, `live` the table the allocator has in use; tables are numbered, so
a lookup that kept an old pointer has `table # live`. What a load from a freed table returns is undefined: in the model it may
go on, or end the program (`region = "crashed"`). A load through a table that is `NULL`, which is what a failed `realloc` leaves,
always ends it, in a lookup as in the loop of `cleanSegments`. `handed` is a ghost: the
addresses given out and the segment each was given for. `realloc` always moves; when it does not, no
lookup can tell that it ran. The steps of `tm_alloc` between its lock and unlock touch fields that no other
call touches without the lock, `segments_list` excepted, so they are grouped around that pointer.

### RWLock

A step is one critical section of the mutex. Waiting is a state of the thread; a signal moves one waiting
thread, a broadcast all, and `Spurious` is the return of `pthread_cond_wait` without a signal.

### ReferenceTM and Bank

`readers` and `writer` say who holds the `pthread_rwlock`; `mem`, `allocs`, `prev`, `next` are the region.
A segment number stands for an address, so it can serve again once it is freed. `tm_alloc` and `tm_free`
keep the four pointers as the code does: `prev` of a new head's successor, `next` of a freed segment's predecessor,
the head only for a segment without `prev`. Everything that changes the region holds the
lock alone, so one call is one step; the client decides in which order calls come.

| Code (`workload.hpp`, `transactional.hpp`) | Actions of `Bank` |
|---|---|
| `run`: which transaction is next; `Transaction`'s constructor | `Choose` |
| `long_tx`, and the last sum of `run` | `VisitSegment` for each segment, `VisitLast` |
| `alloc_tx` | `RemoveAccount`, `AddAccount`, `AddSegment`, then its writes |
| `short_tx` | `Transfer`, then its writes |
| `Shared::write`, `alloc`, `free` | `WriteOne` |
| `Transaction`'s destructor | `Commit`, or the end of `VisitLast`, `AddSegment`, `Transfer` |
| the destructor of `TransactionalMemory` | `Destroy` |

The loops over the linked segments are functions of the memory: `Chain` the segments in their order, `Held(s)` what a
segment adds to a sum (parity and balances, added up by `SumTo`), `Account(i)` where the loop of `short_tx` finds an
account's index once it has taken off the counts of the segments before it.

A sum is cut into one step per segment because it shares the lock with other sums. A writing
transaction is alone, but its writes are separate steps all the same: whatever began beside it would
see them. A `Transfer` to an account that is gone repeats the transaction (`again`), as the loop in `run` does. An
allocation that fails raises an exception which ends the transaction in its destructor and the
worker's `run` with it (`"thrown"`). The trigger of `alloc_tx` is random and unbounded, so with more than two accounts
both creation and removal are possible.

### BankOnTL2

Here the transactions of the bank are played on `TL2` itself, call by call. What a closure does next depends on
what it has read, so `Plan(t)` lists its calls as far as its reads decide them, `at` is the next one and
`got` what the reads have returned. An abort inside any call sends the worker back to `Begin` with the same transaction: the
`TransactionRetry` of class `Transaction` and the loop of `transactional()`. Not with the same ids, though: `short_tx`
holds them by reference and takes off the count of the segment when an account lies beyond it, so
the next attempt starts with the rest (`Beyond`, `AfterAbort`).

| Code | Definitions |
|---|---|
| `init`: the two transactions | kinds `"init"`, `"peek"` (`InitTx`) |
| `long_tx`, `alloc_tx`, `short_tx` | `long_tx`, `alloc_tx`, `short_tx` |
| `check`: set the counter and look, read it, decrease it, look for 0 | `"set"`, `"seen"`, `"last"`, `"dec"` (`Decrease`), `"zero"` |
| constructor, `read`, `write`, destructor of `Transaction` | `Begin`, `MakeCall`, `End` |
| what the workload does with a result, or after an abort | `Correct`, `AfterCommit`, `AfterAbort` |
| rounds of the harness, barriers of `check` | `InTurn`: nobody starts a part before all have finished the one before |

The accounts stay in the first segment (no `tm_alloc`); which transactions a worker runs is the constant
`Jobs`, because `run` draws them at random. `JobsAssumption` says what the code fixes about them: their order; that `"peek"`,
`"seen"` and `"dec"` come straight after `"init"`, `"set"` and `"last"`; that one worker sets the counter, once and
before anybody uses it, to the number of decreases of all workers (`DecTurns`), as `nbtxperwrk * nbworkers` is.

### Harness

`status`, `nbready`, `errmsg` are the fields of `Sync`, `raised` is the `Latch`; every operation on one of them is a
step. A worker's `wpc` follows `worker_wait`, the workload and `worker_notify`; the label `"Done"` or `"Fail"` is the
value `LoadVerdict` has read the status for and `StoreVerdict` is about to store. `mpc` follows the master.

| Code (`grading.cpp`, `common.hpp`, `workload.hpp`) | Actions |
|---|---|
| `Sync::master_notify`, `master_wait`, `master_join`, the joins of `measure` | `master_notify`, `master_wait`, `master_join`, `Join` |
| `Latch::wait`, `raise` | `LatchWait`, `LatchWake` (spurious, or at the time limit), `LatchRaise` |
| `Sync::worker_wait` | `WaitStatus`, `GetReady`, `StartRun`, `SpinUntilRun` |
| `init`, `run`, and the `catch` of the worker | `Work` |
| `WorkloadBank::check` | `CheckMeet`, `CheckSync` (with `Barrier`), `CheckReturn`, `CheckThrow` |
| `Sync::worker_notify` | `StoreError`, `StoreAbort`, `CountDone`, `LoadVerdict`, `StoreVerdict`, `LatchRaise` |
| `Barrier::sync` | `Enter`, `Open`, `SeeLeave`, `Leave`, `Close`, `SeeEnter` |

Work in the transactional memory is its outcome: no error, an error message, an exception. In `check` an error
sends a worker only to the remaining barriers; an exception takes it away from them.

`Grading` puts `measure` between the creation and the destruction of the memory, each in a `bounded_run`, as `main` does:

| Code (`grading.cpp`, `transactional.hpp`, `common.hpp`) | Actions |
|---|---|
| constructor of `TransactionalLibrary`, of `TransactionalMemory` | `Load`, `tm_create` and what `bounded_run` makes of it: `Created`, `CreateOverrun` |
| `measure` and its two outcomes | the steps of `Harness`, `Measured`, `MeasureOverrun` (`quick_exit`) |
| destructor of `TransactionalMemory` | `tm_destroy`, `Destroyed`, `DestroyOverrun` (the destructor is `noexcept`) |
| `bounded_run`, caller | `BoundedCall`, `StartRunner`, `WaitFor`, `TimeUp`, `WakeLate`, `WakeSpuriously`, `Reacquire`, `JoinRunner` |
| `bounded_run`, runner | `FuncEnds`, `RunnerLock`, `RunnerNotify` |

After an overrun (`"overrun"`) the object `Sync` is gone with the frame of `measure` while the detached
workers go on for the moment before `quick_exit`. What they do then is undefined; the model stops there.

The refinement (`Harness!R`): a round has started when the master has announced it (`started`), a worker is ready
once it has counted itself in `GetReady`, and done once its workload has ended, whatever it then
still has to store; the round is finished when the master has read the result, and a worker is bad
if its workload ended with a message or an exception. `ImplementsRounds` says that every behaviour of the harness,
seen that way, is one of `Rounds`: work starts after all are ready, a round after all are done, and
the verdict is "fail" exactly if somebody was bad in the last round that was started.

### Exercises

One process runs one of the programs (`program`): main starts threads one by one, joins them and judges. `Counters` and
`Elections` split each access to a shared variable off as a step. A plain `counter++` is a load and a store: the
Makefile of `sync-examples` does not optimise, and in the playground it is one instruction, but not an atomic one.
`ProCon` copies `struct data` piece by piece (`Unit`), in any order, and keeps the order that the atomics of
`procon3` ask for: a release store after the copies, the stores after the branch on a load. In `procon2` and
`procon4` the lock does that. The mapping to `Channel`: what has been counted as produced has been sent, what has been counted
as consumed received. `procon1` has no synchronization at all; it is modelled, and it comes to an end, but nothing is
sent or received in its name and no claim is made about what it hands over.

## 3. What is checked

| Run | Question | Result |
|---|---|---|
| `transactions` | lock discipline, snapshots, lost updates, write-back in timestamp order, calls that return; can a transaction beside which nobody commits abort, list a word twice, miss its own write? is every step one of `SnapshotTM`? | holds |
| `writelist` | are written words always found on the write list? | no |
| `segments` | addresses, destruction; does `tm_alloc` return unless a `realloc` failed? | holds |
| `nomem` | does `tm_alloc` return? | no |
| `growrace` | does a lookup always use the current table? | no |
| `rwlock` | exclusion, lost wakeups, woken readers | holds |
| `bank` | on the reference memory: do sums match, is money conserved, is a segment lost or used after it is freed? | holds |
| `workload` | on TL2: do the workload's own checks ever fail, and does `check` end? | no failure; it ends |
| `removal` | do they still hold when an account is removed beside a transfer to it? | no |
| `harness` | do rounds keep apart, are verdict and exit code right, is the library unloaded under a thread, does the program end? | holds |
| `spurious` | does `bounded_run` come back in bounded time? | no |
| `exercises` | do the programs called correct count, elect and transmit correctly; does each program end? | holds |

Every property of a passing run has a mutant in the module it is about (`..._Past`, `..._NoUpdate` and so
on, placed before the definition they alter): the definition as a plausible slip would have it, under which
TLC finds the property violated.

### The runs that end in a violation

* `removal`. `validate` loads the version of a read word first and its lock bit second
  (`helper_functions.h:99-101`). A committer that holds the word can store the version and clear the bit in
  between: the old version passes, the clear bit passes. Two transactions that each read what the
  other writes can then both commit. The bank has such a pair: `alloc_tx` reads the account it removes and writes the
  count, `short_tx` reads the count and writes the account. The unit that was sent is gone, and the next
  `long_tx` reports "Violated isolation or atomicity". The words a transaction *writes* are protected by their
  own lock bits, which is why `NoLostUpdate` holds and why `workload` finds nothing.
* `writelist`. The filter is asked about the contents the location holds *now*. After another commit changed the word it
  denies it, and `tm_write` adds a second node, which `tm.c:165` says never happens. At the end `acquireLocks` takes the lock for
  one of the nodes and finds it taken when it comes to the other: the transaction aborts. `tm_read` misses the node in the same
  way and returns the committed value; `WrittenIsFound` has a conjunct for each, and TLC finds a trace for
  either alone. `transactions`, with the same filter, shows that it takes another thread's
  commit for both (`OnlyCommitsMakeDuplicates`, `OnlyCommitsHideWrites`).
* `nomem`. The `return nomem_alloc` after a failed `realloc` (`tm.c:421`) does not release `allocation_lock`. The next caller waits
  for ever. `AllocReturnsButForRealloc` in `segments` says that nothing else keeps a `tm_alloc` from returning.
* `growrace`. `realloc` moves the table under readers.
* `spurious`. `bounded_run` takes any wakeup within the time limit for the runner's notification
  (`common.hpp:281`) and then joins the runner with the mutex in its hand, which the runner needs to end. Nobody goes on.
  `harness` shows that this is the only way for `bounded_run` to hang: `GradingEnds` allows for `WokenByNobody`
  (and for a worker that leaves `check` by an exception, which the others then await at the barrier for ever).

Three smaller things can be seen in the same models:

* After a failed `realloc`, `tm_destroy` walks a table that is `NULL` (`tm.c:419`, `helper_functions.h:75`): with
  `DestroyReturns` in `nomem.cfg` TLC shows `region = "crashed"`.
* Segment numbers start at 1, so of the 2^16 segments that the comment at `tm.c:426` allows the last has number 2^16 and, shifted
  by 48 bits, address 0: with `AddressModulus = 4` and `FirstMaxSize = 8` in `segments.cfg` the fourth segment
  violates `AddressesResolve`.
* When an account lies beyond the first segment, `short_tx` has taken the segment's count off its id by the time it reads
  `next`. If that read aborts, the retry starts with the smaller id and finds an account for it: the money goes to an account
  nobody drew. `removal.cfg` with `MallocMayFail = TRUE` reaches it (`ids[t] \notin Ids[t]`). Sums are not affected.

### Bounds, and why they are enough

* Two threads in `transactions` and `writelist`. The hazards are pairwise - a reader and a committer, two committers - and a
  reader can meet two commits of the other thread. What is proved is for any number of threads.
* `MaxClock` bounds when an *update* transaction may begin, not the clock: both threads begin at 0 or 1,
  so the clock reaches 3 and one thread can commit before, during and after the other's
  transaction. Read-only transactions begin at any clock.
* `MaxReads = 1`, `MaxWrites = 2`: two writes give opposite lock orders and a roll-back in the middle of the list; a second
  read node would repeat the loop of `validate`, which the proofs cover for any length.
* `VersionModulus = 8` stands for 2^32 and lies above every clock value of the runs. Wrap-around is outside the runs:
  beyond it a version is no longer a timestamp and no isolation property survives, and the theorems about isolation carry
  the same condition.
* `FirstMaxSize = 2` and five segments: the table grows twice, with three threads in `tm_alloc`, one of which also looks
  addresses up. `nomem` needs one failed `realloc` and one more caller: two threads, no lookups, so that nothing but
  the `realloc` can be to blame.
* Four threads in `rwlock`: two readers and two writers, so that a signal has a choice.
* `bank`: three workers, two transactions each and the last sum, two accounts to a segment, balances of 1, up to
  three segments. Two transactions of three workers add and remove segments, empty an account, and leave a
  stale number of accounts behind (`known`). Removal happens at the end of the chain only, so `tm_free` always
  takes the head of the list: unlinking from the middle of it is not exercised.
* `harness`: three workers, so that there is a last, a first and another one at every count; three rounds, one each of
  `init`, `run` and `check`, each of which may fail or throw. Each `run` repeats what one does.
* `spurious`: two workers, one round, nobody throws: the hang needs only a caller and a runner.
* `workload` and `removal`: two workers, three accounts of one unit. In `workload` they transfer in opposite directions between the first
  two accounts, sum while the third is removed and created again, and decrease the counter from 4 to 0; each transaction
  of one is beside each part of the other's. Both make the transactions of `init`, as all workers do. `MaxClock` and the list bounds are above what the transactions reach.
* `exercises`: three threads, three rounds, a buffer of two slots, data of two pieces: the buffer wraps and fills, a
  thread can be a round ahead or behind, data can be seen half copied.
* No run uses symmetry.

### Fairness

`FairSpec` asks one thing: a thread inside a call keeps taking steps (`WF` on `Advance(t)`,
on `AllocStep(t)` and `LookupEntry(t)`, on `Retry(t)`). Nothing is assumed of the user's next call. For the mutex of `tm_alloc` weak
fairness is enough because the other threads acquire it a bounded number of times. In `RWLock` the threads
inside are also assumed to leave (`Leave`).

In `Grading` all threads keep running (`WF` on main's steps, on caller and runner of `bounded_run`, on `MasterStep` and on
`WorkerStep(w)`), time passes (`WF` on `TimeUp`) and every call of the workload returns. Nothing is assumed of
`tm_create` and `tm_destroy`, of spurious wakeups and of the time limits of `measure`: `GradingEnds` must not
owe its truth to a master that gives up. Spinning loads that see the old value are stuttering steps. These two runs switch
off TLC's deadlock check because `bounded_run` and the barrier really can stop for ever; `GradingEnds` and
`Bounded` say when.

In `BankOnTL2` a worker keeps going in and between its calls (`WF` on `Step(t)`), which is what `transactional()` does: it
retries at once. That does not make `run` end. Two transfers in opposite directions can take one lock each, fail
on the other and retry in step for ever; TLC shows that behaviour for `<>(\A t : todo[t] = <<>>)`. `CheckEnds`
is about `check`, where all transactions want one word: there a transaction fails only if another got further.

In `SyncExamples` fairness is strong (`SF` on each process): `procon2` takes and returns the lock in a loop, so a mutex that
another thread may always snatch would let the programs run for ever without progress.

## 4. What is proved

Each theorem holds for every value of the constants that meets the named assumptions (any threads, words, pieces of a
word, clients, workers, rounds, buffers and bounds), and TLC checks the same formula on the small instance of a run.

| Theorem | Says | Under |
|---|---|---|
| `TL2Proofs!TypeCorrect` | `[]TypeOK` | |
| `TL2Proofs!CursorsStayOnLists` | `[]CursorInv`: no loop of `tm_end` runs off its list, the asserts of `releaseLocks` never fire | |
| `TL2Proofs!LocksHeldOnce` | `[]LockInv`: a lock bit is set exactly while one thread holds it for one node of its write list | |
| `TL2HistoryProofs!HistoryTypeCorrect` | the types, ghosts included | |
| `TL2HistoryProofs!ReadsComeFromOneSnapshot` | `SnapshotReads`, also of transactions that will abort | versions fit |
| `TL2HistoryProofs!NoUpdateIsLost` | `NoLostUpdate` | versions fit |
| `TL2HistoryProofs!FreeWordsAreCurrent` | `FreeWordIsLastCommit` | versions fit |
| `TL2HistoryProofs!TL2ImplementsSnapshots` | `ImplementsSnapshots`: each step is one of `SnapshotTM` or none | versions fit |
| `TL2HistoryProofs!DuplicatesNeedACommit` | `OnlyCommitsMakeDuplicates`: one node per word, unless another thread commits | versions fit |
| `TL2HistoryProofs!HiddenWritesNeedACommit` | `OnlyCommitsHideWrites`: own writes are read, unless another thread commits | versions fit |
| `TL2HistoryProofs!OnlyCommitsAbort` | `OnlyCommitsCauseAborts`: nobody aborts by their own doing | versions fit |
| `SegmentsProofs!TypeCorrect` | `[]TypeOK` | |
| `SegmentsProofs!AddressesStayValid` | `AddressesResolve`: an address leads to its segment until a `realloc` fails, however often the table moved | addresses fit |
| `SegmentsProofs!DestroyLeavesNothing` | `[]DestroyFreesAll`: a `tm_destroy` that returns has freed all segments and the table | |
| `SegmentsProofs!DestroyNeedsTheTable` | `DestroyReturns`: `tm_destroy` does not end the program | no `realloc` fails |
| `RWLockProofs!TypeCorrect`, `WritersExclude`, `SleepersAreWatched` | `[]TypeOK`, `[]Exclusion`, `[]NoLostWakeup` | |
| `BankProofs!BankInvariant` | `[]IInv`, the inductive invariant of bank and reference memory | |
| `BankProofs!TypeCorrect` | `[]TypeOK` | |
| `BankProofs!ListStaysIntact` | `[]ListIntact`: the doubly linked list is one chain of exactly the dynamic segments in use | |
| `BankProofs!SumsAlwaysMatch` | `[]SumsMatch`: the workload never reports "Violated isolation or atomicity" | |
| `BankProofs!MoneyIsConserved` | `[]MoneyConserved` | |
| `BankProofs!ChainStaysLive` | `[]ChainIsLive`: the linked segments are those in use, and no sum stands on a freed one | |
| `BankProofs!NothingLeaks` | `[]DestroyFreesAll` | |
| `BankOnTL2Proofs!BankUsesTL2` | `BSpec => Spec`: what is proved of `TL2` holds under the workload | |
| `BankOnTL2Proofs!DecreasesAreSequential` | `[]CounterIsSequential`: nobody sees the counter of `check` grow, and it ends at 0 | versions fit, sums right |
| `GradingProofs!GradingTypeCorrect` | `[]GradingTypeOK` | |
| `GradingProofs!NoneRunsAhead` | `[]Meeting`: nobody leaves a barrier before all have come | |
| `GradingProofs!NotificationIsNotLost` | `[]NotifiedIsAwake` | |
| `GradingProofs!ExitCodeIsVerdict` | `[]ExitCode` | |
| `GradingProofs!UnloadedIsIdle` | `[]UnloadsIdle` | |
| `GradingProofs!HarnessImplementsRounds` | `ImplementsRounds`: each step is one of `Rounds` or none | |
| `SyncExamplesProofs!SyncTypeCorrect` | `[]TypeOK` | |
| `SyncExamplesProofs!CountsAreBounded` | `[]CounterBounds`, the lower bound of the racy counters included | |
| `SyncExamplesProofs!ElectionsAreUnique` | `[]OneLeader` | |
| `SyncExamplesProofs!SynchronizedPairsImplementChannel` | `ImplementsChannel`: `procon2`, `procon3` and `procon4` are a bounded channel | `Synchronized` |

### The conditions

* The `ASSUME`s on constants are what the code's types and startup give: there is a word, a piece, a worker; sets of
  threads are finite where they are counted; a table starts with room for two entries.
* *Versions fit* is `clock < VersionModulus`, the modulus being 2^32: the code truncates a 64-bit clock into 32-bit
  versions. It is a condition on the state, not a bound of a run: the theorems about states read
  `[](clock < VersionModulus => ...)`, those about steps have `[](clock < VersionModulus)` as a hypothesis.
* *No `realloc` fails* is `~ ReallocMayFail`; otherwise `tm_destroy` may end the program.
* *Synchronized* says that the program is one of `procon2`, `procon3`, `procon4`.
* *Sums right* is `[]SumsAddUp`. A worker that finds a wrong sum in `run` stops there and makes none of its decreases, so the last
  look at the counter would not find 0, and rightly so. Jobs without a `"long"` meet the condition trivially, those of `workload` by TLC.
* *Addresses fit* is `num <= AddressModulus`, 2^16 in the code: `num` is the number the next segment gets.

### The arguments

*Locks.* The inductive invariant is `TypeOK /\ CursorInv /\ LockInv`. `LockInv` alone is not inductive: `HeldNodes`
describes the locks a thread holds by the position of its cursors, and a step from `acquire` to `inc`, or from
`release` to the end, keeps that description right only if the cursor is on the list and the end mark not
above it. A step changes no lock bit and no thread's `HeldNodes` (`HeldSame`), or sets a free bit and adds
one node (`HeldMore`), or clears a bit and drops the node it belonged to (`HeldLess`).

*Isolation.* The inductive invariant `IInv` adds `Isolation`. Its ideas are two sets of words per
transaction: those it *claims* (it has a timestamp and holds the lock) and those that are *dirty* (committed at its
timestamp, but the version is not yet stored). `Memory` says that a word nobody has dirty is as its last commit in
timestamp order left it; `CommitOrder` that nobody commits to a claimed word later than the claimant, which is what
drawing the timestamp after the locks buys; `Seen` that what was read at `rv` stays
true because whoever claims the word will commit later than `rv`, which is what testing the lock bit after the copy buys;
`Readers` what a half-done `tm_read` knows at each label, piece by piece; `Validated` what the loop of `validate` has
established for the words the transaction also writes. Words it only reads are not in `Validated`, and cannot be
(`removal`). Steps are first sorted into kinds (`StepKinds`): those that change nothing shared, that draw a
timestamp, that take effect, that write back. Each conjunct has one lemma per kind that disturbs it.

*Refinement to `SnapshotTM`.* From `IInv`, and that a transaction that has not begun has an empty write list, each
action is mapped to the action of `SnapshotTM` it shows or to a stutter (`CallShows`, `ReadStepsShow`, `CommitStepsShow`).

*Own writes and self-inflicted aborts.* What the filter says of a word may change with every commit of another thread, so
nothing holds of the write list in general (`writelist`). `Undisturbed` is about a transaction beside which
nobody has been in a commit since it began (`quiet`): the clock is still at its `rv`, no word of the memory has changed, so the
filter answers for the contents it was told of (`Fresh`), whatever `Bits` makes of them. Then `OwnWrites(t)` follows a word from the
filter's answer to the list: distinct words, the node that an insert is about to add is new, a read that goes to
memory is of a word not on the list. Hence its list is right, it does not meet its own lock, and `tm_end` may skip
the validation: the three theorems named after what commits cause.

*Counter of `check` on TL2.* `CounterIsSequential` speaks of results, the invariant `SeqInv` of how they come about. The first parts of it are
sequential: what has been done of `Jobs` and in which part everybody is (`JobsInv`, `TurnInv`, `DoneInv`), and what a transaction
of each kind has on its lists at each label (`Shape`). The idea is in `CounterInv`. The counter is not a variable but the
number of decreases that have not begun to store (`Counter`), so it falls by one at the step in which a decrease enters
its write-back, and never otherwise. `MemInv`: memory holds it, but for pieces a decrease has yet to store. `Known(t, n)`: what `t` has read is the
counter as it is, unless the version has passed `rv` or somebody is storing, and then `t` will fail its validation;
in either case the counter has not grown beyond it. That a decrease entering its write-back has read the counter as it is (`EntersKnowing`)
is where `validate` is used, and its order of loads does no harm: the counter is a word `t` also writes, whose
lock it holds (`OneLocker`). A read knows nothing before it has tested the lock bit after its copy (`CheckedLock`). Each step is one of
four kinds (`StepEffects`): calm, entering the write-back, copying, publishing the version.

*Segments.* `SegInv` ties the numbers given out to the table: inside the lock the caller is alone and its
number is the next free entry; every segment is in the table or in the hands of a caller that will store it, unless
`realloc` failed. From then on the lock is kept for ever, `segments_list` stays `NULL`, and `tm_destroy`
cannot return; so where it returns the table in use is the one it frees.

*Reader-writer lock.* Exclusion and no lost wakeup are inductive together with the types: the field `readers` counts those
inside, so the last reader is known to be the last and signals.

*Bank on the reference memory.* That sums match is not inductive: whether the next one will depends on what
transactions have yet to write, and the memory is out of balance between the writes of one. `IInv` therefore says, in
nine parts: the types; `SumsMatch`; who holds the lock at which label (`LockInv`); that a transaction that runs is
counted (`TogoInv`); what writes may be left, at most three and a `tm_free` only as the first (`PlanInv`); that the region is there until
all is over (`LifeInv`); that the dynamic segments are a sequence without repetition which `allocs`, `next` and `prev`
spell out (`ListInv`); `DataInv`; and `ReadInv`. The idea is in `DataInv`: memory is
*sound* when its live segments are one chain from the first, full but for the last, nowhere overdrawn and worth
`InitBalance` per account (`Sound`). While nobody writes, the memory is sound; while somebody does, it will be after the writes that
are left (`MemAfter`), on the segments that will be left (`Freed`). A write then changes nothing in what
is promised; the work is in the steps that plan: each of `RemoveAccount` (in its segment, `Shrunk`; with it, the
chain without its last), `AddAccount` (`AddSound`), `AddSegment` (`Grown`) and `Transfer` (`Rebalanced`, by the order and
overlap of the two accounts) makes a sound memory of a sound one. `ReadInv` says that a sum stands on some segment of the chain with
the count and the value of those before it, which needs the chain to stay as it is while readers hold the lock.
The sums are recursive functions, never `RECURSIVE` operators. Their lemmas are inductions over a set of numbers, obtained from the
well-foundedness of `<` (`SetInduction`), because the library's induction theorems take an operator. That `Chain` finds
the chain, and `Listed` the list, follows from these and from a pigeonhole argument.

*Harness.* `HarnessInv` is a disjunction of phases of a round: `Between`, `Gathering`, `Running`, `Closing`, `Leaving`.
Within each, `nbready` and `status` are determined by where the workers are; across them each action leads from
one phase to itself or the next. `BarrierInv` does the same for `Barrier`. `BoundedInv` rests on the mutex: the
runner can notify only once the caller sleeps. `Stages` adds what `main` has done by each of its stages. The refinement to `Rounds` then
reads off each phase which worker is ready, done or bad.

*Exercises.* Counts are compared with sets of turns: `Stored`, the turns whose store has happened, bounds a counter from
above. From below: a load in a second round finds at least 1. Elections count `Through`, the threads that are through a
round, and `Winners`. For the channel, `Contents` says that the slots between the two counters hold what was produced, and that of the slot being
filled or drained the pieces already copied agree.

The strengthened invariants were checked by TLC on the instances of the runs before they were proved.

### What is only model-checked

* All liveness (`CallsReturn`, `AllocReturnsButForRealloc`, `ReadersAreWoken`, `CheckEnds`, `GradingEnds`, `Terminates`): fairness and `ENABLED` are
  outside the prover.
* `BankOnTL2`'s `SumsAddUp`. It holds for the jobs of `workload` and not in general: `removal` is
  the same module with other jobs, under which it fails, and TL2 does not promise that a transaction can be
  serialized against another one that writes what it only reads. A theorem would need the condition on the jobs that rules this
  out, and its truth besides rests on what closures compute from whole sequences of reads.
  What it uses of TL2 is proved: snapshots and no lost update.
* The five disagreements of section 3, which are counterexamples.

## 5. What is not modelled, and why

* `tm_free` does nothing; `tm_size` and `tm_align` return constants.
* Freeing is only followed where a live pointer can meet it (`growrace`, `tm_destroy`). `initNode`
  reads a block it has freed on its error path (`helper_functions.h:143`) and `tm_write` allocates
  `sizeof` of a `size_t` for a word of any alignment (`tm.c:349`): what follows is a matter of the
  allocator, not of the protocol.
* The statistics of the harness, more than one library in a process (each turn of `main`'s loop is like the one modelled),
  and a failure to start a thread. What a runner or a worker does to a stack frame that its caller has left is undefined.
* On TL2, the accounts of the bank beyond the first segment: `tm_alloc` is the subject of `Segments`. A `tm_begin` that fails for lack of memory.
* In `ReferenceTM`, the failures of `tm_create`: nothing else exists yet that could see them.
* The bytes of a hash, the layout of structures, and printing.
* `lock_cleanup` of `sync-examples`, which nobody calls; a filled-in lock for the playground, which is the exercise.
* `template` (empty bodies), `include` (declarations), `submit.py` (network), `353055/testing.c` (a manual test),
  `reference/lock.c` (not used by `reference`).

## 6. Plan

Done: all components but those of the last section; the abstract memories, rounds and channel with their refinements;
theorems for every safety property of the passing runs except `SumsAddUp`. Next, in this order:

1. The exact condition under which a transaction is serializable: that the words it only reads are not written beside it.
2. With it, `SumsAddUp` of `BankOnTL2` for jobs without a removal, from what `TL2History` records of the commits.
3. `WorkloadBank::run` on the reference memory under a fairness of the `rwlock`: that the sums of the workers end.
