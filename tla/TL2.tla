------------------------------- MODULE TL2 --------------------------------
(***************************************************************************)
(* The word-based software transactional memory of src/353055: tm_begin,   *)
(* tm_read, tm_write and tm_end, with the helpers they call (acquireLocks, *)
(* releaseLocks, validate, writeToLocations, getWriteNode and the Bloom    *)
(* filter).                                                                *)
(*                                                                         *)
(* Every access to memory that threads share (global_clock, lock_bit,      *)
(* lock_version_number and the words themselves) is a step of its own, in  *)
(* the order of the source; work on private memory is part of the step     *)
(* next to it.  A call on several words is the loop of the calls on one    *)
(* word, which is how the code runs it.                                    *)
(*                                                                         *)
(* The read and write lists are linked lists that grow at the head.  They  *)
(* are sequences that grow at the end: node i stands for the i-th node     *)
(* inserted, the head is node Len, node i's "next" is node i - 1 and NULL  *)
(* is 0.  All loops therefore walk from Len down to 0.                     *)
(***************************************************************************)
EXTENDS Naturals, Sequences

CONSTANTS
  Tx,              \* threads of the user; each runs one transaction at a time
  Word,            \* aligned words of the shared segments
  Unit,            \* the pieces in which memcpy copies one word
  Val, InitVal,    \* contents of a unit, and the zero of initNode's memset
  Bit, Bits(_, _), \* Bloom filter bits; those the bytes from a word on hash to
  Client,          \* what each thread may ask of the library
  MaxReads, MaxWrites,  \* bounds on the two lists of a transaction
  MaxClock,        \* bound: no update transaction begins at this clock
  VersionModulus,  \* 2^32: rv and lock_version_number are uint32_t
  MallocMayFail    \* whether malloc of a list node may return NULL

Data == [Unit -> Val]
InitData == [u \in Unit |-> InitVal]
AnyWord == CHOOSE w \in Word : TRUE
Node == [word : Word, value : Data]

ASSUME ConstantsAssumption ==
  /\ Word # {} /\ Unit # {} /\ InitVal \in Val
  /\ \A w \in Word : \A m \in [Word -> Data] : Bits(w, m) \subseteq Bit
  /\ Client \in [Tx -> [modes : SUBSET BOOLEAN, reads : SUBSET Word,
                        writes : SUBSET Word, stores : SUBSET Data]]
  /\ MaxReads \in Nat /\ MaxWrites \in Nat /\ MaxClock \in Nat
  /\ VersionModulus \in Nat \ {0}
  /\ MallocMayFail \in BOOLEAN

VARIABLES
  clock,     \* region->global_clock
  mem,       \* the segments' words
  version,   \* lock_version_number of each word
  lockBit,   \* lock_bit of each word
  pc,        \* where each thread is; "idle" outside a transaction
  isRo, rv, wv, reads, writes, filter,   \* struct Transaction
  word, before, buf, left,               \* locals of tm_read and tm_write
  cur, until                             \* list cursors of tm_end's helpers

shared    == <<clock, mem, version, lockBit>>
descriptor == <<isRo, rv, wv, reads, writes, filter>>
locals    == <<word, before, buf, left>>
cursors   == <<cur, until>>
vars == <<shared, pc, descriptor, locals, cursors>>

ReadPC   == {"lookup", "copy", "checklock", "checkversion"}
CommitPC == {"acquire", "release", "inc", "valversion", "vallock",
             "copyback", "storeversion", "unlock"}
WriteBackPC == {"copyback", "storeversion", "unlock"}
PC == {"idle", "active", "insert"} \cup ReadPC \cup CommitPC

TypeOK ==
  /\ clock \in Nat
  /\ mem \in [Word -> Data]
  /\ version \in [Word -> Nat]
  /\ lockBit \in [Word -> BOOLEAN]
  /\ pc \in [Tx -> PC]
  /\ isRo \in [Tx -> BOOLEAN]
  /\ rv \in [Tx -> Nat] /\ wv \in [Tx -> Nat]
  /\ reads \in [Tx -> Seq(Word)]
  /\ writes \in [Tx -> Seq(Node)]
  /\ filter \in [Tx -> SUBSET Bit]
  /\ word \in [Tx -> Word]
  /\ before \in [Tx -> Nat]
  /\ buf \in [Tx -> Data]
  /\ left \in [Tx -> SUBSET Unit]
  /\ cur \in [Tx -> Nat] /\ until \in [Tx -> Nat]

---------------------------------------------------------------------------
\* Conversion of the 64-bit clock to uint32_t.
Truncate(n) == n % VersionModulus

\* The write node of w nearest to the head, 0 when there is none.
getWriteNode(t, w) ==
  LET hits == {i \in DOMAIN writes[t] : writes[t][i].word = w}
  IN  IF hits = {} THEN 0 ELSE CHOOSE i \in hits : \A j \in hits : j <= i

\* hashFunction walks the bytes AT the address it is given up to a zero byte, so
\* the bits of a location are those of what it, and its neighbours when it has
\* no zero byte, hold at the moment of the call.
FilterBits(w) == Bits(w, mem)
isInBloomFilter(t, w) == FilterBits(w) \subseteq filter[t]

\* The word of write node i, and of the node a tm_end loop has reached.
NodeWord(t, i) == writes[t][i].word
CurWord(t) == NodeWord(t, cur[t])

Goto(t, l) == pc' = [pc EXCEPT ![t] = l]

\* The locals of tm_read and tm_write go out of scope.
EndCall(t) ==
  /\ word' = [word EXCEPT ![t] = AnyWord]
  /\ before' = [before EXCEPT ![t] = 0]
  /\ buf' = [buf EXCEPT ![t] = InitData]
  /\ left' = [left EXCEPT ![t] = {}]

\* cleanTransaction frees both lists, the filter and the descriptor.
cleanTransaction(t) ==
  /\ Goto(t, "idle")
  /\ isRo' = [isRo EXCEPT ![t] = FALSE]
  /\ rv' = [rv EXCEPT ![t] = 0]
  /\ wv' = [wv EXCEPT ![t] = 0]
  /\ reads' = [reads EXCEPT ![t] = <<>>]
  /\ writes' = [writes EXCEPT ![t] = <<>>]
  /\ filter' = [filter EXCEPT ![t] = {}]
  /\ EndCall(t)
  /\ cur' = [cur EXCEPT ![t] = 0]
  /\ until' = [until EXCEPT ![t] = 0]

Init ==
  /\ clock = 0
  /\ mem = [w \in Word |-> InitData]
  /\ version = [w \in Word |-> 0]
  /\ lockBit = [w \in Word |-> FALSE]
  /\ pc = [t \in Tx |-> "idle"]
  /\ isRo = [t \in Tx |-> FALSE]
  /\ rv = [t \in Tx |-> 0] /\ wv = [t \in Tx |-> 0]
  /\ reads = [t \in Tx |-> <<>>] /\ writes = [t \in Tx |-> <<>>]
  /\ filter = [t \in Tx |-> {}]
  /\ word = [t \in Tx |-> AnyWord] /\ before = [t \in Tx |-> 0]
  /\ buf = [t \in Tx |-> InitData] /\ left = [t \in Tx |-> {}]
  /\ cur = [t \in Tx |-> 0] /\ until = [t \in Tx |-> 0]

---------------------------------------------------------------------------
tm_begin_TooLow(t, ro) ==
  /\ pc[t] = "idle"
  /\ ro \in Client[t].modes
  /\ ro \/ clock < MaxClock
  /\ Goto(t, "active")
  /\ isRo' = [isRo EXCEPT ![t] = ro]
  /\ rv' = [rv EXCEPT ![t] = clock - 1]
  /\ UNCHANGED <<shared, wv, reads, writes, filter, locals, cursors>>

\* tm_begin: sample the clock into a fresh descriptor.  MaxClock bounds the
\* model; the code has no such guard.
tm_begin(t, ro) ==
  /\ pc[t] = "idle"
  /\ ro \in Client[t].modes
  /\ ro \/ clock < MaxClock
  /\ Goto(t, "active")
  /\ isRo' = [isRo EXCEPT ![t] = ro]
  /\ rv' = [rv EXCEPT ![t] = Truncate(clock)]
  /\ UNCHANGED <<shared, wv, reads, writes, filter, locals, cursors>>

---------------------------------------------------------------------------
(* tm_read of one word: sample the version, copy the word (or the own      *)
(* pending write), then look at the lock bit and at the version again.     *)

tm_read(t, w) ==
  /\ pc[t] = "active"
  /\ w \in Client[t].reads
  /\ isRo[t] \/ Len(reads[t]) < MaxReads
  /\ Goto(t, IF isRo[t] THEN "copy" ELSE "lookup")
  /\ word' = [word EXCEPT ![t] = w]
  /\ before' = [before EXCEPT ![t] = version[w]]
  /\ left' = [left EXCEPT ![t] = Unit]
  /\ UNCHANGED <<shared, descriptor, buf, cursors>>

ReadLookup_NoList(t) ==
  /\ pc[t] = "lookup"
  /\ Goto(t, "copy")
  /\ UNCHANGED <<shared, descriptor, locals, cursors>>

\* isInBloomFilter, and getWriteNode when the filter answers yes.
ReadLookup(t) ==
  LET i == getWriteNode(t, word[t])
  IN  /\ pc[t] = "lookup"
      /\ \/ /\ isInBloomFilter(t, word[t]) /\ i # 0
            /\ buf' = [buf EXCEPT ![t] = writes[t][i].value]
            /\ left' = [left EXCEPT ![t] = {}]
            /\ Goto(t, "checklock")
         \/ /\ ~ (isInBloomFilter(t, word[t]) /\ i # 0)
            /\ Goto(t, "copy")
            /\ UNCHANGED <<buf, left>>
      /\ UNCHANGED <<shared, descriptor, word, before, cursors>>

\* memcpy from the shared word, one unit at a time in any order.
ReadCopy(t) ==
  /\ pc[t] = "copy"
  /\ \E u \in left[t] :
       /\ buf' = [buf EXCEPT ![t][u] = mem[word[t]][u]]
       /\ left' = [left EXCEPT ![t] = @ \ {u}]
       /\ Goto(t, IF left[t] = {u} THEN "checklock" ELSE "copy")
  /\ UNCHANGED <<shared, descriptor, word, before, cursors>>

ReadCheckLock(t) ==
  /\ pc[t] = "checklock"
  /\ \/ lockBit[word[t]] /\ cleanTransaction(t)
     \/ /\ ~ lockBit[word[t]]
        /\ Goto(t, "checkversion")
        /\ UNCHANGED <<descriptor, locals, cursors>>
  /\ UNCHANGED shared

VersionFits_NoSample(t) == version[word[t]] <= rv[t]
VersionFits_NoSnapshot(t) == version[word[t]] = before[t]

\* The last check of tm_read, and the new read node of an update transaction.
VersionFits(t) ==
  version[word[t]] = before[t] /\ version[word[t]] <= rv[t]

ReadCheckVersion(t) ==
  /\ pc[t] = "checkversion"
  /\ \/ ~ VersionFits(t) /\ cleanTransaction(t)
     \/ /\ VersionFits(t)
        /\ reads' = [reads EXCEPT ![t] = IF isRo[t] THEN @ ELSE Append(@, word[t])]
        /\ Goto(t, "active")
        /\ EndCall(t)
        /\ UNCHANGED <<isRo, rv, wv, writes, filter, cursors>>
     \/ MallocMayFail /\ VersionFits(t) /\ ~ isRo[t] /\ cleanTransaction(t)
  /\ UNCHANGED shared

---------------------------------------------------------------------------
(* tm_write of one word: update the node the filter and the list agree on, *)
(* otherwise insert a new node and add the location to the filter.         *)

\* A lookup that trusts the filter's "no" but never the list's "yes".
tm_write_NoUpdate(t, w, d) ==
  /\ pc[t] = "active" /\ ~ isRo[t]
  /\ w \in Client[t].writes /\ d \in Client[t].stores
  /\ Len(writes[t]) < MaxWrites
  /\ word' = [word EXCEPT ![t] = w]
  /\ buf' = [buf EXCEPT ![t] = d]
  /\ Goto(t, "insert")
  /\ UNCHANGED <<shared, isRo, rv, wv, reads, writes, filter, before, left, cursors>>

tm_write(t, w, d) ==
  LET i == getWriteNode(t, w)
  IN  /\ pc[t] = "active" /\ ~ isRo[t]
      /\ w \in Client[t].writes /\ d \in Client[t].stores
      /\ \/ /\ isInBloomFilter(t, w) /\ i # 0
            /\ writes' = [writes EXCEPT ![t][i].value = d]
            /\ UNCHANGED <<pc, word, buf>>
         \/ /\ ~ (isInBloomFilter(t, w) /\ i # 0)
            /\ Len(writes[t]) < MaxWrites
            /\ word' = [word EXCEPT ![t] = w]
            /\ buf' = [buf EXCEPT ![t] = d]
            /\ Goto(t, "insert")
            /\ UNCHANGED writes
      /\ UNCHANGED <<shared, isRo, rv, wv, reads, filter, before, left, cursors>>

\* The new node goes to the head; addToBloomFilter hashes the location again.
WriteInsert(t) ==
  /\ pc[t] = "insert"
  /\ \/ /\ writes' = [writes EXCEPT ![t] =
                         Append(@, [word |-> word[t], value |-> buf[t]])]
        /\ filter' = [filter EXCEPT ![t] = @ \cup FilterBits(word[t])]
        /\ Goto(t, "active")
        /\ EndCall(t)
        /\ UNCHANGED <<isRo, rv, wv, reads, cursors>>
     \/ MallocMayFail /\ cleanTransaction(t)
  /\ UNCHANGED shared

---------------------------------------------------------------------------
(* tm_end.                                                                 *)

\* Read-only transactions and those with no write commit at once.
EndWithoutWrites(t) ==
  /\ pc[t] = "active"
  /\ isRo[t] \/ writes[t] = <<>>
  /\ cleanTransaction(t)
  /\ UNCHANGED shared

EndWithWrites(t) ==
  /\ pc[t] = "active"
  /\ ~ isRo[t] /\ writes[t] # <<>>
  /\ Goto(t, "acquire")
  /\ cur' = [cur EXCEPT ![t] = Len(writes[t])]
  /\ UNCHANGED <<shared, descriptor, locals, until>>

\* A spin lock; and roll-backs that begin too late, unlock all, or nothing.
AcquireLock_Spin(t) ==
  /\ pc[t] = "acquire" /\ ~ lockBit[CurWord(t)]
  /\ lockBit' = [lockBit EXCEPT ![CurWord(t)] = TRUE]
  /\ cur' = [cur EXCEPT ![t] = @ - 1]
  /\ Goto(t, IF cur[t] = 1 THEN "inc" ELSE "acquire")
  /\ UNCHANGED <<clock, mem, version, descriptor, locals, until>>

StartRelease_Past(t, n) ==
  /\ Goto(t, "release")
  /\ cur' = [cur EXCEPT ![t] = Len(writes[t])]
  /\ until' = [until EXCEPT ![t] = Len(writes[t]) + 1]

StartRelease_All(t, n) ==
  /\ Goto(t, "release")
  /\ cur' = [cur EXCEPT ![t] = Len(writes[t])]
  /\ until' = [until EXCEPT ![t] = 0]

StartRelease_None(t, n) ==
  /\ Goto(t, "release")
  /\ cur' = [cur EXCEPT ![t] = Len(writes[t])]
  /\ until' = [until EXCEPT ![t] = Len(writes[t])]

\* Leave for releaseLocks(write_node, n): unlock the nodes above n, then abort.
StartRelease(t, n) ==
  /\ Goto(t, "release")
  /\ cur' = [cur EXCEPT ![t] = Len(writes[t])]
  /\ until' = [until EXCEPT ![t] = n]

\* One compare-and-swap of acquireLocks; it never waits.
AcquireLock(t) ==
  /\ pc[t] = "acquire"
  /\ \/ /\ ~ lockBit[CurWord(t)]
        /\ lockBit' = [lockBit EXCEPT ![CurWord(t)] = TRUE]
        /\ cur' = [cur EXCEPT ![t] = @ - 1]
        /\ Goto(t, IF cur[t] = 1 THEN "inc" ELSE "acquire")
        /\ UNCHANGED until
     \/ /\ lockBit[CurWord(t)]
        /\ StartRelease(t, cur[t])
        /\ UNCHANGED lockBit
  /\ UNCHANGED <<clock, mem, version, descriptor, locals>>

ReleaseLock(t) ==
  /\ pc[t] = "release" /\ cur[t] # until[t]
  /\ lockBit' = [lockBit EXCEPT ![CurWord(t)] = FALSE]
  /\ cur' = [cur EXCEPT ![t] = @ - 1]
  /\ UNCHANGED <<clock, mem, version, pc, descriptor, locals, until>>

AbortCommit(t) ==
  /\ pc[t] = "release" /\ cur[t] = until[t]
  /\ cleanTransaction(t)
  /\ UNCHANGED shared

\* writeToLocations begins at the head of the write list.
StartWriteBack(t) ==
  /\ Goto(t, "copyback")
  /\ cur' = [cur EXCEPT ![t] = Len(writes[t])]
  /\ left' = [left EXCEPT ![t] = Unit]

IncClock_NoValidation(t) ==
  /\ pc[t] = "inc"
  /\ clock' = clock + 1
  /\ wv' = [wv EXCEPT ![t] = clock + 1]
  /\ StartWriteBack(t)
  /\ UNCHANGED <<mem, version, lockBit, isRo, rv, reads, writes, filter,
                 word, before, buf, until>>

\* atomic_fetch_add; validation is skipped when no other transaction took a
\* timestamp since tm_begin.
IncClock(t) ==
  LET ts == clock + 1
  IN  /\ pc[t] = "inc"
      /\ clock' = ts
      /\ wv' = [wv EXCEPT ![t] = ts]
      /\ \/ ts = Truncate(rv[t] + 1) /\ StartWriteBack(t)
         \/ /\ ts # Truncate(rv[t] + 1)
            /\ Goto(t, "valversion")
            /\ cur' = [cur EXCEPT ![t] = Len(reads[t])]
            /\ UNCHANGED left
      /\ UNCHANGED <<mem, version, lockBit, isRo, rv, reads, writes, filter,
                     word, before, buf, until>>

\* validate: the version of the read word first ...
ValidateVersion(t) ==
  /\ pc[t] = "valversion" /\ cur[t] # 0
  /\ \/ version[reads[t][cur[t]]] > rv[t] /\ StartRelease(t, 0)
     \/ /\ version[reads[t][cur[t]]] <= rv[t]
        /\ Goto(t, "vallock")
        /\ UNCHANGED cursors
  /\ UNCHANGED <<shared, descriptor, locals>>

\* ... and its lock bit after, which may only be this transaction's own.
LockedByOther(t, w) == lockBit[w] /\ getWriteNode(t, w) = 0

ValidateLock(t) ==
  /\ pc[t] = "vallock"
  /\ \/ LockedByOther(t, reads[t][cur[t]]) /\ StartRelease(t, 0)
     \/ /\ ~ LockedByOther(t, reads[t][cur[t]])
        /\ cur' = [cur EXCEPT ![t] = @ - 1]
        /\ Goto(t, "valversion")
        /\ UNCHANGED until
  /\ UNCHANGED <<shared, descriptor, locals>>

ValidateDone(t) ==
  /\ pc[t] = "valversion" /\ cur[t] = 0
  /\ StartWriteBack(t)
  /\ UNCHANGED <<shared, descriptor, word, before, buf, until>>

\* writeToLocations, per node: memcpy, then the version, then the lock bit.
CopyBack(t) ==
  /\ pc[t] = "copyback"
  /\ \E u \in left[t] :
       /\ mem' = [mem EXCEPT ![CurWord(t)][u] = writes[t][cur[t]].value[u]]
       /\ left' = [left EXCEPT ![t] = @ \ {u}]
       /\ Goto(t, IF left[t] = {u} THEN "storeversion" ELSE "copyback")
  /\ UNCHANGED <<clock, version, lockBit, descriptor, word, before, buf, cursors>>

StoreVersion_Rv(t) ==
  /\ pc[t] = "storeversion"
  /\ version' = [version EXCEPT ![CurWord(t)] = rv[t]]
  /\ Goto(t, "unlock")
  /\ UNCHANGED <<clock, mem, lockBit, descriptor, locals, cursors>>

StoreVersion(t) ==
  /\ pc[t] = "storeversion"
  /\ version' = [version EXCEPT ![CurWord(t)] = Truncate(wv[t])]
  /\ Goto(t, "unlock")
  /\ UNCHANGED <<clock, mem, lockBit, descriptor, locals, cursors>>

Unlock(t) ==
  /\ pc[t] = "unlock"
  /\ lockBit' = [lockBit EXCEPT ![CurWord(t)] = FALSE]
  /\ \/ cur[t] = 1 /\ cleanTransaction(t)
     \/ /\ cur[t] # 1
        /\ cur' = [cur EXCEPT ![t] = @ - 1]
        /\ left' = [left EXCEPT ![t] = Unit]
        /\ Goto(t, "copyback")
        /\ UNCHANGED <<descriptor, word, before, buf, until>>
  /\ UNCHANGED <<clock, mem, version>>

---------------------------------------------------------------------------
\* What the user decides: which call comes next.
Call(t) ==
  \/ \E ro \in BOOLEAN : tm_begin(t, ro)
  \/ \E w \in Word : tm_read(t, w)
  \/ \E w \in Word, d \in Data : tm_write(t, w, d)
  \/ EndWithoutWrites(t)
  \/ EndWithWrites(t)

\* What runs on by itself once a call has been made.
Advance(t) ==
  \/ ReadLookup(t) \/ ReadCopy(t) \/ ReadCheckLock(t) \/ ReadCheckVersion(t)
  \/ WriteInsert(t)
  \/ AcquireLock(t) \/ ReleaseLock(t) \/ AbortCommit(t) \/ IncClock(t)
  \/ ValidateVersion(t) \/ ValidateLock(t) \/ ValidateDone(t)
  \/ CopyBack(t) \/ StoreVersion(t) \/ Unlock(t)

Next == \E t \in Tx : Call(t) \/ Advance(t)

Spec == Init /\ [][Next]_vars

\* The operating system keeps running a thread that is inside a call; nothing
\* is assumed of when, or whether, the user makes the next call.
FairSpec == Spec /\ \A t \in Tx : WF_vars(Advance(t))

---------------------------------------------------------------------------
\* The list cursors stay on the lists: no loop of tm_end runs past the NULL at
\* the end of a list, so the asserts of releaseLocks (helper_functions.h:33-37)
\* never fire.
CursorsOnLists(t) ==
  /\ pc[t] \in CommitPC => Len(writes[t]) >= 1
  /\ pc[t] \in WriteBackPC \cup {"acquire"} => cur[t] \in 1..Len(writes[t])
  /\ pc[t] = "release" => until[t] <= cur[t] /\ cur[t] <= Len(writes[t])
  /\ pc[t] = "valversion" => cur[t] <= Len(reads[t])
  /\ pc[t] = "vallock" => cur[t] \in 1..Len(reads[t])

CursorInv == \A t \in Tx : CursorsOnLists(t)

\* The write nodes whose lock bit the thread has set and not yet cleared.
HeldNodes(t) ==
  {i \in DOMAIN writes[t] :
     \/ pc[t] = "acquire" /\ i > cur[t]
     \/ pc[t] \in {"inc", "valversion", "vallock"}
     \/ pc[t] = "release" /\ until[t] < i /\ i <= cur[t]
     \/ pc[t] \in WriteBackPC /\ i <= cur[t]}

\* A lock bit is set exactly when one thread holds it, for one node of its
\* list: the roll-back of acquireLocks, the release after a failed validation
\* and the write-back (helper_functions.h:28-60, 110-120) neither leak a lock
\* nor clear one that another thread took.
LockInv ==
  /\ \A w \in Word : lockBit[w] =>
       \E t \in Tx : \E i \in HeldNodes(t) : NodeWord(t, i) = w
  /\ \A t \in Tx : \A i \in HeldNodes(t) : lockBit[NodeWord(t, i)]
  /\ \A t, u \in Tx : \A i \in HeldNodes(t), j \in HeldNodes(u) :
       NodeWord(t, i) = NodeWord(u, j) => t = u /\ i = j

\* Every call returns, whatever the other threads do or leave undone: no lock
\* of the library is waited for (acquireLocks fails instead, tm.c:171-174).
CallsReturn ==
  \A t \in Tx : pc[t] \notin {"idle", "active"} ~> pc[t] \in {"idle", "active"}
===========================================================================
