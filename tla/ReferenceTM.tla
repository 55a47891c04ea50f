---------------------------- MODULE ReferenceTM ---------------------------
(***************************************************************************)
(* The transactional memory of src/reference: one lock for everything,     *)
(* shared by read-only transactions and exclusive to the others, which     *)
(* write in place.  Segments are blocks of words, numbered from Start on;  *)
(* those made by tm_alloc are on a doubly linked list.  A number stands    *)
(* for the address of a block, so it may serve again once it is free, and  *)
(* a zeroed word is the null pointer.                                      *)
(*                                                                         *)
(* The operations are actions for a client to compose; those that change   *)
(* the region do so under the exclusive lock.                              *)
(***************************************************************************)
EXTENDS Integers, FiniteSets

CONSTANTS
  Thread,
  Segments,      \* bound: how many segments exist at a time
  Words,         \* words of a segment
  MallocMayFail  \* whether posix_memalign may fail

ASSUME ReferenceAssumption ==
  /\ IsFiniteSet(Thread)
  /\ Segments \in Nat \ {0} /\ Words \in Nat \ {0}
  /\ MallocMayFail \in BOOLEAN

NULL == 0
Start == 1
Segment == 1..Segments
Word == 0..(Words - 1)
Link == Segment \cup {NULL}

VARIABLES
  readers, writer,      \* who holds the pthread_rwlock
  mem,                  \* contents of the segments
  allocs, prev, next,   \* the list of dynamic segments
  live                  \* the segments in use
region == <<mem, allocs, prev, next, live>>
reference == <<readers, writer, region>>

ReferenceTypeOK ==
  /\ readers \subseteq Thread /\ writer \subseteq Thread
  /\ mem \in [Segment -> [Word -> Int]]
  /\ allocs \in Link /\ prev \in [Segment -> Link] /\ next \in [Segment -> Link]
  /\ live \subseteq Segment

Zeros == [w \in Word |-> 0]

\* The state tm_create leaves, with contents m in the first segment.
tm_create(m) ==
  /\ readers = {} /\ writer = {}
  /\ mem = [s \in Segment |-> IF s = Start THEN m ELSE Zeros]
  /\ allocs = NULL
  /\ prev = [s \in Segment |-> NULL] /\ next = [s \in Segment |-> NULL]
  /\ live = {Start}

---------------------------------------------------------------------------
tm_begin_NoSharedLock(t, ro) ==
  \/ ro /\ UNCHANGED writer /\ readers' = readers \cup {t}
  \/ /\ ~ ro /\ writer = {}
     /\ writer' = {t}
     /\ UNCHANGED readers

\* tm_begin and tm_end: shared_lock_acquire(_shared) and its release.
tm_begin(t, ro) ==
  \/ /\ ro /\ writer = {}
     /\ readers' = readers \cup {t}
     /\ UNCHANGED writer
  \/ /\ ~ ro /\ writer = {} /\ readers = {}
     /\ writer' = {t}
     /\ UNCHANGED readers

tm_end(t) == readers' = readers \ {t} /\ writer' = writer \ {t}

tm_read(s, w) == mem[s][w]

tm_write(s, w, v) ==
  /\ mem' = [mem EXCEPT ![s][w] = v]
  /\ UNCHANGED <<allocs, prev, next, live>>

\* tm_alloc: n becomes the head of the list, its words are zero.
tm_alloc(n) ==
  /\ n \in Segment \ live
  /\ live' = live \cup {n}
  /\ prev' = [s \in Segment |->
                IF s = n THEN NULL ELSE IF s = allocs THEN n ELSE prev[s]]
  /\ next' = [next EXCEPT ![n] = allocs]
  /\ allocs' = n
  /\ mem' = [mem EXCEPT ![n] = Zeros]

NoMemory == MallocMayFail \/ live = Segment

\* An unlinking that forgets the way back.
tm_free_NoPrev(n) ==
  /\ live' = live \ {n}
  /\ next' = [s \in Segment |-> IF s = prev[n] THEN next[n] ELSE next[s]]
  /\ allocs' = IF prev[n] = NULL THEN next[n] ELSE allocs
  /\ UNCHANGED <<mem, prev>>

\* tm_free: unlink n; only a segment without prev is taken for the head.
tm_free(n) ==
  /\ live' = live \ {n}
  /\ next' = [s \in Segment |-> IF s = prev[n] THEN next[n] ELSE next[s]]
  /\ prev' = [s \in Segment |-> IF s = next[n] THEN prev[n] ELSE prev[s]]
  /\ allocs' = IF prev[n] = NULL THEN next[n] ELSE allocs
  /\ UNCHANGED mem

\* The segments on the list: n steps from its head.
Listed[n \in Nat] ==
  IF n = 0 THEN {allocs} \ {NULL}
  ELSE Listed[n - 1] \cup ({next[s] : s \in Listed[n - 1]} \ {NULL})
OnList == Listed[Segments]

tm_destroy_HeadOnly ==
  /\ live' = live \ {allocs, Start}
  /\ allocs' = NULL
  /\ UNCHANGED <<mem, prev, next>>

\* tm_destroy frees what is on the list, and the first segment.
tm_destroy ==
  /\ live' = live \ (OnList \cup {Start})
  /\ allocs' = NULL
  /\ UNCHANGED <<mem, prev, next>>

---------------------------------------------------------------------------
\* The list holds exactly the dynamic segments in use and can be walked both
\* ways, so that tm_free loses nothing when it unlinks a segment and tm_destroy
\* finds everything (reference/tm.c:87-92, 160-198).
ListIntact ==
  Start \in live =>
    /\ OnList = live \ {Start}
    /\ \A s \in OnList :
         /\ IF s = allocs THEN prev[s] = NULL
            ELSE prev[s] \in OnList /\ next[prev[s]] = s
         /\ next[s] # NULL => prev[next[s]] = s
===========================================================================
