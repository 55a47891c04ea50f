---------------------------- MODULE TL2History ----------------------------
(***************************************************************************)
(* TL2 with ghost variables that record what the transactions of a run     *)
(* observed and committed, and the isolation properties stated on them.    *)
(* The ghosts never constrain a step of TL2.                               *)
(***************************************************************************)
EXTENDS TL2, FiniteSets

VARIABLES
  obs,      \* per running transaction: the reads served from shared memory
  commits,  \* the update transactions past their point of no return
  quiet     \* running transactions no other thread's tm_end overlapped
ghosts == <<obs, commits, quiet>>
hvars == <<vars, ghosts>>

Observation == [word : Word, value : Data]

HistoryTypeOK ==
  /\ TypeOK
  /\ obs \in [Tx -> SUBSET Observation]
  /\ \A c \in commits : /\ c.ts \in Nat
                        /\ c.reads \subseteq Observation
                        /\ DOMAIN c.writes \subseteq Word
                        /\ c.writes \in [DOMAIN c.writes -> Data]
  /\ quiet \subseteq Tx

HInit == Init /\ obs = [t \in Tx |-> {}] /\ commits = {} /\ quiet = {}

WriteSet(t) == {NodeWord(t, i) : i \in DOMAIN writes[t]}
Pending(t, w) == writes[t][getWriteNode(t, w)].value

\* A read succeeds, and was not of a word the transaction has written.
ReadsShared(t) ==
  /\ pc[t] = "checkversion" /\ pc'[t] = "active"
  /\ word[t] \notin WriteSet(t)

\* Validation is over: from here on tm_end returns true.
Commits(t) == pc[t] \in {"inc", "valversion"} /\ pc'[t] = "copyback"

\* A call of t sends the transaction back, though no malloc failed.
Aborts(t) ==
  /\ pc'[t] = "idle"
  /\ pc[t] \in {"checklock", "release"} \/ (pc[t] = "checkversion" /\ ~ VersionFits(t))

Record(t) ==
  /\ obs' = [obs EXCEPT ![t] =
       IF pc'[t] = "idle" THEN {}
       ELSE @ \cup {o \in {[word |-> word[t], value |-> buf[t]]} : ReadsShared(t)}]
  /\ commits' = commits \cup
       {c \in {[ts |-> wv'[t], reads |-> obs[t],
                writes |-> [w \in WriteSet(t) |-> Pending(t, w)]]} : Commits(t)}
  /\ quiet' = {u \in quiet \cup {t} :
                 /\ pc'[u] # "idle"
                 /\ u \in quiet \/ pc[u] = "idle"
                 /\ \A v \in Tx \ {u} : pc'[v] \notin CommitPC}

HCall(t) == Call(t) /\ Record(t)
HAdvance(t) == Advance(t) /\ Record(t)
HNext == \E t \in Tx : HCall(t) \/ HAdvance(t)
HSpec == HInit /\ [][HNext]_hvars

\* The fairness of TL2's FairSpec.
FairHSpec == HSpec /\ \A t \in Tx : WF_hvars(HAdvance(t))

---------------------------------------------------------------------------
\* TL2 seen as the memory of SnapshotTM.  A transaction has taken effect when
\* its validation is over: writeToLocations only makes that visible.
Visible(t) == pc[t] \notin WriteBackPC \cup {"idle"}
TM == INSTANCE SnapshotTM WITH
  now <- clock,
  running <- {t \in Tx : Visible(t)},
  snap <- [t \in Tx |-> IF Visible(t) THEN rv[t] ELSE 0],
  seen <- [t \in Tx |-> IF Visible(t) THEN obs[t] ELSE {}],
  pend <- [t \in Tx |-> IF Visible(t) /\ writes[t] # <<>>
                        THEN [w \in WriteSet(t) |-> Pending(t, w)] ELSE <<>>]

ValueAt(w, n) == TM!ValueAt(w, n)

\* Every step of TL2 is a step of SnapshotTM or none: a transaction begins in
\* the present, reads at its rv whoever commits meanwhile, and takes effect as
\* a whole at a timestamp of its own, without changing what anyone has read
\* (tm_begin, tm_read, acquireLocks, validate and their order in tm_end).
ImplementsSnapshots == TM!Spec

\* Every read a transaction was allowed to keep, doomed and read-only ones
\* included, is the whole word as the commits up to its rv left it: all its
\* reads come from one snapshot (the checks at tm.c:248 and tm.c:279).
SnapshotReads ==
  \A t \in Tx : \A o \in obs[t] : o.value = ValueAt(o.word, rv[t])

\* A word a committed transaction both read and wrote was not changed by a
\* commit between the two: no increment is lost (acquireLocks before the
\* clock, validate under the locks, tm.c:171-196).
NoLostUpdate ==
  \A c \in commits : \A o \in c.reads :
    o.word \in DOMAIN c.writes => o.value = ValueAt(o.word, c.ts - 1)

\* Version and contents of a word no one has locked are those of its last
\* commit: commits reach memory whole, in timestamp order, and their locks go
\* last (writeToLocations).  data_structures.h:37 says so of the version.
FreeWordIsLastCommit ==
  \A w \in Word : ~ lockBit[w] =>
    /\ version[w] = TM!TimestampAt(w, clock)
    /\ mem[w] = ValueAt(w, clock)

\* Only another thread's commit can make a transaction abort: one that ran
\* beside none, from its tm_begin on, is never sent back (the filter, the
\* write list and acquireLocks do not make it fail against itself).
OnlyCommitsCauseAborts ==
  [][\A t \in quiet : ~ Aborts(t)]_hvars

OneNodePerWord(t) == Cardinality(WriteSet(t)) = Len(writes[t])

\* A read of a word the transaction has written returns the pending value.
ReadsOwnWrite(t) ==
  (/\ pc[t] = "checkversion" /\ VersionFits(t)
   /\ word[t] \in WriteSet(t)) => buf[t] = Pending(t, word[t])

\* "If we have already written at this address" (tm.c:260, tm.c:364): tm_write
\* and tm_read find the node of a word on the write list, so that "duplicates are
\* never added in the first place" (tm.c:165) and a transaction reads what it
\* has written.
WrittenIsFound == \A t \in Tx : OneNodePerWord(t) /\ ReadsOwnWrite(t)

\* Only another thread's commit can make the filter deny a word of the list:
\* beside none, tm_write finds the node of a word it has written before
\* (tm.c:363-372) and acquireLocks meets no lock of its own transaction.
OnlyCommitsMakeDuplicates == \A t \in quiet : OneNodePerWord(t)

\* ... and tm_read finds it too, with the last value written (tm.c:260-271).
OnlyCommitsHideWrites == \A t \in quiet : ReadsOwnWrite(t)
===========================================================================
