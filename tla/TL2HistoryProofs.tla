-------------------------- MODULE TL2HistoryProofs -------------------------
(***************************************************************************)
(* Machine-checked theorems about TL2History: what transactions see of     *)
(* each other; TL2 as an implementation of SnapshotTM, its steps one by    *)
(* one; and what a transaction may count on, its own writes included, as   *)
(* long as no other thread commits.                                        *)
(***************************************************************************)
EXTENDS TL2History, TL2Proofs, FiniteSetTheorems

Writers(w, n) == TM!WritersUpTo(w, n)
TimestampAt(w, n) == TM!TimestampAt(w, n)

\* Timestamps are those of commits, which have one each.
CommitTimes ==
  /\ \A c \in commits : c.ts \in 1..clock
  /\ \A c, d \in commits : c.ts = d.ts => c = d

LEMMA TruncateSmall ==
  ASSUME NEW n \in Nat, n < VersionModulus
  PROVE  Truncate(n) = n
BY ConstantsAssumption DEF Truncate

\* The last commit to a word up to a timestamp decides what the word holds.
LEMMA LastCommit ==
  ASSUME CommitTimes, NEW w, NEW n, NEW c \in Writers(w, n),
         \A d \in Writers(w, n) : d.ts <= c.ts
  PROVE  TimestampAt(w, n) = c.ts /\ ValueAt(w, n) = c.writes[w]
<1>1. \A d \in Writers(w, n) : (\A e \in Writers(w, n) : e.ts <= d.ts) => d = c
  <2> TAKE d \in Writers(w, n)
  <2> HAVE \A e \in Writers(w, n) : e.ts <= d.ts
  <2>1. c \in commits /\ d \in commits
    BY DEF Writers, TM!WritersUpTo
  <2>2. c.ts \in 1..clock /\ d.ts \in 1..clock
    BY <2>1 DEF CommitTimes
  <2>3. c.ts <= d.ts /\ d.ts <= c.ts
    OBVIOUS
  <2>4. c.ts = d.ts
    BY <2>2, <2>3
  <2> QED BY <2>1, <2>4 DEF CommitTimes
<1>2. TM!LastWriter(w, n) = c
  BY <1>1 DEF Writers, TM!LastWriter
<1> QED BY <1>2 DEF Writers, TimestampAt, ValueAt, TM!TimestampAt, TM!ValueAt

LEMMA NoCommit ==
  ASSUME NEW w, NEW n, Writers(w, n) = {}
  PROVE  TimestampAt(w, n) = 0 /\ ValueAt(w, n) = InitData
BY DEF Writers, TimestampAt, ValueAt, TM!TimestampAt, TM!ValueAt

LEMMA LastCommitExists ==
  ASSUME CommitTimes, clock \in Nat, NEW w, NEW n, Writers(w, n) # {}
  PROVE  \E c \in Writers(w, n) : \A d \in Writers(w, n) : d.ts <= c.ts
<1> DEFINE S == {c.ts : c \in Writers(w, n)}
<1>1. S \in SUBSET (1..clock)
  BY DEF Writers, TM!WritersUpTo, CommitTimes
<1>2. S # {}
  OBVIOUS
<1>3. \E i \in S : \A j \in S : j <= i
  <2> HIDE DEF S
  <2> QED BY <1>1, <1>2, LargestPosition
<1> QED BY <1>3

\* A timestamp of a word is 0 or that of a commit to it.
LEMMA TimestampIsOfCommit ==
  ASSUME CommitTimes, clock \in Nat
  PROVE  \A w, n : \/ TimestampAt(w, n) = 0
                   \/ \E c \in commits : /\ w \in DOMAIN c.writes /\ c.ts <= n
                                         /\ TimestampAt(w, n) = c.ts
<1> TAKE w, n
<1>1. CASE Writers(w, n) = {}
  BY <1>1, NoCommit
<1>2. CASE Writers(w, n) # {}
  <2>1. PICK c \in Writers(w, n) : \A d \in Writers(w, n) : d.ts <= c.ts
    BY <1>2, LastCommitExists
  <2>2. TimestampAt(w, n) = c.ts
    BY <2>1, LastCommit
  <2> QED BY <2>2 DEF Writers, TM!WritersUpTo
<1> QED BY <1>1, <1>2

\* Two timestamps between which nobody wrote the word show it the same.
LEMMA SameWriters ==
  \A w, n, m : Writers(w, n) = Writers(w, m) =>
    TimestampAt(w, n) = TimestampAt(w, m) /\ ValueAt(w, n) = ValueAt(w, m)
BY DEF Writers, TimestampAt, ValueAt, TM!TimestampAt, TM!ValueAt, TM!LastWriter

LEMMA NothingAfter ==
  ASSUME CommitTimes, clock \in Nat
  PROVE  \A w : \A n \in Nat : n >= clock =>
           TimestampAt(w, n) = TimestampAt(w, clock) /\ ValueAt(w, n) = ValueAt(w, clock)
<1> TAKE w
<1> TAKE n \in Nat
<1> HAVE n >= clock
<1>1. Writers(w, n) = Writers(w, clock)
  BY DEF Writers, TM!WritersUpTo, CommitTimes
<1> QED BY <1>1, SameWriters

\* What a word held when it was last written, it still holds.
LEMMA UnchangedSince ==
  ASSUME CommitTimes, clock \in Nat
  PROVE  \A w : \A n, m \in Nat : TimestampAt(w, m) <= n /\ n <= m =>
           TimestampAt(w, n) = TimestampAt(w, m) /\ ValueAt(w, n) = ValueAt(w, m)
<1> TAKE w
<1> TAKE n, m \in Nat
<1> HAVE TimestampAt(w, m) <= n /\ n <= m
<1>1. \A c \in Writers(w, m) : c.ts <= n
  <2>1. CASE Writers(w, m) = {}
    BY <2>1
  <2>2. CASE Writers(w, m) # {}
    <3>1. PICK c \in Writers(w, m) : \A d \in Writers(w, m) : d.ts <= c.ts
      BY <2>2, LastCommitExists
    <3>2. c.ts <= n
      BY <3>1, LastCommit
    <3>3. \A d \in Writers(w, m) : d.ts \in Nat
      BY DEF Writers, TM!WritersUpTo, CommitTimes
    <3> QED BY <3>1, <3>2, <3>3
  <2> QED BY <2>1, <2>2
<1>2. \A c \in commits : c.ts \in Nat
  BY DEF CommitTimes
<1>3. Writers(w, n) = Writers(w, m)
  BY <1>1, <1>2 DEF Writers, TM!WritersUpTo
<1> QED BY <1>3, SameWriters

\* A step without a commit changes no history, ...
LEMMA HistoryKept ==
  ASSUME commits' = commits
  PROVE  \A w, n : TimestampAt(w, n)' = TimestampAt(w, n) /\ ValueAt(w, n)' = ValueAt(w, n)
BY DEF TimestampAt, ValueAt, TM!TimestampAt, TM!ValueAt, TM!LastWriter, TM!WritersUpTo

\* ... and one with a commit none but that of its words from its timestamp on.
LEMMA HistoryBefore ==
  ASSUME NEW c, commits' = commits \cup {c}
  PROVE  \A w, n : ~ (w \in DOMAIN c.writes /\ c.ts <= n) =>
           TimestampAt(w, n)' = TimestampAt(w, n) /\ ValueAt(w, n)' = ValueAt(w, n)
<1> TAKE w, n
<1> HAVE ~ (w \in DOMAIN c.writes /\ c.ts <= n)
<1>1. Writers(w, n)' = Writers(w, n)
  BY DEF Writers, TM!WritersUpTo
<1> QED BY <1>1 DEF Writers, TimestampAt, ValueAt, TM!TimestampAt, TM!ValueAt, TM!LastWriter

LEMMA HistoryFrom ==
  ASSUME CommitTimes', NEW c, commits' = commits \cup {c}
  PROVE  \A w, n : /\ w \in DOMAIN c.writes /\ c.ts <= n
                   /\ \A d \in commits : w \in DOMAIN d.writes => d.ts <= c.ts
                   => TimestampAt(w, n)' = c.ts /\ ValueAt(w, n)' = c.writes[w]
<1> TAKE w, n
<1> HAVE /\ w \in DOMAIN c.writes /\ c.ts <= n
         /\ \A d \in commits : w \in DOMAIN d.writes => d.ts <= c.ts
<1>1. \A d \in commits' : d.ts \in Nat
  BY DEF CommitTimes
<1>2. c \in Writers(w, n)' /\ \A d \in Writers(w, n)' : d.ts <= c.ts
  BY <1>1 DEF Writers, TM!WritersUpTo
<1>3. \A d \in Writers(w, n)' : (\A e \in Writers(w, n)' : e.ts <= d.ts) => d = c
  <2> TAKE d \in Writers(w, n)'
  <2> HAVE \A e \in Writers(w, n)' : e.ts <= d.ts
  <2>1. c \in commits' /\ d \in commits'
    BY <1>2 DEF Writers, TM!WritersUpTo
  <2>2. c.ts = d.ts
    BY <1>1, <1>2, <2>1
  <2> QED BY <2>1, <2>2 DEF CommitTimes
<1>4. TM!LastWriter(w, n)' = c
  BY <1>2, <1>3 DEF Writers, TM!LastWriter
<1>5. Writers(w, n)' # {}
  BY <1>2
<1> QED BY <1>4, <1>5 DEF Writers, TimestampAt, ValueAt, TM!TimestampAt, TM!ValueAt

---------------------------------------------------------------------------
(* The inductive invariant.                                                *)

\* A thread has a timestamp of its own from the clock to the end of tm_end.
Stamped(t) == pc[t] \in {"valversion", "vallock"} \cup WriteBackPC

\* The words a stamped thread has locked, and of those the ones whose version
\* is still to be stored.
Claims(t) == {NodeWord(t, i) : i \in {j \in HeldNodes(t) : Stamped(t)}}
DirtyNodes(t) ==
  {i \in DOMAIN writes[t] : /\ pc[t] \in WriteBackPC
                            /\ i <= cur[t] /\ (i = cur[t] => pc[t] # "unlock")}
Dirty(t) == {NodeWord(t, i) : i \in DirtyNodes(t)}
PendingWrites(t) == [w \in WriteSet(t) |-> Pending(t, w)]
DistinctWords(t) ==
  \A i, j \in DOMAIN writes[t] : NodeWord(t, i) = NodeWord(t, j) => i = j

\* Timestamps are drawn once each, after the snapshot of their transaction.
Stamps ==
  /\ \A t \in Tx : rv[t] <= clock
  /\ \A t \in Tx : Stamped(t) => wv[t] \in 1..clock /\ rv[t] < wv[t]
  /\ \A t, u \in Tx : Stamped(t) /\ Stamped(u) /\ wv[t] = wv[u] => t = u

\* A transaction in its write-back has committed at its timestamp, one before
\* it has not; nobody commits to a claimed word at a later timestamp.
CommitOrder ==
  /\ \A t \in Tx, c \in commits : Stamped(t) /\ c.ts = wv[t] => pc[t] \in WriteBackPC
  /\ \A t \in Tx : pc[t] \in WriteBackPC =>
       \E c \in commits : c.ts = wv[t] /\ c.writes = PendingWrites(t)
  /\ \A t \in Tx, c \in commits : \A w \in Claims(t) : w \in DOMAIN c.writes => c.ts <= wv[t]

\* A word that is not dirty is as its last commit left it, a dirty one is
\* older than the commit that is on its way to it.
Memory ==
  /\ \A w \in Word : (\A t \in Tx : w \notin Dirty(t)) =>
       version[w] = TimestampAt(w, clock) /\ mem[w] = ValueAt(w, clock)
  /\ \A t \in Tx : \A w \in Dirty(t) : version[w] < wv[t]

\* How far the write-back of one node has come.
WriteBack ==
  \A t \in Tx :
    /\ pc[t] \in WriteBackPC => DistinctWords(t)
    /\ pc[t] = "copyback" => \A k \in Unit \ left[t] :
                               mem[CurWord(t)][k] = writes[t][cur[t]].value[k]
    /\ pc[t] = "storeversion" => mem[CurWord(t)] = writes[t][cur[t]].value

\* What tm_read has copied of a word that is not its own is what its commit at
\* version "before" left there, unless the word is dirty, and its version will
\* have changed when its lock is free again, or has changed already.  With the
\* lock found free it is the word at rv, if the version is still the same; who
\* claims the word since commits later than that.
ReadsWhole(t) ==
  /\ before[t] <= version[word[t]]
  /\ pc[t] = "lookup" => left[t] = Unit
  /\ pc[t] = "checklock" => left[t] = {}
  /\ /\ pc[t] # "checkversion"
     /\ word[t] \notin WriteSet(t) /\ version[word[t]] = before[t]
     /\ \A u \in Tx : word[t] \notin Dirty(u)
     => \A k \in Unit \ left[t] : buf[t][k] = ValueAt(word[t], before[t])[k]
  /\ pc[t] = "checkversion" =>
       /\ word[t] \notin WriteSet(t) /\ VersionFits(t) => buf[t] = ValueAt(word[t], rv[t])
       /\ \A u \in Tx : word[t] \in Claims(u) => rv[t] < wv[u]

Readers == \A t \in Tx : pc[t] \in ReadPC => ReadsWhole(t)

\* What has been read stays true at rv: who is about to overwrite it commits
\* later than that.
SeenAt(t) ==
  \A o \in obs[t] :
    /\ o.value = ValueAt(o.word, rv[t])
    /\ ~ isRo[t] => \E j \in DOMAIN reads[t] : reads[t][j] = o.word
    /\ \A u \in Tx : o.word \in Claims(u) => rv[t] < wv[u]

Seen == \A t \in Tx : SeenAt(t) /\ (pc[t] = "idle" => obs[t] = {})

\* The reads validate has passed, of words the transaction writes, were not
\* overwritten since rv.
Passed(t) == {j \in DOMAIN reads[t] : j > cur[t] \/ (j = cur[t] /\ pc[t] = "vallock")}
Validated ==
  \A t \in Tx :
    /\ pc[t] \in CommitPC => ~ isRo[t]
    /\ pc[t] \in {"valversion", "vallock"} =>
         \A j \in Passed(t) : reads[t][j] \in WriteSet(t) => version[reads[t][j]] <= rv[t]

Isolation ==
  /\ Stamps /\ CommitTimes /\ CommitOrder /\ Memory /\ WriteBack
  /\ Readers /\ Seen /\ Validated /\ NoLostUpdate

IInv == HistoryTypeOK /\ CursorInv /\ LockInv /\ (clock < VersionModulus => Isolation)

---------------------------------------------------------------------------
(* Steps of one thread.                                                    *)

HStep(t) == (Call(t) \/ Advance(t)) /\ Record(t)

LEMMA HStepOfNext == HNext => \E t \in Tx : HStep(t)
BY DEF HNext, HCall, HAdvance, HStep

LEMMA CommitsKept ==
  ASSUME NEW t, Record(t), ~ Commits(t)
  PROVE  commits' = commits
BY DEF Record

LEMMA CommitsGrow ==
  ASSUME NEW t, Record(t), Commits(t)
  PROVE  commits' = commits \cup
           {[ts |-> wv'[t], reads |-> obs[t], writes |-> PendingWrites(t)]}
BY DEF Record, PendingWrites

\* The pending value of a word is that of a node on the list.
LEMMA PendingNode ==
  ASSUME TypeOK, NEW t \in Tx
  PROVE  \A w \in WriteSet(t) :
           /\ getWriteNode(t, w) \in DOMAIN writes[t]
           /\ NodeWord(t, getWriteNode(t, w)) = w
           /\ w \in Word /\ Pending(t, w) \in Data
<1> TAKE w \in WriteSet(t)
<1>1. \E j \in DOMAIN writes[t] : NodeWord(t, j) = w
  BY DEF WriteSet
<1>2. /\ getWriteNode(t, w) \in DOMAIN writes[t]
      /\ NodeWord(t, getWriteNode(t, w)) = w
  BY <1>1, WriteNodeOfWord
<1> QED BY <1>2, NodeType DEF Pending

LEMMA HistoryTypeNext ==
  ASSUME HistoryTypeOK, TypeOK', NEW t \in Tx, Record(t)
  PROVE  HistoryTypeOK'
<1>1. obs' \in [Tx -> SUBSET Observation]
  <2>1. [word |-> word[t], value |-> buf[t]] \in Observation
    BY DEF HistoryTypeOK, TypeOK, Observation
  <2> QED BY <2>1 DEF HistoryTypeOK, Record
<1>2. \A c \in commits' : /\ c.ts \in Nat /\ c.reads \subseteq Observation
                          /\ DOMAIN c.writes \subseteq Word
                          /\ c.writes \in [DOMAIN c.writes -> Data]
  <2>1. CASE ~ Commits(t)
    BY <2>1, CommitsKept DEF HistoryTypeOK
  <2>2. CASE Commits(t)
    <3> DEFINE c == [ts |-> wv'[t], reads |-> obs[t], writes |-> PendingWrites(t)]
    <3>1. commits' = commits \cup {c}
      BY <2>2, CommitsGrow
    <3>2. c.ts \in Nat /\ c.reads \subseteq Observation
      BY DEF TypeOK, HistoryTypeOK
    <3>3. DOMAIN c.writes \subseteq Word /\ c.writes \in [DOMAIN c.writes -> Data]
      BY PendingNode DEF PendingWrites, HistoryTypeOK
    <3> HIDE DEF c
    <3> QED BY <3>1, <3>2, <3>3 DEF HistoryTypeOK
  <2> QED BY <2>1, <2>2
<1>3. quiet' \subseteq Tx
  BY DEF Record, HistoryTypeOK
<1> QED BY <1>1, <1>2, <1>3 DEF HistoryTypeOK

\* The other threads' part of the state, and what it amounts to for the claims.
LEMMA OthersKept ==
  ASSUME HistoryTypeOK, NEW t \in Tx, HStep(t), NEW u \in Tx, u # t
  PROVE  Kept(u) /\ obs'[u] = obs[u]
BY StepIsLocal DEF HistoryTypeOK, HStep, Record

LEMMA OthersClaims ==
  ASSUME HistoryTypeOK, NEW t \in Tx, HStep(t), NEW u \in Tx, u # t
  PROVE  /\ Stamped(u)' = Stamped(u) /\ wv'[u] = wv[u] /\ rv'[u] = rv[u]
         /\ Claims(u)' = Claims(u) /\ Dirty(u)' = Dirty(u)
         /\ WriteSet(u)' = WriteSet(u) /\ PendingWrites(u)' = PendingWrites(u)
<1>1. Kept(u)
  BY OthersKept
<1> QED BY <1>1 DEF Kept, Stamped, Claims, HeldNodes, Dirty, DirtyNodes, NodeWord, WriteSet,
               PendingWrites, Pending, getWriteNode

---------------------------------------------------------------------------
\* No two threads claim a word, and a claimed word is locked.
LEMMA ClaimsDisjoint ==
  ASSUME LockInv
  PROVE  \A t, u \in Tx : t # u => Claims(t) \cap Claims(u) = {}
BY DEF LockInv, Claims

LEMMA ClaimsLocked ==
  ASSUME LockInv
  PROVE  \A t \in Tx : \A w \in Claims(t) : lockBit[w]
BY DEF LockInv, Claims

LEMMA ClaimsAreWritten ==
  ASSUME TypeOK
  PROVE  \A t \in Tx : Claims(t) \subseteq WriteSet(t) /\ WriteSet(t) \subseteq Word
BY NodeType DEF Claims, HeldNodes, WriteSet

LEMMA DirtyClaimed ==
  \A t \in Tx : Dirty(t) \subseteq Claims(t) /\ (pc[t] \notin WriteBackPC => Dirty(t) = {})
BY DEF Dirty, DirtyNodes, Claims, HeldNodes, Stamped

\* All locks are held from the last acquisition to the write-back.
LEMMA AllHeld ==
  ASSUME LockInv, NEW t \in Tx, pc[t] \in {"inc", "valversion", "vallock"}
  PROVE  /\ DistinctWords(t)
         /\ Claims(t) = IF pc[t] = "inc" THEN {} ELSE WriteSet(t)
         /\ \A w \in WriteSet(t) : \A u \in Tx \ {t} : w \notin Claims(u)
<1>1. HeldNodes(t) = DOMAIN writes[t]
  BY DEF HeldNodes
<1>2. DistinctWords(t)
  BY <1>1 DEF LockInv, DistinctWords
<1>3. Claims(t) = IF pc[t] = "inc" THEN {} ELSE WriteSet(t)
  BY <1>1 DEF Claims, WriteSet, Stamped, WriteBackPC
<1>4. \A w \in WriteSet(t) : \A u \in Tx \ {t} : w \notin Claims(u)
  BY <1>1 DEF LockInv, Claims, WriteSet
<1> QED BY <1>2, <1>3, <1>4

\* With distinct words the pending value of a word is that of its node.
LEMMA PendingOfNode ==
  ASSUME TypeOK, NEW t \in Tx, DistinctWords(t)
  PROVE  \A i \in DOMAIN writes[t] :
           NodeWord(t, i) \in WriteSet(t) /\ Pending(t, NodeWord(t, i)) = writes[t][i].value
<1> TAKE i \in DOMAIN writes[t]
<1>1. NodeWord(t, i) \in WriteSet(t)
  BY DEF WriteSet
<1>2. getWriteNode(t, NodeWord(t, i)) = i
  BY <1>1, PendingNode DEF DistinctWords
<1> QED BY <1>1, <1>2 DEF Pending

---------------------------------------------------------------------------
(* What a step of t means for the rest: it commits and writes back nothing, *)
(* draws a timestamp, commits, or is one of the three steps of a write-back *)

Rests(t) ==
  /\ clock' = clock /\ mem' = mem /\ version' = version /\ commits' = commits
  /\ pc[t] \notin WriteBackPC /\ pc'[t] \notin WriteBackPC
  /\ rv'[t] \in {0, rv[t], clock}
  /\ \/ ~ Stamped(t)'
     \/ /\ Stamped(t)
        /\ wv'[t] = wv[t] /\ rv'[t] = rv[t] /\ writes'[t] = writes[t]

Draws(t) ==
  /\ pc[t] = "inc" /\ pc'[t] = "valversion"
  /\ clock' = clock + 1 /\ wv'[t] = clock + 1
  /\ mem' = mem /\ version' = version /\ commits' = commits
  /\ rv'[t] = rv[t] /\ isRo'[t] = isRo[t]
  /\ writes'[t] = writes[t] /\ reads'[t] = reads[t] /\ cur'[t] = Len(reads[t])

TakesEffect(t) ==
  /\ \/ pc[t] = "inc" /\ clock' = clock + 1 /\ wv'[t] = clock + 1 /\ clock = rv[t]
     \/ pc[t] = "valversion" /\ cur[t] = 0 /\ clock' = clock /\ wv'[t] = wv[t]
  /\ pc'[t] = "copyback"
  /\ commits' = commits \cup
       {[ts |-> wv'[t], reads |-> obs[t], writes |-> PendingWrites(t)]}
  /\ mem' = mem /\ version' = version
  /\ rv'[t] = rv[t] /\ isRo'[t] = isRo[t]
  /\ writes'[t] = writes[t] /\ cur'[t] = Len(writes[t]) /\ left'[t] = Unit

WritesBack(t) == CopyBack(t) \/ StoreVersion(t) \/ Unlock(t)

LEMMA RestsOutside ==
  ASSUME HistoryTypeOK, NEW t \in Tx, Record(t),
         clock' = clock, mem' = mem, version' = version,
         pc[t] \notin {"inc"} \cup WriteBackPC,
         pc'[t] \notin {"valversion", "vallock"} \cup WriteBackPC,
         rv'[t] \in {0, rv[t], clock}
  PROVE  Rests(t)
BY CommitsKept DEF Rests, Stamped, Commits, WriteBackPC

LEMMA CleanRests ==
  ASSUME TypeOK, NEW t \in Tx, cleanTransaction(t)
  PROVE  pc'[t] = "idle" /\ rv'[t] = 0
BY DEF TypeOK, cleanTransaction, Goto

LEMMA CallsRest ==
  ASSUME HistoryTypeOK, NEW t \in Tx, Record(t), clock < VersionModulus, Call(t)
  PROVE  Rests(t)
<1> USE DEF shared, descriptor, Goto, WriteBackPC
<1>1. TypeOK
  BY DEF HistoryTypeOK
<1>2. ASSUME NEW ro \in BOOLEAN, tm_begin(t, ro) PROVE Rests(t)
  <2>1. rv'[t] = clock
    BY <1>1, <1>2, TruncateSmall DEF tm_begin, TypeOK
  <2> QED BY <1>1, <1>2, <2>1, RestsOutside DEF tm_begin, TypeOK
<1>3. ASSUME NEW w \in Word, tm_read(t, w) PROVE Rests(t)
  BY <1>1, <1>3, RestsOutside DEF tm_read, TypeOK
<1>4. ASSUME NEW w \in Word, NEW d \in Data, tm_write(t, w, d) PROVE Rests(t)
  BY <1>1, <1>4, RestsOutside DEF tm_write, TypeOK
<1>5. CASE EndWithoutWrites(t)
  BY <1>1, <1>5, CleanRests, RestsOutside DEF EndWithoutWrites
<1>6. CASE EndWithWrites(t)
  BY <1>1, <1>6, RestsOutside DEF EndWithWrites, TypeOK
<1> QED BY <1>2, <1>3, <1>4, <1>5, <1>6 DEF Call

LEMMA ReadStepsRest ==
  ASSUME HistoryTypeOK, NEW t \in Tx, Record(t),
         \/ ReadLookup(t) \/ ReadCopy(t) \/ ReadCheckLock(t) \/ ReadCheckVersion(t)
         \/ WriteInsert(t)
  PROVE  Rests(t)
<1> USE DEF shared, descriptor, Goto, WriteBackPC
<1>1. TypeOK
  BY DEF HistoryTypeOK
<1>2. CASE ReadLookup(t) \/ ReadCopy(t)
  BY <1>1, <1>2, RestsOutside DEF ReadLookup, ReadCopy, TypeOK
<1>3. CASE ReadCheckLock(t) \/ ReadCheckVersion(t)
  BY <1>1, <1>3, CleanRests, RestsOutside DEF ReadCheckLock, ReadCheckVersion, TypeOK
<1>4. CASE WriteInsert(t)
  BY <1>1, <1>4, CleanRests, RestsOutside DEF WriteInsert, TypeOK
<1> QED BY <1>2, <1>3, <1>4

LEMMA LockStepsRest ==
  ASSUME HistoryTypeOK, NEW t \in Tx, Record(t),
         AcquireLock(t) \/ ReleaseLock(t) \/ AbortCommit(t)
  PROVE  Rests(t)
<1> USE DEF shared, descriptor, Goto, WriteBackPC
<1>1. TypeOK
  BY DEF HistoryTypeOK
<1>2. CASE AcquireLock(t)
  BY <1>1, <1>2, RestsOutside DEF AcquireLock, StartRelease, TypeOK
<1>3. CASE ReleaseLock(t)
  BY <1>1, <1>3, RestsOutside DEF ReleaseLock
<1>4. CASE AbortCommit(t)
  BY <1>1, <1>4, CleanRests, RestsOutside DEF AbortCommit
<1> QED BY <1>2, <1>3, <1>4

LEMMA ValidationRests ==
  ASSUME HistoryTypeOK, NEW t \in Tx, Record(t), ValidateVersion(t) \/ ValidateLock(t)
  PROVE  Rests(t)
<1>1. TypeOK
  BY DEF HistoryTypeOK
<1>2. /\ pc[t] \in {"valversion", "vallock"} /\ pc'[t] \in {"release", "valversion", "vallock"}
      /\ clock' = clock /\ mem' = mem /\ version' = version
      /\ wv'[t] = wv[t] /\ rv'[t] = rv[t] /\ writes'[t] = writes[t]
  BY <1>1 DEF ValidateVersion, ValidateLock, StartRelease, Goto, shared, descriptor, TypeOK
<1> QED BY <1>2, CommitsKept DEF Rests, Commits, Stamped, WriteBackPC

LEMMA ClockStep ==
  ASSUME HistoryTypeOK, Stamps, NEW t \in Tx, Record(t), IncClock(t), clock' < VersionModulus
  PROVE  Draws(t) \/ TakesEffect(t)
<1>1. TypeOK /\ rv[t] <= clock
  BY DEF HistoryTypeOK, Stamps
<1>2. /\ pc[t] = "inc" /\ clock' = clock + 1 /\ wv'[t] = clock + 1
      /\ mem' = mem /\ version' = version /\ rv'[t] = rv[t] /\ isRo'[t] = isRo[t]
      /\ writes'[t] = writes[t] /\ reads'[t] = reads[t]
  BY <1>1 DEF IncClock, TypeOK
<1>3. CASE clock + 1 = Truncate(rv[t] + 1) /\ StartWriteBack(t)
  <2>1. Truncate(rv[t] + 1) = rv[t] + 1
    BY <1>1, <1>2, TruncateSmall, ConstantsAssumption DEF TypeOK
  <2>2. clock = rv[t]
    BY <1>1, <1>3, <2>1 DEF TypeOK
  <2>3. pc'[t] = "copyback" /\ cur'[t] = Len(writes[t]) /\ left'[t] = Unit
    BY <1>1, <1>3 DEF StartWriteBack, Goto, TypeOK
  <2> QED BY <1>2, <2>2, <2>3, CommitsGrow DEF Commits, TakesEffect
<1>4. CASE Goto(t, "valversion") /\ cur' = [cur EXCEPT ![t] = Len(reads[t])]
  BY <1>1, <1>2, <1>4, CommitsKept DEF Commits, Draws, Goto, TypeOK
<1> QED BY <1>3, <1>4 DEF IncClock

LEMMA ValidatedStep ==
  ASSUME HistoryTypeOK, NEW t \in Tx, Record(t), ValidateDone(t)
  PROVE  TakesEffect(t)
<1>1. TypeOK
  BY DEF HistoryTypeOK
<1>2. /\ pc[t] = "valversion" /\ cur[t] = 0 /\ pc'[t] = "copyback"
      /\ clock' = clock /\ mem' = mem /\ version' = version
      /\ wv'[t] = wv[t] /\ rv'[t] = rv[t] /\ isRo'[t] = isRo[t] /\ writes'[t] = writes[t]
      /\ cur'[t] = Len(writes[t]) /\ left'[t] = Unit
  BY <1>1 DEF ValidateDone, StartWriteBack, Goto, shared, descriptor, TypeOK
<1> QED BY <1>2, CommitsGrow DEF Commits, TakesEffect

LEMMA StepKinds ==
  ASSUME HistoryTypeOK, Stamps, NEW t \in Tx, HStep(t), clock' < VersionModulus,
         clock < VersionModulus
  PROVE  Rests(t) \/ Draws(t) \/ TakesEffect(t) \/ WritesBack(t)
BY CallsRest, ReadStepsRest, LockStepsRest, ValidationRests, ClockStep, ValidatedStep
   DEF HStep, Advance, WritesBack

---------------------------------------------------------------------------
\* The three steps of a write-back, as the other threads see them.
LEMMA CopyBackSeen ==
  ASSUME TypeOK, NEW t \in Tx, CursorsOnLists(t), CopyBack(t)
  PROVE  /\ clock' = clock /\ version' = version
         /\ pc[t] = "copyback" /\ pc'[t] \in {"copyback", "storeversion"}
         /\ wv'[t] = wv[t] /\ rv'[t] = rv[t] /\ writes'[t] = writes[t] /\ cur'[t] = cur[t]
         /\ Claims(t)' = Claims(t) /\ Dirty(t)' = Dirty(t)
         /\ CurWord(t) \in Dirty(t) /\ CurWord(t)' = CurWord(t)
         /\ \A w \in Word : w # CurWord(t) => mem'[w] = mem[w]
<1>1. /\ clock' = clock /\ version' = version
      /\ pc[t] = "copyback" /\ pc'[t] \in {"copyback", "storeversion"}
      /\ wv'[t] = wv[t] /\ rv'[t] = rv[t] /\ writes'[t] = writes[t] /\ cur'[t] = cur[t]
  BY DEF CopyBack, Goto, TypeOK, descriptor, cursors
<1>2. cur[t] \in DOMAIN writes[t] /\ cur[t] \in Nat
  BY <1>1 DEF CursorsOnLists, WriteBackPC, TypeOK
<1>3. Claims(t)' = Claims(t) /\ Dirty(t)' = Dirty(t) /\ CurWord(t)' = CurWord(t)
  BY <1>1 DEF Claims, Dirty, DirtyNodes, HeldNodes, Stamped, NodeWord, CurWord, WriteBackPC
<1>4. CurWord(t) \in Dirty(t)
  BY <1>1, <1>2 DEF Dirty, DirtyNodes, CurWord, WriteBackPC
<1>5. \A w \in Word : w # CurWord(t) => mem'[w] = mem[w]
  BY DEF CopyBack, TypeOK
<1> QED BY <1>1, <1>3, <1>4, <1>5

LEMMA StoreVersionSeen ==
  ASSUME TypeOK, NEW t \in Tx, CursorsOnLists(t), StoreVersion(t), DistinctWords(t),
         wv[t] < VersionModulus
  PROVE  /\ clock' = clock /\ mem' = mem
         /\ pc[t] = "storeversion" /\ pc'[t] = "unlock"
         /\ wv'[t] = wv[t] /\ rv'[t] = rv[t] /\ writes'[t] = writes[t] /\ cur'[t] = cur[t]
         /\ Claims(t)' = Claims(t) /\ Dirty(t)' = Dirty(t) \ {CurWord(t)}
         /\ CurWord(t) \in Dirty(t) /\ CurWord(t) \in Word
         /\ version' = [version EXCEPT ![CurWord(t)] = wv[t]]
<1>1. /\ clock' = clock /\ mem' = mem
      /\ pc[t] = "storeversion" /\ pc'[t] = "unlock"
      /\ wv'[t] = wv[t] /\ rv'[t] = rv[t] /\ writes'[t] = writes[t] /\ cur'[t] = cur[t]
  BY DEF StoreVersion, Goto, TypeOK, descriptor, cursors
<1>2. cur[t] \in DOMAIN writes[t] /\ cur[t] \in Nat
  BY <1>1 DEF CursorsOnLists, WriteBackPC, TypeOK
<1>3. Claims(t)' = Claims(t)
  BY <1>1 DEF Claims, HeldNodes, Stamped, NodeWord, WriteBackPC
<1>4. DirtyNodes(t)' = DirtyNodes(t) \ {cur[t]} /\ cur[t] \in DirtyNodes(t)
  BY <1>1, <1>2 DEF DirtyNodes, WriteBackPC
<1>5. Dirty(t)' = Dirty(t) \ {CurWord(t)}
  BY <1>1, <1>2, <1>4 DEF Dirty, DirtyNodes, NodeWord, CurWord, DistinctWords
<1>6. CurWord(t) \in Dirty(t)
  BY <1>4 DEF Dirty, CurWord
<1>7. version' = [version EXCEPT ![CurWord(t)] = wv[t]]
  BY TruncateSmall DEF StoreVersion, TypeOK
<1>8. CurWord(t) \in Word
  BY <1>2, NodeType DEF CurWord
<1> QED BY <1>1, <1>3, <1>5, <1>6, <1>7, <1>8

LEMMA UnlockSeen ==
  ASSUME TypeOK, NEW t \in Tx, CursorsOnLists(t), Unlock(t)
  PROVE  /\ clock' = clock /\ mem' = mem /\ version' = version
         /\ pc[t] = "unlock" /\ pc'[t] \in {"idle", "copyback"}
         /\ rv'[t] \in {0, rv[t]}
         /\ pc'[t] = "copyback" => /\ wv'[t] = wv[t] /\ rv'[t] = rv[t]
                                   /\ writes'[t] = writes[t] /\ left'[t] = Unit
         /\ Claims(t)' \subseteq Claims(t) /\ Dirty(t)' = Dirty(t)
<1>1. clock' = clock /\ mem' = mem /\ version' = version /\ pc[t] = "unlock"
  BY DEF Unlock
<1>2. cur[t] \in 1..Len(writes[t]) /\ DOMAIN writes[t] = 1..Len(writes[t])
      /\ Len(writes[t]) \in Nat
  BY <1>1 DEF CursorsOnLists, WriteBackPC, TypeOK
<1>3. CASE cur[t] = 1 /\ cleanTransaction(t)
  <2>1. pc'[t] = "idle" /\ rv'[t] = 0
    BY <1>3, CleanRests
  <2>2. Claims(t)' = {} /\ Dirty(t)' = {}
    BY <2>1 DEF Claims, Stamped, Dirty, DirtyNodes, WriteBackPC
  <2>3. DirtyNodes(t) = {}
    BY <1>1, <1>2, <1>3 DEF DirtyNodes
  <2>4. Dirty(t) = {}
    BY <2>3 DEF Dirty
  <2> QED BY <1>1, <2>1, <2>2, <2>4
<1>4. CASE /\ cur[t] # 1
           /\ cur' = [cur EXCEPT ![t] = @ - 1]
           /\ left' = [left EXCEPT ![t] = Unit]
           /\ Goto(t, "copyback")
           /\ UNCHANGED descriptor
  <2>1. /\ cur'[t] = cur[t] - 1 /\ pc'[t] = "copyback" /\ writes'[t] = writes[t]
        /\ wv'[t] = wv[t] /\ rv'[t] = rv[t] /\ left'[t] = Unit
    BY <1>4 DEF Goto, TypeOK, descriptor
  <2>2. DirtyNodes(t)' = DirtyNodes(t)
    BY <1>1, <1>2, <2>1 DEF DirtyNodes, WriteBackPC
  <2>3. HeldNodes(t)' \subseteq HeldNodes(t) /\ Stamped(t)
    BY <1>1, <1>2, <2>1 DEF HeldNodes, WriteBackPC, Stamped
  <2>4. Dirty(t)' = Dirty(t) /\ Claims(t)' \subseteq Claims(t)
    BY <2>1, <2>2, <2>3 DEF Dirty, Claims, NodeWord
  <2> QED BY <1>1, <2>1, <2>4
<1> QED BY <1>3, <1>4 DEF Unlock

\* What they have in common.
LEMMA WriteBackSeen ==
  ASSUME HistoryTypeOK, Stamps, WriteBack, clock < VersionModulus,
         NEW t \in Tx, CursorsOnLists(t), Record(t), WritesBack(t)
  PROVE  /\ clock' = clock /\ commits' = commits
         /\ pc[t] \in WriteBackPC /\ pc'[t] \in {"idle"} \cup WriteBackPC
         /\ rv'[t] \in {0, rv[t]}
         /\ pc'[t] # "idle" => wv'[t] = wv[t] /\ rv'[t] = rv[t] /\ writes'[t] = writes[t]
         /\ Claims(t)' \subseteq Claims(t) /\ Dirty(t)' \subseteq Dirty(t)
<1>1. TypeOK
  BY DEF HistoryTypeOK
<1>2. pc[t] \in WriteBackPC
  BY DEF WritesBack, CopyBack, StoreVersion, Unlock, WriteBackPC
<1>3. commits' = commits
  BY <1>2, CommitsKept DEF Commits, WriteBackPC
<1>4. DistinctWords(t) /\ wv[t] < VersionModulus
  BY <1>1, <1>2, ConstantsAssumption DEF WriteBack, Stamps, Stamped, TypeOK
<1>5. CASE CopyBack(t)
  BY <1>1, <1>2, <1>3, <1>5, CopyBackSeen DEF WriteBackPC
<1>6. CASE StoreVersion(t)
  BY <1>1, <1>2, <1>3, <1>4, <1>6, StoreVersionSeen DEF WriteBackPC
<1>7. CASE Unlock(t)
  BY <1>1, <1>2, <1>3, <1>7, UnlockSeen DEF WriteBackPC
<1> QED BY <1>5, <1>6, <1>7 DEF WritesBack

---------------------------------------------------------------------------
(* The invariant is preserved, part by part.                               *)

Premise(t) ==
  /\ HistoryTypeOK /\ CursorInv /\ LockInv /\ Isolation
  /\ HStep(t) /\ HistoryTypeOK'
  /\ clock < VersionModulus /\ clock' < VersionModulus

LEMMA KindsOfPremise ==
  ASSUME NEW t \in Tx, Premise(t)
  PROVE  /\ TypeOK /\ TypeOK' /\ CursorsOnLists(t) /\ Record(t)
         /\ Rests(t) \/ Draws(t) \/ TakesEffect(t) \/ WritesBack(t)
BY StepKinds DEF Premise, HistoryTypeOK, CursorInv, HStep, Isolation

\* In what ways the stamp of t may change.
LEMMA StampChange ==
  ASSUME NEW t \in Tx, Premise(t)
  PROVE  /\ clock \in Nat /\ clock' \in {clock, clock + 1}
         /\ rv'[t] \in {0, rv[t], clock}
         /\ Stamped(t)' => \/ wv'[t] = clock + 1 /\ clock' = clock + 1 /\ rv'[t] = rv[t]
                           \/ Stamped(t) /\ wv'[t] = wv[t] /\ rv'[t] = rv[t]
<1>1. TypeOK /\ clock \in Nat
  BY KindsOfPremise DEF TypeOK
<1>2. CASE Rests(t)
  BY <1>1, <1>2 DEF Rests
<1>3. CASE Draws(t)
  BY <1>1, <1>3 DEF Draws
<1>4. CASE TakesEffect(t)
  BY <1>1, <1>4 DEF TakesEffect, Stamped
<1>5. CASE WritesBack(t)
  <2>1. /\ clock' = clock /\ rv'[t] \in {0, rv[t]}
        /\ pc[t] \in WriteBackPC /\ pc'[t] \in {"idle"} \cup WriteBackPC
        /\ pc'[t] # "idle" => wv'[t] = wv[t] /\ rv'[t] = rv[t]
    BY <1>5, KindsOfPremise, WriteBackSeen DEF Premise, Isolation
  <2> QED BY <1>1, <2>1 DEF Stamped, WriteBackPC
<1> QED BY <1>2, <1>3, <1>4, <1>5, KindsOfPremise

LEMMA StampsNext ==
  ASSUME NEW t \in Tx, Premise(t)
  PROVE  Stamps'
<1>1. TypeOK /\ TypeOK' /\ HistoryTypeOK /\ HStep(t) /\ Stamps
  BY KindsOfPremise DEF Premise, Isolation
<1>2. \A u \in Tx \ {t} : Stamped(u)' = Stamped(u) /\ wv'[u] = wv[u] /\ rv'[u] = rv[u]
  BY <1>1, OthersClaims
<1>3. \A u \in Tx : rv'[u] \in Nat /\ rv[u] \in Nat /\ wv[u] \in Nat /\ wv'[u] \in Nat
  BY <1>1 DEF TypeOK
<1>4. \A u \in Tx : rv'[u] <= clock'
  BY <1>1, <1>2, <1>3, StampChange DEF Stamps
<1>5. \A u \in Tx : Stamped(u)' => wv'[u] \in 1..clock' /\ rv'[u] < wv'[u]
  BY <1>1, <1>2, <1>3, StampChange DEF Stamps
<1>6. \A u, v \in Tx : Stamped(u)' /\ Stamped(v)' /\ wv'[u] = wv'[v] => u = v
  <2>1. \A u \in Tx \ {t} : Stamped(u)' /\ Stamped(t)' => wv'[u] # wv'[t]
    BY <1>1, <1>2, <1>3, StampChange DEF Stamps
  <2> QED BY <1>1, <1>2, <2>1 DEF Stamps
<1> QED BY <1>4, <1>5, <1>6 DEF Stamps

\* Whether a commit is added, and which.
LEMMA CommitChange ==
  ASSUME NEW t \in Tx, Premise(t)
  PROVE  commits' = commits \/ TakesEffect(t)
<1>1. CASE WritesBack(t)
  BY <1>1, KindsOfPremise, WriteBackSeen DEF Premise, Isolation
<1> QED BY <1>1, KindsOfPremise DEF Rests, Draws

\* A commit has the timestamp of its thread, which no other has; the words are
\* claimed by then, and every earlier commit to them is older.
LEMMA NewTimestamp ==
  ASSUME NEW t \in Tx, Premise(t), TakesEffect(t)
  PROVE  /\ wv'[t] \in 1..clock' /\ rv[t] < wv'[t]
         /\ \A c \in commits : c.ts # wv'[t]
         /\ \A u \in Tx \ {t} : Stamped(u) => wv[u] # wv'[t]
         /\ \A w \in WriteSet(t) : \A c \in commits : w \in DOMAIN c.writes => c.ts < wv'[t]
<1>1. /\ TypeOK /\ TypeOK' /\ clock \in Nat /\ LockInv
      /\ Stamps /\ CommitTimes /\ CommitOrder /\ HStep(t) /\ HistoryTypeOK
  BY KindsOfPremise DEF Premise, Isolation, TypeOK
<1>2. CASE pc[t] = "inc" /\ clock' = clock + 1 /\ wv'[t] = clock + 1
  <2>1. rv[t] \in Nat /\ rv[t] <= clock
    BY <1>1 DEF Stamps, TypeOK
  <2>2. \A c \in commits : c.ts \in 1..clock
    BY <1>1 DEF CommitTimes
  <2>3. \A u \in Tx : Stamped(u) => wv[u] \in 1..clock
    BY <1>1 DEF Stamps
  <2> QED BY <1>1, <1>2, <2>1, <2>2, <2>3
<1>3. CASE pc[t] = "valversion" /\ clock' = clock /\ wv'[t] = wv[t]
  <2>1. Stamped(t) /\ Claims(t) = WriteSet(t) /\ pc[t] \notin WriteBackPC
    BY <1>1, <1>3, AllHeld DEF Stamped, WriteBackPC
  <2>2. wv'[t] \in 1..clock' /\ rv[t] < wv'[t]
    BY <1>1, <1>3, <2>1 DEF Stamps
  <2>3. \A c \in commits : c.ts # wv'[t]
    BY <1>1, <1>3, <2>1 DEF CommitOrder
  <2>4. \A u \in Tx \ {t} : Stamped(u) => wv[u] # wv'[t]
    BY <1>1, <1>3, <2>1 DEF Stamps
  <2>5. \A w \in WriteSet(t) : \A c \in commits : w \in DOMAIN c.writes => c.ts <= wv'[t]
    BY <1>1, <1>3, <2>1 DEF CommitOrder
  <2> QED BY <1>1, <2>2, <2>3, <2>4, <2>5 DEF CommitTimes
<1> QED BY <1>2, <1>3 DEF TakesEffect

LEMMA CommitTimesNext ==
  ASSUME NEW t \in Tx, Premise(t)
  PROVE  CommitTimes'
<1>1. CommitTimes /\ clock \in Nat /\ clock' \in {clock, clock + 1}
  BY StampChange DEF Premise, Isolation
<1>2. CASE commits' = commits
  BY <1>1, <1>2 DEF CommitTimes
<1>3. CASE TakesEffect(t)
  <2> DEFINE c == [ts |-> wv'[t], reads |-> obs[t], writes |-> PendingWrites(t)]
  <2>1. commits' = commits \cup {c}
    BY <1>3 DEF TakesEffect
  <2>2. c.ts \in 1..clock' /\ \A d \in commits : d.ts # c.ts
    BY <1>3, NewTimestamp
  <2>3. \A d \in commits : d.ts \in 1..clock'
    BY <1>1 DEF CommitTimes
  <2> HIDE DEF c
  <2> QED BY <1>1, <2>1, <2>2, <2>3 DEF CommitTimes
<1> QED BY <1>2, <1>3, CommitChange

\* In what ways the claims of t may change: it claims only words it had locked
\* before, so none that another thread claims.
LEMMA ClaimChange ==
  ASSUME NEW t \in Tx, Premise(t)
  PROVE  /\ Draws(t) \/ TakesEffect(t) \/ Claims(t)' \subseteq Claims(t)
         /\ Claims(t)' \subseteq WriteSet(t)
         /\ \A u \in Tx \ {t} : Claims(u)' = Claims(u) /\ Dirty(u)' = Dirty(u)
         /\ \A u \in Tx \ {t} : Claims(t)' \cap Claims(u) = {}
         /\ Dirty(t)' \subseteq Claims(t)'
         /\ IF TakesEffect(t) THEN Dirty(t) = {} /\ Dirty(t)' = WriteSet(t)
                              ELSE Dirty(t)' \subseteq Dirty(t)
<1>1. /\ TypeOK /\ TypeOK' /\ LockInv /\ HistoryTypeOK /\ HStep(t) /\ Record(t)
      /\ Stamps /\ WriteBack /\ CursorsOnLists(t) /\ clock < VersionModulus
  BY KindsOfPremise DEF Premise, Isolation, CursorInv
<1>2. \A u \in Tx \ {t} : Claims(u)' = Claims(u) /\ Dirty(u)' = Dirty(u)
  BY <1>1, OthersClaims
<1>3. Dirty(t)' \subseteq Claims(t)'
  BY DEF Dirty, DirtyNodes, Claims, HeldNodes, Stamped
<1>4. CASE Rests(t)
  <2>1. Dirty(t)' = {} /\ Dirty(t) = {} /\ ~ TakesEffect(t)
    BY <1>4 DEF Rests, Dirty, DirtyNodes, TakesEffect, WriteBackPC
  <2>2. CASE ~ Stamped(t)'
    <3>1. Claims(t)' = {}
      BY <2>2 DEF Claims
    <3> QED BY <1>2, <1>3, <2>1, <3>1
  <2>3. CASE Stamped(t)' /\ Stamped(t) /\ writes'[t] = writes[t]
    <3>1. pc[t] \in {"valversion", "vallock"}
      BY <1>4, <2>3 DEF Rests, Stamped
    <3>2. Claims(t) = WriteSet(t)
      BY <1>1, <3>1, AllHeld
    <3>3. Claims(t)' \subseteq WriteSet(t)
      BY <2>3 DEF Claims, HeldNodes, WriteSet, NodeWord
    <3> QED BY <1>1, <1>2, <1>3, <2>1, <3>2, <3>3, ClaimsDisjoint
  <2> QED BY <1>4, <2>2, <2>3 DEF Rests
<1>5. CASE Draws(t)
  <2>1. Dirty(t)' = {} /\ Dirty(t) = {} /\ ~ TakesEffect(t)
    BY <1>5 DEF Draws, Dirty, DirtyNodes, TakesEffect, WriteBackPC
  <2>2. Claims(t)' \subseteq WriteSet(t)
    BY <1>5 DEF Draws, Claims, HeldNodes, WriteSet, NodeWord
  <2>3. \A w \in WriteSet(t) : \A u \in Tx \ {t} : w \notin Claims(u)
    BY <1>1, <1>5, AllHeld DEF Draws
  <2> QED BY <1>2, <1>3, <1>5, <2>1, <2>2, <2>3
<1>6. CASE TakesEffect(t)
  <2>1. Dirty(t) = {}
    BY <1>6 DEF TakesEffect, Dirty, DirtyNodes, WriteBackPC
  <2>2. Claims(t)' \subseteq WriteSet(t)
    BY <1>6 DEF TakesEffect, Claims, HeldNodes, WriteSet, NodeWord
  <2>3. \A w \in WriteSet(t) : \A u \in Tx \ {t} : w \notin Claims(u)
    BY <1>1, <1>6, AllHeld DEF TakesEffect
  <2>4. DirtyNodes(t)' = DOMAIN writes[t]
    BY <1>1, <1>6 DEF TakesEffect, DirtyNodes, WriteBackPC, TypeOK
  <2>5. Dirty(t)' = WriteSet(t)
    BY <1>6, <2>4 DEF TakesEffect, Dirty, WriteSet, NodeWord
  <2> QED BY <1>2, <1>3, <1>6, <2>1, <2>2, <2>3, <2>5
<1>7. CASE WritesBack(t)
  <2>1. /\ Claims(t)' \subseteq Claims(t) /\ Dirty(t)' \subseteq Dirty(t)
        /\ pc[t] \in WriteBackPC
    BY <1>1, <1>7, WriteBackSeen
  <2>2. ~ TakesEffect(t)
    BY <2>1 DEF TakesEffect, WriteBackPC
  <2>3. Claims(t) \subseteq WriteSet(t)
    BY <1>1, ClaimsAreWritten
  <2> QED BY <1>1, <1>2, <1>3, <2>1, <2>2, <2>3, ClaimsDisjoint
<1> QED BY <1>4, <1>5, <1>6, <1>7, KindsOfPremise

\* In the write-back the thread was there before or has just committed.
LEMMA InWriteBack ==
  ASSUME NEW t \in Tx, Premise(t), pc'[t] \in WriteBackPC
  PROVE  /\ writes'[t] = writes[t]
         /\ TakesEffect(t) \/ (pc[t] \in WriteBackPC /\ wv'[t] = wv[t] /\ WritesBack(t))
<1>1. CASE WritesBack(t)
  BY <1>1, KindsOfPremise, WriteBackSeen DEF Premise, Isolation, WriteBackPC
<1> QED BY <1>1, KindsOfPremise DEF Rests, Draws, TakesEffect, WriteBackPC

LEMMA CommitOrderNext ==
  ASSUME NEW t \in Tx, Premise(t)
  PROVE  CommitOrder'
<1>1. /\ TypeOK /\ TypeOK' /\ LockInv /\ HistoryTypeOK /\ HStep(t)
      /\ Stamps /\ CommitTimes /\ CommitOrder /\ clock \in Nat
  BY KindsOfPremise DEF Premise, Isolation, TypeOK
<1>2. \A u \in Tx \ {t} :
        /\ Stamped(u)' = Stamped(u) /\ wv'[u] = wv[u] /\ pc'[u] = pc[u]
        /\ PendingWrites(u)' = PendingWrites(u)
  BY <1>1, OthersClaims, OthersKept DEF Kept
<1> DEFINE c == [ts |-> wv'[t], reads |-> obs[t], writes |-> PendingWrites(t)]
<1>3. commits' = commits \/ (TakesEffect(t) /\ commits' = commits \cup {c})
  BY CommitChange DEF TakesEffect
<1>4. TakesEffect(t) => /\ \A d \in commits : d.ts # c.ts
                        /\ \A u \in Tx \ {t} : Stamped(u) => wv[u] # c.ts
                        /\ pc'[t] \in WriteBackPC
                        /\ \A w \in WriteSet(t) : \A d \in commits :
                             w \in DOMAIN d.writes => d.ts <= c.ts
                        /\ DOMAIN c.writes = WriteSet(t) /\ c.ts = wv'[t]
  <2>1. HAVE TakesEffect(t)
  <2>2. \A d \in commits : d.ts \in Nat
    BY <1>1 DEF CommitTimes
  <2>3. wv'[t] \in Nat
    BY <1>1 DEF TypeOK
  <2>4. pc'[t] \in WriteBackPC
    BY <2>1 DEF TakesEffect, WriteBackPC
  <2> QED BY <2>1, <2>2, <2>3, <2>4, NewTimestamp DEF PendingWrites
<1>5. c.writes = PendingWrites(t)
  OBVIOUS
<1> HIDE DEF c
<1>6. \A u \in Tx, d \in commits' : Stamped(u)' /\ d.ts = wv'[u] => pc'[u] \in WriteBackPC
  <2> SUFFICES ASSUME NEW u \in Tx, NEW d \in commits', Stamped(u)', d.ts = wv'[u]
               PROVE  pc'[u] \in WriteBackPC
    OBVIOUS
  <2>1. CASE u # t
    BY <1>1, <1>2, <1>3, <1>4, <2>1 DEF CommitOrder
  <2>2. CASE u = t /\ ~ TakesEffect(t)
    <3>1. d \in commits
      BY <1>3, <2>2
    <3>2. d.ts <= clock
      BY <1>1, <3>1 DEF CommitTimes
    <3>3. Stamped(t) /\ wv'[t] = wv[t]
      BY <1>1, <2>2, <3>2, StampChange
    <3>4. pc[t] \in WriteBackPC
      BY <1>1, <2>2, <3>1, <3>3 DEF CommitOrder
    <3>5. pc'[t] \in {"idle"} \cup WriteBackPC
      BY <3>4, KindsOfPremise, WriteBackSeen
         DEF Premise, Isolation, Rests, Draws, TakesEffect, WriteBackPC
    <3> QED BY <2>2, <3>5 DEF Stamped, WriteBackPC
  <2> QED BY <1>4, <2>1, <2>2
<1>7. \A u \in Tx : pc'[u] \in WriteBackPC =>
        \E d \in commits' : d.ts = wv'[u] /\ d.writes = PendingWrites(u)'
  <2> SUFFICES ASSUME NEW u \in Tx, pc'[u] \in WriteBackPC
               PROVE  \E d \in commits' : d.ts = wv'[u] /\ d.writes = PendingWrites(u)'
    OBVIOUS
  <2>1. CASE u # t
    BY <1>1, <1>2, <1>3, <2>1 DEF CommitOrder
  <2>2. CASE u = t
    <3>1. PendingWrites(t)' = PendingWrites(t)
      <4>1. writes'[t] = writes[t]
        BY <2>2, InWriteBack
      <4> QED BY <4>1 DEF PendingWrites, WriteSet, Pending, getWriteNode, NodeWord
    <3>2. CASE TakesEffect(t)
      <4>1. c \in commits' /\ c.ts = wv'[t]
        BY <1>4, <3>2 DEF TakesEffect, c
      <4> QED BY <1>5, <2>2, <3>1, <4>1
    <3>3. CASE ~ TakesEffect(t)
      BY <1>1, <1>3, <2>2, <3>1, <3>3, InWriteBack DEF CommitOrder
    <3> QED BY <3>2, <3>3
  <2> QED BY <2>1, <2>2
<1>8. \A u \in Tx, d \in commits' : \A w \in Claims(u)' : w \in DOMAIN d.writes => d.ts <= wv'[u]
  <2> SUFFICES ASSUME NEW u \in Tx, NEW d \in commits', NEW w \in Claims(u)',
                      w \in DOMAIN d.writes
               PROVE  d.ts <= wv'[u]
    OBVIOUS
  <2>1. CASE u # t
    <3>1. w \in Claims(u)
      BY <2>1, ClaimChange
    <3>2. CASE d \in commits
      BY <1>1, <1>2, <2>1, <3>1, <3>2 DEF CommitOrder
    <3>3. CASE TakesEffect(t) /\ d = c
      BY <1>1, <1>4, <2>1, <3>1, <3>3, AllHeld DEF TakesEffect
    <3> QED BY <1>3, <3>2, <3>3
  <2>2. CASE u = t /\ TakesEffect(t)
    <3>1. w \in WriteSet(t)
      BY <2>2, ClaimChange
    <3>2. wv'[t] \in Nat
      BY <1>1 DEF TypeOK
    <3> QED BY <1>3, <1>4, <2>2, <3>1, <3>2
  <2>3. CASE u = t /\ ~ TakesEffect(t)
    <3>1. d \in commits /\ d.ts \in 1..clock
      BY <1>1, <1>3, <2>3 DEF CommitTimes
    <3>2. CASE Draws(t)
      BY <1>1, <2>3, <3>1, <3>2 DEF Draws
    <3>3. CASE ~ Draws(t)
      <4>1. w \in Claims(t) /\ d.ts <= wv[t]
        BY <1>1, <2>3, <3>1, <3>3, ClaimChange DEF CommitOrder
      <4>2. Stamped(t)'
        BY <2>3 DEF Claims
      <4> QED BY <1>1, <2>3, <3>1, <4>1, <4>2, StampChange
    <3> QED BY <3>2, <3>3
  <2> QED BY <2>1, <2>2, <2>3
<1> QED BY <1>6, <1>7, <1>8 DEF CommitOrder

\* What the present holds changes with a commit only, and for its words.
LEMMA PresentKept ==
  ASSUME NEW t \in Tx, Premise(t)
  PROVE  \A w : ~ (TakesEffect(t) /\ w \in WriteSet(t)) =>
           /\ TimestampAt(w, clock)' = TimestampAt(w, clock)
           /\ ValueAt(w, clock)' = ValueAt(w, clock)
<1> TAKE w
<1> HAVE ~ (TakesEffect(t) /\ w \in WriteSet(t))
<1>1. CommitTimes /\ clock \in Nat /\ clock' \in Nat /\ clock' >= clock
  BY StampChange DEF Premise, Isolation
<1>2. \A n : TimestampAt(w, n)' = TimestampAt(w, n) /\ ValueAt(w, n)' = ValueAt(w, n)
  <2>1. CASE commits' = commits
    BY <2>1, HistoryKept
  <2>2. CASE TakesEffect(t)
    <3> DEFINE c == [ts |-> wv'[t], reads |-> obs[t], writes |-> PendingWrites(t)]
    <3>1. commits' = commits \cup {c} /\ w \notin DOMAIN c.writes
      BY <2>2 DEF TakesEffect, PendingWrites
    <3> HIDE DEF c
    <3> QED BY <3>1, HistoryBefore
  <2> QED BY <2>1, <2>2, CommitChange
<1>3. TimestampAt(w, clock') = TimestampAt(w, clock) /\ ValueAt(w, clock') = ValueAt(w, clock)
  BY <1>1, NothingAfter
<1> QED BY <1>2, <1>3

\* A claimed word was last written by its claimant, once that has committed.
LEMMA CommittedWord ==
  ASSUME TypeOK, CommitTimes, CommitOrder, NEW t \in Tx, pc[t] \in WriteBackPC
  PROVE  \A w \in Claims(t) :
           TimestampAt(w, clock) = wv[t] /\ ValueAt(w, clock) = Pending(t, w)
<1> TAKE w \in Claims(t)
<1>1. PICK c \in commits : c.ts = wv[t] /\ c.writes = PendingWrites(t)
  BY DEF CommitOrder
<1>2. w \in WriteSet(t)
  BY ClaimsAreWritten
<1>3. c.ts <= clock /\ w \in DOMAIN c.writes /\ c.writes[w] = Pending(t, w)
  BY <1>1, <1>2 DEF CommitTimes, PendingWrites, TypeOK
<1>4. c \in Writers(w, clock) /\ \A d \in Writers(w, clock) : d.ts <= c.ts
  BY <1>1, <1>3 DEF Writers, TM!WritersUpTo, CommitOrder
<1> QED BY <1>1, <1>3, <1>4, LastCommit

\* A version changes only when it is stored for a dirty word.
LEMMA VersionChange ==
  ASSUME NEW t \in Tx, Premise(t)
  PROVE  \/ version' = version
         \/ /\ StoreVersion(t) /\ pc[t] \in WriteBackPC /\ pc'[t] \in WriteBackPC
            /\ CurWord(t) \in Word /\ CurWord(t) \in Dirty(t) /\ CurWord(t) \notin Dirty(t)'
            /\ version' = [version EXCEPT ![CurWord(t)] = wv[t]] /\ mem' = mem
<1>1. /\ TypeOK /\ CursorsOnLists(t) /\ HistoryTypeOK /\ Stamps /\ WriteBack
      /\ clock < VersionModulus /\ clock \in Nat /\ VersionModulus \in Nat
  BY KindsOfPremise, ConstantsAssumption DEF Premise, Isolation, TypeOK
<1>2. CASE Rests(t) \/ Draws(t) \/ TakesEffect(t)
  BY <1>2 DEF Rests, Draws, TakesEffect
<1>3. CASE CopyBack(t)
  BY <1>1, <1>3, CopyBackSeen
<1>4. CASE Unlock(t)
  BY <1>1, <1>4, UnlockSeen
<1>5. CASE StoreVersion(t)
  <2>1. pc[t] \in WriteBackPC
    BY <1>5 DEF StoreVersion, WriteBackPC
  <2>2. DistinctWords(t) /\ wv[t] < VersionModulus
    BY <1>1, <2>1 DEF WriteBack, Stamps, Stamped
  <2> QED BY <1>1, <1>5, <2>1, <2>2, StoreVersionSeen DEF WriteBackPC
<1> QED BY <1>2, <1>3, <1>4, <1>5, KindsOfPremise DEF WritesBack

\* A word stays dirty until its version is stored.
LEMMA DirtyUntilStored ==
  ASSUME NEW t \in Tx, Premise(t)
  PROVE  \A w \in Word : version'[w] = version[w] =>
           \A u \in Tx : w \in Dirty(u) => w \in Dirty(u)'
<1> TAKE w \in Word
<1> HAVE version'[w] = version[w]
<1> SUFFICES ASSUME w \in Dirty(t) PROVE w \in Dirty(t)'
  BY ClaimChange
<1>1. /\ TypeOK /\ CursorsOnLists(t) /\ HistoryTypeOK /\ Stamps /\ WriteBack /\ Memory
      /\ clock < VersionModulus /\ clock \in Nat /\ VersionModulus \in Nat
  BY KindsOfPremise, ConstantsAssumption DEF Premise, Isolation, TypeOK
<1>2. pc[t] \in WriteBackPC
  BY DirtyClaimed
<1>3. CASE CopyBack(t) \/ Unlock(t)
  BY <1>1, <1>3, CopyBackSeen, UnlockSeen
<1>4. CASE StoreVersion(t)
  <2>1. DistinctWords(t) /\ wv[t] < VersionModulus
    BY <1>1, <1>2 DEF WriteBack, Stamps, Stamped
  <2>2. Dirty(t)' = Dirty(t) \ {CurWord(t)}
        /\ version' = [version EXCEPT ![CurWord(t)] = wv[t]]
    BY <1>1, <1>4, <2>1, StoreVersionSeen
  <2>3. version[w] < wv[t] /\ version[w] \in Nat
    BY <1>1 DEF Memory, TypeOK
  <2>4. w # CurWord(t)
    BY <1>1, <2>2, <2>3 DEF TypeOK
  <2> QED BY <2>2, <2>4
<1> QED BY <1>2, <1>3, <1>4, KindsOfPremise
        DEF WritesBack, Rests, Draws, TakesEffect, WriteBackPC

LEMMA MemoryNext ==
  ASSUME NEW t \in Tx, Premise(t)
  PROVE  Memory'
<1>1. /\ TypeOK /\ TypeOK' /\ LockInv /\ CursorsOnLists(t)
      /\ Stamps /\ CommitTimes /\ CommitOrder /\ Memory /\ WriteBack /\ clock \in Nat
  BY KindsOfPremise DEF Premise, Isolation, TypeOK
<1>2. ASSUME NEW w \in Word, \A u \in Tx : w \notin Dirty(u)'
      PROVE  version'[w] = TimestampAt(w, clock)' /\ mem'[w] = ValueAt(w, clock)'
  <2>1. ~ (TakesEffect(t) /\ w \in WriteSet(t))
    BY <1>2, ClaimChange
  <2>2. /\ TimestampAt(w, clock)' = TimestampAt(w, clock)
        /\ ValueAt(w, clock)' = ValueAt(w, clock)
    BY <2>1, PresentKept
  <2>3. CASE StoreVersion(t) /\ w = CurWord(t) /\ version' # version
    <3>1. /\ pc[t] = "storeversion" /\ pc[t] \in WriteBackPC /\ mem' = mem
          /\ w \in Claims(t) /\ version'[w] = wv[t]
      <4>1. /\ pc[t] \in WriteBackPC /\ CurWord(t) \in Dirty(t) /\ mem' = mem
            /\ version' = [version EXCEPT ![CurWord(t)] = wv[t]]
        BY <2>3, VersionChange
      <4>2. CurWord(t) \in Claims(t)
        BY <4>1, DirtyClaimed
      <4>3. pc[t] = "storeversion"
        BY <2>3 DEF StoreVersion
      <4>4. version'[w] = wv[t]
        BY <1>1, <2>3, <4>1 DEF TypeOK
      <4> QED BY <2>3, <4>1, <4>2, <4>3, <4>4
    <3>2. TimestampAt(w, clock) = wv[t] /\ ValueAt(w, clock) = Pending(t, w)
      BY <1>1, <3>1, CommittedWord
    <3>3. cur[t] \in DOMAIN writes[t]
      BY <1>1, <3>1 DEF CursorsOnLists, TypeOK
    <3>4. Pending(t, w) = writes[t][cur[t]].value
      BY <1>1, <2>3, <3>1, <3>3, PendingOfNode DEF WriteBack, CurWord
    <3>5. mem[w] = writes[t][cur[t]].value
      BY <1>1, <2>3, <3>1 DEF WriteBack
    <3> QED BY <2>2, <3>1, <3>2, <3>4, <3>5
  <2>4. CASE ~ (StoreVersion(t) /\ w = CurWord(t) /\ version' # version)
    <3>1. version'[w] = version[w]
      <4>1. version \in [Word -> Nat]
        BY <1>1 DEF TypeOK
      <4>2. \/ version' = version
            \/ StoreVersion(t) /\ version' = [version EXCEPT ![CurWord(t)] = wv[t]]
        BY VersionChange
      <4> QED BY <2>4, <4>1, <4>2
    <3>2. mem'[w] = mem[w]
      <4>1. CASE CopyBack(t)
        BY <1>1, <1>2, <4>1, CopyBackSeen
      <4>2. CASE ~ CopyBack(t)
        BY <4>2, KindsOfPremise
           DEF Rests, Draws, TakesEffect, WritesBack, StoreVersion, Unlock
      <4> QED BY <4>1, <4>2
    <3>3. \A u \in Tx : w \notin Dirty(u)
      BY <1>2, <3>1, DirtyUntilStored
    <3> QED BY <1>1, <2>2, <3>1, <3>2, <3>3 DEF Memory
  <2> QED BY <2>3, <2>4
<1>3. ASSUME NEW u \in Tx, NEW w \in Dirty(u)'
      PROVE  version'[w] < wv'[u]
  <2>1. CASE u = t /\ TakesEffect(t)
    <3>1. w \in WriteSet(t) /\ w \in Word /\ version' = version
      BY <1>1, <1>3, <2>1, ClaimChange, ClaimsAreWritten DEF TakesEffect
    <3>2. \A v \in Tx : w \notin Dirty(v)
      BY <1>1, <2>1, <3>1, AllHeld, DirtyClaimed, ClaimChange DEF TakesEffect
    <3>3. version[w] = TimestampAt(w, clock)
      BY <1>1, <3>1, <3>2 DEF Memory
    <3>4. wv'[t] \in 1..clock' /\ clock' \in Nat
      BY <1>1, <2>1, NewTimestamp DEF TypeOK
    <3>5. version[w] < wv'[t]
      BY <1>1, <2>1, <3>1, <3>3, <3>4, NewTimestamp, TimestampIsOfCommit
    <3> QED BY <2>1, <3>1, <3>5
  <2>2. CASE ~ (u = t /\ TakesEffect(t))
    <3>1. w \in Dirty(u)
      BY <1>3, <2>2, ClaimChange
    <3>2. wv'[u] = wv[u]
      <4>1. CASE u = t
        <5>1. pc'[t] \in WriteBackPC
          BY <1>3, <4>1 DEF Dirty, DirtyNodes
        <5> QED BY <2>2, <4>1, <5>1, InWriteBack
      <4>2. CASE u # t
        BY <4>2, OthersClaims DEF Premise
      <4> QED BY <4>1, <4>2
    <3>3. version'[w] = version[w]
      <4>1. CASE version' = version
        BY <4>1
      <4>2. CASE /\ CurWord(t) \in Dirty(t) /\ CurWord(t) \notin Dirty(t)'
                 /\ version' = [version EXCEPT ![CurWord(t)] = wv[t]]
        <5>1. w # CurWord(t)
          BY <1>1, <1>3, <3>1, <4>2, DirtyClaimed, ClaimsDisjoint
        <5>2. w \in Word
          BY <1>1, <3>1, DirtyClaimed, ClaimsAreWritten
        <5> QED BY <1>1, <4>2, <5>1, <5>2 DEF TypeOK
      <4> QED BY <4>1, <4>2, VersionChange
    <3> QED BY <1>1, <3>1, <3>2, <3>3 DEF Memory
  <2> QED BY <2>1, <2>2
<1> QED BY <1>2, <1>3 DEF Memory

\* A step of t leaves the words alone that another thread is writing back.
LEMMA OthersWrittenBack ==
  ASSUME NEW t \in Tx, Premise(t), NEW u \in Tx \ {t}, pc[u] \in WriteBackPC
  PROVE  mem'[CurWord(u)] = mem[CurWord(u)]
<1>1. TypeOK /\ LockInv /\ CursorsOnLists(t) /\ CursorsOnLists(u)
  BY KindsOfPremise DEF Premise, CursorInv
<1>2. CurWord(u) \in Claims(u)
  <2>1. cur[u] \in DOMAIN writes[u] /\ cur[u] \in Nat
    BY <1>1 DEF CursorsOnLists, TypeOK
  <2>2. cur[u] \in HeldNodes(u) /\ Stamped(u)
    BY <2>1 DEF HeldNodes, Stamped
  <2> QED BY <2>2 DEF Claims, CurWord
<1>3. CASE CopyBack(t)
  <2>1. CurWord(u) # CurWord(t) /\ CurWord(u) \in Word
    BY <1>1, <1>2, <1>3, CopyBackSeen, DirtyClaimed, ClaimsDisjoint, ClaimsAreWritten
  <2> QED BY <1>1, <1>3, <2>1, CopyBackSeen
<1>4. CASE ~ CopyBack(t)
  BY <1>4, KindsOfPremise DEF Rests, Draws, TakesEffect, WritesBack, StoreVersion, Unlock
<1> QED BY <1>3, <1>4

LEMMA WriteBackCursor ==
  ASSUME TypeOK, NEW t \in Tx, CursorsOnLists(t), pc[t] \in WriteBackPC
  PROVE  cur[t] \in DOMAIN writes[t]
BY DEF CursorsOnLists, TypeOK

LEMMA WriteBackNext ==
  ASSUME NEW t \in Tx, Premise(t)
  PROVE  WriteBack'
<1>1. /\ TypeOK /\ TypeOK' /\ LockInv /\ CursorsOnLists(t) /\ WriteBack
      /\ HistoryTypeOK /\ HStep(t)
  BY KindsOfPremise DEF Premise, Isolation
<1> SUFFICES ASSUME NEW u \in Tx
             PROVE  /\ pc'[u] \in WriteBackPC => DistinctWords(u)'
                    /\ pc'[u] = "copyback" => \A k \in Unit \ left'[u] :
                         mem'[CurWord(u)'][k] = writes'[u][cur'[u]].value[k]
                    /\ pc'[u] = "storeversion" =>
                         mem'[CurWord(u)'] = writes'[u][cur'[u]].value
  BY DEF WriteBack
<1>2. CASE u # t
  <2>1. Kept(u) /\ CurWord(u)' = CurWord(u) /\ DistinctWords(u)' = DistinctWords(u)
    BY <1>1, <1>2, OthersKept DEF Kept, CurWord, NodeWord, DistinctWords
  <2>2. pc[u] \in WriteBackPC => mem'[CurWord(u)] = mem[CurWord(u)]
    BY <1>2, OthersWrittenBack
  <2> QED BY <1>1, <2>1, <2>2 DEF Kept, WriteBack, WriteBackPC
<1>3. CASE u = t /\ TakesEffect(t)
  <2>1. DistinctWords(t)
    BY <1>1, <1>3, AllHeld DEF TakesEffect
  <2> QED BY <1>3, <2>1 DEF TakesEffect, DistinctWords, NodeWord
<1>4. CASE u = t /\ WritesBack(t) /\ pc'[t] \in WriteBackPC
  <2>1. writes'[t] = writes[t] /\ pc[t] \in WriteBackPC
    BY <1>4, InWriteBack DEF TakesEffect, WritesBack, CopyBack, StoreVersion, Unlock,
                             WriteBackPC
  <2>2. DistinctWords(t) /\ DistinctWords(t)'
    BY <1>1, <2>1 DEF WriteBack, DistinctWords, NodeWord
  <2>3. CASE StoreVersion(t)
    BY <1>1, <1>4, <2>2, <2>3 DEF StoreVersion, Goto, TypeOK
  <2>4. CASE Unlock(t)
    BY <1>1, <1>4, <2>2, <2>4, UnlockSeen DEF WriteBackPC
  <2>5. CASE CopyBack(t)
    <3> DEFINE w == CurWord(t)
               value == writes[t][cur[t]].value
    <3>1. PICK k \in left[t] :
            /\ mem' = [mem EXCEPT ![w][k] = value[k]]
            /\ left' = [left EXCEPT ![t] = @ \ {k}]
            /\ Goto(t, IF left[t] = {k} THEN "storeversion" ELSE "copyback")
      BY <2>5 DEF CopyBack
    <3>2. cur[t] \in DOMAIN writes[t] /\ pc[t] = "copyback" /\ cur'[t] = cur[t]
      <4>1. pc[t] = "copyback" /\ cur'[t] = cur[t]
        BY <1>1, <2>5, CopyBackSeen
      <4>2. cur[t] \in DOMAIN writes[t]
        BY <1>1, <2>1, WriteBackCursor
      <4> QED BY <4>1, <4>2
    <3>3. w \in Word /\ value \in Data /\ CurWord(t)' = w /\ mem[w] \in Data /\ k \in Unit
      BY <1>1, <2>1, <3>2, NodeType DEF CurWord, NodeWord, TypeOK
    <3>4. left'[t] = left[t] \ {k}
          /\ pc'[t] = IF left[t] = {k} THEN "storeversion" ELSE "copyback"
      BY <1>1, <3>1 DEF Goto, TypeOK
    <3>5. \A j \in Unit \ left[t] : mem[w][j] = value[j]
      BY <1>1, <3>2 DEF WriteBack
    <3>6. mem'[w] = [mem[w] EXCEPT ![k] = value[k]]
      BY <1>1, <3>1, <3>3 DEF TypeOK
    <3>7. \A j \in Unit \ left'[t] : mem'[w][j] = value[j]
      BY <3>3, <3>4, <3>5, <3>6 DEF Data
    <3>8. pc'[t] = "storeversion" => mem'[w] = value
      <4> HAVE pc'[t] = "storeversion"
      <4>1. left'[t] = {}
        BY <3>4
      <4>2. \A j \in Unit : mem'[w][j] = value[j]
        BY <3>7, <4>1
      <4>3. mem'[w] \in Data
        BY <1>1, <3>3 DEF TypeOK
      <4> HIDE DEF w, value
      <4> QED BY <3>3, <4>2, <4>3 DEF Data
    <3> HIDE DEF w
    <3> QED BY <1>4, <2>1, <2>2, <3>2, <3>3, <3>7, <3>8
  <2> QED BY <1>4, <2>3, <2>4, <2>5 DEF WritesBack
<1>5. CASE u = t /\ pc'[t] \notin WriteBackPC
  BY <1>5 DEF WriteBackPC
<1> QED BY <1>2, <1>3, <1>4, <1>5, InWriteBack

---------------------------------------------------------------------------
\* A step of t inside its transaction keeps what tm_begin has set, and the list
\* of reads grows by a read that succeeds only.
LEMMA InsideTransaction ==
  ASSUME TypeOK, NEW t \in Tx, Call(t) \/ Advance(t), pc[t] # "idle", pc'[t] # "idle"
  PROVE  /\ rv'[t] = rv[t] /\ isRo'[t] = isRo[t]
         /\ \/ reads'[t] = reads[t]
            \/ ~ isRo[t] /\ reads'[t] = Append(reads[t], word[t]) /\ pc'[t] = "active"
<1> USE DEF TypeOK, descriptor, Goto, cleanTransaction, shared
<1>1. ASSUME NEW ro \in BOOLEAN, tm_begin(t, ro) PROVE FALSE
  BY <1>1 DEF tm_begin
<1>2. ASSUME NEW w \in Word, tm_read(t, w)
      PROVE  rv'[t] = rv[t] /\ isRo'[t] = isRo[t] /\ reads'[t] = reads[t]
  BY <1>2 DEF tm_read
<1>3. ASSUME NEW w \in Word, NEW d \in Data, tm_write(t, w, d)
      PROVE  rv'[t] = rv[t] /\ isRo'[t] = isRo[t] /\ reads'[t] = reads[t]
  BY <1>3 DEF tm_write
<1>4. CASE EndWithoutWrites(t) \/ EndWithWrites(t)
  BY <1>4 DEF EndWithoutWrites, EndWithWrites
<1>5. CASE ReadLookup(t) \/ ReadCopy(t) \/ ReadCheckLock(t)
  BY <1>5 DEF ReadLookup, ReadCopy, ReadCheckLock
<1>6. CASE ReadCheckVersion(t)
  BY <1>6 DEF ReadCheckVersion
<1>7. CASE WriteInsert(t)
  BY <1>7 DEF WriteInsert
<1>8. CASE AcquireLock(t) \/ ReleaseLock(t) \/ AbortCommit(t)
  BY <1>8 DEF AcquireLock, ReleaseLock, AbortCommit, StartRelease
<1>9. CASE IncClock(t)
  BY <1>9 DEF IncClock
<1>10. CASE ValidateVersion(t) \/ ValidateLock(t) \/ ValidateDone(t)
  BY <1>10 DEF ValidateVersion, ValidateLock, ValidateDone
<1>11. CASE CopyBack(t) \/ StoreVersion(t) \/ Unlock(t)
  BY <1>11 DEF CopyBack, StoreVersion, Unlock
<1> QED BY <1>1, <1>2, <1>3, <1>4, <1>5, <1>6, <1>7, <1>8, <1>9, <1>10, <1>11
        DEF Call, Advance

---------------------------------------------------------------------------
\* A step of t changes what was true at a timestamp only by committing at it or
\* at an earlier one.
LEMMA PastKept ==
  ASSUME NEW t \in Tx, Premise(t)
  PROVE  \A w, n : ~ (TakesEffect(t) /\ w \in WriteSet(t) /\ wv'[t] <= n) =>
           TimestampAt(w, n)' = TimestampAt(w, n) /\ ValueAt(w, n)' = ValueAt(w, n)
<1> TAKE w, n
<1> HAVE ~ (TakesEffect(t) /\ w \in WriteSet(t) /\ wv'[t] <= n)
<1>1. CASE commits' = commits
  BY <1>1, HistoryKept
<1>2. CASE TakesEffect(t)
  <2> DEFINE c == [ts |-> wv'[t], reads |-> obs[t], writes |-> PendingWrites(t)]
  <2>1. commits' = commits \cup {c} /\ ~ (w \in DOMAIN c.writes /\ c.ts <= n)
    BY <1>2 DEF TakesEffect, PendingWrites
  <2> HIDE DEF c
  <2> QED BY <2>1, HistoryBefore
<1> QED BY <1>1, <1>2, CommitChange

\* A word that t claims from now on it will write at a timestamp after the
\* present, or has claimed before.
LEMMA ClaimTime ==
  ASSUME NEW t \in Tx, Premise(t)
  PROVE  \A w \in Claims(t)' : wv'[t] = clock + 1 \/ (w \in Claims(t) /\ wv'[t] = wv[t])
<1> TAKE w \in Claims(t)'
<1>1. Stamped(t)' /\ w \in WriteSet(t)
  <2>1. Stamped(t)'
    BY DEF Claims
  <2> QED BY <2>1, ClaimChange
<1>2. CASE Draws(t)
  BY <1>2 DEF Draws
<1>3. CASE TakesEffect(t)
  <2>1. CASE pc[t] = "valversion" /\ wv'[t] = wv[t]
    BY <1>1, <2>1, AllHeld DEF Premise
  <2> QED BY <1>3, <2>1 DEF TakesEffect
<1>4. CASE Claims(t)' \subseteq Claims(t)
  BY <1>1, <1>4, StampChange
<1> QED BY <1>2, <1>3, <1>4, ClaimChange

LEMMA VersionGrows ==
  ASSUME NEW t \in Tx, Premise(t)
  PROVE  \A w \in Word : version[w] <= version'[w]
<1> TAKE w \in Word
<1>1. TypeOK /\ Memory
  BY KindsOfPremise DEF Premise, Isolation
<1>2. CASE version' = version
  BY <1>1, <1>2 DEF TypeOK
<1>3. CASE CurWord(t) \in Dirty(t) /\ version' = [version EXCEPT ![CurWord(t)] = wv[t]]
  <2>1. version[CurWord(t)] < wv[t]
    BY <1>1, <1>3 DEF Memory
  <2> QED BY <1>1, <1>3, <2>1 DEF TypeOK
<1> QED BY <1>2, <1>3, VersionChange

\* Who claims a word that u has read in its snapshot commits after that.
LEMMA LaterClaims ==
  ASSUME NEW t \in Tx, Premise(t), NEW u \in Tx, rv'[u] = rv[u],
         NEW w, \A v \in Tx : w \in Claims(v) => rv[u] < wv[v]
  PROVE  \A v \in Tx : w \in Claims(v)' => rv'[u] < wv'[v]
<1> SUFFICES ASSUME NEW v \in Tx, w \in Claims(v)' PROVE rv'[u] < wv'[v]
  OBVIOUS
<1>1. CASE v = t
  <2>1. rv[u] <= clock /\ rv[u] \in Nat /\ clock \in Nat
    BY KindsOfPremise DEF Premise, Isolation, Stamps, TypeOK
  <2> QED BY <1>1, <2>1, ClaimTime
<1>2. CASE v # t
  BY <1>2, OthersClaims DEF Premise
<1> QED BY <1>1, <1>2

\* So the word stays the same in that snapshot.
LEMMA SnapshotKept ==
  ASSUME NEW t \in Tx, Premise(t), NEW u \in Tx, rv'[u] = rv[u],
         NEW w, \A v \in Tx : w \in Claims(v) => rv[u] < wv[v]
  PROVE  ValueAt(w, rv[u])' = ValueAt(w, rv[u])
<1>1. ~ (TakesEffect(t) /\ w \in WriteSet(t) /\ wv'[t] <= rv[u])
  <2> SUFFICES ASSUME TakesEffect(t), w \in WriteSet(t), wv'[t] <= rv[u] PROVE FALSE
    OBVIOUS
  <2>1. w \in Claims(t)'
    BY ClaimChange
  <2>2. rv'[u] < wv'[t]
    BY <2>1, LaterClaims
  <2>3. rv'[u] \in Nat /\ wv'[t] \in Nat
    BY KindsOfPremise DEF TypeOK
  <2> QED BY <2>2, <2>3
<1> QED BY <1>1, PastKept

\* What a history holds is data.
LEMMA ValueType ==
  ASSUME HistoryTypeOK, CommitTimes, clock \in Nat
  PROVE  \A w, n : ValueAt(w, n) \in Data
<1> TAKE w, n
<1>1. CASE Writers(w, n) = {}
  BY <1>1, NoCommit, Defaults
<1>2. CASE Writers(w, n) # {}
  <2>1. PICK c \in Writers(w, n) : \A d \in Writers(w, n) : d.ts <= c.ts
    BY <1>2, LastCommitExists
  <2>2. ValueAt(w, n) = c.writes[w]
    BY <2>1, LastCommit
  <2>3. c \in commits /\ w \in DOMAIN c.writes
    BY DEF Writers, TM!WritersUpTo
  <2> QED BY <2>2, <2>3 DEF HistoryTypeOK
<1> QED BY <1>1, <1>2

\* The words that the history does not change are the present ones.
LEMMA PresentWord ==
  ASSUME HistoryTypeOK, CommitTimes, Memory,
         NEW w \in Word, \A u \in Tx : w \notin Dirty(u)
  PROVE  /\ version[w] <= clock
         /\ \A n \in Nat : version[w] <= n => mem[w] = ValueAt(w, n)
<1>1. /\ version[w] = TimestampAt(w, clock) /\ mem[w] = ValueAt(w, clock)
      /\ clock \in Nat /\ version[w] \in Nat
  BY DEF Memory, HistoryTypeOK, TypeOK
<1>2. version[w] <= clock
  BY <1>1, TimestampIsOfCommit
<1>3. ASSUME NEW n \in Nat, version[w] <= n PROVE mem[w] = ValueAt(w, n)
  <2>1. CASE n <= clock
    BY <1>1, <1>3, <2>1, UnchangedSince
  <2>2. CASE n >= clock
    BY <1>1, <2>2, NothingAfter
  <2> QED BY <1>1, <2>1, <2>2
<1> QED BY <1>2, <1>3

---------------------------------------------------------------------------
\* The steps of tm_read before its last check.
LEMMA ReadSteps ==
  ASSUME TypeOK, NEW t \in Tx, Call(t) \/ Advance(t), pc'[t] \in ReadPC
  PROVE  /\ pc[t] \in {"active"} \cup ReadPC
         /\ rv'[t] = rv[t] /\ isRo'[t] = isRo[t] /\ writes'[t] = writes[t]
         /\ mem' = mem /\ version' = version /\ lockBit' = lockBit /\ clock' = clock
         /\ \/ \E w \in Word : tm_read(t, w)
            \/ ReadLookup(t) \/ ReadCopy(t) \/ ReadCheckLock(t)
<1> USE DEF TypeOK, descriptor, Goto, cleanTransaction, shared, ReadPC
<1>1. ASSUME NEW ro \in BOOLEAN, tm_begin(t, ro) PROVE FALSE
  BY <1>1 DEF tm_begin
<1>2. ASSUME NEW w \in Word, tm_read(t, w)
      PROVE  /\ pc[t] = "active"
             /\ rv'[t] = rv[t] /\ isRo'[t] = isRo[t] /\ writes'[t] = writes[t]
             /\ mem' = mem /\ version' = version /\ lockBit' = lockBit /\ clock' = clock
  BY <1>2 DEF tm_read
<1>3. ASSUME NEW w \in Word, NEW d \in Data, tm_write(t, w, d) PROVE FALSE
  BY <1>3 DEF tm_write
<1>4. ~ (EndWithoutWrites(t) \/ EndWithWrites(t))
  BY DEF EndWithoutWrites, EndWithWrites
<1>5. CASE ReadLookup(t) \/ ReadCopy(t) \/ ReadCheckLock(t)
  BY <1>5 DEF ReadLookup, ReadCopy, ReadCheckLock
<1>6. ~ (ReadCheckVersion(t) \/ WriteInsert(t))
  BY DEF ReadCheckVersion, WriteInsert
<1>7. ~ (AcquireLock(t) \/ ReleaseLock(t) \/ AbortCommit(t))
  BY DEF AcquireLock, ReleaseLock, AbortCommit, StartRelease
<1>8. ~ (IncClock(t) \/ ValidateVersion(t) \/ ValidateLock(t) \/ ValidateDone(t))
  BY DEF IncClock, ValidateVersion, ValidateLock, ValidateDone, StartRelease, StartWriteBack
<1>9. ~ (CopyBack(t) \/ StoreVersion(t) \/ Unlock(t))
  BY DEF CopyBack, StoreVersion, Unlock
<1> QED BY <1>1, <1>2, <1>3, <1>4, <1>5, <1>6, <1>7, <1>8, <1>9 DEF Call, Advance


LEMMA ReadStepFrame ==
  ASSUME NEW t \in Tx, Premise(t), pc'[t] \in {"active"} \cup ReadPC, pc[t] \in {"active"} \cup ReadPC
  PROVE  /\ \A w, n : ValueAt(w, n)' = ValueAt(w, n)
         /\ \A u \in Tx : Claims(u)' = Claims(u) /\ Dirty(u)' = Dirty(u)
<1>1. commits' = commits
  BY CommitChange DEF TakesEffect, ReadPC
<1>2. Claims(t)' = {} /\ Claims(t) = {} /\ Dirty(t)' = {} /\ Dirty(t) = {}
  BY DEF Claims, Dirty, DirtyNodes, Stamped, WriteBackPC, ReadPC
<1>3. \A u \in Tx \ {t} : Claims(u)' = Claims(u) /\ Dirty(u)' = Dirty(u)
  BY ClaimChange
<1> QED BY <1>1, <1>2, <1>3, HistoryKept

\* One unit more of the word has been copied.
LEMMA CopyOfWord ==
  ASSUME NEW t \in Tx, Premise(t), ReadCopy(t)
  PROVE  ReadsWhole(t)'
<1>1. /\ TypeOK /\ TypeOK' /\ HistoryTypeOK /\ CommitTimes /\ Memory /\ Readers
  BY KindsOfPremise DEF Premise, Isolation
<1>2. PICK k \in left[t] :
        /\ buf' = [buf EXCEPT ![t][k] = mem[word[t]][k]]
        /\ left' = [left EXCEPT ![t] = @ \ {k}]
        /\ Goto(t, IF left[t] = {k} THEN "checklock" ELSE "copy")
  BY DEF ReadCopy
<1>3. /\ pc[t] = "copy" /\ pc'[t] = (IF left[t] = {k} THEN "checklock" ELSE "copy")
      /\ left'[t] = left[t] \ {k} /\ k \in Unit
      /\ buf'[t] = [buf[t] EXCEPT ![k] = mem[word[t]][k]] /\ buf[t] \in Data
  BY <1>1, <1>2 DEF ReadCopy, Goto, TypeOK
<1>4. /\ word'[t] = word[t] /\ before'[t] = before[t] /\ version' = version
      /\ writes'[t] = writes[t] /\ word[t] \in Word /\ before[t] \in Nat
  BY <1>1 DEF ReadCopy, TypeOK, shared, descriptor
<1>5. ReadsWhole(t)
  BY <1>1, <1>3 DEF Readers, ReadPC
<1>6. pc[t] \in {"active"} \cup ReadPC /\ pc'[t] \in {"active"} \cup ReadPC
  BY <1>3 DEF ReadPC
<1>7. ASSUME word[t] \notin WriteSet(t), version[word[t]] = before[t],
             \A u \in Tx : word[t] \notin Dirty(u), NEW j \in Unit \ left'[t]
      PROVE  buf'[t][j] = ValueAt(word[t], before[t])[j]
  <2>1. mem[word[t]] = ValueAt(word[t], before[t])
    BY <1>1, <1>4, <1>7, PresentWord
  <2>2. CASE j = k
    BY <1>3, <2>1, <2>2 DEF Data
  <2>3. CASE j # k
    <3>1. buf[t][j] = ValueAt(word[t], before[t])[j]
      BY <1>3, <1>5, <1>7, <2>3 DEF ReadsWhole
    <3> QED BY <1>3, <2>3, <3>1 DEF Data
  <2> QED BY <2>2, <2>3
<1>8. WriteSet(t)' = WriteSet(t)
  BY <1>4 DEF WriteSet, NodeWord
<1>9. \A u \in Tx : Dirty(u)' = Dirty(u)
  BY <1>6, ReadStepFrame
<1>10. ValueAt(word[t], before[t])' = ValueAt(word[t], before[t])
  BY <1>4, <1>6, ReadStepFrame
<1>11. before'[t] <= version'[word'[t]]
  BY <1>4, <1>5 DEF ReadsWhole
<1>12. pc'[t] # "lookup" /\ pc'[t] # "checkversion" /\ (pc'[t] = "checklock" => left'[t] = {})
  BY <1>3
<1> QED BY <1>4, <1>7, <1>8, <1>9, <1>10, <1>11, <1>12 DEF ReadsWhole

\* The lock is free: no one claims the word, and it was copied as it is now.
LEMMA CopyOfFreeWord ==
  ASSUME NEW t \in Tx, Premise(t), ReadCheckLock(t), pc'[t] \in ReadPC
  PROVE  ReadsWhole(t)'
<1>1. /\ TypeOK /\ TypeOK' /\ HistoryTypeOK /\ CommitTimes /\ Memory /\ Readers /\ LockInv
      /\ clock \in Nat
  BY KindsOfPremise DEF Premise, Isolation, TypeOK
<1>2. /\ pc[t] = "checklock" /\ pc'[t] = "checkversion" /\ ~ lockBit[word[t]]
      /\ UNCHANGED <<descriptor, locals, cursors>>
  <2>1. pc'[t] # "idle"
    BY DEF ReadPC
  <2>2. \A l : Goto(t, l) => pc'[t] = l
    BY <1>1 DEF Goto, TypeOK
  <2> QED BY <2>1, <2>2 DEF ReadCheckLock, cleanTransaction
<1>3. /\ word'[t] = word[t] /\ before'[t] = before[t] /\ version' = version
      /\ buf'[t] = buf[t] /\ left'[t] = left[t] /\ rv'[t] = rv[t]
      /\ writes'[t] = writes[t] /\ word[t] \in Word /\ before[t] \in Nat /\ rv[t] \in Nat
      /\ buf[t] \in Data
  BY <1>1, <1>2 DEF ReadCheckLock, TypeOK, shared, descriptor, locals
<1>4. ReadsWhole(t) /\ left[t] = {}
  BY <1>1, <1>2 DEF Readers, ReadPC, ReadsWhole
<1>5. pc[t] \in {"active"} \cup ReadPC /\ pc'[t] \in {"active"} \cup ReadPC
  BY <1>2 DEF ReadPC
<1>6. \A u \in Tx : word[t] \notin Claims(u) /\ word[t] \notin Dirty(u)
  BY <1>1, <1>2, ClaimsLocked, DirtyClaimed
<1>7. ASSUME word[t] \notin WriteSet(t), version[word[t]] = before[t], before[t] <= rv[t]
      PROVE  buf[t] = ValueAt(word[t], rv[t])
  <2>1. mem[word[t]] = ValueAt(word[t], before[t]) /\ mem[word[t]] = ValueAt(word[t], rv[t])
    BY <1>1, <1>3, <1>6, <1>7, PresentWord
  <2>2. \A k \in Unit : buf[t][k] = ValueAt(word[t], before[t])[k]
    BY <1>2, <1>4, <1>6, <1>7 DEF ReadsWhole
  <2>3. mem[word[t]] \in Data
    BY <1>1, <1>3 DEF TypeOK
  <2> QED BY <1>3, <2>1, <2>2, <2>3 DEF Data
<1>8. WriteSet(t)' = WriteSet(t)
  BY <1>3 DEF WriteSet, NodeWord
<1>9. \A u \in Tx : word'[t] \notin Claims(u)'
  BY <1>3, <1>5, <1>6, ReadStepFrame
<1>10. ValueAt(word[t], rv[t])' = ValueAt(word[t], rv[t])
  BY <1>3, <1>5, ReadStepFrame
<1>11. before'[t] <= version'[word'[t]]
  BY <1>3, <1>4 DEF ReadsWhole
<1>12. word'[t] \notin WriteSet(t)' /\ VersionFits(t)' => buf'[t] = ValueAt(word[t], rv[t])'
  BY <1>3, <1>7, <1>8, <1>10 DEF VersionFits
<1> QED BY <1>2, <1>9, <1>11, <1>12 DEF ReadsWhole

LEMMA OwnReads ==
  ASSUME NEW t \in Tx, Premise(t), pc'[t] \in ReadPC
  PROVE  ReadsWhole(t)'
<1>1. TypeOK /\ TypeOK' /\ Readers /\ (Call(t) \/ Advance(t))
  BY KindsOfPremise DEF Premise, Isolation, HStep
<1>2. ASSUME NEW w \in Word, tm_read(t, w) PROVE ReadsWhole(t)'
  <2>1. /\ pc'[t] \in {"copy", "lookup"} /\ word'[t] = w /\ before'[t] = version[w]
        /\ version' = version /\ left'[t] = Unit /\ version[w] \in Nat
    BY <1>1, <1>2 DEF tm_read, Goto, TypeOK, shared
  <2> QED BY <2>1 DEF ReadsWhole
<1>3. CASE ReadLookup(t)
  <2> DEFINE i == getWriteNode(t, word[t])
  <2>1. /\ word'[t] = word[t] /\ before'[t] = before[t] /\ version' = version
        /\ writes'[t] = writes[t] /\ pc[t] = "lookup"
    BY <1>1, <1>3 DEF ReadLookup, TypeOK, shared, descriptor
  <2>2. before'[t] <= version'[word'[t]] /\ left[t] = Unit
    BY <1>1, <2>1 DEF Readers, ReadPC, ReadsWhole
  <2>3. CASE i # 0 /\ left' = [left EXCEPT ![t] = {}] /\ Goto(t, "checklock")
    <3>1. pc'[t] = "checklock" /\ left'[t] = {}
      BY <1>1, <2>3 DEF Goto, TypeOK
    <3>2. word'[t] \in WriteSet(t)'
      BY <1>1, <2>1, <2>3, WriteNodeOfWord DEF WriteSet, NodeWord
    <3> QED BY <2>2, <3>1, <3>2 DEF ReadsWhole
  <2>4. CASE Goto(t, "copy") /\ UNCHANGED <<buf, left>>
    <3>1. pc'[t] = "copy" /\ left'[t] = Unit
      BY <1>1, <2>2, <2>4 DEF Goto, TypeOK
    <3> QED BY <2>2, <3>1 DEF ReadsWhole
  <2> QED BY <1>3, <2>3, <2>4 DEF ReadLookup
<1>4. CASE ReadCopy(t)
  BY <1>4, CopyOfWord
<1>5. CASE ReadCheckLock(t)
  BY <1>5, CopyOfFreeWord
<1> QED BY <1>1, <1>2, <1>3, <1>4, <1>5, ReadSteps

LEMMA OthersReads ==
  ASSUME NEW t \in Tx, Premise(t), NEW u \in Tx \ {t}, pc[u] \in ReadPC
  PROVE  ReadsWhole(u)'
<1>1. /\ TypeOK /\ TypeOK' /\ HistoryTypeOK /\ CommitTimes /\ Readers /\ HStep(t)
      /\ ReadsWhole(u)
  BY KindsOfPremise DEF Premise, Isolation, Readers
<1>2. /\ pc'[u] = pc[u] /\ word'[u] = word[u] /\ before'[u] = before[u] /\ rv'[u] = rv[u]
      /\ buf'[u] = buf[u] /\ left'[u] = left[u] /\ WriteSet(u)' = WriteSet(u)
  BY <1>1, OthersKept, OthersClaims DEF Kept
<1>3. /\ word[u] \in Word /\ before[u] \in Nat /\ rv[u] \in Nat
      /\ version[word[u]] \in Nat /\ version'[word[u]] \in Nat
      /\ version[word[u]] <= version'[word[u]]
  BY <1>1, VersionGrows DEF TypeOK
<1>4. before'[u] <= version'[word'[u]]
  BY <1>1, <1>2, <1>3 DEF ReadsWhole
<1>5. version'[word[u]] = before[u] => version[word[u]] = before[u]
  BY <1>1, <1>3 DEF ReadsWhole
<1>6. ASSUME pc[u] # "checkversion", word[u] \notin WriteSet(u), version'[word[u]] = before[u],
             \A v \in Tx : word[u] \notin Dirty(v)', NEW k \in Unit \ left[u]
      PROVE  buf[u][k] = ValueAt(word[u], before[u])'[k]
  <2>1. version'[word[u]] = version[word[u]]
    BY <1>5, <1>6
  <2>2. \A v \in Tx : word[u] \notin Dirty(v)
    BY <1>3, <1>6, <2>1, DirtyUntilStored
  <2>3. buf[u][k] = ValueAt(word[u], before[u])[k]
    BY <1>1, <1>5, <1>6, <2>2 DEF ReadsWhole
  <2>4. ~ (TakesEffect(t) /\ word[u] \in WriteSet(t))
    BY <1>6, ClaimChange
  <2>5. ValueAt(word[u], before[u])' = ValueAt(word[u], before[u])
    BY <1>2, <2>4, PastKept
  <2> QED BY <2>3, <2>5
<1>7. ASSUME pc[u] = "checkversion"
      PROVE  /\ word[u] \notin WriteSet(u) /\ VersionFits(u)' => buf[u] = ValueAt(word[u], rv[u])'
             /\ \A v \in Tx : word[u] \in Claims(v)' => rv'[u] < wv'[v]
  <2>1. \A v \in Tx : word[u] \in Claims(v) => rv[u] < wv[v]
    BY <1>1, <1>7 DEF ReadsWhole
  <2>2. ValueAt(word[u], rv[u])' = ValueAt(word[u], rv[u])
    BY <1>2, <2>1, SnapshotKept
  <2>3. VersionFits(u)' => VersionFits(u)
    BY <1>2, <1>5 DEF VersionFits
  <2> QED BY <1>1, <1>2, <1>7, <2>1, <2>2, <2>3, LaterClaims DEF ReadsWhole
<1>8. pc'[u] = "lookup" => left'[u] = Unit
  BY <1>1, <1>2 DEF ReadsWhole
<1>9. pc'[u] = "checklock" => left'[u] = {}
  BY <1>1, <1>2 DEF ReadsWhole
<1> QED BY <1>2, <1>4, <1>6, <1>7, <1>8, <1>9 DEF ReadsWhole

LEMMA ReadersNext ==
  ASSUME NEW t \in Tx, Premise(t)
  PROVE  Readers'
<1> SUFFICES ASSUME NEW u \in Tx, pc'[u] \in ReadPC PROVE ReadsWhole(u)'
  BY DEF Readers
<1>1. CASE u = t
  BY <1>1, OwnReads
<1>2. CASE u # t
  <2>1. pc[u] \in ReadPC
    BY <1>2, OthersKept DEF Kept, Premise
  <2> QED BY <1>2, <2>1, OthersReads
<1> QED BY <1>1, <1>2

---------------------------------------------------------------------------
\* A read succeeds only if the version fits, and an update transaction notes it.
LEMMA LastCheck ==
  ASSUME TypeOK, NEW t \in Tx, Call(t) \/ Advance(t), pc[t] = "checkversion", pc'[t] = "active"
  PROVE  /\ VersionFits(t) /\ UNCHANGED shared
         /\ rv'[t] = rv[t] /\ isRo'[t] = isRo[t] /\ writes'[t] = writes[t]
         /\ ~ isRo[t] => reads'[t] = Append(reads[t], word[t])
<1>1. ~ Call(t)
  BY DEF Call, tm_begin, tm_read, tm_write, EndWithoutWrites, EndWithWrites
<1>2. ReadCheckVersion(t)
  BY <1>1 DEF Advance, ReadLookup, ReadCopy, ReadCheckLock, WriteInsert, AcquireLock,
     ReleaseLock, AbortCommit, IncClock, ValidateVersion, ValidateLock, ValidateDone,
     CopyBack, StoreVersion, Unlock
<1>3. ~ cleanTransaction(t)
  BY DEF cleanTransaction, Goto, TypeOK
<1>4. /\ VersionFits(t)
      /\ reads' = [reads EXCEPT ![t] = IF isRo[t] THEN @ ELSE Append(@, word[t])]
      /\ UNCHANGED <<isRo, rv, wv, writes, filter, cursors>>
      /\ UNCHANGED shared
  BY <1>2, <1>3 DEF ReadCheckVersion
<1> QED BY <1>4 DEF TypeOK

LEMMA AppendKeeps ==
  ASSUME NEW S, NEW s \in Seq(S), NEW e \in S
  PROVE  /\ \A j \in DOMAIN s : j \in DOMAIN Append(s, e) /\ Append(s, e)[j] = s[j]
         /\ \E j \in DOMAIN Append(s, e) : Append(s, e)[j] = e
<1>1. Len(s) + 1 \in DOMAIN Append(s, e) /\ Append(s, e)[Len(s) + 1] = e
  OBVIOUS
<1> QED BY <1>1

LEMMA OwnSeen ==
  ASSUME NEW t \in Tx, Premise(t), pc[t] # "idle", pc'[t] # "idle"
  PROVE  SeenAt(t)'
<1>1. TypeOK /\ TypeOK' /\ HistoryTypeOK /\ SeenAt(t) /\ Record(t) /\ (Call(t) \/ Advance(t))
  BY KindsOfPremise DEF Premise, Isolation, HStep, Seen
<1>2. /\ rv'[t] = rv[t] /\ isRo'[t] = isRo[t] /\ reads[t] \in Seq(Word) /\ word[t] \in Word
      /\ \/ reads'[t] = reads[t]
         \/ ~ isRo[t] /\ reads'[t] = Append(reads[t], word[t])
  BY <1>1, InsideTransaction DEF TypeOK
<1>3. ASSUME NEW o \in obs[t]
      PROVE  /\ o.value = ValueAt(o.word, rv[t])'
             /\ ~ isRo'[t] => \E j \in DOMAIN reads'[t] : reads'[t][j] = o.word
             /\ \A v \in Tx : o.word \in Claims(v)' => rv'[t] < wv'[v]
  <2> DEFINE w == o.word
  <2>1. /\ o.value = ValueAt(w, rv[t])
        /\ \A v \in Tx : w \in Claims(v) => rv[t] < wv[v]
        /\ ~ isRo[t] => \E j \in DOMAIN reads[t] : reads[t][j] = w
    BY <1>1 DEF SeenAt
  <2> HIDE DEF w
  <2>2. ValueAt(w, rv[t])' = ValueAt(w, rv[t])
    BY <1>2, <2>1, SnapshotKept
  <2>3. \A v \in Tx : w \in Claims(v)' => rv'[t] < wv'[v]
    BY <1>2, <2>1, LaterClaims
  <2>4. ~ isRo'[t] => \E j \in DOMAIN reads'[t] : reads'[t][j] = w
    BY <1>2, <2>1, AppendKeeps
  <2> QED BY <2>1, <2>2, <2>3, <2>4 DEF w
<1>4. ASSUME ReadsShared(t), NEW w, w = word[t]
      PROVE  /\ buf[t] = ValueAt(w, rv[t])'
             /\ ~ isRo'[t] => \E j \in DOMAIN reads'[t] : reads'[t][j] = w
             /\ \A v \in Tx : w \in Claims(v)' => rv'[t] < wv'[v]
  <2>1. /\ pc[t] = "checkversion" /\ w \notin WriteSet(t) /\ VersionFits(t)
        /\ ~ isRo[t] => reads'[t] = Append(reads[t], w)
    BY <1>1, <1>4, LastCheck DEF ReadsShared
  <2>2. ReadsWhole(t)
    BY <2>1 DEF Premise, Isolation, Readers, ReadPC
  <2>3. /\ buf[t] = ValueAt(w, rv[t])
        /\ \A v \in Tx : w \in Claims(v) => rv[t] < wv[v]
    BY <1>4, <2>1, <2>2 DEF ReadsWhole
  <2>4. ValueAt(w, rv[t])' = ValueAt(w, rv[t])
    BY <1>2, <2>3, SnapshotKept
  <2>5. \A v \in Tx : w \in Claims(v)' => rv'[t] < wv'[v]
    BY <1>2, <2>3, LaterClaims
  <2>6. ~ isRo'[t] => \E j \in DOMAIN reads'[t] : reads'[t][j] = w
    BY <1>2, <1>4, <2>1, AppendKeeps
  <2> QED BY <2>3, <2>4, <2>5, <2>6
<1>5. obs'[t] = obs[t] \cup {o \in {[word |-> word[t], value |-> buf[t]]} : ReadsShared(t)}
  BY <1>1 DEF Record, HistoryTypeOK
<1> SUFFICES ASSUME NEW o \in obs'[t]
             PROVE  /\ o.value = ValueAt(o.word, rv[t])'
                    /\ ~ isRo'[t] => \E j \in DOMAIN reads'[t] : reads'[t][j] = o.word
                    /\ \A v \in Tx : o.word \in Claims(v)' => rv'[t] < wv'[v]
  BY DEF SeenAt
<1>6. CASE o \in obs[t]
  BY <1>3, <1>6
<1>7. CASE ReadsShared(t) /\ o = [word |-> word[t], value |-> buf[t]]
  <2>1. o.word = word[t] /\ o.value = buf[t]
    BY <1>7
  <2> QED BY <1>4, <1>7, <2>1
<1> QED BY <1>5, <1>6, <1>7

LEMMA SeenNext ==
  ASSUME NEW t \in Tx, Premise(t)
  PROVE  Seen'
<1> SUFFICES ASSUME NEW u \in Tx PROVE SeenAt(u)' /\ (pc'[u] = "idle" => obs'[u] = {})
  BY DEF Seen
<1>1. TypeOK /\ TypeOK' /\ HistoryTypeOK /\ Record(t) /\ HStep(t) /\ Seen
  BY KindsOfPremise DEF Premise, Isolation
<1>2. CASE u # t
  <2>1. Kept(u) /\ obs'[u] = obs[u] /\ rv'[u] = rv[u]
    BY <1>1, <1>2, OthersKept DEF Kept
  <2>2. ASSUME NEW o \in obs[u]
        PROVE  /\ o.value = ValueAt(o.word, rv[u])'
               /\ \A v \in Tx : o.word \in Claims(v)' => rv'[u] < wv'[v]
    <3> DEFINE w == o.word
    <3>1. /\ o.value = ValueAt(w, rv[u])
          /\ \A v \in Tx : w \in Claims(v) => rv[u] < wv[v]
      BY <1>1 DEF Seen, SeenAt
    <3> HIDE DEF w
    <3>2. ValueAt(w, rv[u])' = ValueAt(w, rv[u])
      BY <2>1, <3>1, SnapshotKept
    <3>3. \A v \in Tx : w \in Claims(v)' => rv'[u] < wv'[v]
      BY <2>1, <3>1, LaterClaims
    <3> QED BY <3>1, <3>2, <3>3 DEF w
  <2>3. SeenAt(u)'
    BY <1>1, <2>1, <2>2 DEF Seen, SeenAt, Kept
  <2> QED BY <1>1, <2>1, <2>3 DEF Seen, Kept
<1>3. CASE u = t /\ pc'[t] = "idle"
  <2>1. obs'[t] = {}
    BY <1>1, <1>3 DEF Record, HistoryTypeOK
  <2> QED BY <1>3, <2>1 DEF SeenAt
<1>4. CASE u = t /\ pc[t] = "idle" /\ pc'[t] # "idle"
  <2>1. obs'[t] = {}
    BY <1>1, <1>4 DEF Record, HistoryTypeOK, Seen, ReadsShared
  <2> QED BY <1>4, <2>1 DEF SeenAt
<1>5. CASE u = t /\ pc[t] # "idle" /\ pc'[t] # "idle"
  BY <1>5, OwnSeen
<1> QED BY <1>2, <1>3, <1>4, <1>5

---------------------------------------------------------------------------
\* How a thread gets to, and on with, its validation.
LEMMA EntersCommit ==
  ASSUME TypeOK, NEW t \in Tx, Call(t) \/ Advance(t), pc[t] \notin CommitPC, pc'[t] \in CommitPC
  PROVE  ~ isRo[t] /\ isRo'[t] = isRo[t]
<1> USE DEF TypeOK, descriptor, Goto, cleanTransaction, CommitPC
<1>1. ASSUME NEW ro \in BOOLEAN, tm_begin(t, ro) PROVE FALSE
  BY <1>1 DEF tm_begin
<1>2. ASSUME NEW w \in Word, tm_read(t, w) PROVE FALSE
  BY <1>2 DEF tm_read
<1>3. ASSUME NEW w \in Word, NEW d \in Data, tm_write(t, w, d) PROVE FALSE
  BY <1>3 DEF tm_write
<1>4. ~ EndWithoutWrites(t)
  BY DEF EndWithoutWrites
<1>5. CASE EndWithWrites(t)
  BY <1>5 DEF EndWithWrites
<1>6. ~ (ReadLookup(t) \/ ReadCopy(t) \/ ReadCheckLock(t) \/ ReadCheckVersion(t) \/ WriteInsert(t))
  BY DEF ReadLookup, ReadCopy, ReadCheckLock, ReadCheckVersion, WriteInsert
<1>7. ~ (AcquireLock(t) \/ ReleaseLock(t) \/ AbortCommit(t))
  BY DEF AcquireLock, ReleaseLock, AbortCommit
<1>8. ~ (IncClock(t) \/ ValidateVersion(t) \/ ValidateLock(t) \/ ValidateDone(t))
  BY DEF IncClock, ValidateVersion, ValidateLock, ValidateDone
<1>9. ~ (CopyBack(t) \/ StoreVersion(t) \/ Unlock(t))
  BY DEF CopyBack, StoreVersion, Unlock
<1> QED BY <1>1, <1>2, <1>3, <1>4, <1>5, <1>6, <1>7, <1>8, <1>9 DEF Call, Advance

LEMMA ValidationSteps ==
  ASSUME NEW t \in Tx, Premise(t), pc'[t] \in {"valversion", "vallock"}
  PROVE  \/ Draws(t)
         \/ /\ reads'[t] = reads[t] /\ writes'[t] = writes[t] /\ rv'[t] = rv[t]
            /\ version' = version
            /\ \/ /\ pc[t] = "valversion" /\ pc'[t] = "vallock" /\ cur'[t] = cur[t]
                  /\ version[reads[t][cur[t]]] <= rv[t]
               \/ pc[t] = "vallock" /\ pc'[t] = "valversion" /\ cur'[t] = cur[t] - 1
<1>1. /\ TypeOK /\ HistoryTypeOK /\ Stamps /\ Record(t) /\ clock' < VersionModulus
      /\ Call(t) \/ Advance(t)
  BY KindsOfPremise DEF Premise, Isolation, HStep
<1> USE DEF TypeOK, descriptor, Goto, cleanTransaction, shared
<1>2. ~ Call(t)
  BY <1>1 DEF Call, tm_begin, tm_read, tm_write, EndWithoutWrites, EndWithWrites
<1>3. ~ (ReadLookup(t) \/ ReadCopy(t) \/ ReadCheckLock(t) \/ ReadCheckVersion(t) \/ WriteInsert(t))
  BY <1>1 DEF ReadLookup, ReadCopy, ReadCheckLock, ReadCheckVersion, WriteInsert
<1>4. ~ (AcquireLock(t) \/ ReleaseLock(t) \/ AbortCommit(t))
  BY <1>1 DEF AcquireLock, ReleaseLock, AbortCommit, StartRelease
<1>5. IncClock(t) => Draws(t)
  BY <1>1, ClockStep DEF TakesEffect
<1>6. ValidateVersion(t) => /\ reads'[t] = reads[t] /\ writes'[t] = writes[t] /\ rv'[t] = rv[t]
                            /\ version' = version
                            /\ pc[t] = "valversion" /\ pc'[t] = "vallock" /\ cur'[t] = cur[t]
                            /\ version[reads[t][cur[t]]] <= rv[t]
  BY <1>1 DEF ValidateVersion, StartRelease, cursors
<1>7. ValidateLock(t) => /\ reads'[t] = reads[t] /\ writes'[t] = writes[t] /\ rv'[t] = rv[t]
                         /\ version' = version
                         /\ pc[t] = "vallock" /\ pc'[t] = "valversion" /\ cur'[t] = cur[t] - 1
  BY <1>1 DEF ValidateLock, StartRelease
<1>8. ~ (ValidateDone(t) \/ CopyBack(t) \/ StoreVersion(t) \/ Unlock(t))
  BY <1>1 DEF ValidateDone, StartWriteBack, CopyBack, StoreVersion, Unlock
<1> QED BY <1>1, <1>2, <1>3, <1>4, <1>5, <1>6, <1>7, <1>8 DEF Advance

LEMMA ValidatedNext ==
  ASSUME NEW t \in Tx, Premise(t)
  PROVE  Validated'
<1> SUFFICES ASSUME NEW u \in Tx
             PROVE  /\ pc'[u] \in CommitPC => ~ isRo'[u]
                    /\ pc'[u] \in {"valversion", "vallock"} =>
                         \A j \in Passed(u)' : reads'[u][j] \in WriteSet(u)' =>
                           version'[reads'[u][j]] <= rv'[u]
  BY DEF Validated
<1>1. /\ TypeOK /\ HistoryTypeOK /\ HStep(t) /\ Validated /\ LockInv /\ CursorInv
      /\ Call(t) \/ Advance(t)
  BY KindsOfPremise DEF Premise, Isolation, HStep
<1>2. CASE u # t
  <2>1. Kept(u) /\ Passed(u)' = Passed(u) /\ WriteSet(u)' = WriteSet(u)
    BY <1>1, <1>2, OthersKept, OthersClaims DEF Kept, Passed
  <2>2. ASSUME pc[u] \in {"valversion", "vallock"}, NEW w \in WriteSet(u)
        PROVE  version'[w] = version[w]
    <3>1. w \in Claims(u) /\ w \in Word
      BY <1>1, <2>2, AllHeld, ClaimsAreWritten
    <3>2. CASE /\ CurWord(t) \in Dirty(t)
               /\ version' = [version EXCEPT ![CurWord(t)] = wv[t]]
      <4>1. w # CurWord(t)
        BY <1>1, <1>2, <3>1, <3>2, DirtyClaimed, ClaimsDisjoint
      <4> QED BY <1>1, <3>1, <3>2, <4>1 DEF TypeOK
    <3> QED BY <3>2, VersionChange
  <2> QED BY <1>1, <2>1, <2>2 DEF Kept, Validated
<1>3. ASSUME u = t, pc'[t] \in CommitPC PROVE ~ isRo'[t]
  <2>1. CASE pc[t] \in CommitPC
    <3>1. isRo'[t] = isRo[t]
      BY <1>1, <1>3, <2>1, InsideTransaction DEF CommitPC
    <3> QED BY <1>1, <2>1, <3>1 DEF Validated
  <2>2. CASE pc[t] \notin CommitPC
    BY <1>1, <1>3, <2>2, EntersCommit
  <2> QED BY <2>1, <2>2
<1>4. ASSUME u = t, pc'[t] \in {"valversion", "vallock"}, NEW j \in Passed(t)',
             reads'[t][j] \in WriteSet(t)'
      PROVE  version'[reads'[t][j]] <= rv'[t]
  <2>1. Len(reads[t]) \in Nat /\ DOMAIN reads[t] = 1..Len(reads[t]) /\ cur[t] \in Nat
    BY <1>1 DEF TypeOK
  <2>2. ~ Draws(t)
    BY <1>4, <2>1 DEF Draws, Passed
  <2>3. /\ reads'[t] = reads[t] /\ writes'[t] = writes[t] /\ rv'[t] = rv[t]
        /\ version' = version
    BY <1>4, <2>2, ValidationSteps
  <2>4. j \in DOMAIN reads[t] /\ reads[t][j] \in WriteSet(t)
    BY <1>4, <2>3 DEF Passed, WriteSet, NodeWord
  <2>5. CASE /\ pc[t] = "valversion" /\ pc'[t] = "vallock" /\ cur'[t] = cur[t]
             /\ version[reads[t][cur[t]]] <= rv[t]
    <3>1. j = cur[t] \/ j \in Passed(t)
      BY <1>4, <2>3, <2>5 DEF Passed
    <3> QED BY <1>1, <2>3, <2>4, <2>5, <3>1 DEF Validated
  <2>6. CASE pc[t] = "vallock" /\ pc'[t] = "valversion" /\ cur'[t] = cur[t] - 1
    <3>1. j \in Passed(t)
      BY <1>4, <2>1, <2>3, <2>6 DEF Passed
    <3> QED BY <1>1, <2>3, <2>4, <2>6, <3>1 DEF Validated
  <2> QED BY <1>4, <2>2, <2>5, <2>6, ValidationSteps
<1> QED BY <1>2, <1>3, <1>4

\* What a transaction reads and writes is at its commit as it was at rv.
LEMMA ReadIsCurrent ==
  ASSUME NEW t \in Tx, Premise(t), TakesEffect(t), NEW o \in obs[t], o.word \in WriteSet(t)
  PROVE  /\ o.value = ValueAt(o.word, wv'[t] - 1)
         /\ \A c \in commits : o.word \in DOMAIN c.writes => c.ts <= rv[t]
<1> DEFINE w == o.word
<1>1. /\ TypeOK /\ TypeOK' /\ HistoryTypeOK /\ LockInv /\ Memory /\ CommitTimes /\ Stamps
      /\ SeenAt(t) /\ Validated /\ clock \in Nat /\ rv[t] \in Nat /\ rv[t] <= clock
  BY KindsOfPremise DEF Premise, Isolation, Seen, Stamps, TypeOK
<1>2. wv'[t] \in Nat /\ rv[t] < wv'[t] /\ wv'[t] - 1 \in Nat /\ rv[t] <= wv'[t] - 1
  <2>1. wv'[t] \in 1..clock' /\ rv[t] < wv'[t]
    BY NewTimestamp
  <2>2. clock' \in Nat
    BY <1>1 DEF TypeOK
  <2> QED BY <1>1, <2>1, <2>2
<1>3. o.value = ValueAt(w, rv[t])
  BY <1>1 DEF SeenAt
<1>4. TimestampAt(w, clock) <= rv[t]
  <2>1. CASE pc[t] = "inc" /\ clock = rv[t]
    BY <1>1, <2>1, TimestampIsOfCommit
  <2>2. CASE pc[t] = "valversion" /\ cur[t] = 0
    <3>1. ~ isRo[t]
      BY <1>1, <2>2 DEF Validated, CommitPC
    <3>2. PICK j \in DOMAIN reads[t] : reads[t][j] = w
      BY <1>1, <3>1 DEF SeenAt
    <3>3. j \in Passed(t)
      <4>1. reads[t] \in Seq(Word)
        BY <1>1 DEF TypeOK
      <4>2. j > 0
        BY <3>2, <4>1
      <4> QED BY <2>2, <4>2 DEF Passed
    <3>4. version[w] <= rv[t]
      BY <1>1, <2>2, <3>2, <3>3 DEF Validated
    <3>5. w \in Word /\ \A u \in Tx : w \notin Dirty(u)
      <4>1. w \in Word /\ \A u \in Tx \ {t} : w \notin Claims(u)
        <5>1. w \in WriteSet(t)
          OBVIOUS
        <5>2. WriteSet(t) \subseteq Word
          BY <1>1, ClaimsAreWritten
        <5> QED BY <1>1, <2>2, <5>1, <5>2, AllHeld
      <4> QED BY <2>2, <4>1, DirtyClaimed DEF WriteBackPC
    <3> QED BY <1>1, <3>4, <3>5 DEF Memory
  <2> QED BY <2>1, <2>2 DEF TakesEffect
<1>5. \A c \in commits : w \in DOMAIN c.writes => c.ts <= rv[t]
  <2> SUFFICES ASSUME NEW c \in commits, w \in DOMAIN c.writes PROVE c.ts <= rv[t]
    OBVIOUS
  <2>1. c \in Writers(w, clock) /\ \A d \in Writers(w, clock) : d.ts \in 1..clock
    BY <1>1 DEF Writers, TM!WritersUpTo, CommitTimes
  <2>2. PICK d \in Writers(w, clock) : \A e \in Writers(w, clock) : e.ts <= d.ts
    BY <1>1, <2>1, LastCommitExists
  <2>3. TimestampAt(w, clock) = d.ts /\ c.ts <= d.ts
    BY <1>1, <2>1, <2>2, LastCommit
  <2> QED BY <1>1, <1>4, <2>1, <2>3
<1>6. ValueAt(w, wv'[t] - 1) = ValueAt(w, rv[t])
  <2> DEFINE n == wv'[t] - 1
  <2>1. n \in Nat /\ rv[t] <= n
    BY <1>2
  <2> HIDE DEF n, w
  <2>2. Writers(w, n) = Writers(w, rv[t])
    <3>1. \A c \in commits : c.ts \in Nat
      BY <1>1 DEF CommitTimes
    <3> QED BY <1>1, <1>5, <2>1, <3>1 DEF Writers, TM!WritersUpTo
  <2>3. ValueAt(w, n) = ValueAt(w, rv[t])
    BY <2>2, SameWriters
  <2> QED BY <2>3 DEF n
<1> QED BY <1>3, <1>5, <1>6

LEMMA NoLostUpdateNext ==
  ASSUME NEW t \in Tx, Premise(t)
  PROVE  NoLostUpdate'
<1>1. NoLostUpdate /\ CommitTimes /\ TypeOK' /\ clock \in Nat
  BY KindsOfPremise DEF Premise, Isolation, TypeOK
<1>2. CASE commits' = commits
  BY <1>1, <1>2, HistoryKept DEF NoLostUpdate
<1>3. CASE TakesEffect(t)
  <2> DEFINE c == [ts |-> wv'[t], reads |-> obs[t], writes |-> PendingWrites(t)]
  <2>1. /\ commits' = commits \cup {c} /\ c.reads = obs[t]
        /\ c.ts = wv'[t] /\ DOMAIN c.writes = WriteSet(t)
    BY <1>3 DEF TakesEffect, PendingWrites
  <2> HIDE DEF c
  <2>2. ASSUME NEW d \in commits, NEW o \in d.reads, o.word \in DOMAIN d.writes
        PROVE  o.value = ValueAt(o.word, d.ts - 1)'
    <3>1. d.ts \in 1..clock /\ wv'[t] \in Nat
      BY <1>1 DEF CommitTimes, TypeOK
    <3>2. o.word \in WriteSet(t) => d.ts < wv'[t]
      BY <1>3, <2>2, NewTimestamp
    <3>3. ~ (o.word \in WriteSet(t) /\ wv'[t] <= d.ts - 1)
      BY <3>1, <3>2
    <3>4. ValueAt(o.word, d.ts - 1)' = ValueAt(o.word, d.ts - 1)
      BY <3>3, PastKept
    <3> QED BY <1>1, <2>2, <3>4 DEF NoLostUpdate
  <2>3. ASSUME NEW o \in obs[t], o.word \in WriteSet(t), NEW n, n = wv'[t] - 1
        PROVE  o.value = ValueAt(o.word, n)'
    <3>1. o.value = ValueAt(o.word, n)
      BY <1>3, <2>3, ReadIsCurrent
    <3>2. ~ (wv'[t] <= n)
      BY <1>1, <2>3 DEF TypeOK
    <3> QED BY <3>1, <3>2, PastKept
  <2> SUFFICES ASSUME NEW d \in commits', NEW o \in d.reads, o.word \in DOMAIN d.writes
               PROVE  o.value = ValueAt(o.word, d.ts - 1)'
    BY DEF NoLostUpdate
  <2> QED BY <2>1, <2>2, <2>3
<1> QED BY <1>2, <1>3, CommitChange

---------------------------------------------------------------------------
(* The invariant holds from the start and is kept.                         *)

LEMMA IInvInit == HInit => IInv
<1> SUFFICES ASSUME HInit PROVE IInv
  OBVIOUS
<1>1. Init /\ TypeOK /\ CursorInv /\ LockInv
  BY TypeInit, LockInit DEF HInit
<1>2. HistoryTypeOK
  BY <1>1 DEF HInit, HistoryTypeOK
<1>3. /\ commits = {} /\ clock = 0
      /\ \A t \in Tx : /\ obs[t] = {} /\ pc[t] = "idle" /\ rv[t] = 0
                       /\ ~ Stamped(t) /\ Claims(t) = {} /\ Dirty(t) = {}
  BY <1>1 DEF HInit, Init, Stamped, Claims, Dirty, DirtyNodes, WriteBackPC
<1>4. \A w, n : Writers(w, n) = {}
  BY <1>3 DEF Writers, TM!WritersUpTo
<1>5. Stamps /\ CommitTimes /\ CommitOrder /\ NoLostUpdate
  BY <1>3 DEF Stamps, CommitTimes, CommitOrder, NoLostUpdate, WriteBackPC
<1>6. Memory
  <2>1. \A w \in Word : version[w] = 0 /\ mem[w] = InitData
    BY <1>1 DEF Init
  <2> QED BY <1>3, <1>4, <2>1, NoCommit DEF Memory
<1>7. WriteBack /\ Readers /\ Seen /\ Validated
  BY <1>3 DEF WriteBack, Readers, Seen, SeenAt, Validated, WriteBackPC, ReadPC, CommitPC
<1> QED BY <1>1, <1>2, <1>5, <1>6, <1>7 DEF IInv, Isolation

LEMMA ClockGrows ==
  ASSUME TypeOK, NEW t \in Tx, Call(t) \/ Advance(t)
  PROVE  clock' \in {clock, clock + 1}
<1> USE DEF shared
<1>1. CASE Call(t)
  BY <1>1 DEF Call, tm_begin, tm_read, tm_write, EndWithoutWrites, EndWithWrites
<1>2. CASE IncClock(t)
  BY <1>2 DEF IncClock
<1>3. CASE Advance(t) /\ ~ IncClock(t)
  BY <1>3 DEF Advance, ReadLookup, ReadCopy, ReadCheckLock, ReadCheckVersion, WriteInsert,
     AcquireLock, ReleaseLock, AbortCommit, ValidateVersion, ValidateLock, ValidateDone,
     CopyBack, StoreVersion, Unlock
<1> QED BY <1>1, <1>2, <1>3

LEMMA IsolationNext ==
  ASSUME NEW t \in Tx, Premise(t)
  PROVE  Isolation'
BY StampsNext, CommitTimesNext, CommitOrderNext, MemoryNext, WriteBackNext, ReadersNext,
   SeenNext, ValidatedNext, NoLostUpdateNext DEF Isolation

LEMMA IInvStutter ==
  ASSUME IInv, UNCHANGED hvars
  PROVE  IInv'
<1> USE DEF hvars, vars, ghosts, shared, descriptor, locals, cursors
<1>1. TypeOK' /\ CursorInv' /\ LockInv'
  <2>1. TypeOK /\ CursorInv /\ LockInv /\ [Next]_vars
    BY DEF IInv, HistoryTypeOK
  <2> QED BY <2>1, TypeNext, LockNext
<1>2. HistoryTypeOK'
  BY <1>1 DEF IInv, HistoryTypeOK
<1>3. \A w, n : TimestampAt(w, n)' = TimestampAt(w, n) /\ ValueAt(w, n)' = ValueAt(w, n)
  BY HistoryKept
<1>4. \A t \in Tx : /\ Stamped(t)' = Stamped(t) /\ Claims(t)' = Claims(t)
                    /\ Dirty(t)' = Dirty(t) /\ WriteSet(t)' = WriteSet(t)
                    /\ PendingWrites(t)' = PendingWrites(t) /\ Passed(t)' = Passed(t)
                    /\ DistinctWords(t)' = DistinctWords(t) /\ CurWord(t)' = CurWord(t)
                    /\ VersionFits(t)' = VersionFits(t)
  BY DEF Stamped, Claims, HeldNodes, Dirty, DirtyNodes, WriteSet, PendingWrites, Pending,
         Passed, DistinctWords, CurWord, NodeWord, getWriteNode, VersionFits
<1>5. ASSUME Isolation PROVE Isolation'
  <2>1. Stamps' /\ CommitTimes' /\ CommitOrder'
    BY <1>4, <1>5 DEF Isolation, Stamps, CommitTimes, CommitOrder
  <2>2. Memory' /\ NoLostUpdate'
    BY <1>3, <1>4, <1>5 DEF Isolation, Memory, NoLostUpdate
  <2>3. WriteBack' /\ Validated'
    BY <1>4, <1>5 DEF Isolation, WriteBack, Validated
  <2>4. ASSUME NEW t \in Tx, ReadsWhole(t) PROVE ReadsWhole(t)'
    BY <1>3, <1>4, <2>4 DEF ReadsWhole
  <2>5. ASSUME NEW t \in Tx, SeenAt(t) PROVE SeenAt(t)'
    BY <1>3, <1>4, <2>5 DEF SeenAt
  <2>6. Readers' /\ Seen'
    BY <1>5, <2>4, <2>5 DEF Isolation, Readers, Seen
  <2> QED BY <2>1, <2>2, <2>3, <2>6 DEF Isolation
<1> QED BY <1>1, <1>2, <1>5 DEF IInv

LEMMA IInvNext == IInv /\ [HNext]_hvars => IInv'
<1> SUFFICES ASSUME IInv, [HNext]_hvars PROVE IInv'
  OBVIOUS
<1>1. CASE HNext
  <2>1. PICK t \in Tx : HStep(t)
    BY <1>1, HStepOfNext
  <2>2. TypeOK /\ HistoryTypeOK /\ CursorInv /\ LockInv /\ (Call(t) \/ Advance(t)) /\ Record(t)
    BY <2>1 DEF IInv, HistoryTypeOK, HStep
  <2>3. TypeOK' /\ CursorInv' /\ LockInv'
    BY <2>2, TypeNext, LockNext DEF Next
  <2>4. HistoryTypeOK'
    BY <2>2, <2>3, HistoryTypeNext
  <2>5. ASSUME clock' < VersionModulus PROVE Isolation'
    <3>1. clock < VersionModulus
      <4>1. clock' \in {clock, clock + 1} /\ clock \in Nat /\ VersionModulus \in Nat
        BY <2>2, ClockGrows, ConstantsAssumption DEF TypeOK
      <4> QED BY <2>5, <4>1
    <3>2. Premise(t)
      BY <2>1, <2>2, <2>4, <2>5, <3>1 DEF Premise, IInv
    <3> QED BY <3>2, IsolationNext
  <2> QED BY <2>3, <2>4, <2>5 DEF IInv
<1>2. CASE UNCHANGED hvars
  BY <1>2, IInvStutter
<1> QED BY <1>1, <1>2

---------------------------------------------------------------------------
(* The theorems.  rv and the versions are the clock reduced to 32 bits, so *)
(* what is said of timestamps is said until the clock reaches 2^32.        *)

\* Every ghost keeps its type: what is recorded of a transaction is data of
\* the words it used (it is what the other theorems compare).
THEOREM HistoryTypeCorrect == HSpec => []HistoryTypeOK
<1>1. IInv => HistoryTypeOK
  BY DEF IInv
<1> QED BY <1>1, IInvInit, IInvNext, PTL DEF HSpec

\* Whatever tm_read returns, to a transaction that will commit or to one that
\* is doomed, to read-only ones too, is the whole word as it was at rv: the two
\* checks around the copy (tm.c:248, tm.c:279) let no torn, newer or uncommitted
\* word through, however the writers' steps fall between its steps.
THEOREM ReadsComeFromOneSnapshot == HSpec => [](clock < VersionModulus => SnapshotReads)
<1>1. IInv => (clock < VersionModulus => SnapshotReads)
  BY DEF IInv, Isolation, Seen, SeenAt, SnapshotReads
<1> QED BY <1>1, IInvInit, IInvNext, PTL DEF HSpec

\* No commit of another thread to a word falls between the read and the write
\* of it by one transaction, though the locks are taken after the reads and
\* validation may be skipped (tm.c:171-196).
THEOREM NoUpdateIsLost == HSpec => [](clock < VersionModulus => NoLostUpdate)
<1>1. IInv => (clock < VersionModulus => NoLostUpdate)
  BY DEF IInv, Isolation
<1> QED BY <1>1, IInvInit, IInvNext, PTL DEF HSpec

\* What an unlocked word holds, and its version, are those of its last commit:
\* the write-backs of two transactions never mix on a word and always leave it
\* to the later one (writeToLocations, helper_functions.h:110).
THEOREM FreeWordsAreCurrent == HSpec => [](clock < VersionModulus => FreeWordIsLastCommit)
<1>1. ASSUME IInv, clock < VersionModulus PROVE FreeWordIsLastCommit
  <2>1. LockInv /\ Memory
    BY <1>1 DEF IInv, Isolation
  <2>2. \A w \in Word : ~ lockBit[w] => \A t \in Tx : w \notin Dirty(t)
    BY <2>1, ClaimsLocked, DirtyClaimed
  <2> QED BY <2>1, <2>2 DEF FreeWordIsLastCommit, Memory, TimestampAt
<1>2. IInv => (clock < VersionModulus => FreeWordIsLastCommit)
  BY <1>1
<1> QED BY <1>2, IInvInit, IInvNext, PTL DEF HSpec

---------------------------------------------------------------------------
(* TL2 implements SnapshotTM.                                              *)

\* What SnapshotTM sees of a transaction.
SnapOf(t) == IF Visible(t) THEN rv[t] ELSE 0
SeenOf(t) == IF Visible(t) THEN obs[t] ELSE {}
PendOf(t) == IF Visible(t) /\ writes[t] # <<>> THEN PendingWrites(t) ELSE <<>>

Running == {u \in Tx : Visible(u)}
Snap == [u \in Tx |-> SnapOf(u)]
SeenBy == [u \in Tx |-> SeenOf(u)]
PendBy == [u \in Tx |-> PendOf(u)]

\* A transaction that has not begun has nothing on its write list.
IdleIsEmpty == \A t \in Tx : pc[t] = "idle" => writes[t] = <<>>

RInv == IInv /\ IdleIsEmpty
LEMMA IdleIsEmptyNext ==
  ASSUME HistoryTypeOK, IdleIsEmpty, NEW t \in Tx, HStep(t)
  PROVE  IdleIsEmpty'
<1> SUFFICES ASSUME NEW u \in Tx, pc'[u] = "idle" PROVE writes'[u] = <<>>
  BY DEF IdleIsEmpty
<1>1. CASE u = t
  <2>1. TypeOK /\ cleanTransaction(t)
    BY <1>1, StepToIdle DEF HistoryTypeOK, HStep
  <2> QED BY <1>1, <2>1 DEF cleanTransaction, TypeOK
<1>2. CASE u # t
  BY <1>2, OthersKept DEF Kept, IdleIsEmpty
<1> QED BY <1>1, <1>2

LEMMA RInvInit == HInit => RInv
BY IInvInit DEF RInv, HInit, Init, IdleIsEmpty

LEMMA RInvNext == RInv /\ [HNext]_hvars => RInv'
<1> SUFFICES ASSUME RInv, [HNext]_hvars PROVE RInv'
  OBVIOUS
<1>1. IInv'
  BY IInvNext DEF RInv
<1>2. CASE HNext
  <2>1. PICK t \in Tx : HStep(t)
    BY <1>2, HStepOfNext
  <2> QED BY <1>1, <2>1, IdleIsEmptyNext DEF RInv, IInv
<1>3. CASE UNCHANGED hvars
  BY <1>1, <1>3 DEF RInv, IdleIsEmpty, hvars, vars, descriptor
<1> QED BY <1>2, <1>3

---------------------------------------------------------------------------
(* A step of t leaves alone what SnapshotTM sees of the others.            *)

LEMMA OthersShown ==
  ASSUME NEW t \in Tx, Premise(t)
  PROVE  \A u \in Tx \ {t} : /\ Visible(u)' = Visible(u) /\ SnapOf(u)' = SnapOf(u)
                             /\ SeenOf(u)' = SeenOf(u) /\ PendOf(u)' = PendOf(u)
<1> TAKE u \in Tx \ {t}
<1>1. Kept(u) /\ obs'[u] = obs[u] /\ PendingWrites(u)' = PendingWrites(u)
  BY OthersKept, OthersClaims DEF Premise
<1> QED BY <1>1 DEF Kept, Visible, SnapOf, SeenOf, PendOf

\* The steps of which SnapshotTM sees nothing, and those that end a transaction.
Hidden(t) ==
  /\ clock' = clock /\ commits' = commits /\ Visible(t)' = Visible(t)
  /\ Visible(t) => rv'[t] = rv[t] /\ obs'[t] = obs[t] /\ writes'[t] = writes[t]

Forgets(t) == Visible(t) /\ ~ Visible(t)' /\ clock' = clock /\ commits' = commits

LEMMA PendingKept ==
  ASSUME NEW t, writes'[t] = writes[t]
  PROVE  PendingWrites(t)' = PendingWrites(t)
<1>1. WriteSet(t)' = WriteSet(t)
  BY DEF WriteSet, NodeWord
<1>2. \A w : Pending(t, w)' = Pending(t, w)
  BY DEF Pending, getWriteNode
<1> QED BY <1>1, <1>2 DEF PendingWrites

LEMMA SameShown ==
  ASSUME NEW t \in Tx, Visible(t)' = Visible(t),
         Visible(t) => rv'[t] = rv[t] /\ obs'[t] = obs[t] /\ writes'[t] = writes[t]
  PROVE  /\ SnapOf(t)' = SnapOf(t) /\ SeenOf(t)' = SeenOf(t) /\ PendOf(t)' = PendOf(t)
BY PendingKept DEF SnapOf, SeenOf, PendOf

LEMMA AllShown ==
  ASSUME NEW t \in Tx, Premise(t), Visible(t)' = Visible(t),
         Visible(t) => rv'[t] = rv[t] /\ obs'[t] = obs[t] /\ writes'[t] = writes[t]
  PROVE  Running' = Running /\ Snap' = Snap /\ SeenBy' = SeenBy /\ PendBy' = PendBy
BY SameShown, OthersShown DEF Running, Snap, SeenBy, PendBy

LEMMA HiddenStep ==
  ASSUME NEW t \in Tx, Premise(t), Hidden(t)
  PROVE  UNCHANGED TM!svars
<1>1. Running' = Running /\ Snap' = Snap /\ SeenBy' = SeenBy /\ PendBy' = PendBy
  BY AllShown DEF Hidden
<1> QED BY <1>1 DEF Hidden, TM!svars, Running, Snap, SnapOf, SeenBy, SeenOf, PendBy, PendOf,
                    PendingWrites

LEMMA TickStep ==
  ASSUME NEW t \in Tx, Premise(t), Draws(t)
  PROVE  TM!Tick
<1>1. Record(t) /\ HistoryTypeOK
  BY KindsOfPremise DEF Premise
<1>2. obs'[t] = obs[t]
  BY <1>1 DEF Record, Draws, ReadsShared, HistoryTypeOK
<1>3. Visible(t)' = Visible(t)
  BY DEF Draws, Visible, WriteBackPC
<1>4. Running' = Running /\ Snap' = Snap /\ SeenBy' = SeenBy /\ PendBy' = PendBy
  BY <1>2, <1>3, AllShown DEF Draws
<1> QED BY <1>4 DEF Draws, TM!Tick, Running, Snap, SnapOf, SeenBy, SeenOf, PendBy, PendOf, PendingWrites

LEMMA EndStep ==
  ASSUME NEW t \in Tx, Premise(t), Forgets(t)
  PROVE  TM!End(t)
<1>1. /\ SnapOf(t)' = 0 /\ SeenOf(t)' = {} /\ PendOf(t)' = <<>>
  BY DEF Forgets, SnapOf, SeenOf, PendOf
<1>2. /\ Running' = Running \ {t} /\ t \in Running
      /\ Snap' = [Snap EXCEPT ![t] = 0]
      /\ SeenBy' = [SeenBy EXCEPT ![t] = {}]
      /\ PendBy' = [PendBy EXCEPT ![t] = <<>>]
  BY <1>1, OthersShown DEF Forgets, Running, Snap, SeenBy, PendBy
<1> QED BY <1>2 DEF Forgets, TM!End, TM!Forget, Running, Snap, SnapOf, SeenBy, SeenOf,
                    PendBy, PendOf, PendingWrites

LEMMA BeginStep ==
  ASSUME NEW t \in Tx, Premise(t), IdleIsEmpty, NEW ro \in BOOLEAN, tm_begin(t, ro)
  PROVE  TM!Begin(t)
<1>1. TypeOK /\ Record(t) /\ HistoryTypeOK /\ Seen /\ clock \in Nat /\ clock < VersionModulus
  BY KindsOfPremise DEF Premise, Isolation, TypeOK
<1>2. /\ pc[t] = "idle" /\ pc'[t] = "active" /\ rv'[t] = clock /\ clock' = clock
      /\ writes'[t] = writes[t] /\ writes[t] = <<>>
  BY <1>1, TruncateSmall DEF tm_begin, Goto, TypeOK, shared, IdleIsEmpty
<1>3. obs'[t] = {} /\ commits' = commits
  BY <1>1, <1>2 DEF Record, Seen, ReadsShared, Commits, HistoryTypeOK
<1>4. ~ Visible(t) /\ Visible(t)'
  BY <1>2 DEF Visible, WriteBackPC
<1>5. /\ SnapOf(t)' = clock
      /\ SeenOf(t)' = SeenOf(t) /\ PendOf(t)' = PendOf(t)
  BY <1>2, <1>3, <1>4 DEF SnapOf, SeenOf, PendOf
<1>6. /\ Running' = Running \cup {t} /\ t \notin Running
      /\ Snap' = [Snap EXCEPT ![t] = clock]
      /\ SeenBy' = SeenBy /\ PendBy' = PendBy
  BY <1>4, <1>5, OthersShown DEF Running, Snap, SeenBy, PendBy
<1> QED BY <1>2, <1>3, <1>6 DEF TM!Begin, Running, Snap, SnapOf, SeenBy, SeenOf,
                    PendBy, PendOf, PendingWrites

\* A read that counts is of the value at rv.
LEMMA ReadStep ==
  ASSUME NEW t \in Tx, Premise(t), ReadsShared(t)
  PROVE  \E w \in Word : TM!Read(t, w)
<1>1. /\ TypeOK /\ Record(t) /\ HistoryTypeOK /\ Readers /\ (Call(t) \/ Advance(t))
  BY KindsOfPremise DEF Premise, Isolation, HStep
<1>2. PICK w \in Word : w = word[t]
  BY <1>1 DEF TypeOK
<1>3. /\ pc[t] = "checkversion" /\ pc'[t] = "active" /\ w \notin WriteSet(t)
      /\ VersionFits(t) /\ clock' = clock /\ rv'[t] = rv[t] /\ writes'[t] = writes[t]
  BY <1>1, <1>2, LastCheck DEF ReadsShared, shared
<1>4. buf[t] = ValueAt(w, rv[t])
  BY <1>1, <1>2, <1>3 DEF Readers, ReadPC, ReadsWhole
<1>5. obs'[t] = obs[t] \cup {[word |-> w, value |-> ValueAt(w, rv[t])]} /\ commits' = commits
  BY <1>1, <1>2, <1>3, <1>4 DEF Record, Commits, HistoryTypeOK
<1>6. Visible(t) /\ Visible(t)'
  BY <1>3 DEF Visible, WriteBackPC
<1>7. PendingWrites(t)' = PendingWrites(t)
  BY <1>3, PendingKept
<1>8. /\ SnapOf(t) = rv[t] /\ SnapOf(t)' = SnapOf(t) /\ PendOf(t)' = PendOf(t)
      /\ SeenOf(t)' = SeenOf(t) \cup {[word |-> w, value |-> ValueAt(w, rv[t])]}
  BY <1>3, <1>5, <1>6, <1>7 DEF SnapOf, SeenOf, PendOf
<1>9. w \notin DOMAIN PendOf(t)
  BY <1>3 DEF PendOf, PendingWrites
<1>10. /\ Running' = Running /\ t \in Running /\ Snap' = Snap /\ Snap[t] = rv[t]
       /\ SeenBy' = [SeenBy EXCEPT ![t] = @ \cup {[word |-> w, value |-> ValueAt(w, Snap[t])]}]
       /\ PendBy' = PendBy /\ w \notin DOMAIN PendBy[t]
  BY <1>6, <1>8, <1>9, OthersShown DEF Running, Snap, SeenBy, PendBy
<1>11. TM!Read(t, w)
  BY <1>3, <1>5, <1>10 DEF TM!Read, Running, Snap, SnapOf, SeenBy, SeenOf,
                    PendBy, PendOf, PendingWrites, ValueAt
<1> QED BY <1>11

LEMMA ClockNat ==
  ASSUME NEW t \in Tx, Premise(t)
  PROVE  \A n \in 1..clock' : n \in Nat
BY KindsOfPremise DEF TypeOK

\* A commit takes effect at its own timestamp and changes nobody's past.
LEMMA CommitStep ==
  ASSUME NEW t \in Tx, Premise(t), CursorInv, TakesEffect(t)
  PROVE  clock' \in {clock, clock + 1} /\ \E ts \in 1..clock' : TM!Commit(t, ts)
<1> DEFINE ts == wv'[t]
<1>1. /\ TypeOK /\ Record(t) /\ HistoryTypeOK /\ LockInv /\ CursorsOnLists(t)
      /\ CommitTimes /\ Seen' /\ Seen
  BY KindsOfPremise, SeenNext DEF Premise, Isolation
<1>2. Visible(t) /\ ~ Visible(t)'
  BY DEF TakesEffect, Visible, WriteBackPC
<1>3. /\ SnapOf(t) = rv[t] /\ SeenOf(t) = obs[t] /\ PendOf(t) = PendingWrites(t)
      /\ SnapOf(t)' = 0 /\ SeenOf(t)' = {} /\ PendOf(t)' = <<>>
      /\ writes[t] # <<>> /\ WriteSet(t) # {}
  <2>1. Len(writes[t]) >= 1 /\ Len(writes[t]) \in Nat /\ DOMAIN writes[t] = 1..Len(writes[t])
    BY <1>1 DEF CursorsOnLists, TakesEffect, CommitPC, TypeOK
  <2>2. writes[t] # <<>>
    BY <2>1
  <2>3. WriteSet(t) # {}
    BY <2>1 DEF WriteSet
  <2> QED BY <1>2, <2>2, <2>3 DEF SnapOf, SeenOf, PendOf
<1>4. /\ ts \in 1..clock' /\ rv[t] < ts /\ \A c \in commits : c.ts # ts
      /\ \A w \in WriteSet(t) : \A c \in commits : w \in DOMAIN c.writes => c.ts < ts
  BY NewTimestamp
<1>5. ASSUME NEW u \in Tx \ {t}, NEW o \in obs[u], o.word \in WriteSet(t) PROVE rv[u] < ts
  <2>1. o.word \in Claims(t)'
    BY <1>5, ClaimChange
  <2>2. obs'[u] = obs[u] /\ rv'[u] = rv[u]
    BY OthersKept DEF Premise, Kept
  <2> QED BY <1>1, <2>1, <2>2 DEF Seen, SeenAt
<1>6. ASSUME NEW o \in obs[t], o.word \in WriteSet(t), NEW c \in commits, o.word \in DOMAIN c.writes
      PROVE  c.ts <= rv[t]
  BY <1>6, ReadIsCurrent
<1>7. /\ Running' = Running \ {t} /\ t \in Running
      /\ Snap' = [Snap EXCEPT ![t] = 0]
      /\ SeenBy' = [SeenBy EXCEPT ![t] = {}]
      /\ PendBy' = [PendBy EXCEPT ![t] = <<>>]
      /\ Snap[t] = rv[t] /\ SeenBy[t] = obs[t] /\ PendBy[t] = PendingWrites(t)
  BY <1>2, <1>3, OthersShown DEF Running, Snap, SeenBy, PendBy
<1>8. \A u \in Running : Snap[u] = rv[u] /\ SeenBy[u] = obs[u]
  BY DEF Running, Snap, SnapOf, SeenBy, SeenOf
<1>9. DOMAIN PendBy[t] = WriteSet(t)
  BY <1>7 DEF PendingWrites
<1> DEFINE words(u) == {o.word : o \in SeenBy[u]}
<1>10. \A u \in Running \ {t} : Snap[u] >= ts => words(u) \cap DOMAIN PendBy[t] = {}
  <2> SUFFICES ASSUME NEW u \in Running \ {t}, Snap[u] >= ts, NEW w \in words(u),
                      w \in DOMAIN PendBy[t]
               PROVE  FALSE
    OBVIOUS
  <2>1. PICK o \in obs[u] : w = o.word
    BY <1>8
  <2>2. u \in Tx \ {t} /\ rv[u] \in Nat /\ ts \in Nat /\ rv[u] >= ts
    BY <1>1, <1>4, <1>8, ClockNat DEF Running, TypeOK
  <2>3. rv[u] < ts
    BY <1>5, <1>9, <2>1, <2>2
  <2> QED BY <2>2, <2>3
<1>11. \A c \in commits : c.ts > Snap[t] =>
         DOMAIN c.writes \cap DOMAIN PendBy[t] \cap words(t) = {}
  <2> SUFFICES ASSUME NEW c \in commits, c.ts > Snap[t], NEW w \in DOMAIN c.writes,
                      w \in DOMAIN PendBy[t], w \in words(t)
               PROVE  FALSE
    OBVIOUS
  <2>1. PICK o \in obs[t] : w = o.word
    BY <1>7
  <2>2. c.ts <= rv[t]
    BY <1>6, <1>9, <2>1
  <2>3. c.ts \in Nat /\ rv[t] \in Nat
    BY <1>1 DEF CommitTimes, TypeOK
  <2> QED BY <1>7, <2>2, <2>3
<1>12. \A c \in commits : c.ts > ts => DOMAIN c.writes \cap DOMAIN PendBy[t] = {}
  <2> SUFFICES ASSUME NEW c \in commits, c.ts > ts, NEW w \in DOMAIN c.writes,
                      w \in DOMAIN PendBy[t]
               PROVE  FALSE
    OBVIOUS
  <2>1. c.ts < ts /\ c.ts \in Nat /\ ts \in Nat
    BY <1>1, <1>4, <1>9, ClockNat DEF CommitTimes
  <2> QED BY <2>1
<1>13. commits' = commits \cup {[ts |-> ts, reads |-> SeenBy[t], writes |-> PendBy[t]]}
  BY <1>7 DEF TakesEffect
<1>14. ts > Snap[t] /\ DOMAIN PendBy[t] # {}
  <2>1. rv[t] \in Nat /\ ts \in Nat
    BY <1>1, <1>4, ClockNat DEF TypeOK
  <2> QED BY <1>3, <1>4, <1>7, <1>9, <2>1
<1> HIDE DEF ts
<1>15. TM!Commit(t, ts)
  BY <1>4, <1>7, <1>10, <1>11, <1>12, <1>13, <1>14
     DEF TM!Commit, TM!Forget, TM!SeenWords, Running, Snap, SnapOf, SeenBy, SeenOf,
         PendBy, PendOf, PendingWrites
<1> QED BY <1>4, <1>15, StampChange

---------------------------------------------------------------------------
(* tm_write: one pending value changes.                                    *)

WriteShows(t, w, d) ==
  /\ clock' = clock /\ commits' = commits /\ Visible(t) /\ Visible(t)'
  /\ rv'[t] = rv[t] /\ obs'[t] = obs[t] /\ writes'[t] # <<>>
  /\ PendingWrites(t)' =
       [v \in WriteSet(t) \cup {w} |-> IF v = w THEN d ELSE Pending(t, v)]

LEMMA WriteStep ==
  ASSUME NEW t \in Tx, Premise(t), NEW w, NEW d, WriteShows(t, w, d)
  PROVE  TM!Write(t, w, d)
<1>1. SnapOf(t)' = SnapOf(t) /\ SeenOf(t)' = SeenOf(t)
  BY DEF WriteShows, SnapOf, SeenOf
<1>2. DOMAIN PendOf(t) = WriteSet(t) /\ \A v \in WriteSet(t) : PendOf(t)[v] = Pending(t, v)
  <2>1. CASE writes[t] = <<>>
    <3>1. WriteSet(t) = {} /\ PendOf(t) = <<>>
      BY <2>1 DEF WriteSet, PendOf
    <3> QED BY <3>1
  <2>2. CASE writes[t] # <<>>
    BY <2>2 DEF PendOf, PendingWrites, WriteShows
  <2> QED BY <2>1, <2>2
<1>3. PendOf(t)' = [v \in DOMAIN PendOf(t) \cup {w} |-> IF v = w THEN d ELSE PendOf(t)[v]]
  BY <1>2 DEF PendOf, WriteShows
<1>4. /\ Running' = Running /\ t \in Running /\ Snap' = Snap /\ SeenBy' = SeenBy
      /\ PendBy' = [PendBy EXCEPT ![t] =
           [v \in DOMAIN @ \cup {w} |-> IF v = w THEN d ELSE @[v]]]
  <2>1. /\ \A u \in Tx \ {t} : /\ Visible(u)' = Visible(u) /\ SnapOf(u)' = SnapOf(u)
                             /\ SeenOf(u)' = SeenOf(u) /\ PendOf(u)' = PendOf(u)
        /\ Visible(t) /\ Visible(t)'
    BY OthersShown DEF WriteShows
  <2>2. Running' = Running /\ t \in Running
    BY <2>1 DEF Running
  <2>3. Snap' = Snap /\ SeenBy' = SeenBy
    BY <1>1, <2>1 DEF Snap, SeenBy
  <2>4. PendBy' = [PendBy EXCEPT ![t] =
          [v \in DOMAIN @ \cup {w} |-> IF v = w THEN d ELSE @[v]]]
    BY <1>3, <2>1 DEF PendBy
  <2> QED BY <2>2, <2>3, <2>4
<1> QED BY <1>4 DEF WriteShows, TM!Write, Running, Snap, SnapOf, SeenBy, SeenOf,
                    PendBy, PendOf, PendingWrites

\* getWriteNode as a function of the positions of a word on the list.
Nearest(hits) == IF hits = {} THEN 0 ELSE CHOOSE i \in hits : \A j \in hits : j <= i

LEMMA NodeIsNearest ==
  \A t, w :
    /\ getWriteNode(t, w) = Nearest({i \in DOMAIN writes[t] : writes[t][i].word = w})
    /\ getWriteNode(t, w)' = Nearest({i \in DOMAIN writes'[t] : writes'[t][i].word = w})
BY DEF getWriteNode, Nearest

\* What becomes of the list when a node is updated, and when one is inserted.
LEMMA ListUpdated ==
  ASSUME TypeOK, NEW t \in Tx, NEW w \in Word, NEW d \in Data, getWriteNode(t, w) # 0,
         writes' = [writes EXCEPT ![t][getWriteNode(t, w)].value = d]
  PROVE  /\ getWriteNode(t, w) \in DOMAIN writes[t] /\ NodeWord(t, getWriteNode(t, w)) = w
         /\ DOMAIN writes'[t] = DOMAIN writes[t]
         /\ writes'[t][getWriteNode(t, w)].value = d
         /\ \A j \in DOMAIN writes[t] :
              /\ writes'[t][j].word = writes[t][j].word
              /\ j # getWriteNode(t, w) => writes'[t][j].value = writes[t][j].value
<1> DEFINE i == getWriteNode(t, w)
<1>1. i \in DOMAIN writes[t] /\ NodeWord(t, i) = w
  BY WriteNodeOfWord
<1>2. writes'[t] = [writes[t] EXCEPT ![i] = [writes[t][i] EXCEPT !.value = d]]
  BY DEF TypeOK
<1> HIDE DEF i
<1>3. \A j \in DOMAIN writes[t] : writes[t][j] \in Node
  BY NodeType
<1>4. /\ DOMAIN writes'[t] = DOMAIN writes[t]
      /\ \A j \in DOMAIN writes[t] : /\ writes'[t][j].word = writes[t][j].word
                                     /\ j # i => writes'[t][j].value = writes[t][j].value
      /\ writes'[t][i].value = d
  BY <1>1, <1>2, <1>3 DEF Node
<1> QED BY <1>1, <1>4 DEF i

LEMMA ListGrown ==
  ASSUME TypeOK, NEW t \in Tx, NEW w \in Word, NEW d \in Data,
         writes'[t] = Append(writes[t], [word |-> w, value |-> d])
  PROVE  LET n == Len(writes[t]) + 1
         IN  /\ DOMAIN writes[t] = 1..(n - 1) /\ DOMAIN writes'[t] = 1..n
             /\ n \in Nat /\ n >= 1
             /\ n \in DOMAIN writes'[t] /\ DOMAIN writes'[t] = DOMAIN writes[t] \cup {n}
             /\ writes'[t][n] = [word |-> w, value |-> d]
             /\ \A j \in DOMAIN writes[t] : writes'[t][j] = writes[t][j] /\ j # n
<1>1. writes[t] \in Seq(Node) /\ Len(writes[t]) \in Nat
  BY DEF TypeOK
<1>2. [word |-> w, value |-> d] \in Node
  BY DEF Node
<1> QED BY <1>1, <1>2

\* The node of w on the list gets the new value.
LEMMA UpdateShows ==
  ASSUME NEW t \in Tx, Premise(t), NEW w \in Word, NEW d \in Data, tm_write(t, w, d),
         getWriteNode(t, w) # 0, writes' = [writes EXCEPT ![t][getWriteNode(t, w)].value = d],
         pc' = pc
  PROVE  WriteShows(t, w, d)
<1> DEFINE i == getWriteNode(t, w)
<1>1. TypeOK /\ TypeOK' /\ Record(t) /\ HistoryTypeOK
  BY KindsOfPremise DEF Premise
<1>2. /\ pc[t] = "active" /\ clock' = clock /\ rv'[t] = rv[t]
  BY DEF tm_write, shared
<1>3. commits' = commits /\ obs'[t] = obs[t]
  BY <1>1, <1>2 DEF Record, Commits, ReadsShared, HistoryTypeOK
<1>4. Visible(t) /\ Visible(t)'
  BY <1>2 DEF Visible, WriteBackPC
<1>5. i \in DOMAIN writes[t] /\ NodeWord(t, i) = w
  BY <1>1, ListUpdated
<1>8. /\ DOMAIN writes'[t] = DOMAIN writes[t]
      /\ \A j \in DOMAIN writes[t] : /\ writes'[t][j].word = writes[t][j].word
                                     /\ j # i => writes'[t][j].value = writes[t][j].value
      /\ writes'[t][i].value = d
  BY <1>1, ListUpdated
<1> HIDE DEF i
<1>9. \A v : getWriteNode(t, v)' = getWriteNode(t, v)
  <2> TAKE v
  <2>1. {j \in DOMAIN writes'[t] : writes'[t][j].word = v}
          = {j \in DOMAIN writes[t] : writes[t][j].word = v}
    BY <1>8
  <2> QED BY <2>1, NodeIsNearest
<1>10. WriteSet(t)' = WriteSet(t) /\ w \in WriteSet(t)
  BY <1>5, <1>8 DEF WriteSet, NodeWord
<1>11. \A v \in WriteSet(t) : Pending(t, v)' = IF v = w THEN d ELSE Pending(t, v)
  <2> TAKE v \in WriteSet(t)
  <2>1. CASE v = w
    BY <1>8, <1>9, <2>1 DEF Pending, i
  <2>2. CASE v # w
    <3>1. getWriteNode(t, v) \in DOMAIN writes[t] /\ getWriteNode(t, v) # i
      BY <1>1, <1>5, <2>2, PendingNode
    <3> QED BY <1>8, <1>9, <2>2, <3>1 DEF Pending
  <2> QED BY <2>1, <2>2
<1>12. PendingWrites(t)' = [v \in WriteSet(t) \cup {w} |-> IF v = w THEN d ELSE Pending(t, v)]
  BY <1>10, <1>11 DEF PendingWrites
<1>13. writes'[t] # <<>>
  BY <1>5, <1>8
<1> QED BY <1>2, <1>3, <1>4, <1>12, <1>13 DEF WriteShows

\* The new node is the nearest to the head.
LEMMA InsertShows ==
  ASSUME NEW t \in Tx, Premise(t), WriteInsert(t), ~ cleanTransaction(t)
  PROVE  \E w \in Word, d \in Data : WriteShows(t, w, d)
<1>1. TypeOK /\ TypeOK' /\ Record(t) /\ HistoryTypeOK
  BY KindsOfPremise DEF Premise
<1>2. PICK w \in Word, d \in Data : w = word[t] /\ d = buf[t]
  BY <1>1 DEF TypeOK
<1>3. /\ pc[t] = "insert" /\ pc'[t] = "active" /\ clock' = clock /\ rv'[t] = rv[t]
      /\ writes'[t] = Append(writes[t], [word |-> w, value |-> d])
  BY <1>1, <1>2 DEF WriteInsert, Goto, TypeOK, shared
<1>4. commits' = commits /\ obs'[t] = obs[t]
  BY <1>1, <1>3 DEF Record, Commits, ReadsShared, HistoryTypeOK
<1>5. Visible(t) /\ Visible(t)'
  BY <1>3 DEF Visible, WriteBackPC
<1> DEFINE n == Len(writes[t]) + 1
<1>6. /\ DOMAIN writes[t] = 1..(n - 1) /\ DOMAIN writes'[t] = 1..n /\ n \in Nat /\ n >= 1
      /\ n \in DOMAIN writes'[t] /\ DOMAIN writes'[t] = DOMAIN writes[t] \cup {n}
      /\ writes'[t][n] = [word |-> w, value |-> d]
      /\ \A j \in DOMAIN writes[t] : writes'[t][j] = writes[t][j] /\ j # n
  BY <1>1, <1>3, ListGrown
<1> HIDE DEF n
<1>7. getWriteNode(t, w)' = n
  <2> DEFINE hits == {j \in DOMAIN writes'[t] : writes'[t][j].word = w}
  <2>1. n \in hits /\ \A j \in hits : j \in 1..n
    BY <1>6
  <2>2. \A i \in hits : (\A j \in hits : j <= i) => i = n
    BY <1>6, <2>1
  <2>3. \A j \in hits : j <= n
    BY <1>6, <2>1
  <2> HIDE DEF hits
  <2>4. (CHOOSE i \in hits : \A j \in hits : j <= i) = n
    BY <2>1, <2>2, <2>3
  <2> QED BY <2>1, <2>4 DEF getWriteNode, hits
<1>8. \A v : v # w => getWriteNode(t, v)' = getWriteNode(t, v)
  <2> TAKE v
  <2> HAVE v # w
  <2>1. {j \in DOMAIN writes'[t] : writes'[t][j].word = v}
          = {j \in DOMAIN writes[t] : writes[t][j].word = v}
    BY <1>6
  <2> QED BY <2>1, NodeIsNearest
<1>9. WriteSet(t)' = WriteSet(t) \cup {w}
  BY <1>6 DEF WriteSet, NodeWord
<1>10. \A v \in WriteSet(t)' : Pending(t, v)' = IF v = w THEN d ELSE Pending(t, v)
  <2> TAKE v \in WriteSet(t)'
  <2>1. CASE v = w
    BY <1>6, <1>7, <2>1 DEF Pending
  <2>2. CASE v # w
    <3>1. getWriteNode(t, v) \in DOMAIN writes[t]
      BY <1>1, <1>9, <2>2, PendingNode
    <3> QED BY <1>6, <1>8, <2>2, <3>1 DEF Pending
  <2> QED BY <2>1, <2>2
<1>11. PendingWrites(t)' = [v \in WriteSet(t) \cup {w} |-> IF v = w THEN d ELSE Pending(t, v)]
  BY <1>9, <1>10 DEF PendingWrites
<1>12. writes'[t] # <<>>
  BY <1>6
<1>13. WriteShows(t, w, d)
  BY <1>3, <1>4, <1>5, <1>11, <1>12 DEF WriteShows
<1> QED BY <1>13

\* What SnapshotTM calls a step, and what TL2 does.
Shows(t) ==
  \/ UNCHANGED TM!svars
  \/ TM!Tick \/ TM!Begin(t) \/ TM!End(t)
  \/ \E w \in Word : TM!Read(t, w)
  \/ \E w \in Word, d \in Data : TM!Write(t, w, d)
  \/ clock' \in {clock, clock + 1} /\ \E ts \in 1..clock' : TM!Commit(t, ts)

\* A step that ends with cleanTransaction, and one that stays inside.
LEMMA CleanShows ==
  ASSUME NEW t \in Tx, Premise(t), cleanTransaction(t), UNCHANGED shared, Visible(t)
  PROVE  Forgets(t)
<1>1. TypeOK /\ pc'[t] = "idle"
  BY KindsOfPremise, CleanRests
<1>2. commits' = commits
  BY <1>1, CommitChange DEF TakesEffect
<1> QED BY <1>1, <1>2 DEF Forgets, Visible, shared

LEMMA InsideHidden ==
  ASSUME NEW t \in Tx, Premise(t), clock' = clock,
         Visible(t), Visible(t)', ~ ReadsShared(t), writes'[t] = writes[t]
  PROVE  Hidden(t)
<1>1. /\ TypeOK /\ Record(t) /\ HistoryTypeOK /\ (Call(t) \/ Advance(t))
      /\ pc[t] # "idle" /\ pc'[t] # "idle"
  BY KindsOfPremise DEF Premise, HStep, Visible
<1>2. rv'[t] = rv[t]
  BY <1>1, InsideTransaction
<1>3. obs'[t] = obs[t]
  BY <1>1 DEF Record, HistoryTypeOK
<1>4. commits' = commits
  BY CommitChange DEF TakesEffect, Visible, WriteBackPC
<1> QED BY <1>2, <1>3, <1>4 DEF Hidden

LEMMA CallShows ==
  ASSUME NEW t \in Tx, Premise(t), IdleIsEmpty, Call(t), ~ ReadsShared(t)
  PROVE  Shows(t)
<1> USE DEF Visible, WriteBackPC
<1>1. TypeOK
  BY KindsOfPremise
<1>2. ASSUME NEW ro \in BOOLEAN, tm_begin(t, ro) PROVE Shows(t)
  BY <1>2, BeginStep DEF Shows
<1>3. ASSUME NEW w \in Word, tm_read(t, w) PROVE Shows(t)
  <2>1. Hidden(t)
    BY <1>1, <1>3, InsideHidden DEF tm_read, Goto, TypeOK, shared, descriptor
  <2> QED BY <2>1, HiddenStep DEF Shows
<1>4. ASSUME NEW w \in Word, NEW d \in Data, tm_write(t, w, d) PROVE Shows(t)
  <2>1. CASE /\ getWriteNode(t, w) # 0 /\ pc' = pc
             /\ writes' = [writes EXCEPT ![t][getWriteNode(t, w)].value = d]
    BY <1>4, <2>1, UpdateShows, WriteStep DEF Shows
  <2>2. CASE Goto(t, "insert") /\ UNCHANGED writes
    <3>1. Hidden(t)
      BY <1>1, <1>4, <2>2, InsideHidden DEF tm_write, Goto, TypeOK, shared
    <3> QED BY <3>1, HiddenStep DEF Shows
  <2> QED BY <1>4, <2>1, <2>2 DEF tm_write
<1>5. CASE EndWithoutWrites(t)
  <2>1. Forgets(t)
    BY <1>5, CleanShows DEF EndWithoutWrites
  <2> QED BY <2>1, EndStep DEF Shows
<1>6. CASE EndWithWrites(t)
  <2>1. Hidden(t)
    BY <1>1, <1>6, InsideHidden DEF EndWithWrites, Goto, TypeOK, shared, descriptor
  <2> QED BY <2>1, HiddenStep DEF Shows
<1> QED BY <1>2, <1>3, <1>4, <1>5, <1>6 DEF Call

LEMMA ReadStepsShow ==
  ASSUME NEW t \in Tx, Premise(t), ~ ReadsShared(t),
         \/ ReadLookup(t) \/ ReadCopy(t) \/ ReadCheckLock(t) \/ ReadCheckVersion(t)
         \/ WriteInsert(t)
  PROVE  Shows(t)
<1> USE DEF Visible, WriteBackPC
<1>1. TypeOK
  BY KindsOfPremise
<1>2. CASE cleanTransaction(t)
  <2>1. UNCHANGED shared /\ Visible(t)
    BY <1>1, <1>2 DEF ReadLookup, ReadCopy, ReadCheckLock, ReadCheckVersion, WriteInsert
  <2>2. Forgets(t)
    BY <1>2, <2>1, CleanShows
  <2> QED BY <2>2, EndStep DEF Shows
<1>3. CASE WriteInsert(t) /\ ~ cleanTransaction(t)
  BY <1>3, InsertShows, WriteStep DEF Shows
<1>4. CASE ~ WriteInsert(t) /\ ~ cleanTransaction(t)
  <2>1. /\ Visible(t) /\ Visible(t)' /\ clock' = clock /\ writes'[t] = writes[t]
    BY <1>1, <1>4 DEF ReadLookup, ReadCopy, ReadCheckLock, ReadCheckVersion, Goto, TypeOK,
       shared, descriptor
  <2>2. Hidden(t)
    BY <2>1, InsideHidden
  <2> QED BY <2>2, HiddenStep DEF Shows
<1> QED BY <1>2, <1>3, <1>4

LEMMA CommitStepsShow ==
  ASSUME NEW t \in Tx, Premise(t), ~ ReadsShared(t),
         \/ AcquireLock(t) \/ ReleaseLock(t) \/ AbortCommit(t) \/ IncClock(t)
         \/ ValidateVersion(t) \/ ValidateLock(t) \/ ValidateDone(t) \/ WritesBack(t)
  PROVE  Shows(t)
<1>1. /\ TypeOK /\ HistoryTypeOK /\ Stamps /\ WriteBack /\ Record(t) /\ CursorInv
      /\ CursorsOnLists(t) /\ clock' < VersionModulus /\ clock < VersionModulus
  BY KindsOfPremise DEF Premise, Isolation
<1>2. CASE TakesEffect(t)
  BY <1>1, <1>2, CommitStep DEF Shows
<1>3. CASE Draws(t)
  BY <1>3, TickStep DEF Shows
<1>4. CASE AbortCommit(t)
  <2>1. Forgets(t)
    BY <1>4, CleanShows DEF AbortCommit, Visible, WriteBackPC
  <2> QED BY <2>1, EndStep DEF Shows
<1>5. CASE \/ AcquireLock(t) \/ ReleaseLock(t) \/ ValidateVersion(t) \/ ValidateLock(t)
  <2>1. /\ Visible(t) /\ Visible(t)' /\ clock' = clock /\ writes'[t] = writes[t]
    BY <1>1, <1>5 DEF AcquireLock, ReleaseLock, ValidateVersion, ValidateLock, StartRelease,
       Goto, TypeOK, shared, descriptor, Visible, WriteBackPC
  <2>2. Hidden(t)
    BY <2>1, InsideHidden
  <2> QED BY <2>2, HiddenStep DEF Shows
<1>6. CASE WritesBack(t)
  <2>1. Hidden(t)
    BY <1>1, <1>6, WriteBackSeen DEF Hidden, Visible, WriteBackPC
  <2> QED BY <2>1, HiddenStep DEF Shows
<1> QED BY <1>1, <1>2, <1>3, <1>4, <1>5, <1>6, ClockStep, ValidatedStep

LEMMA StepShows ==
  ASSUME NEW t \in Tx, Premise(t), IdleIsEmpty
  PROVE  Shows(t)
<1>1. CASE ReadsShared(t)
  BY <1>1, ReadStep DEF Shows
<1>2. CASE ~ ReadsShared(t)
  BY <1>2, CallShows, ReadStepsShow, CommitStepsShow DEF Premise, HStep, Advance, WritesBack
<1> QED BY <1>1, <1>2

---------------------------------------------------------------------------
LEMMA InitShows == HInit => TM!Init
<1> SUFFICES ASSUME HInit PROVE TM!Init
  OBVIOUS
<1>1. /\ clock = 0 /\ commits = {}
      /\ \A t \in Tx : ~ Visible(t) /\ SnapOf(t) = 0 /\ SeenOf(t) = {} /\ PendOf(t) = <<>>
  BY DEF HInit, Init, Visible, SnapOf, SeenOf, PendOf
<1>2. /\ Running = {} /\ Snap = [t \in Tx |-> 0] /\ SeenBy = [t \in Tx |-> {}]
      /\ PendBy = [t \in Tx |-> <<>>]
  BY <1>1 DEF Running, Snap, SeenBy, PendBy
<1> QED BY <1>1, <1>2 DEF TM!Init, Running, Snap, SnapOf, SeenBy, SeenOf, PendBy, PendOf,
                          PendingWrites

LEMMA NextShows ==
  RInv /\ RInv' /\ clock < VersionModulus /\ (clock < VersionModulus)' /\ [HNext]_hvars
    => [TM!Next]_(TM!svars)
<1> SUFFICES ASSUME RInv, RInv', clock < VersionModulus, clock' < VersionModulus, [HNext]_hvars
             PROVE  [TM!Next]_(TM!svars)
  OBVIOUS
<1>1. CASE HNext
  <2>1. PICK t \in Tx : HStep(t)
    BY <1>1, HStepOfNext
  <2>2. Premise(t)
    BY <2>1 DEF Premise, RInv, IInv
  <2>3. Shows(t)
    BY <2>2, StepShows DEF RInv
  <2> QED BY <2>3 DEF Shows, TM!Next
<1>2. CASE UNCHANGED hvars
  <2>1. \A t \in Tx : /\ Visible(t)' = Visible(t) /\ SnapOf(t)' = SnapOf(t)
                      /\ SeenOf(t)' = SeenOf(t) /\ PendOf(t)' = PendOf(t)
    BY <1>2, PendingKept DEF hvars, vars, ghosts, descriptor, Visible, SnapOf, SeenOf, PendOf
  <2>2. Running' = Running /\ Snap' = Snap /\ SeenBy' = SeenBy /\ PendBy' = PendBy
    BY <2>1 DEF Running, Snap, SeenBy, PendBy
  <2> QED BY <1>2, <2>2 DEF hvars, vars, ghosts, shared, TM!svars, Running, Snap, SnapOf,
                            SeenBy, SeenOf, PendBy, PendOf, PendingWrites
<1> QED BY <1>1, <1>2

\* Until the clock wraps, TL2 is the snapshot memory: whatever the interleaving
\* of the four calls' single accesses, each step looks to the users like one
\* step of SnapshotTM or like none (tm.c:103-320).
THEOREM TL2ImplementsSnapshots ==
  HSpec /\ [](clock < VersionModulus) => ImplementsSnapshots
<1>1. RInv /\ RInv' /\ clock < VersionModulus /\ (clock < VersionModulus)' /\ [HNext]_hvars
        => [TM!Next]_(TM!svars)
  BY NextShows
<1> QED BY <1>1, RInvInit, RInvNext, InitShows, PTL DEF HSpec, ImplementsSnapshots, TM!Spec

(***************************************************************************)
(* The write list and the filter.                                          *)
(***************************************************************************)

\* The filter answers yes for every word on the list when it is asked.  It does
\* while no one else writes the words.
FilterAnswersYes(t) ==
  pc[t] \in {"active", "lookup"} => \A w \in WriteSet(t) : isInBloomFilter(t, w)

\* The list has one node per word, a new node is of a new word, read-only
\* transactions have none, and tm_read takes its value from the list if it can.
OwnWrites(t) ==
  /\ DistinctWords(t)
  /\ pc[t] = "insert" => ~ isRo[t] /\ word[t] \notin WriteSet(t)
  /\ isRo[t] => writes[t] = <<>>
  /\ pc[t] = "copy" => word[t] \notin WriteSet(t)
  /\ pc[t] \in {"checklock", "checkversion"} /\ word[t] \in WriteSet(t) =>
       buf[t] = Pending(t, word[t])

LEMMA OthersOwnWrites ==
  ASSUME HistoryTypeOK, NEW t \in Tx, HStep(t), NEW u \in Tx \ {t}, OwnWrites(u)
  PROVE  OwnWrites(u)'
<1>1. Kept(u) /\ WriteSet(u)' = WriteSet(u) /\ PendingWrites(u)' = PendingWrites(u)
  BY OthersKept, OthersClaims
<1>2. \A w : Pending(u, w)' = Pending(u, w)
  BY <1>1 DEF Kept, Pending, getWriteNode
<1>3. DistinctWords(u)' = DistinctWords(u)
  BY <1>1 DEF Kept, DistinctWords, NodeWord
<1> QED BY <1>1, <1>2, <1>3 DEF OwnWrites, Kept

\* A list that stays the same, in a step that is not part of a call of tm_read
\* or tm_write.
LEMMA ListKept ==
  ASSUME NEW t \in Tx, writes'[t] = writes[t]
  PROVE  /\ WriteSet(t)' = WriteSet(t) /\ DistinctWords(t)' = DistinctWords(t)
         /\ \A w : Pending(t, w)' = Pending(t, w)
BY DEF WriteSet, DistinctWords, NodeWord, Pending, getWriteNode

LEMMA ListCleaned ==
  ASSUME TypeOK, NEW t \in Tx, cleanTransaction(t)
  PROVE  OwnWrites(t)'
<1>1. pc'[t] = "idle" /\ writes'[t] = <<>>
  BY DEF cleanTransaction, Goto, TypeOK
<1> QED BY <1>1 DEF OwnWrites, DistinctWords

LEMMA OwnWritesOfCall ==
  ASSUME TypeOK, IdleIsEmpty, NEW t \in Tx, Call(t), OwnWrites(t), FilterAnswersYes(t)
  PROVE  OwnWrites(t)'
<1>1. ASSUME NEW ro \in BOOLEAN, tm_begin(t, ro) PROVE OwnWrites(t)'
  <2>1. pc'[t] = "active" /\ writes'[t] = <<>>
    BY <1>1 DEF tm_begin, Goto, TypeOK, IdleIsEmpty
  <2> QED BY <2>1 DEF OwnWrites, DistinctWords
<1>2. ASSUME NEW w \in Word, tm_read(t, w) PROVE OwnWrites(t)'
  <2>1. /\ pc'[t] = (IF isRo[t] THEN "copy" ELSE "lookup") /\ writes'[t] = writes[t]
        /\ isRo'[t] = isRo[t]
    BY <1>2 DEF tm_read, Goto, TypeOK, descriptor
  <2>2. pc'[t] = "copy" => WriteSet(t)' = {}
    BY <2>1 DEF OwnWrites, WriteSet
  <2> QED BY <2>1, <2>2, ListKept DEF OwnWrites
<1>3. ASSUME NEW w \in Word, NEW d \in Data, tm_write(t, w, d) PROVE OwnWrites(t)'
  <2>1. ~ isRo[t] /\ isRo'[t] = isRo[t] /\ pc[t] = "active"
    BY <1>3 DEF tm_write
  <2>2. CASE /\ getWriteNode(t, w) # 0 /\ pc' = pc
             /\ writes' = [writes EXCEPT ![t][getWriteNode(t, w)].value = d]
    <3>1. DistinctWords(t)'
      BY <2>2, ListUpdated DEF OwnWrites, DistinctWords, NodeWord
    <3> QED BY <2>1, <2>2, <3>1 DEF OwnWrites
  <2>3. CASE /\ ~ (isInBloomFilter(t, w) /\ getWriteNode(t, w) # 0)
             /\ Goto(t, "insert") /\ word' = [word EXCEPT ![t] = w] /\ UNCHANGED writes
    <3>1. pc'[t] = "insert" /\ word'[t] = w
      BY <2>3 DEF Goto, TypeOK
    <3>2. w \notin WriteSet(t)
      <4> SUFFICES ASSUME w \in WriteSet(t) PROVE FALSE
        OBVIOUS
      <4>1. getWriteNode(t, w) = 0
        BY <2>1, <2>3 DEF FilterAnswersYes
      <4>2. getWriteNode(t, w) \in DOMAIN writes[t]
        BY PendingNode
      <4>3. 0 \notin DOMAIN writes[t]
        BY DEF TypeOK
      <4> QED BY <4>1, <4>2, <4>3
    <3> QED BY <2>1, <2>3, <3>1, <3>2, ListKept DEF OwnWrites
  <2> QED BY <1>3, <2>2, <2>3 DEF tm_write
<1>4. CASE EndWithoutWrites(t)
  BY <1>4, ListCleaned DEF EndWithoutWrites
<1>5. CASE EndWithWrites(t)
  <2>1. pc'[t] = "acquire" /\ writes'[t] = writes[t] /\ isRo'[t] = isRo[t]
    BY <1>5 DEF EndWithWrites, Goto, TypeOK, descriptor
  <2> QED BY <2>1, ListKept DEF OwnWrites
<1> QED BY <1>1, <1>2, <1>3, <1>4, <1>5 DEF Call

LEMMA OwnWritesOfRead ==
  ASSUME TypeOK, NEW t \in Tx, OwnWrites(t), FilterAnswersYes(t),
         ReadLookup(t) \/ ReadCopy(t) \/ ReadCheckLock(t) \/ ReadCheckVersion(t)
  PROVE  OwnWrites(t)'
<1>1. CASE cleanTransaction(t)
  BY <1>1, ListCleaned
<1>2. CASE ~ cleanTransaction(t)
  <2>1. /\ writes'[t] = writes[t] /\ isRo'[t] = isRo[t] /\ pc'[t] # "insert"
        /\ pc'[t] \in ReadPC => word'[t] = word[t]
    BY <1>2 DEF ReadLookup, ReadCopy, ReadCheckLock, ReadCheckVersion, Goto, TypeOK, descriptor,
       locals, ReadPC
  <2>2. CASE ReadLookup(t)
    <3> DEFINE i == getWriteNode(t, word[t])
    <3>1. pc[t] = "lookup" /\ pc'[t] \in {"copy", "checklock"}
      BY <2>2 DEF ReadLookup, Goto, TypeOK
    <3>2. CASE Goto(t, "checklock") /\ buf' = [buf EXCEPT ![t] = writes[t][i].value]
      <4>1. pc'[t] = "checklock" /\ buf'[t] = Pending(t, word[t])
        BY <3>2 DEF Goto, TypeOK, Pending
      <4> QED BY <2>1, <4>1, ListKept DEF OwnWrites, ReadPC
    <3>3. CASE Goto(t, "copy") /\ ~ (isInBloomFilter(t, word[t]) /\ i # 0)
      <4>1. pc'[t] = "copy"
        BY <3>3 DEF Goto, TypeOK
      <4>2. word[t] \notin WriteSet(t)
        <5> SUFFICES ASSUME word[t] \in WriteSet(t) PROVE FALSE
          OBVIOUS
        <5>1. i = 0
          BY <3>1, <3>3 DEF FilterAnswersYes
        <5>2. i \in DOMAIN writes[t] /\ 0 \notin DOMAIN writes[t]
          BY PendingNode DEF TypeOK
        <5> QED BY <5>1, <5>2
      <4> QED BY <2>1, <4>1, <4>2, ListKept DEF OwnWrites, ReadPC
    <3> QED BY <2>2, <3>2, <3>3 DEF ReadLookup
  <2>3. CASE ReadCopy(t)
    <3>1. pc[t] = "copy" /\ pc'[t] \in {"copy", "checklock"}
      BY <2>3 DEF ReadCopy, Goto, TypeOK
    <3> QED BY <2>1, <3>1, ListKept DEF OwnWrites, ReadPC
  <2>4. CASE ReadCheckLock(t)
    <3>1. pc[t] = "checklock" /\ pc'[t] = "checkversion" /\ buf'[t] = buf[t]
      BY <1>2, <2>4 DEF ReadCheckLock, Goto, TypeOK, locals
    <3> QED BY <2>1, <3>1, ListKept DEF OwnWrites, ReadPC
  <2>5. CASE ReadCheckVersion(t)
    <3>1. pc'[t] = "active"
      BY <1>2, <2>5 DEF ReadCheckVersion, Goto, TypeOK
    <3> QED BY <2>1, <3>1, ListKept DEF OwnWrites
  <2> QED BY <2>2, <2>3, <2>4, <2>5
<1> QED BY <1>1, <1>2

LEMMA OwnWritesOfInsert ==
  ASSUME TypeOK, NEW t \in Tx, OwnWrites(t), WriteInsert(t)
  PROVE  OwnWrites(t)'
<1>1. CASE cleanTransaction(t)
  BY <1>1, ListCleaned
<1>2. CASE ~ cleanTransaction(t)
  <2>1. PICK w \in Word, d \in Data : w = word[t] /\ d = buf[t]
    BY DEF TypeOK
  <2>2. /\ pc[t] = "insert" /\ pc'[t] = "active" /\ isRo'[t] = isRo[t]
        /\ writes'[t] = Append(writes[t], [word |-> w, value |-> d])
    BY <1>2, <2>1 DEF WriteInsert, Goto, TypeOK
  <2>3. w \notin WriteSet(t) /\ ~ isRo[t]
    BY <2>1, <2>2 DEF OwnWrites
  <2>4. DistinctWords(t)'
    BY <2>2, <2>3, ListGrown DEF OwnWrites, DistinctWords, NodeWord, WriteSet
  <2> QED BY <2>2, <2>3, <2>4 DEF OwnWrites
<1> QED BY <1>1, <1>2

LEMMA OwnWritesOfEnd ==
  ASSUME TypeOK, NEW t \in Tx, OwnWrites(t),
         \/ AcquireLock(t) \/ ReleaseLock(t) \/ AbortCommit(t) \/ IncClock(t)
         \/ ValidateVersion(t) \/ ValidateLock(t) \/ ValidateDone(t) \/ WritesBack(t)
  PROVE  OwnWrites(t)'
<1>1. CASE cleanTransaction(t)
  BY <1>1, ListCleaned
<1>2. CASE ~ cleanTransaction(t)
  <2>1. /\ writes'[t] = writes[t] /\ isRo'[t] = isRo[t] /\ pc'[t] \in CommitPC
    <3>1. CASE AcquireLock(t) \/ ReleaseLock(t) \/ AbortCommit(t) \/ IncClock(t)
      BY <1>2, <3>1 DEF AcquireLock, ReleaseLock, AbortCommit, IncClock, StartRelease,
         StartWriteBack, Goto, TypeOK, descriptor, CommitPC
    <3>2. CASE ValidateVersion(t) \/ ValidateLock(t) \/ ValidateDone(t) \/ WritesBack(t)
      BY <1>2, <3>2 DEF ValidateVersion, ValidateLock, ValidateDone, WritesBack, CopyBack,
         StoreVersion, Unlock, StartRelease, StartWriteBack, Goto, TypeOK, descriptor, CommitPC
    <3> QED BY <3>1, <3>2
  <2> QED BY <2>1, ListKept DEF OwnWrites, CommitPC
<1> QED BY <1>1, <1>2

LEMMA OwnWritesNext ==
  ASSUME TypeOK, IdleIsEmpty, NEW t \in Tx, Call(t) \/ Advance(t), OwnWrites(t),
         FilterAnswersYes(t)
  PROVE  OwnWrites(t)'
BY OwnWritesOfCall, OwnWritesOfRead, OwnWritesOfInsert, OwnWritesOfEnd DEF Advance, WritesBack

\* As many words as nodes.
LEMMA DistinctCount ==
  ASSUME TypeOK, NEW t \in Tx, DistinctWords(t)
  PROVE  Cardinality(WriteSet(t)) = Len(writes[t])
<1> DEFINE n == Len(writes[t])
           f == [i \in 1..n |-> NodeWord(t, i)]
<1>1. n \in Nat /\ DOMAIN writes[t] = 1..n
  BY DEF TypeOK
<1>2. f \in Bijection(1..n, WriteSet(t))
  <2>1. f \in [1..n -> WriteSet(t)]
    BY <1>1 DEF WriteSet
  <2>2. \A i, j \in 1..n : f[i] = f[j] => i = j
    BY <1>1 DEF DistinctWords
  <2>3. \A w \in WriteSet(t) : \E i \in 1..n : f[i] = w
    BY <1>1 DEF WriteSet
  <2> HIDE DEF f
  <2> QED BY <2>1, <2>2, <2>3 DEF Bijection, Injection, Surjection, IsInjective
<1>3. ExistsBijection(1..n, WriteSet(t))
  BY <1>2 DEF ExistsBijection
<1> HIDE DEF f, n
<1>4. Cardinality(WriteSet(t)) = n
  BY <1>1, <1>3, FS_CountingElements
<1> QED BY <1>4 DEF n

---------------------------------------------------------------------------
(* No commit beside it: a transaction that is "quiet" does not abort.      *)

\* The clock still is at rv, no version has changed under a read, the filter knows
\* every word on the list, and tm_end goes straight from the locks to the write-back.
Fresh(t) ==
  /\ pc[t] \notin {"idle", "release", "valversion", "vallock"}
  /\ pc[t] \notin WriteBackPC => rv[t] = clock
  /\ pc[t] \notin WriteBackPC => \A w \in WriteSet(t) : isInBloomFilter(t, w)
  /\ pc[t] \in ReadPC => before[t] = version[word[t]]

\* Nothing but the transaction's own steps can be waiting to change that.
Undisturbed(t) ==
  Fresh(t) /\ OwnWrites(t) /\ \A v \in Tx \ {t} : pc[v] \notin CommitPC

QInv == RInv /\ (clock < VersionModulus => \A t \in quiet : Undisturbed(t))

\* Outside tm_end a step changes nothing that threads share.
LEMMA OutsideShared ==
  ASSUME NEW t \in Tx, Call(t) \/ Advance(t), pc[t] \notin CommitPC
  PROVE  UNCHANGED shared
<1> USE DEF CommitPC, shared
<1>1. CASE Call(t)
  BY <1>1 DEF Call, tm_begin, tm_read, tm_write, EndWithoutWrites, EndWithWrites
<1>2. CASE Advance(t)
  BY <1>2 DEF Advance, ReadLookup, ReadCopy, ReadCheckLock, ReadCheckVersion, WriteInsert,
     AcquireLock, ReleaseLock, AbortCommit, IncClock, ValidateVersion, ValidateLock,
     ValidateDone, CopyBack, StoreVersion, Unlock
<1> QED BY <1>1, <1>2

\* With no one else in tm_end, a lock can only be one's own.
LEMMA LocksAreOwn ==
  ASSUME LockInv, NEW t \in Tx, \A v \in Tx \ {t} : pc[v] \notin CommitPC
  PROVE  \A w \in Word : lockBit[w] => \E i \in HeldNodes(t) : NodeWord(t, i) = w
BY DEF LockInv, HeldNodes, CommitPC, WriteBackPC

LEMMA QuietKept ==
  ASSUME HistoryTypeOK, NEW t \in Tx, HStep(t), NEW u \in quiet'
  PROVE  /\ u \in quiet \/ (u = t /\ pc[t] = "idle")
         /\ pc'[u] # "idle" /\ \A v \in Tx \ {u} : pc'[v] \notin CommitPC
BY DEF HStep, Record

\* The others' steps do not disturb it, ...
LEMMA OthersDoNotDisturb ==
  ASSUME HistoryTypeOK, NEW t \in Tx, HStep(t), NEW u \in quiet', u # t, Undisturbed(u)
  PROVE  Undisturbed(u)'
<1>1. u \in Tx /\ pc[t] \notin CommitPC /\ Kept(u) /\ WriteSet(u)' = WriteSet(u)
  BY OthersKept, OthersClaims DEF HistoryTypeOK, Undisturbed, Record, HStep
<1>2. UNCHANGED shared
  BY <1>1, OutsideShared DEF HStep
<1>3. OwnWrites(u)'
  BY <1>1, OthersOwnWrites DEF Undisturbed
<1>4. \A w : isInBloomFilter(u, w)' = isInBloomFilter(u, w)
  BY <1>1, <1>2 DEF isInBloomFilter, FilterBits, Kept, shared
<1>5. Fresh(u)'
  BY <1>1, <1>2, <1>4 DEF Undisturbed, Fresh, Kept, shared
<1> QED BY <1>3, <1>5, QuietKept DEF Undisturbed

\* ... and its own keep what it counts on.
LEMMA FilterKept ==
  ASSUME NEW t \in Tx, mem' = mem, writes'[t] = writes[t], filter'[t] = filter[t]
  PROVE  /\ WriteSet(t)' = WriteSet(t)
         /\ \A w : isInBloomFilter(t, w)' = isInBloomFilter(t, w)
BY DEF WriteSet, NodeWord, isInBloomFilter, FilterBits

LEMMA BeginIsFresh ==
  ASSUME TypeOK, IdleIsEmpty, NEW t \in Tx, Call(t) \/ Advance(t), pc[t] = "idle",
         clock < VersionModulus
  PROVE  Fresh(t)'
<1>1. PICK ro \in BOOLEAN : tm_begin(t, ro)
  BY DEF Call, Advance, tm_read, tm_write, EndWithoutWrites, EndWithWrites, ReadLookup,
     ReadCopy, ReadCheckLock, ReadCheckVersion, WriteInsert, AcquireLock, ReleaseLock,
     AbortCommit, IncClock, ValidateVersion, ValidateLock, ValidateDone, CopyBack,
     StoreVersion, Unlock
<1>2. Truncate(clock) = clock
  BY TruncateSmall DEF TypeOK
<1>3. pc'[t] = "active" /\ rv'[t] = clock /\ clock' = clock /\ writes'[t] = <<>>
  BY <1>1, <1>2 DEF tm_begin, Goto, TypeOK, IdleIsEmpty, shared
<1>4. WriteSet(t)' = {}
  BY <1>3 DEF WriteSet
<1> QED BY <1>3, <1>4 DEF Fresh, ReadPC

LEMMA ReadIsFresh ==
  ASSUME TypeOK, NEW t \in Tx, Fresh(t), pc'[t] # "idle",
         \/ \E w \in Word : tm_read(t, w)
         \/ ReadLookup(t) \/ ReadCopy(t) \/ ReadCheckLock(t) \/ ReadCheckVersion(t)
  PROVE  Fresh(t)'
<1> DEFINE Reads == /\ UNCHANGED shared /\ writes'[t] = writes[t] /\ filter'[t] = filter[t]
                    /\ rv'[t] = rv[t] /\ pc[t] \notin WriteBackPC
                    /\ pc'[t] \in {"active"} \cup ReadPC
                    /\ pc'[t] \in ReadPC => before'[t] = version[word'[t]]
<1>1. Reads
  <2>1. ASSUME NEW w \in Word, tm_read(t, w) PROVE Reads
    BY <2>1 DEF tm_read, Goto, TypeOK, descriptor, WriteBackPC, ReadPC
  <2>2. CASE ReadLookup(t)
    BY <2>2 DEF ReadLookup, Goto, TypeOK, descriptor, WriteBackPC, ReadPC, Fresh
  <2>3. CASE ReadCopy(t)
    BY <2>3 DEF ReadCopy, Goto, TypeOK, descriptor, WriteBackPC, ReadPC, Fresh
  <2>4. CASE ReadCheckLock(t)
    BY <2>4 DEF ReadCheckLock, cleanTransaction, Goto, TypeOK, descriptor, locals, WriteBackPC,
       ReadPC, Fresh
  <2>5. CASE ReadCheckVersion(t)
    BY <2>5 DEF ReadCheckVersion, cleanTransaction, Goto, TypeOK, WriteBackPC, ReadPC
  <2> QED BY <2>1, <2>2, <2>3, <2>4, <2>5
<1> QED BY <1>1, FilterKept DEF Fresh, shared, ReadPC

LEMMA WriteIsFresh ==
  ASSUME TypeOK, NEW t \in Tx, Fresh(t), pc'[t] # "idle",
         (\E w \in Word, d \in Data : tm_write(t, w, d)) \/ WriteInsert(t)
  PROVE  Fresh(t)'
<1>1. ASSUME NEW w \in Word, NEW d \in Data, tm_write(t, w, d) PROVE Fresh(t)'
  <2> DEFINE i == getWriteNode(t, w)
  <2>1. /\ UNCHANGED shared /\ filter' = filter /\ rv' = rv
        /\ pc[t] = "active" /\ pc'[t] \in {"active", "insert"}
    BY <1>1 DEF tm_write, Goto, TypeOK
  <2>2. WriteSet(t)' = WriteSet(t)
    <3>1. CASE i # 0 /\ writes' = [writes EXCEPT ![t][i].value = d]
      BY <3>1, ListUpdated DEF WriteSet, NodeWord
    <3>2. CASE UNCHANGED writes
      BY <3>2, ListKept
    <3> QED BY <1>1, <3>1, <3>2 DEF tm_write
  <2>3. \A v : isInBloomFilter(t, v)' = isInBloomFilter(t, v)
    BY <2>1 DEF isInBloomFilter, FilterBits, shared
  <2> QED BY <2>1, <2>2, <2>3 DEF Fresh, ReadPC, WriteBackPC, shared
<1>2. CASE WriteInsert(t)
  <2>1. PICK w \in Word, d \in Data : w = word[t] /\ d = buf[t]
    BY DEF TypeOK
  <2>2. /\ UNCHANGED shared /\ rv' = rv /\ pc[t] = "insert" /\ pc'[t] = "active"
        /\ writes'[t] = Append(writes[t], [word |-> w, value |-> d])
        /\ filter'[t] = filter[t] \cup FilterBits(w)
    BY <1>2, <2>1 DEF WriteInsert, cleanTransaction, Goto, TypeOK
  <2>3. WriteSet(t)' = WriteSet(t) \cup {w}
    BY <2>2, ListGrown DEF WriteSet, NodeWord
  <2>4. \A v \in WriteSet(t)' : isInBloomFilter(t, v)'
    BY <2>2, <2>3 DEF Fresh, WriteBackPC, isInBloomFilter, FilterBits, shared
  <2> QED BY <2>2, <2>4 DEF Fresh, ReadPC, WriteBackPC, shared
<1> QED BY <1>1, <1>2

\* acquireLocks meets no lock, for the locks are its own and the list names each
\* word once; the timestamp is the next after rv, so validation is skipped.
LEMMA EndIsFresh ==
  ASSUME NEW t \in Tx, Premise(t), Undisturbed(t), pc'[t] # "idle",
         \/ EndWithWrites(t) \/ AcquireLock(t) \/ ReleaseLock(t) \/ AbortCommit(t)
         \/ IncClock(t) \/ ValidateVersion(t) \/ ValidateLock(t) \/ ValidateDone(t)
         \/ WritesBack(t)
  PROVE  Fresh(t)'
<1>1. TypeOK /\ LockInv /\ Fresh(t) /\ DistinctWords(t) /\ CursorsOnLists(t)
  BY KindsOfPremise DEF Premise, Undisturbed, OwnWrites
<1>2. CASE EndWithWrites(t)
  <2>1. /\ UNCHANGED shared /\ writes' = writes /\ filter' = filter /\ rv' = rv
        /\ pc[t] = "active" /\ pc'[t] = "acquire"
    BY <1>1, <1>2 DEF EndWithWrites, Goto, TypeOK, descriptor
  <2> QED BY <1>1, <2>1, FilterKept DEF Fresh, ReadPC, WriteBackPC, shared
<1>3. CASE AcquireLock(t)
  <2>1. ~ lockBit[CurWord(t)]
    <3> SUFFICES ASSUME lockBit[CurWord(t)] PROVE FALSE
      OBVIOUS
    <3>1. /\ pc[t] = "acquire" /\ cur[t] \in DOMAIN writes[t] /\ cur[t] \in Nat
      BY <1>1, <1>3 DEF AcquireLock, CursorsOnLists, TypeOK
    <3>2. CurWord(t) \in Word /\ CurWord(t) = NodeWord(t, cur[t])
      BY <1>1, <3>1, NodeType DEF CurWord
    <3>3. PICK i \in HeldNodes(t) : NodeWord(t, i) = CurWord(t)
      BY <1>1, <3>2, LocksAreOwn DEF Undisturbed
    <3>4. i \in DOMAIN writes[t] /\ i > cur[t]
      BY <3>1 DEF HeldNodes, WriteBackPC
    <3> QED BY <1>1, <3>1, <3>2, <3>3, <3>4 DEF DistinctWords
  <2>2. /\ clock' = clock /\ mem' = mem /\ writes' = writes /\ filter' = filter /\ rv' = rv
        /\ pc[t] = "acquire" /\ pc'[t] \in {"acquire", "inc"}
    BY <1>1, <1>3, <2>1 DEF AcquireLock, Goto, TypeOK, descriptor
  <2> QED BY <1>1, <2>2, FilterKept DEF Fresh, ReadPC, WriteBackPC
<1>4. CASE IncClock(t)
  <2>1. pc[t] = "inc" /\ rv[t] = clock /\ clock' = clock + 1 /\ clock \in Nat
    BY <1>1, <1>4 DEF IncClock, Fresh, WriteBackPC, TypeOK
  <2>2. Truncate(rv[t] + 1) = clock + 1
    BY <2>1, TruncateSmall DEF Premise
  <2>3. pc'[t] = "copyback"
    BY <1>1, <1>4, <2>2 DEF IncClock, StartWriteBack, Goto, TypeOK
  <2> QED BY <2>3 DEF Fresh, ReadPC, WriteBackPC
<1>5. CASE WritesBack(t)
  <2>1. pc'[t] \in WriteBackPC
    BY <1>1, <1>5 DEF WritesBack, CopyBack, StoreVersion, Unlock, cleanTransaction, Goto, TypeOK,
       WriteBackPC
  <2> QED BY <2>1 DEF Fresh, ReadPC, WriteBackPC
<1>6. CASE \/ ReleaseLock(t) \/ AbortCommit(t) \/ ValidateVersion(t) \/ ValidateLock(t)
           \/ ValidateDone(t)
  BY <1>1, <1>6 DEF ReleaseLock, AbortCommit, ValidateVersion, ValidateLock, ValidateDone, Fresh
<1> QED BY <1>2, <1>3, <1>4, <1>5, <1>6

LEMMA OwnStepsDoNotDisturb ==
  ASSUME NEW t \in quiet', NEW u \in Tx, u = t, Premise(t), IdleIsEmpty,
         Undisturbed(t) \/ pc[t] = "idle"
  PROVE  Undisturbed(t)'
<1>1. TypeOK /\ t \in Tx /\ HStep(t) /\ HistoryTypeOK /\ (Call(t) \/ Advance(t))
  BY KindsOfPremise DEF Premise, HStep
<1>2. pc'[t] # "idle" /\ \A v \in Tx \ {t} : pc'[v] \notin CommitPC
  BY <1>1, QuietKept
<1>3. CASE pc[t] = "idle"
  <2>1. OwnWrites(t) /\ FilterAnswersYes(t)
    BY <1>1, <1>3 DEF IdleIsEmpty, OwnWrites, DistinctWords, FilterAnswersYes
  <2>2. Fresh(t)'
    BY <1>1, <1>3, BeginIsFresh DEF Premise
  <2>3. OwnWrites(t)'
    BY <1>1, <2>1, OwnWritesNext
  <2> QED BY <1>2, <2>2, <2>3 DEF Undisturbed
<1>4. CASE Undisturbed(t)
  <2>1. Fresh(t) /\ OwnWrites(t) /\ FilterAnswersYes(t)
    BY <1>4 DEF Undisturbed, Fresh, FilterAnswersYes, WriteBackPC
  <2>2. OwnWrites(t)'
    BY <1>1, <2>1, OwnWritesNext
  <2>3. Fresh(t)'
    <3>1. ~ (\E ro \in BOOLEAN : tm_begin(t, ro)) /\ ~ EndWithoutWrites(t)
      BY <1>1, <1>2, <2>1, CleanRests DEF tm_begin, EndWithoutWrites, Fresh
    <3> QED BY <1>1, <1>2, <1>4, <2>1, <3>1, ReadIsFresh, WriteIsFresh, EndIsFresh
            DEF Call, Advance, WritesBack
  <2> QED BY <1>2, <2>2, <2>3 DEF Undisturbed
<1> QED BY <1>3, <1>4

LEMMA QInvInit == HInit => QInv
BY RInvInit DEF HInit, QInv

LEMMA QInvNext == QInv /\ [HNext]_hvars => QInv'
<1> SUFFICES ASSUME QInv, [HNext]_hvars PROVE QInv'
  OBVIOUS
<1>1. RInv' /\ RInv /\ IInv /\ IInv' /\ IdleIsEmpty /\ TypeOK /\ HistoryTypeOK
  BY RInvNext DEF QInv, RInv, IInv, HistoryTypeOK
<1> SUFFICES ASSUME clock' < VersionModulus, NEW u \in quiet' PROVE Undisturbed(u)'
  BY <1>1 DEF QInv
<1>2. CASE HNext
  <2>1. PICK t \in Tx : HStep(t)
    BY <1>2, HStepOfNext
  <2>2. clock < VersionModulus
    <3>1. clock' \in {clock, clock + 1} /\ clock \in Nat /\ VersionModulus \in Nat
      BY <1>1, <2>1, ClockGrows, ConstantsAssumption DEF HStep, TypeOK
    <3> QED BY <3>1
  <2>3. Premise(t)
    BY <1>1, <2>1, <2>2 DEF Premise, IInv
  <2>4. u \in Tx /\ (Undisturbed(u) \/ (u = t /\ pc[t] = "idle"))
    BY <1>1, <2>1, <2>2, QuietKept DEF QInv, HistoryTypeOK
  <2>5. CASE u = t
    BY <1>1, <2>3, <2>4, <2>5, OwnStepsDoNotDisturb
  <2>6. CASE u # t
    BY <1>1, <2>1, <2>4, <2>6, OthersDoNotDisturb
  <2> QED BY <2>5, <2>6
<1>3. CASE UNCHANGED hvars
  <2>1. /\ u \in quiet /\ clock < VersionModulus /\ pc' = pc /\ writes' = writes
        /\ filter' = filter /\ mem' = mem /\ isRo' = isRo /\ word' = word /\ buf' = buf
        /\ rv' = rv /\ clock' = clock /\ before' = before /\ version' = version
    BY <1>3 DEF hvars, vars, ghosts, shared, descriptor, locals
  <2>2. Undisturbed(u) /\ u \in Tx
    BY <1>1, <2>1 DEF QInv, HistoryTypeOK
  <2>3. Fresh(u)'
    BY <2>1, <2>2, FilterKept DEF Undisturbed, Fresh
  <2>4. OwnWrites(u)'
    BY <2>1, <2>2, ListKept DEF Undisturbed, OwnWrites
  <2> QED BY <2>1, <2>2, <2>3, <2>4 DEF Undisturbed
<1> QED BY <1>2, <1>3

\* A version is never ahead of the clock while no commit is being written back.
LEMMA FreshVersionFits ==
  ASSUME IInv, clock < VersionModulus, NEW t \in Tx, Undisturbed(t), pc[t] = "checkversion"
  PROVE  VersionFits(t)
<1>1. /\ HistoryTypeOK /\ TypeOK /\ CommitTimes /\ Memory /\ word[t] \in Word
      /\ before[t] = version[word[t]] /\ rv[t] = clock
  BY DEF IInv, Isolation, HistoryTypeOK, TypeOK, Undisturbed, Fresh, ReadPC, WriteBackPC
<1>2. \A u \in Tx : pc[u] \notin WriteBackPC
  BY DEF Undisturbed, CommitPC, WriteBackPC
<1>3. \A u \in Tx : word[t] \notin Dirty(u)
  BY <1>2, DirtyClaimed
<1>4. version[word[t]] <= clock
  BY <1>1, <1>3, PresentWord
<1> QED BY <1>1, <1>4 DEF VersionFits

\* A transaction that ran beside no commit from its tm_begin on is never sent back:
\* neither the filter, which may deny what is on the list, nor the write list nor
\* the locks make tm_read (tm.c:279) or tm_end (tm.c:171, tm.c:188) fail
\* against the transaction itself.
THEOREM OnlyCommitsAbort ==
  HSpec /\ [](clock < VersionModulus) => OnlyCommitsCauseAborts
<1>1. ASSUME QInv, clock < VersionModulus, [HNext]_hvars
      PROVE  [\A t \in quiet : ~ Aborts(t)]_hvars
  <2> SUFFICES ASSUME NEW t \in quiet, Aborts(t) PROVE UNCHANGED hvars
    OBVIOUS
  <2>1. IInv /\ TypeOK /\ LockInv /\ t \in Tx /\ Undisturbed(t) /\ Fresh(t)
    BY <1>1 DEF QInv, RInv, IInv, HistoryTypeOK, Undisturbed
  <2>2. VersionFits(t) \/ pc[t] # "checkversion"
    BY <1>1, <2>1, FreshVersionFits
  <2>3. pc[t] = "checklock" /\ pc'[t] = "idle"
    BY <2>1, <2>2 DEF Aborts, Fresh
  <2>4. ~ lockBit[word[t]]
    <3>1. HeldNodes(t) = {} /\ word[t] \in Word
      BY <2>1, <2>3, NoneHeld DEF CommitPC, TypeOK
    <3> QED BY <2>1, <3>1, LocksAreOwn DEF Undisturbed
  <2>5. CASE HNext
    <3>1. PICK u \in Tx : HStep(u)
      BY <2>5, HStepOfNext
    <3>2. u = t
      BY <2>1, <2>3, <3>1, StepIsLocal DEF HStep, Kept
    <3>3. pc'[t] = "checkversion"
      BY <2>1, <2>3, <2>4, <3>1, <3>2 DEF HStep, Call, Advance, tm_begin, tm_read, tm_write,
         EndWithoutWrites, EndWithWrites, ReadLookup, ReadCopy, ReadCheckLock,
         ReadCheckVersion, WriteInsert, AcquireLock, ReleaseLock, AbortCommit, IncClock,
         ValidateVersion, ValidateLock, ValidateDone, CopyBack, StoreVersion, Unlock, Goto,
         TypeOK
    <3> QED BY <2>3, <3>3
  <2> QED BY <1>1, <2>5
<1>2. QInv /\ clock < VersionModulus /\ [HNext]_hvars => [\A t \in quiet : ~ Aborts(t)]_hvars
  BY <1>1
<1> QED BY <1>2, QInvInit, QInvNext, PTL DEF HSpec, OnlyCommitsCauseAborts

\* The same transactions keep one node per word: only when another commit has run
\* since its tm_begin can a transaction meet what tm.c:165 rules out, a word
\* listed twice, whose lock acquireLocks would find taken by itself.
THEOREM DuplicatesNeedACommit ==
  HSpec => [](clock < VersionModulus => OnlyCommitsMakeDuplicates)
<1>1. ASSUME QInv, clock < VersionModulus PROVE OnlyCommitsMakeDuplicates
  <2>1. TypeOK /\ quiet \subseteq Tx /\ \A t \in quiet : DistinctWords(t)
    BY <1>1 DEF QInv, RInv, IInv, HistoryTypeOK, Undisturbed, OwnWrites
  <2> QED BY <2>1, DistinctCount DEF OnlyCommitsMakeDuplicates, OneNodePerWord
<1>2. QInv => (clock < VersionModulus => OnlyCommitsMakeDuplicates)
  BY <1>1
<1> QED BY <1>2, QInvInit, QInvNext, PTL DEF HSpec

\* ... and they read back what they have written, the last value of a word
\* written twice (tm.c:260-271).
THEOREM HiddenWritesNeedACommit ==
  HSpec => [](clock < VersionModulus => OnlyCommitsHideWrites)
<1>1. QInv => (clock < VersionModulus => OnlyCommitsHideWrites)
  BY DEF QInv, Undisturbed, OwnWrites, OnlyCommitsHideWrites, ReadsOwnWrite
<1> QED BY <1>1, QInvInit, QInvNext, PTL DEF HSpec
===========================================================================
