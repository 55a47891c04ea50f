-------------------------- MODULE BankOnTL2Proofs -------------------------
(***************************************************************************)
(* Machine-checked theorems about the bank on TL2: what it has of every    *)
(* user of the memory, and that check's counter only ever falls, to 0.     *)
(***************************************************************************)
EXTENDS BankOnTL2, TL2Proofs, FiniteSetTheorems

\* How many of its transactions t has committed.
Done(t) == Len(Jobs[t]) - Len(todo[t])

ClientOK ==
  /\ todo \in [Tx -> Seq(Kinds)]
  /\ at \in [Tx -> Nat] /\ got \in [Tx -> Seq(Int)] /\ last \in [Tx -> Int]

\* What is left to do is the end of Jobs.
JobsInv == \A t \in Tx :
  /\ Len(todo[t]) <= Len(Jobs[t])
  /\ \A i \in 1..Len(todo[t]) : todo[t][i] = Jobs[t][Done(t) + i]

\* No transaction runs, and none has been committed, out of turn.
TurnInv == \A t \in Tx : pc[t] # "idle" => todo[t] # <<>> /\ InTurn(t)

DoneInv == \A t, u \in Tx : \A i \in 1..Done(t) :
  todo[u] # <<>> => Part(Jobs[t][i]) <= Part(Kind(u))

\* Versions and timestamps come from the clock.
ClockInv ==
  /\ \A w \in Word : version[w] <= clock
  /\ \A t \in Tx : rv[t] <= clock /\ wv[t] <= clock

---------------------------------------------------------------------------
(* Where a transaction of each kind is, and what it has on its lists.      *)

\* init and set make the calls of a script, whatever they read.
Script(t) == IF Kind(t) = "init" THEN InitTx ELSE Write(Count, Decrements)
NodeOf(c) == [word |-> c.word, value |-> Fill(c.value)]

Writing(t) ==
  /\ pc[t] \in {"active", "insert"} \cup CommitPC
  /\ reads[t] = <<>> /\ got[t] = <<>>
  /\ at[t] = Len(writes[t]) + 1 /\ Len(writes[t]) <= Len(Script(t))
  /\ \A i \in 1..Len(writes[t]) : writes[t][i] = NodeOf(Script(t)[i])
  /\ pc[t] = "insert" => /\ Len(writes[t]) < Len(Script(t))
                         /\ word[t] = Script(t)[at[t]].word
                         /\ buf[t] = Fill(Script(t)[at[t]].value)
  /\ pc[t] \in CommitPC => Len(writes[t]) = Len(Script(t))

\* peek, seen, last and zero read one word.
Fetched(t) == IF Kind(t) = "peek" THEN Account(0) ELSE Count
Fetching(t) ==
  /\ reads[t] = <<>> /\ writes[t] = <<>>
  /\ \/ pc[t] = "active" /\ at[t] = 2 /\ Len(got[t]) = 1
     \/ /\ pc[t] \in {"active", "copy", "checklock", "checkversion"}
        /\ at[t] = 1 /\ got[t] = <<>>
        /\ pc[t] # "active" => word[t] = Fetched(t)
        /\ pc[t] \in {"checklock", "checkversion"} => left[t] = {}

\* dec reads the counter; if it is not above what it was, it writes one less.
Decreasing(t) ==
  \/ /\ pc[t] \in {"active"} \cup ReadPC
     /\ at[t] = 1 /\ got[t] = <<>> /\ reads[t] = <<>> /\ writes[t] = <<>>
     /\ pc[t] # "active" => word[t] = Count
     /\ pc[t] = "lookup" => left[t] = Unit
     /\ pc[t] \in {"checklock", "checkversion"} => left[t] = {}
  \/ /\ pc[t] \in {"active", "insert"}
     /\ at[t] = 2 /\ Len(got[t]) = 1 /\ reads[t] = <<Count>> /\ writes[t] = <<>>
     /\ pc[t] = "insert" => /\ word[t] = Count /\ buf[t] = Fill(got[t][1] - 1)
                            /\ got[t][1] <= last[t]
  \/ /\ pc[t] \in {"active"} \cup CommitPC
     /\ at[t] = 3 /\ Len(got[t]) = 1 /\ reads[t] = <<Count>>
     /\ writes[t] = <<[word |-> Count, value |-> Fill(got[t][1] - 1)]>>
     /\ got[t][1] <= last[t]

Shape(t) ==
  IF pc[t] = "idle"
  THEN at[t] = 1 /\ got[t] = <<>> /\ reads[t] = <<>> /\ writes[t] = <<>>
  ELSE /\ isRo[t] = (Kind(t) \in ReadOnly)
       /\ isRo[t] => pc[t] \notin CommitPC \cup {"lookup", "insert"}
       /\ Kind(t) \in {"init", "set"} => Writing(t)
       /\ Kind(t) \in {"peek", "seen", "last", "zero"} => Fetching(t)
       /\ Kind(t) = "dec" => Decreasing(t)
ShapeInv == \A t \in Tx : Shape(t)

---------------------------------------------------------------------------
(* What init and set leave behind.                                         *)

Runs(t, k) == pc[t] # "idle" /\ Kind(t) = k

\* A transaction that has written node n of its list back, or begun to.
Stored(t, n) == pc[t] \in WriteBackPC /\ (cur[t] < n \/ (cur[t] = n /\ pc[t] # "copyback"))
Storing(t, n) == pc[t] = "copyback" /\ cur[t] = n

\* The first account holds its opening balance until the first part is over.
InitInv == \A t \in Tx :
  /\ todo[t] # <<>> /\ Kind(t) = "peek" => mem[Account(0)] = Fill(InitBalance)
  /\ Runs(t, "init") /\ Stored(t, 2) => mem[Account(0)] = Fill(InitBalance)
  /\ Runs(t, "init") /\ Storing(t, 2) =>
       \A x \in Unit \ left[t] : mem[Account(0)][x] = InitBalance
  /\ Runs(t, "peek") /\ pc[t] # "active" => \A x \in Unit \ left[t] : buf[t][x] = InitBalance
  /\ Runs(t, "peek") /\ pc[t] = "active" /\ got[t] # <<>> => got[t][1] = InitBalance

\* set has stored the number of decreases.
SetInv == \A t \in Tx :
  /\ Runs(t, "set") /\ Stored(t, 1) => mem[Count] = Fill(Decrements)
  /\ Runs(t, "set") /\ Storing(t, 1) =>
       \A x \in Unit \ left[t] : mem[Count][x] = Decrements

---------------------------------------------------------------------------
(* The counter.                                                            *)

\* The decreases that have not begun to store, and what the counter holds or
\* is about to hold: how many they are.
DecsLeft == {p \in DecTurns :
  /\ p[2] > Done(p[1])
  /\ pc[p[1]] \in WriteBackPC => p[2] # Done(p[1]) + 1}
Counter == Cardinality(DecsLeft)

\* The counter is set, and what is left to do only reads or decreases it.
Counting ==
  /\ \E t \in Tx : \E i \in DOMAIN Jobs[t] : Jobs[t][i] = "set"
  /\ \A t \in Tx : \A i \in 1..Len(todo[t]) : todo[t][i] # "set"

Stores(t) == pc[t] \in {"copyback", "storeversion"}
Drawn(t) == Stores(t) \/ pc[t] \in {"valversion", "vallock"}

\* The word holds the counter, or a decrease is storing it there.
MemInv ==
  /\ \A x \in Unit : \/ mem[Count][x] = Counter
                     \/ \E u \in Tx : pc[u] = "copyback" /\ x \in left[u]
  /\ \A u \in Tx : pc[u] \in WriteBackPC => got[u][1] - 1 = Counter

\* Who has drawn a timestamp will store a new version; who has validated the
\* version has found it no newer than its snapshot.
VersionInv == \A u \in Tx :
  /\ Drawn(u) => version[Count] < wv[u]
  /\ pc[u] = "vallock" \/ (pc[u] = "valversion" /\ cur[u] = 0) => version[Count] <= rv[u]

\* Reads the counter and has not looked at its lock.
Sampling(t) == pc[t] \in {"lookup", "copy", "checklock"}
\* It has copied what is there, or is going to find the lock or the version changed.
SampleOK(t) ==
  /\ before[t] <= version[Count]
  /\ \/ version[Count] > before[t]
     \/ \E u \in Tx : Stores(u)
     \/ \A x \in Unit \ left[t] : buf[t][x] = mem[Count][x]

\* What check expects a read of the counter to return.
Fits(t, n) ==
  CASE Kind(t) = "dec" -> n <= last[t]
    [] Kind(t) = "seen" -> n = Decrements
    [] Kind(t) = "zero" -> n = 0
    [] OTHER -> TRUE

\* n is what t has read under a free lock: the counter, unless a commit that t
\* cannot miss has changed it.
Known(t, n) ==
  /\ n \in Nat /\ Counter <= n /\ Fits(t, n)
  /\ \A u \in Tx \ {t} : Drawn(u) => rv[t] < wv[u]
  /\ \/ n = Counter
     \/ version[Count] > rv[t]
     \/ \E u \in Tx \ {t} : Stores(u)

\* What a worker knows of the counter at each label.
CounterOK(t) ==
  /\ todo[t] # <<>> /\ Kind(t) = "dec" /\ pc[t] \notin WriteBackPC => Counter <= last[t]
  /\ Sampling(t) => SampleOK(t)
  /\ pc[t] = "checkversion" => /\ before[t] <= version[Count]
                               /\ \/ version[Count] > before[t]
                                  \/ \E n \in Nat : buf[t] = Fill(n) /\ Known(t, n)
  /\ got[t] # <<>> /\ pc[t] \notin WriteBackPC => Known(t, got[t][1])

CounterInv == Counting => MemInv /\ VersionInv /\ \A t \in Tx : CounterOK(t)

SeqInv ==
  ClientOK /\ JobsInv /\ TurnInv /\ DoneInv /\ ClockInv /\ ShapeInv /\ InitInv /\ SetInv /\ CounterInv

---------------------------------------------------------------------------
(* The steps of a worker are steps of TL2.                                 *)

LEMMA StepKinds ==
  ASSUME NEW t \in Tx, Step(t)
  PROVE  /\ Follow(t)
         /\ \/ pc[t] = "idle" /\ Begin(t)
            \/ pc[t] = "active" /\ (MakeCall(t) \/ End(t))
            \/ pc[t] \notin {"idle", "active"} /\ Advance(t)
<1>1. Follow(t) /\ (Begin(t) \/ MakeCall(t) \/ End(t) \/ Advance(t))
  BY DEF Step
<1>2. Begin(t) => pc[t] = "idle"
  BY DEF Begin, tm_begin
<1>3. MakeCall(t) \/ End(t) => pc[t] = "active"
  BY DEF MakeCall, End, CallsMade
<1>4. Advance(t) => pc[t] \notin {"idle", "active"}
  BY DEF Advance, ReadLookup, ReadCopy, ReadCheckLock, ReadCheckVersion, WriteInsert,
         AcquireLock, ReleaseLock, AbortCommit, IncClock, ValidateVersion, ValidateLock,
         ValidateDone, CopyBack, StoreVersion, Unlock
<1> QED BY <1>1, <1>2, <1>3, <1>4

LEMMA StepIsCall ==
  ASSUME NEW t \in Tx, Step(t)
  PROVE  Call(t) \/ Advance(t)
<1>1. CASE Begin(t)
  <2>1. (Kind(t) \in ReadOnly) \in BOOLEAN
    OBVIOUS
  <2> QED BY <1>1, <2>1 DEF Begin, Call
<1>2. CASE MakeCall(t)
  <2>1. PICK c : c = Plan(t)[at[t]]
    OBVIOUS
  <2>2. tm_read(t, c.word) => Call(t)
    <3>1. tm_read(t, c.word) => c.word \in Word
      BY ClientType DEF tm_read
    <3> QED BY <3>1 DEF Call
  <2>3. tm_write(t, c.word, Fill(c.value)) => Call(t)
    <3>1. tm_write(t, c.word, Fill(c.value)) => c.word \in Word /\ Fill(c.value) \in Data
      BY ClientType DEF tm_write
    <3> QED BY <3>1 DEF Call
  <2> QED BY <1>2, <2>1, <2>2, <2>3 DEF MakeCall
<1>3. CASE End(t)
  BY <1>3 DEF End, Call
<1> QED BY <1>1, <1>2, <1>3 DEF Step

\* Who changes the clock, the versions, the words, the lock bits.
Untouched == clock' = clock /\ version' = version /\ mem' = mem

LEMMA Effects ==
  ASSUME NEW t \in Tx, Call(t) \/ Advance(t)
  PROVE  \/ Untouched
         \/ IncClock(t) /\ version' = version /\ mem' = mem
         \/ CopyBack(t) /\ clock' = clock /\ version' = version
         \/ StoreVersion(t) /\ clock' = clock /\ mem' = mem
<1>1. ASSUME NEW ro \in BOOLEAN, tm_begin(t, ro) PROVE Untouched
  BY <1>1 DEF tm_begin, shared, Untouched
<1>2. ASSUME NEW w \in Word, tm_read(t, w) PROVE Untouched
  BY <1>2 DEF tm_read, shared, Untouched
<1>3. ASSUME NEW w \in Word, NEW d \in Data, tm_write(t, w, d) PROVE Untouched
  BY <1>3 DEF tm_write, shared, Untouched
<1>4. CASE EndWithoutWrites(t) \/ EndWithWrites(t)
  BY <1>4 DEF EndWithoutWrites, EndWithWrites, shared, Untouched
<1>5. CASE ReadLookup(t) \/ ReadCopy(t) \/ ReadCheckLock(t) \/ ReadCheckVersion(t) \/ WriteInsert(t)
  BY <1>5 DEF ReadLookup, ReadCopy, ReadCheckLock, ReadCheckVersion, WriteInsert, shared, Untouched
<1>6. CASE AcquireLock(t) \/ ReleaseLock(t) \/ AbortCommit(t)
  BY <1>6 DEF AcquireLock, ReleaseLock, AbortCommit, shared, Untouched
<1>7. CASE ValidateVersion(t) \/ ValidateLock(t) \/ ValidateDone(t)
  BY <1>7 DEF ValidateVersion, ValidateLock, ValidateDone, shared, Untouched
<1>8. CASE Unlock(t)
  BY <1>8 DEF Unlock, Untouched
<1>9. CASE IncClock(t) \/ CopyBack(t) \/ StoreVersion(t)
  BY <1>9 DEF IncClock, CopyBack, StoreVersion
<1> QED BY <1>1, <1>2, <1>3, <1>4, <1>5, <1>6, <1>7, <1>8, <1>9 DEF Call, Advance

\* Who draws timestamps.
LEMMA Timestamps ==
  ASSUME TypeOK, NEW t \in Tx, Call(t) \/ Advance(t)
  PROVE  \/ rv'[t] = rv[t] /\ wv'[t] = wv[t]
         \/ pc[t] = "idle" /\ rv'[t] = Truncate(clock) /\ wv'[t] = wv[t]
         \/ cleanTransaction(t) /\ rv'[t] = 0 /\ wv'[t] = 0
         \/ IncClock(t) /\ rv'[t] = rv[t] /\ wv'[t] = clock + 1
<1> USE DEF TypeOK, descriptor
<1>0. cleanTransaction(t) => rv'[t] = 0 /\ wv'[t] = 0
  BY DEF cleanTransaction
<1>1. ASSUME NEW ro \in BOOLEAN, tm_begin(t, ro)
      PROVE pc[t] = "idle" /\ rv'[t] = Truncate(clock) /\ wv'[t] = wv[t]
  BY <1>1 DEF tm_begin
<1>2. ASSUME NEW w \in Word, tm_read(t, w) PROVE rv'[t] = rv[t] /\ wv'[t] = wv[t]
  BY <1>2 DEF tm_read
<1>3. ASSUME NEW w \in Word, NEW d \in Data, tm_write(t, w, d) PROVE rv'[t] = rv[t] /\ wv'[t] = wv[t]
  BY <1>3 DEF tm_write
<1>4. CASE EndWithoutWrites(t) \/ EndWithWrites(t)
  BY <1>0, <1>4 DEF EndWithoutWrites, EndWithWrites
<1>5. CASE ReadLookup(t) \/ ReadCopy(t) \/ ReadCheckLock(t) \/ ReadCheckVersion(t) \/ WriteInsert(t)
  BY <1>0, <1>5 DEF ReadLookup, ReadCopy, ReadCheckLock, ReadCheckVersion, WriteInsert
<1>6. CASE AcquireLock(t) \/ ReleaseLock(t) \/ AbortCommit(t)
  BY <1>0, <1>6 DEF AcquireLock, ReleaseLock, AbortCommit
<1>7. CASE ValidateVersion(t) \/ ValidateLock(t) \/ ValidateDone(t)
  BY <1>7 DEF ValidateVersion, ValidateLock, ValidateDone
<1>8. CASE Unlock(t) \/ CopyBack(t) \/ StoreVersion(t)
  BY <1>0, <1>8 DEF Unlock, CopyBack, StoreVersion
<1>9. CASE IncClock(t)
  BY <1>9 DEF IncClock
<1> QED BY <1>1, <1>2, <1>3, <1>4, <1>5, <1>6, <1>7, <1>8, <1>9 DEF Call, Advance

LEMMA MemoryNext ==
  ASSUME TypeOK, CursorInv, LockInv, NEW t \in Tx, Step(t)
  PROVE  TypeOK' /\ CursorInv' /\ LockInv'
<1>1. Next
  BY StepIsCall DEF Next
<1> QED BY <1>1, TypeNext, LockNext

\* What a step of t leaves to the others.
LEMMA OthersClient ==
  ASSUME ClientOK, NEW t \in Tx, Step(t), NEW u \in Tx, u # t
  PROVE  todo'[u] = todo[u] /\ at'[u] = at[u] /\ got'[u] = got[u] /\ last'[u] = last[u]
BY DEF ClientOK, Step, Follow, AfterCommit

\* The worker's own state, when its call does not return.
LEMMA StaysInCall ==
  ASSUME ClientOK, NEW t \in Tx, Follow(t), pc[t] # "checkversion", ~ Returns(t), pc'[t] # "idle"
  PROVE  todo' = todo /\ last' = last /\ at'[t] = at[t] /\ got'[t] = got[t]
BY DEF ClientOK, Follow, Commits

LEMMA GoesIdle ==
  ASSUME ClientOK, NEW t \in Tx, Follow(t), pc'[t] = "idle"
  PROVE  at'[t] = 1 /\ got'[t] = <<>>
BY DEF ClientOK, Follow

LEMMA NoCommit ==
  ASSUME ClientOK, NEW t \in Tx, Follow(t), ~ Commits(t)
  PROVE  todo' = todo /\ last' = last
BY DEF ClientOK, Follow

LEMMA ClientNext ==
  ASSUME TypeOK, ClientOK, TurnInv, NEW t \in Tx, Step(t)
  PROVE  ClientOK'
<1>1. Follow(t)
  BY DEF Step
<1>2. at' \in [Tx -> Nat]
  BY <1>1 DEF Follow, ClientOK
<1>3. ValueOf(buf[t]) \in Int
  <2>1. buf[t] \in Data /\ Val \subseteq Int /\ Unit # {}
    BY BankAssumption, ConstantsAssumption DEF TypeOK
  <2>2. (CHOOSE u \in Unit : TRUE) \in Unit
    BY <2>1
  <2> QED BY <2>1, <2>2 DEF ValueOf, Data
<1>4. got' \in [Tx -> Seq(Int)]
  <2>1. Append(got[t], ValueOf(buf[t])) \in Seq(Int) /\ <<>> \in Seq(Int)
    BY <1>3 DEF ClientOK
  <2> QED BY <1>1, <2>1 DEF Follow, ClientOK
<1>5. Commits(t) => todo[t] # <<>>
  BY DEF Commits, TurnInv
<1>6. todo' \in [Tx -> Seq(Kinds)] /\ last' \in [Tx -> Int]
  <2>1. Got(t, 1) \in Int
    BY DEF Got, ClientOK
  <2>2. <<>> \in Seq(Kinds) /\ (Commits(t) => Tail(todo[t]) \in Seq(Kinds))
    BY <1>5, HeadTailProperties DEF ClientOK
  <2>3. CASE Commits(t)
    <3>1. todo' = [todo EXCEPT ![t] = todo'[t]] /\ todo'[t] \in {<<>>, todo[t], Tail(todo[t])}
      BY <1>1, <2>3 DEF Follow, AfterCommit, ClientOK
    <3>2. last' = [last EXCEPT ![t] = last'[t]] /\ last'[t] \in {Got(t, 1), 0}
      BY <1>1, <2>3 DEF Follow, AfterCommit, ClientOK
    <3>3. todo[t] \in Seq(Kinds) /\ 0 \in Int
      BY DEF ClientOK
    <3>4. todo'[t] \in Seq(Kinds)
      BY <2>2, <2>3, <3>1, <3>3
    <3>5. last'[t] \in Int
      BY <2>1, <3>2, <3>3
    <3> QED BY <3>1, <3>2, <3>4, <3>5 DEF ClientOK
  <2>4. CASE ~ Commits(t)
    BY <1>1, <2>4 DEF Follow, ClientOK
  <2> QED BY <2>3, <2>4
<1> QED BY <1>2, <1>4, <1>6 DEF ClientOK

---------------------------------------------------------------------------
(* The jobs: what is done, what is next, whose turn it is.                 *)

LEMMA PartType == ASSUME NEW k \in Kinds PROVE Part(k) \in 1..5
BY DEF Kinds, ReadOnly, Part

LEMMA KindsOfPart ==
  ASSUME NEW k \in Kinds
  PROVE  /\ Part(k) = 1 <=> k \in {"init", "peek"}
         /\ Part(k) = 2 <=> k \in {"long", "alloc", "short"}
         /\ Part(k) = 3 <=> k \in {"set", "seen"}
         /\ Part(k) = 4 <=> k \in {"last", "dec"}
         /\ Part(k) = 5 <=> k = "zero"
<1>1. k \in {"init", "peek", "long", "alloc", "short", "set", "seen", "last", "dec", "zero"}
  BY DEF Kinds, ReadOnly
<1> QED BY <1>1 DEF Part

LEMMA JobsType ==
  ASSUME NEW t \in Tx
  PROVE  /\ Jobs[t] \in Seq(Kinds) /\ Len(Jobs[t]) \in Nat /\ DOMAIN Jobs[t] = 1..Len(Jobs[t])
         /\ \A i \in 1..Len(Jobs[t]) : Jobs[t][i] \in Kinds /\ Part(Jobs[t][i]) \in 1..5
         /\ \A i, j \in 1..Len(Jobs[t]) : i <= j => Part(Jobs[t][i]) <= Part(Jobs[t][j])
<1>1. Jobs[t] \in Seq(Kinds)
  BY BankAssumption
<1>2. Len(Jobs[t]) \in Nat /\ DOMAIN Jobs[t] = 1..Len(Jobs[t])
  BY <1>1
<1>3. \A i \in 1..Len(Jobs[t]) : Jobs[t][i] \in Kinds
  BY <1>1, ElementOfSeq
<1>4. \A i \in 1..Len(Jobs[t]) : Part(Jobs[t][i]) \in 1..5
  BY <1>3, PartType
<1> QED BY <1>1, <1>2, <1>3, <1>4, JobsAssumption

LEMMA TodoType ==
  ASSUME ClientOK, JobsInv, NEW t \in Tx
  PROVE  /\ todo[t] \in Seq(Kinds) /\ Len(todo[t]) \in Nat /\ Done(t) \in Nat
         /\ Len(Jobs[t]) \in Nat /\ Len(Jobs[t]) = Done(t) + Len(todo[t])
         /\ todo[t] = <<>> <=> Len(todo[t]) = 0
         /\ \A i \in 1..Len(todo[t]) : todo[t][i] = Jobs[t][Done(t) + i]
<1>1. todo[t] \in Seq(Kinds) /\ Len(todo[t]) \in Nat /\ Len(Jobs[t]) \in Nat
  BY JobsType DEF ClientOK
<1>2. Len(todo[t]) <= Len(Jobs[t]) /\ \A i \in 1..Len(todo[t]) : todo[t][i] = Jobs[t][Done(t) + i]
  BY DEF JobsInv
<1>3. Done(t) \in Nat /\ Len(Jobs[t]) = Done(t) + Len(todo[t])
  BY <1>1, <1>2 DEF Done
<1>4. todo[t] = <<>> <=> Len(todo[t]) = 0
  BY <1>1, EmptySeq
<1> QED BY <1>1, <1>2, <1>3, <1>4

LEMMA CurrentJob ==
  ASSUME ClientOK, JobsInv, NEW t \in Tx, todo[t] # <<>>
  PROVE  /\ Len(todo[t]) >= 1 /\ Done(t) + 1 \in 1..Len(Jobs[t])
         /\ Kind(t) = Jobs[t][Done(t) + 1] /\ Kind(t) = todo[t][1]
         /\ Kind(t) \in Kinds /\ Part(Kind(t)) \in 1..5
<1>1. Len(todo[t]) >= 1 /\ Done(t) + 1 \in 1..Len(Jobs[t])
  BY TodoType
<1>2. Kind(t) = todo[t][1]
  BY TodoType DEF Kind
<1>3. Kind(t) = Jobs[t][Done(t) + 1]
  BY <1>1, <1>2, TodoType
<1> QED BY <1>1, <1>2, <1>3, JobsType

\* What is yet to come of t is of no earlier part than what t does now.
LEMMA PartsGrow ==
  ASSUME ClientOK, JobsInv, NEW t \in Tx, NEW i \in 1..Len(todo[t])
  PROVE  /\ todo[t] # <<>> /\ todo[t][i] \in Kinds
         /\ Part(todo[t][i]) \in 1..5 /\ Part(Kind(t)) <= Part(todo[t][i])
<1>1. todo[t] # <<>>
  BY TodoType
<1>2. Done(t) \in Nat /\ i \in Nat /\ i >= 1 /\ Done(t) + i \in 1..Len(Jobs[t])
      /\ todo[t][i] = Jobs[t][Done(t) + i]
  BY TodoType
<1>3. Kind(t) = Jobs[t][Done(t) + 1] /\ Done(t) + 1 \in 1..Len(Jobs[t])
  BY <1>1, CurrentJob
<1>4. Done(t) + 1 <= Done(t) + i
  BY <1>2
<1> QED BY <1>1, <1>2, <1>3, <1>4, JobsType

LEMMA TodoNext ==
  ASSUME ClientOK, JobsInv, TurnInv, NEW t \in Tx, Step(t), Commits(t) => Correct(t)
  PROVE  \/ todo' = todo
         \/ /\ Commits(t) /\ todo[t] # <<>>
            /\ todo' = [todo EXCEPT ![t] = Tail(todo[t])]
            /\ todo'[t] \in Seq(Kinds) /\ Len(todo'[t]) = Len(todo[t]) - 1
            /\ \A i \in 1..Len(todo'[t]) : todo'[t][i] = todo[t][i + 1]
            /\ Done(t)' = Done(t) + 1
<1>1. CASE ~ Commits(t)
  BY <1>1, NoCommit DEF Step
<1>2. CASE Commits(t)
  <2>1. AfterCommit(t) /\ todo[t] # <<>>
    BY <1>2 DEF Step, Follow, Commits, TurnInv
  <2>2. todo' = [todo EXCEPT ![t] = IF Kind(t) = "short" /\ ~ BothExist(t) THEN todo[t] ELSE Tail(todo[t])]
    BY <2>1, <1>2 DEF AfterCommit
  <2>3. CASE Kind(t) = "short" /\ ~ BothExist(t)
    <3>1. todo' = todo
      BY <2>2, <2>3 DEF ClientOK
    <3> QED BY <3>1
  <2>4. CASE ~ (Kind(t) = "short" /\ ~ BothExist(t))
    <3>1. todo' = [todo EXCEPT ![t] = Tail(todo[t])] /\ todo'[t] = Tail(todo[t])
      BY <2>2, <2>4 DEF ClientOK
    <3>2. /\ todo'[t] \in Seq(Kinds) /\ Len(todo'[t]) = Len(todo[t]) - 1
          /\ \A i \in 1..Len(todo'[t]) : todo'[t][i] = todo[t][i + 1]
      BY <2>1, <3>1, HeadTailProperties DEF ClientOK
    <3>3. Done(t)' = Done(t) + 1
      BY <3>2, TodoType DEF Done
    <3> QED BY <1>2, <2>1, <3>1, <3>2, <3>3
  <2> QED BY <2>3, <2>4
<1> QED BY <1>1, <1>2

LEMMA JobsNext ==
  ASSUME ClientOK, JobsInv, TurnInv, NEW t \in Tx, Step(t), Commits(t) => Correct(t)
  PROVE  JobsInv'
<1>1. CASE todo' = todo
  BY <1>1 DEF JobsInv, Done
<1>2. CASE todo' # todo
  <2>1. /\ todo' = [todo EXCEPT ![t] = Tail(todo[t])] /\ Len(todo'[t]) = Len(todo[t]) - 1
        /\ \A i \in 1..Len(todo'[t]) : todo'[t][i] = todo[t][i + 1]
        /\ Done(t)' = Done(t) + 1 /\ todo[t] # <<>>
    BY <1>2, TodoNext
  <2>2. \A u \in Tx : u # t => todo'[u] = todo[u] /\ Done(u)' = Done(u)
    BY <2>1 DEF Done, ClientOK
  <2>3. SUFFICES ASSUME NEW u \in Tx
                 PROVE  /\ Len(todo'[u]) <= Len(Jobs[u])
                        /\ \A i \in 1..Len(todo'[u]) : todo'[u][i] = Jobs[u][Done(u)' + i]
    BY DEF JobsInv
  <2>4. CASE u # t
    BY <2>2, <2>4, TodoType
  <2>5. CASE u = t
    <3>1. Len(todo[t]) \in Nat /\ Len(Jobs[t]) \in Nat /\ Len(todo[t]) <= Len(Jobs[t]) /\ Done(t) \in Nat
      BY TodoType
    <3>2. ASSUME NEW i \in 1..Len(todo'[t]) PROVE todo'[t][i] = Jobs[t][Done(t)' + i]
      <4>1. i \in Nat /\ i + 1 \in 1..Len(todo[t])
        BY <3>1, <2>1
      <4>2. todo'[t][i] = Jobs[t][Done(t) + (i + 1)]
        BY <2>1, <4>1, TodoType
      <4>3. Done(t) + (i + 1) = (Done(t) + 1) + i
        BY <3>1, <4>1
      <4> QED BY <4>2, <4>3, <2>1
    <3> QED BY <2>5, <3>1, <3>2, <2>1
  <2> QED BY <2>4, <2>5
<1> QED BY <1>1, <1>2

\* The turns: t's parts do not fall.
LEMMA HeadsGrow ==
  ASSUME ClientOK, JobsInv, TurnInv, NEW t \in Tx, Step(t), Commits(t) => Correct(t),
         NEW u \in Tx, todo'[u] # <<>>
  PROVE  /\ todo[u] # <<>> /\ Part(Kind(u)) \in 1..5 /\ Part(Kind(u)') \in 1..5
         /\ Part(Kind(u)) <= Part(Kind(u)')
<1>1. CASE todo'[u] = todo[u]
  <2>1. Kind(u)' = Kind(u)
    BY <1>1 DEF Kind
  <2> QED BY <1>1, <2>1, CurrentJob
<1>2. CASE todo'[u] # todo[u]
  <2>1. u = t /\ Len(todo'[t]) = Len(todo[t]) - 1 /\ todo'[t] \in Seq(Kinds)
        /\ \A i \in 1..Len(todo'[t]) : todo'[t][i] = todo[t][i + 1]
    BY <1>2, TodoNext DEF ClientOK
  <2>2. Len(todo'[t]) >= 1 /\ Kind(t)' = todo'[t][1]
    BY <2>1 DEF Kind
  <2>3. Len(todo[t]) \in Nat /\ 2 \in 1..Len(todo[t]) /\ Kind(t)' = todo[t][2]
    BY <2>1, <2>2, TodoType
  <2> QED BY <2>1, <2>3, PartsGrow, CurrentJob
<1> QED BY <1>1, <1>2

LEMMA BeginsInTurn ==
  ASSUME ClientOK, JobsInv, TurnInv, NEW t \in Tx, Step(t)
  PROVE  todo[t] # <<>> /\ InTurn(t)
BY StepKinds DEF Begin, TurnInv

LEMMA TurnNext ==
  ASSUME TypeOK, ClientOK, JobsInv, TurnInv, NEW t \in Tx, Step(t), Commits(t) => Correct(t)
  PROVE  TurnInv'
<1> SUFFICES ASSUME NEW u \in Tx, pc'[u] # "idle" PROVE todo'[u] # <<>> /\ InTurn(u)'
  BY DEF TurnInv
<1>1. todo[u] # <<>> /\ InTurn(u) /\ todo'[u] = todo[u]
  <2>1. CASE u = t
    <3>1. ~ Commits(t)
      BY <2>1 DEF Commits
    <3>2. todo' = todo
      BY <3>1, NoCommit, StepKinds
    <3> QED BY <2>1, <3>2, BeginsInTurn
  <2>2. CASE u # t
    <3>1. pc'[u] = pc[u]
      BY <2>2, StepIsCall, StepIsLocal DEF Kept
    <3> QED BY <2>2, <3>1, OthersClient DEF TurnInv
  <2> QED BY <2>1, <2>2
<1>2. Kind(u)' = Kind(u)
  BY <1>1 DEF Kind
<1>3. ASSUME NEW v \in Tx, todo'[v] # <<>> PROVE Part(Kind(u)) <= Part(Kind(v)')
  <2>1. /\ todo[v] # <<>> /\ Part(Kind(v)) \in 1..5 /\ Part(Kind(v)') \in 1..5
        /\ Part(Kind(v)) <= Part(Kind(v)')
    BY <1>3, HeadsGrow
  <2>2. Part(Kind(u)) <= Part(Kind(v)) /\ Part(Kind(u)) \in 1..5
    BY <1>1, <2>1, CurrentJob DEF InTurn
  <2> QED BY <2>1, <2>2
<1> QED BY <1>1, <1>2, <1>3 DEF InTurn

LEMMA DoneNext ==
  ASSUME ClientOK, JobsInv, TurnInv, DoneInv, NEW t \in Tx, Step(t), Commits(t) => Correct(t)
  PROVE  DoneInv'
<1> SUFFICES ASSUME NEW v \in Tx, NEW u \in Tx, NEW i \in 1..(Done(v)'), todo'[u] # <<>>
             PROVE  Part(Jobs[v][i]) <= Part(Kind(u)')
  BY DEF DoneInv
<1>1. /\ todo[u] # <<>> /\ Part(Kind(u)) \in 1..5 /\ Part(Kind(u)') \in 1..5
      /\ Part(Kind(u)) <= Part(Kind(u)')
  BY HeadsGrow
<1>2. CASE i \in 1..Done(v)
  <2>1. i \in 1..Len(Jobs[v]) /\ Part(Jobs[v][i]) \in 1..5
    BY <1>2, TodoType, JobsType
  <2>2. Part(Jobs[v][i]) <= Part(Kind(u))
    BY <1>1, <1>2 DEF DoneInv
  <2> QED BY <1>1, <2>1, <2>2
<1>3. CASE i \notin 1..Done(v)
  <2>1. Done(v)' # Done(v)
    BY <1>3
  <2>2. v = t /\ Done(t)' = Done(t) + 1 /\ todo[t] # <<>>
    BY <2>1, TodoNext DEF Done, ClientOK
  <2>3. Done(t) \in Nat /\ i = Done(t) + 1
    BY <1>3, <2>2, TodoType
  <2>4. Kind(t) = Jobs[t][i] /\ Part(Kind(t)) \in 1..5
    BY <2>2, <2>3, CurrentJob
  <2>5. Part(Kind(t)) <= Part(Kind(u))
    BY <1>1, BeginsInTurn DEF InTurn
  <2> QED BY <1>1, <2>2, <2>4, <2>5
<1> QED BY <1>2, <1>3

---------------------------------------------------------------------------
(* The clock is not behind what is drawn from it.                          *)

LEMMA TruncateBound ==
  ASSUME NEW n \in Nat
  PROVE  /\ Truncate(n) \in Nat /\ Truncate(n) <= n
         /\ n < VersionModulus => Truncate(n) = n
BY ConstantsAssumption DEF Truncate

LEMMA ClockNext ==
  ASSUME TypeOK, CursorInv, ClockInv, NEW t \in Tx, Step(t)
  PROVE  ClockInv' /\ clock <= clock'
<1>0. Call(t) \/ Advance(t)
  BY StepIsCall
<1>1. clock \in Nat /\ clock' \in {clock, clock + 1} /\ clock' \in Nat /\ clock <= clock'
  <2>1. clock \in Nat
    BY DEF TypeOK
  <2>2. clock' \in {clock, clock + 1}
    BY <1>0, Effects DEF Untouched, IncClock
  <2> QED BY <2>1, <2>2
<1>2. ASSUME NEW w \in Word PROVE version'[w] <= clock'
  <2>1. version[w] \in Nat /\ version[w] <= clock
    BY DEF TypeOK, ClockInv
  <2>2. version'[w] = version[w] \/ version'[w] = Truncate(wv[t])
    <3>1. CASE StoreVersion(t)
      BY <3>1 DEF StoreVersion, TypeOK
    <3>2. CASE ~ StoreVersion(t)
      BY <1>0, <3>2, Effects DEF Untouched
    <3> QED BY <3>1, <3>2
  <2>3. wv[t] \in Nat /\ wv[t] <= clock
    BY DEF TypeOK, ClockInv
  <2>4. Truncate(wv[t]) \in Nat /\ Truncate(wv[t]) <= clock
    BY <1>1, <2>3, TruncateBound
  <2> QED BY <1>1, <2>1, <2>2, <2>4
<1>3. ASSUME NEW u \in Tx PROVE rv'[u] <= clock' /\ wv'[u] <= clock'
  <2>0. /\ rv[u] \in Nat /\ wv[u] \in Nat /\ rv[u] <= clock /\ wv[u] <= clock
        /\ Truncate(clock) \in Nat /\ Truncate(clock) <= clock
    BY TruncateBound DEF TypeOK, ClockInv
  <2>1. CASE u # t
    BY <1>0, <1>1, <2>0, <2>1, StepIsLocal DEF Kept
  <2>2. CASE u = t
    <3>1. IncClock(t) => clock' = clock + 1
      BY DEF IncClock
    <3> QED BY <1>0, <1>1, <2>0, <2>2, <3>1, Timestamps
  <2> QED BY <2>1, <2>2
<1> QED BY <1>1, <1>2, <1>3 DEF ClockInv


---------------------------------------------------------------------------
(* The closures' calls.                                                    *)

LEMMA Words ==
  /\ Count \in Word /\ Count = 0
  /\ \A i \in 0..(PerSegment - 1) : Account(i) \in Word /\ Account(i) = 3 + i
  /\ Account(0) \in Word /\ Account(0) = 3
BY BankAssumption DEF Count, Account

LEMMA FillType ==
  ASSUME NEW v
  PROVE  /\ ValueOf(Fill(v)) = v
         /\ \A x \in Unit : Fill(v)[x] = v
         /\ \A z : Fill(v) = Fill(z) => v = z
<1>1. PICK x \in Unit : TRUE
  BY ConstantsAssumption
<1>2. (CHOOSE u \in Unit : TRUE) \in Unit
  BY <1>1
<1> QED BY <1>1, <1>2 DEF Fill, ValueOf

LEMMA PlanOfFetch ==
  ASSUME NEW t \in Tx, Kind(t) \in {"peek", "seen", "last", "zero"}
  PROVE  /\ Len(Plan(t)) = 1 /\ Plan(t)[1].op = "read" /\ Plan(t)[1].word = Fetched(t)
         /\ Kind(t) \in ReadOnly
<1>1. CASE Kind(t) = "peek"
  BY <1>1 DEF Plan, Read, Fetched, ReadOnly
<1>2. CASE Kind(t) # "peek"
  BY <1>2 DEF Plan, Read, Fetched, ReadOnly
<1> QED BY <1>1, <1>2

LEMMA InitTxIs ==
  /\ Len(InitTx) = PerSegment + 1
  /\ \A i \in 1..(PerSegment + 1) :
       /\ InitTx[i].op = "write"
       /\ InitTx[i].word = (IF i = 1 THEN Count ELSE Account(i - 2))
       /\ InitTx[i].value = (IF i = 1 THEN PerSegment ELSE InitBalance)
<1> DEFINE first == [op |-> "write", word |-> Count, value |-> PerSegment]
           next(i) == [op |-> "write", word |-> Account(i - 1), value |-> InitBalance]
           R == {first} \cup {next(i) : i \in 1..PerSegment}
           s == <<first>>
           r == [i \in 1..PerSegment |-> next(i)]
<1>1. PerSegment \in Nat
  BY BankAssumption
<1>2. s \in Seq(R) /\ Len(s) = 1 /\ s[1] = first
  OBVIOUS
<1>3. r \in Seq(R) /\ Len(r) = PerSegment
  <2>1. r \in [1..PerSegment -> R]
    OBVIOUS
  <2> HIDE DEF R, r
  <2> QED BY <2>1, <1>1
<1>4. InitTx = s \o r
  BY DEF InitTx, Write
<1>5. /\ Len(s \o r) = 1 + PerSegment
      /\ \A i \in 1..(1 + PerSegment) : (s \o r)[i] = IF i <= 1 THEN s[i] ELSE r[i - 1]
  <2>1. /\ Len(s \o r) = Len(s) + Len(r)
        /\ \A i \in 1..(Len(s) + Len(r)) :
              (s \o r)[i] = IF i <= Len(s) THEN s[i] ELSE r[i - Len(s)]
    <3> HIDE DEF s, r, R
    <3> QED BY <1>2, <1>3, ConcatProperties
  <2> HIDE DEF s, r, R
  <2> QED BY <2>1, <1>2, <1>3
<1>6. ASSUME NEW i \in 1..(PerSegment + 1)
      PROVE  InitTx[i] = IF i = 1 THEN first ELSE next(i - 1)
  <2>1. i \in 1..(1 + PerSegment) /\ (i <= 1 <=> i = 1) /\ (i # 1 => i - 1 \in 1..PerSegment)
    BY <1>1
  <2>2. InitTx[i] = IF i = 1 THEN s[1] ELSE r[i - 1]
    BY <2>1, <1>4, <1>5
  <2> QED BY <2>1, <2>2, <1>2
<1>7. \A i \in 1..(PerSegment + 1) : (i - 1) - 1 = i - 2
  BY <1>1
<1>8. Len(InitTx) = PerSegment + 1
  BY <1>1, <1>4, <1>5
<1> HIDE DEF R, s, r
<1> QED BY <1>6, <1>7, <1>8

LEMMA PlanOfScript ==
  ASSUME NEW t \in Tx, Kind(t) \in {"init", "set"}
  PROVE  /\ Plan(t) = Script(t) /\ Len(Script(t)) \in Nat \ {0}
         /\ \A i \in 1..Len(Script(t)) : Script(t)[i].op = "write" /\ Script(t)[i].word \in Word
         /\ \A i, j \in 1..Len(Script(t)) : Script(t)[i].word = Script(t)[j].word => i = j
         /\ Kind(t) \notin ReadOnly
<1>1. CASE Kind(t) = "init"
  <2>1. Plan(t) = InitTx /\ Script(t) = InitTx /\ Kind(t) \notin ReadOnly
    BY <1>1 DEF Plan, Script, ReadOnly
  <2>2. PerSegment \in Nat /\ Word = 0..(2 + PerSegment)
    BY BankAssumption
  <2>3. ASSUME NEW i \in 1..(PerSegment + 1)
        PROVE  InitTx[i].op = "write" /\ InitTx[i].word = (IF i = 1 THEN 0 ELSE i + 1)
    BY <2>2, InitTxIs DEF Count, Account
  <2> QED BY <2>1, <2>2, <2>3, InitTxIs
<1>2. CASE Kind(t) = "set"
  <2>1. Plan(t) = Write(Count, Decrements) /\ Script(t) = Write(Count, Decrements) /\ Kind(t) \notin ReadOnly
    BY <1>2 DEF Plan, Script, ReadOnly
  <2>2. /\ Len(Write(Count, Decrements)) = 1 /\ Write(Count, Decrements)[1].op = "write"
        /\ Write(Count, Decrements)[1].word = Count
    BY DEF Write
  <2> QED BY <2>1, <2>2, Words
<1> QED BY <1>1, <1>2

LEMMA PlanOfDecrease ==
  ASSUME NEW t \in Tx, Kind(t) = "dec"
  PROVE  /\ Plan(t)[1].op = "read" /\ Plan(t)[1].word = Count
         /\ Got(t, 1) > last[t] => Len(Plan(t)) = 1
         /\ ~ (Got(t, 1) > last[t]) =>
              /\ Len(Plan(t)) = 2 /\ Plan(t)[2].op = "write" /\ Plan(t)[2].word = Count
              /\ Plan(t)[2].value = Got(t, 1) - 1
         /\ Kind(t) \notin ReadOnly
<1> DEFINE w == [op |-> "write", word |-> Count, value |-> Got(t, 1) - 1]
           r == [op |-> "read", word |-> Count]
<1>1. Plan(t) = <<r>> \o IF Got(t, 1) > last[t] THEN <<>> ELSE <<w>>
  BY DEF Plan, Decrease, Read, Write
<1>2. Kind(t) \notin ReadOnly
  BY DEF ReadOnly
<1>3. CASE Got(t, 1) > last[t]
  <2>1. Plan(t) = <<r>> \o <<>>
    BY <1>1, <1>3
  <2>2. <<r>> \in Seq({r})
    OBVIOUS
  <2>3. Plan(t) = <<r>>
    BY <2>1, <2>2, ConcatEmptySeq
  <2> QED BY <2>3, <1>2, <1>3
<1>4. CASE ~ (Got(t, 1) > last[t])
  <2>1. Plan(t) = <<r>> \o <<w>>
    BY <1>1, <1>4
  <2>2. <<r>> \in Seq({r, w}) /\ <<w>> \in Seq({r, w}) /\ Len(<<r>>) = 1 /\ Len(<<w>>) = 1
    OBVIOUS
  <2>3. Len(Plan(t)) = 2 /\ Plan(t)[1] = r /\ Plan(t)[2] = w
    <3>1. /\ Len(<<r>> \o <<w>>) = Len(<<r>>) + Len(<<w>>)
          /\ \A i \in 1..(Len(<<r>>) + Len(<<w>>)) :
                (<<r>> \o <<w>>)[i] = IF i <= Len(<<r>>) THEN <<r>>[i] ELSE <<w>>[i - Len(<<r>>)]
      BY <2>2, ConcatProperties
    <3> HIDE DEF w, r
    <3> QED BY <2>1, <2>2, <3>1
  <2> QED BY <2>3, <1>2, <1>4
<1> QED BY <1>3, <1>4

---------------------------------------------------------------------------
(* Where each transaction is in its list of calls.                         *)

LEMMA ShapeOthers ==
  ASSUME TypeOK, ClientOK, NEW t \in Tx, Step(t), NEW u \in Tx, u # t, Shape(u)
  PROVE  Shape(u)'
<1>1. Kept(u)
  BY StepIsCall, StepIsLocal
<1>2. todo'[u] = todo[u] /\ at'[u] = at[u] /\ got'[u] = got[u] /\ last'[u] = last[u]
  BY OthersClient
<1>3. Kind(u)' = Kind(u) /\ Script(u)' = Script(u) /\ Fetched(u)' = Fetched(u)
  BY <1>2 DEF Kind, Script, Fetched
<1>4. Writing(u)' <=> Writing(u)
  BY <1>1, <1>2, <1>3 DEF Kept, Writing
<1>5. Fetching(u)' <=> Fetching(u)
  BY <1>1, <1>2, <1>3 DEF Kept, Fetching
<1>6. Decreasing(u)' <=> Decreasing(u)
  BY <1>1, <1>2 DEF Kept, Decreasing
<1> QED BY <1>1, <1>2, <1>3, <1>4, <1>5, <1>6 DEF Kept, Shape

LEMMA ShapeToIdle ==
  ASSUME TypeOK, ClientOK, NEW t \in Tx, Step(t), pc'[t] = "idle"
  PROVE  Shape(t)'
<1>1. cleanTransaction(t)
  BY StepIsCall, StepToIdle
<1>2. reads'[t] = <<>> /\ writes'[t] = <<>>
  BY <1>1 DEF cleanTransaction, TypeOK
<1> QED BY <1>2, GoesIdle, StepKinds DEF Shape

\* Inside a transaction, what it is does not change.
LEMMA ModeKept ==
  ASSUME TypeOK, NEW t \in Tx, Call(t) \/ Advance(t), pc[t] # "idle", pc'[t] # "idle"
  PROVE  isRo'[t] = isRo[t]
<1> USE DEF TypeOK, descriptor
<1>0. ~ cleanTransaction(t)
  BY DEF cleanTransaction, Goto
<1>1. ASSUME NEW ro \in BOOLEAN PROVE ~ tm_begin(t, ro)
  BY DEF tm_begin
<1>2. ASSUME NEW w \in Word, tm_read(t, w) PROVE isRo'[t] = isRo[t]
  BY <1>2 DEF tm_read
<1>3. ASSUME NEW w \in Word, NEW d \in Data, tm_write(t, w, d) PROVE isRo'[t] = isRo[t]
  BY <1>3 DEF tm_write
<1>4. CASE EndWithoutWrites(t) \/ EndWithWrites(t)
  BY <1>0, <1>4 DEF EndWithoutWrites, EndWithWrites
<1>5. CASE ReadLookup(t) \/ ReadCopy(t) \/ ReadCheckLock(t) \/ ReadCheckVersion(t) \/ WriteInsert(t)
  BY <1>0, <1>5 DEF ReadLookup, ReadCopy, ReadCheckLock, ReadCheckVersion, WriteInsert
<1>6. CASE AcquireLock(t) \/ ReleaseLock(t) \/ AbortCommit(t)
  BY <1>0, <1>6 DEF AcquireLock, ReleaseLock, AbortCommit
<1>7. CASE IncClock(t) \/ ValidateVersion(t) \/ ValidateLock(t) \/ ValidateDone(t)
  BY <1>7 DEF IncClock, ValidateVersion, ValidateLock, ValidateDone
<1>8. CASE CopyBack(t) \/ StoreVersion(t) \/ Unlock(t)
  BY <1>0, <1>8 DEF CopyBack, StoreVersion, Unlock
<1> QED BY <1>1, <1>2, <1>3, <1>4, <1>5, <1>6, <1>7, <1>8 DEF Call, Advance

LEMMA InsideKept ==
  ASSUME TypeOK, ClientOK, NEW t \in Tx, Step(t), pc[t] # "idle", pc'[t] # "idle"
  PROVE  /\ todo' = todo /\ last' = last /\ isRo'[t] = isRo[t]
         /\ Kind(t)' = Kind(t) /\ Script(t)' = Script(t) /\ Fetched(t)' = Fetched(t)
         /\ at'[t] = (IF Returns(t) THEN at[t] + 1 ELSE at[t])
         /\ got'[t] = (IF pc[t] = "checkversion" THEN Append(got[t], ValueOf(buf[t])) ELSE got[t])
<1>1. Follow(t) /\ ~ Commits(t)
  BY DEF Step, Commits
<1>2. todo' = todo /\ last' = last
  BY <1>1, NoCommit
<1>3. isRo'[t] = isRo[t]
  BY StepIsCall, ModeKept
<1>4. Kind(t)' = Kind(t) /\ Script(t)' = Script(t) /\ Fetched(t)' = Fetched(t)
  BY <1>2 DEF Kind, Script, Fetched
<1>5. at'[t] = (IF Returns(t) THEN at[t] + 1 ELSE at[t])
  BY <1>1 DEF Follow, ClientOK
<1>6. got'[t] = (IF pc[t] = "checkversion" THEN Append(got[t], ValueOf(buf[t])) ELSE got[t])
  BY <1>1 DEF Follow, ClientOK
<1> QED BY <1>2, <1>3, <1>4, <1>5, <1>6

\* A commit works on the lists it begins with.
LEMMA CommitKeeps ==
  ASSUME TypeOK, NEW t \in Tx, Call(t) \/ Advance(t), pc[t] \in CommitPC, pc'[t] # "idle"
  PROVE  /\ pc'[t] \in CommitPC
         /\ reads'[t] = reads[t] /\ writes'[t] = writes[t] /\ rv'[t] = rv[t]
<1> USE DEF TypeOK, descriptor, Goto, CommitPC
<1>0. ~ cleanTransaction(t)
  BY DEF cleanTransaction, Goto
<1>1. ASSUME NEW ro \in BOOLEAN PROVE ~ tm_begin(t, ro)
  BY DEF tm_begin
<1>2. ASSUME NEW w \in Word PROVE ~ tm_read(t, w)
  BY DEF tm_read
<1>3. ASSUME NEW w \in Word, NEW d \in Data PROVE ~ tm_write(t, w, d)
  BY DEF tm_write
<1>4. ~ EndWithoutWrites(t) /\ ~ EndWithWrites(t)
  BY DEF EndWithoutWrites, EndWithWrites
<1>5. ~ (ReadLookup(t) \/ ReadCopy(t) \/ ReadCheckLock(t) \/ ReadCheckVersion(t) \/ WriteInsert(t))
  BY DEF ReadLookup, ReadCopy, ReadCheckLock, ReadCheckVersion, WriteInsert
<1>6. CASE AcquireLock(t) \/ ReleaseLock(t) \/ AbortCommit(t)
  BY <1>0, <1>6 DEF AcquireLock, ReleaseLock, AbortCommit, StartRelease
<1>7. CASE IncClock(t) \/ ValidateVersion(t) \/ ValidateLock(t) \/ ValidateDone(t)
  BY <1>7 DEF IncClock, ValidateVersion, ValidateLock, ValidateDone, StartRelease, StartWriteBack
<1>8. CASE CopyBack(t) \/ StoreVersion(t) \/ Unlock(t)
  BY <1>0, <1>8 DEF CopyBack, StoreVersion, Unlock
<1> QED BY <1>1, <1>2, <1>3, <1>4, <1>5, <1>6, <1>7, <1>8 DEF Call, Advance

LEMMA CommitShape ==
  ASSUME TypeOK, ClientOK, NEW t \in Tx, Step(t), pc[t] \in CommitPC, pc'[t] # "idle", Shape(t)
  PROVE  Shape(t)'
<1>1. pc'[t] \in CommitPC /\ reads'[t] = reads[t] /\ writes'[t] = writes[t]
  BY StepIsCall, CommitKeeps
<1>2. pc[t] \notin {"idle", "active", "checkversion", "insert", "copy", "checklock", "lookup"}
      /\ pc'[t] \notin {"idle", "active", "insert", "copy", "checklock", "checkversion", "lookup"}
  BY <1>1 DEF CommitPC
<1>3. /\ last' = last /\ isRo'[t] = isRo[t] /\ Kind(t)' = Kind(t) /\ Script(t)' = Script(t)
      /\ at'[t] = at[t] /\ got'[t] = got[t]
  BY <1>2, InsideKept DEF Returns
<1>4. Writing(t) => Writing(t)'
  BY <1>1, <1>2, <1>3 DEF Writing
<1>5. ~ Fetching(t)
  BY <1>2 DEF Fetching
<1>6. Decreasing(t) => Decreasing(t)'
  BY <1>1, <1>2, <1>3 DEF Decreasing, ReadPC
<1> QED BY <1>1, <1>2, <1>3, <1>4, <1>5, <1>6 DEF Shape

\* Where a thread is decides what it does.
LEMMA AdvanceByPlace ==
  ASSUME NEW t \in Tx, Advance(t)
  PROVE  /\ pc[t] = "lookup" => ReadLookup(t)
         /\ pc[t] = "copy" => ReadCopy(t)
         /\ pc[t] = "checklock" => ReadCheckLock(t)
         /\ pc[t] = "checkversion" => ReadCheckVersion(t)
         /\ pc[t] = "insert" => WriteInsert(t)
         /\ pc[t] = "acquire" => AcquireLock(t)
         /\ pc[t] = "release" => ReleaseLock(t) \/ AbortCommit(t)
         /\ pc[t] = "inc" => IncClock(t)
         /\ pc[t] = "valversion" => ValidateVersion(t) \/ ValidateDone(t)
         /\ pc[t] = "vallock" => ValidateLock(t)
         /\ pc[t] = "copyback" => CopyBack(t)
         /\ pc[t] = "storeversion" => StoreVersion(t)
         /\ pc[t] = "unlock" => Unlock(t)
<1>1. /\ ReadLookup(t) => pc[t] = "lookup"
      /\ ReadCopy(t) => pc[t] = "copy"
      /\ ReadCheckLock(t) => pc[t] = "checklock"
      /\ ReadCheckVersion(t) => pc[t] = "checkversion"
      /\ WriteInsert(t) => pc[t] = "insert"
  BY DEF ReadLookup, ReadCopy, ReadCheckLock, ReadCheckVersion, WriteInsert
<1>2. /\ AcquireLock(t) => pc[t] = "acquire"
      /\ ReleaseLock(t) => pc[t] = "release"
      /\ AbortCommit(t) => pc[t] = "release"
      /\ IncClock(t) => pc[t] = "inc"
      /\ ValidateVersion(t) => pc[t] = "valversion"
      /\ ValidateLock(t) => pc[t] = "vallock"
      /\ ValidateDone(t) => pc[t] = "valversion"
  BY DEF AcquireLock, ReleaseLock, AbortCommit, IncClock, ValidateVersion, ValidateLock, ValidateDone
<1>3. /\ CopyBack(t) => pc[t] = "copyback"
      /\ StoreVersion(t) => pc[t] = "storeversion"
      /\ Unlock(t) => pc[t] = "unlock"
  BY DEF CopyBack, StoreVersion, Unlock
<1> QED BY <1>1, <1>2, <1>3 DEF Advance

LEMMA BeginShape ==
  ASSUME TypeOK, ClientOK, NEW t \in Tx, Step(t), pc[t] = "idle", pc'[t] # "idle", Shape(t)
  PROVE  Shape(t)'
<1>1. Begin(t) /\ Follow(t)
  BY StepKinds
<1>2. /\ pc'[t] = "active" /\ isRo'[t] = (Kind(t) \in ReadOnly)
      /\ reads'[t] = reads[t] /\ writes'[t] = writes[t]
  BY <1>1 DEF Begin, tm_begin, Goto, TypeOK
<1>3. todo' = todo /\ last' = last /\ at'[t] = at[t] /\ got'[t] = got[t]
  BY <1>1, <1>2, StaysInCall DEF Returns
<1>4. Kind(t)' = Kind(t) /\ Script(t)' = Script(t) /\ Fetched(t)' = Fetched(t)
  BY <1>3 DEF Kind, Script, Fetched
<1>5. at[t] = 1 /\ got[t] = <<>> /\ reads[t] = <<>> /\ writes[t] = <<>>
  BY DEF Shape
<1>6. Kind(t) \in {"init", "set"} => Writing(t)'
  <2>1. ASSUME Kind(t) \in {"init", "set"} PROVE Len(Script(t)) \in Nat \ {0}
    BY <2>1, PlanOfScript
  <2> QED BY <1>2, <1>3, <1>4, <1>5, <2>1 DEF Writing, CommitPC
<1>7. Kind(t) \in {"peek", "seen", "last", "zero"} => Fetching(t)'
  BY <1>2, <1>3, <1>4, <1>5 DEF Fetching
<1>8. Kind(t) = "dec" => Decreasing(t)'
  BY <1>2, <1>3, <1>4, <1>5 DEF Decreasing, ReadPC
<1> QED BY <1>2, <1>4, <1>6, <1>7, <1>8 DEF Shape, CommitPC

LEMMA WritingNext ==
  ASSUME TypeOK, ClientOK, NEW t \in Tx, Step(t), pc[t] \notin CommitPC \cup {"idle"},
         pc'[t] # "idle", ~ isRo[t], Kind(t) \in {"init", "set"}, Writing(t)
  PROVE  Writing(t)'
<1> DEFINE n == Len(writes[t])
<1>1. /\ pc[t] \in {"active", "insert"} /\ reads[t] = <<>> /\ got[t] = <<>>
      /\ at[t] = n + 1 /\ n <= Len(Script(t))
      /\ \A i \in 1..n : writes[t][i] = NodeOf(Script(t)[i])
  BY DEF Writing
<1>2. /\ n \in Nat /\ writes[t] \in Seq(Node) /\ DOMAIN writes[t] = 1..n
      /\ Len(Script(t)) \in Nat /\ at[t] \in Nat
  BY PlanOfScript DEF TypeOK, ClientOK
<1>3. Script(t)' = Script(t) /\ got'[t] = got[t] /\ at'[t] = (IF Returns(t) THEN at[t] + 1 ELSE at[t])
  BY <1>1, InsideKept DEF CommitPC
<1>4. CASE pc[t] = "active" /\ MakeCall(t)
  <2>1. at[t] <= Len(Script(t)) /\ tm_write(t, Script(t)[at[t]].word, Fill(Script(t)[at[t]].value))
    <3>1. at[t] <= Len(Script(t))
      BY <1>4, PlanOfScript DEF MakeCall
    <3>2. at[t] \in 1..Len(Script(t))
      BY <1>1, <1>2, <3>1
    <3>3. Script(t)[at[t]].op = "write"
      BY <3>2, PlanOfScript
    <3> QED BY <1>4, <3>1, <3>3, PlanOfScript DEF MakeCall
  <2> DEFINE c == Script(t)[at[t]]
  <2>2. getWriteNode(t, c.word) = 0
    <3>1. SUFFICES ASSUME NEW i \in DOMAIN writes[t], NodeWord(t, i) = c.word PROVE FALSE
      BY WriteNodeOfWord
    <3>2. Script(t)[i].word = c.word
      <4>1. writes[t][i] = NodeOf(Script(t)[i])
        BY <1>1, <1>2
      <4>2. NodeOf(Script(t)[i]).word = Script(t)[i].word
        BY DEF NodeOf
      <4> QED BY <3>1, <4>1, <4>2 DEF NodeWord
    <3>3. i \in 1..Len(Script(t)) /\ at[t] \in 1..Len(Script(t)) /\ i # at[t]
      BY <1>1, <1>2, <2>1
    <3> QED BY <3>2, <3>3, PlanOfScript
  <2>3. /\ pc'[t] = "insert" /\ word'[t] = c.word /\ buf'[t] = Fill(c.value)
        /\ writes'[t] = writes[t] /\ reads'[t] = reads[t]
    <3> HIDE DEF c
    <3> QED BY <2>1, <2>2 DEF c, tm_write, Goto, TypeOK
  <2>4. ~ Returns(t)
    BY <2>3 DEF Returns
  <2> HIDE DEF c
  <2>5. n < Len(Script(t))
    BY <1>1, <1>2, <2>1
  <2> QED BY <1>1, <1>3, <2>3, <2>4, <2>5 DEF c, Writing, CommitPC
<1>5. CASE pc[t] = "active" /\ End(t)
  <2>1. at[t] > Len(Script(t)) /\ (EndWithoutWrites(t) \/ EndWithWrites(t))
    BY <1>5, PlanOfScript DEF End, CallsMade
  <2>2. ~ EndWithoutWrites(t)
    BY DEF EndWithoutWrites, cleanTransaction, Goto, TypeOK
  <2>3. pc'[t] = "acquire" /\ writes'[t] = writes[t] /\ reads'[t] = reads[t]
    BY <2>1, <2>2 DEF EndWithWrites, Goto, TypeOK, descriptor
  <2>4. n = Len(Script(t))
    BY <1>1, <1>2, <2>1
  <2>5. ~ Returns(t)
    BY <2>3 DEF Returns
  <2> QED BY <1>1, <1>3, <2>3, <2>4, <2>5 DEF Writing, CommitPC
<1>6. CASE pc[t] = "insert"
  <2>1. WriteInsert(t)
    BY <1>6, StepKinds, AdvanceByPlace
  <2>2. ~ cleanTransaction(t)
    BY DEF cleanTransaction, Goto, TypeOK
  <2>3. /\ pc'[t] = "active" /\ reads'[t] = reads[t]
        /\ writes'[t] = Append(writes[t], [word |-> word[t], value |-> buf[t]])
    BY <2>1, <2>2 DEF WriteInsert, Goto, TypeOK
  <2>4. n < Len(Script(t)) /\ word[t] = Script(t)[at[t]].word /\ buf[t] = Fill(Script(t)[at[t]].value)
    BY <1>6 DEF Writing
  <2>5. [word |-> word[t], value |-> buf[t]] \in Node
    BY DEF TypeOK, Node
  <2>6. /\ Len(writes'[t]) = n + 1
        /\ \A i \in 1..(n + 1) : writes'[t][i] = NodeOf(Script(t)[i])
    <3>1. Len(writes'[t]) = n + 1 /\ writes'[t][n + 1] = [word |-> word[t], value |-> buf[t]]
          /\ \A i \in 1..n : writes'[t][i] = writes[t][i]
      BY <1>2, <2>3, <2>5, AppendProperties
    <3>2. [word |-> word[t], value |-> buf[t]] = NodeOf(Script(t)[n + 1])
      BY <1>1, <2>4 DEF NodeOf
    <3>3. \A i \in 1..(n + 1) : i \in 1..n \/ i = n + 1
      BY <1>2
    <3> QED BY <1>1, <3>1, <3>2, <3>3
  <2>7. at'[t] = at[t] + 1
    BY <1>6, <2>3, <1>3 DEF Returns
  <2> QED BY <1>1, <1>2, <1>3, <2>3, <2>4, <2>6, <2>7 DEF Writing, CommitPC
<1> QED BY <1>1, <1>4, <1>5, <1>6, StepKinds

LEMMA FetchingNext ==
  ASSUME TypeOK, ClientOK, NEW t \in Tx, Step(t), pc'[t] # "idle", isRo[t],
         Kind(t) \in {"peek", "seen", "last", "zero"}, Fetching(t)
  PROVE  Fetching(t)'
<1>0. /\ pc[t] \in {"active", "copy", "checklock", "checkversion"}
      /\ reads[t] = <<>> /\ writes[t] = <<>>
      /\ pc[t] # "active" => at[t] = 1 /\ got[t] = <<>> /\ word[t] = Fetched(t)
      /\ pc[t] = "active" => (at[t] = 2 /\ Len(got[t]) = 1) \/ (at[t] = 1 /\ got[t] = <<>>)
      /\ pc[t] \in {"checklock", "checkversion"} => left[t] = {}
  BY DEF Fetching
<1>1. /\ Fetched(t)' = Fetched(t) /\ at'[t] = (IF Returns(t) THEN at[t] + 1 ELSE at[t])
      /\ got'[t] = (IF pc[t] = "checkversion" THEN Append(got[t], ValueOf(buf[t])) ELSE got[t])
  BY <1>0, InsideKept
<1>2. ~ cleanTransaction(t) /\ ~ EndWithoutWrites(t) /\ ~ EndWithWrites(t)
  BY DEF EndWithoutWrites, EndWithWrites, cleanTransaction, Goto, TypeOK
<1>3. CASE pc[t] = "active"
  <2>1. MakeCall(t) /\ at[t] = 1 /\ tm_read(t, Fetched(t))
    <3>1. MakeCall(t)
      BY <1>2, <1>3, StepKinds DEF End
    <3>2. at[t] = 1
      BY <1>0, <1>3, <3>1, PlanOfFetch DEF MakeCall
    <3> QED BY <3>1, <3>2, PlanOfFetch DEF MakeCall
  <2>2. pc'[t] = "copy" /\ word'[t] = Fetched(t) /\ reads'[t] = reads[t] /\ writes'[t] = writes[t]
    BY <2>1 DEF tm_read, Goto, TypeOK, descriptor
  <2>3. ~ Returns(t) /\ got[t] = <<>>
    BY <1>0, <1>3, <2>1, <2>2 DEF Returns
  <2> QED BY <1>0, <1>1, <1>3, <2>1, <2>2, <2>3 DEF Fetching
<1>4. CASE pc[t] = "copy"
  <2>1. ReadCopy(t)
    BY <1>4, StepKinds, AdvanceByPlace
  <2>2. /\ pc'[t] \in {"copy", "checklock"} /\ (pc'[t] = "checklock" => left'[t] = {})
        /\ word'[t] = word[t] /\ reads'[t] = reads[t] /\ writes'[t] = writes[t]
    BY <2>1 DEF ReadCopy, Goto, TypeOK, descriptor
  <2>3. ~ Returns(t)
    BY <2>2 DEF Returns
  <2> QED BY <1>0, <1>1, <1>4, <2>2, <2>3 DEF Fetching
<1>5. CASE pc[t] = "checklock"
  <2>1. ReadCheckLock(t)
    BY <1>5, StepKinds, AdvanceByPlace
  <2>2. /\ pc'[t] = "checkversion" /\ left'[t] = left[t]
        /\ word'[t] = word[t] /\ reads'[t] = reads[t] /\ writes'[t] = writes[t]
    BY <1>2, <2>1 DEF ReadCheckLock, Goto, TypeOK, descriptor, locals
  <2>3. ~ Returns(t)
    BY <2>2 DEF Returns
  <2> QED BY <1>0, <1>1, <1>5, <2>2, <2>3 DEF Fetching
<1>6. CASE pc[t] = "checkversion"
  <2>1. ReadCheckVersion(t)
    BY <1>6, StepKinds, AdvanceByPlace
  <2>2. /\ pc'[t] = "active" /\ reads'[t] = reads[t] /\ writes'[t] = writes[t]
    BY <1>2, <2>1 DEF ReadCheckVersion, Goto, TypeOK
  <2>3. Returns(t)
    BY <1>6, <2>2 DEF Returns
  <2>4. Len(got'[t]) = 1
    BY <1>0, <1>1, <1>6
  <2> QED BY <1>0, <1>1, <1>6, <2>2, <2>3, <2>4 DEF Fetching
<1> QED BY <1>0, <1>3, <1>4, <1>5, <1>6

LEMMA DecreasingNext ==
  ASSUME TypeOK, ClientOK, NEW t \in Tx, Step(t), pc[t] \notin CommitPC, pc'[t] # "idle", ~ isRo[t],
         Kind(t) = "dec", Decreasing(t)
  PROVE  Decreasing(t)'
<1> USE DEF ReadPC
<1>0. pc[t] # "idle" /\ at[t] \in 1..3
  <2>1. at[t] = 1 \/ at[t] = 2 \/ at[t] = 3
    BY DEF Decreasing
  <2> QED BY <2>1 DEF Decreasing, CommitPC
<1>1. /\ last' = last /\ at'[t] = (IF Returns(t) THEN at[t] + 1 ELSE at[t])
      /\ got'[t] = (IF pc[t] = "checkversion" THEN Append(got[t], ValueOf(buf[t])) ELSE got[t])
  BY <1>0, InsideKept
<1>2. ~ cleanTransaction(t) /\ ~ EndWithoutWrites(t)
  BY DEF EndWithoutWrites, cleanTransaction, Goto, TypeOK
<1>3. CASE at[t] = 1
  <2>0. /\ pc[t] \in {"active"} \cup ReadPC
        /\ got[t] = <<>> /\ reads[t] = <<>> /\ writes[t] = <<>>
        /\ pc[t] # "active" => word[t] = Count
        /\ pc[t] = "lookup" => left[t] = Unit
        /\ pc[t] \in {"checklock", "checkversion"} => left[t] = {}
    BY <1>3 DEF Decreasing
  <2>1. CASE pc[t] = "active"
    <3>1. tm_read(t, Count)
      <4>1. ~ EndWithWrites(t)
        BY <2>0 DEF EndWithWrites
      <4>2. MakeCall(t)
        BY <1>2, <2>1, <4>1, StepKinds DEF End
      <4> QED BY <1>3, <4>2, PlanOfDecrease DEF MakeCall
    <3>2. /\ pc'[t] = "lookup" /\ word'[t] = Count /\ left'[t] = Unit
          /\ reads'[t] = reads[t] /\ writes'[t] = writes[t]
      BY <3>1 DEF tm_read, Goto, TypeOK, descriptor
    <3>3. ~ Returns(t)
      BY <3>2 DEF Returns
    <3> QED BY <1>1, <1>3, <2>0, <2>1, <3>2, <3>3 DEF Decreasing
  <2>2. CASE pc[t] = "lookup"
    <3>1. ReadLookup(t)
      BY <2>2, StepKinds, AdvanceByPlace
    <3>2. getWriteNode(t, word[t]) = 0
      BY <2>0, WriteNodeOfWord
    <3>3. /\ pc'[t] = "copy" /\ word'[t] = word[t]
          /\ reads'[t] = reads[t] /\ writes'[t] = writes[t]
      BY <3>1, <3>2 DEF ReadLookup, Goto, TypeOK, descriptor
    <3>4. ~ Returns(t)
      BY <3>3 DEF Returns
    <3> QED BY <1>1, <1>3, <2>0, <2>2, <3>3, <3>4 DEF Decreasing
  <2>3. CASE pc[t] = "copy"
    <3>1. ReadCopy(t)
      BY <2>3, StepKinds, AdvanceByPlace
    <3>2. /\ pc'[t] \in {"copy", "checklock"} /\ (pc'[t] = "checklock" => left'[t] = {})
          /\ word'[t] = word[t] /\ reads'[t] = reads[t] /\ writes'[t] = writes[t]
      BY <3>1 DEF ReadCopy, Goto, TypeOK, descriptor
    <3>3. ~ Returns(t)
      BY <3>2 DEF Returns
    <3> QED BY <1>1, <1>3, <2>0, <2>3, <3>2, <3>3 DEF Decreasing
  <2>4. CASE pc[t] = "checklock"
    <3>1. ReadCheckLock(t)
      BY <2>4, StepKinds, AdvanceByPlace
    <3>2. /\ pc'[t] = "checkversion" /\ left'[t] = left[t]
          /\ word'[t] = word[t] /\ reads'[t] = reads[t] /\ writes'[t] = writes[t]
      BY <1>2, <3>1 DEF ReadCheckLock, Goto, TypeOK, descriptor, locals
    <3>3. ~ Returns(t)
      BY <3>2 DEF Returns
    <3> QED BY <1>1, <1>3, <2>0, <2>4, <3>2, <3>3 DEF Decreasing
  <2>5. CASE pc[t] = "checkversion"
    <3>1. ReadCheckVersion(t)
      BY <2>5, StepKinds, AdvanceByPlace
    <3>2. pc'[t] = "active" /\ reads'[t] = Append(reads[t], word[t]) /\ writes'[t] = writes[t]
      BY <1>2, <3>1 DEF ReadCheckVersion, Goto, TypeOK
    <3>3. Returns(t)
      BY <2>5, <3>2 DEF Returns
    <3>4. Len(got'[t]) = 1 /\ reads'[t] = <<Count>>
      BY <1>1, <2>0, <2>5, <3>2
    <3> QED BY <1>1, <1>3, <2>0, <3>2, <3>3, <3>4 DEF Decreasing
  <2> QED BY <2>0, <2>1, <2>2, <2>3, <2>4, <2>5
<1>4. CASE at[t] = 2
  <2>0. /\ pc[t] \in {"active", "insert"}
        /\ Len(got[t]) = 1 /\ reads[t] = <<Count>> /\ writes[t] = <<>>
        /\ pc[t] = "insert" => /\ word[t] = Count /\ buf[t] = Fill(got[t][1] - 1)
                               /\ got[t][1] <= last[t]
    BY <1>4 DEF Decreasing
  <2>1. Got(t, 1) = got[t][1] /\ got[t][1] \in Int /\ last[t] \in Int
    <3>1. got[t] \in Seq(Int) /\ 1 \in DOMAIN got[t] /\ last[t] \in Int
      BY <2>0 DEF ClientOK
    <3> QED BY <3>1, ElementOfSeq DEF Got
  <2>2. CASE pc[t] = "active"
    <3>1. ~ EndWithWrites(t)
      BY <2>0 DEF EndWithWrites
    <3>2. MakeCall(t)
      BY <1>2, <2>2, <3>1, StepKinds DEF End
    <3>3. 2 <= Len(Plan(t)) /\ got[t][1] <= last[t]
      BY <1>4, <2>1, <3>2, PlanOfDecrease DEF MakeCall
    <3>4. tm_write(t, Count, Fill(got[t][1] - 1))
      BY <1>4, <2>1, <3>2, <3>3, PlanOfDecrease DEF MakeCall
    <3>5. getWriteNode(t, Count) = 0
      BY <2>0, WriteNodeOfWord
    <3>6. /\ pc'[t] = "insert" /\ word'[t] = Count /\ buf'[t] = Fill(got[t][1] - 1)
          /\ reads'[t] = reads[t] /\ writes'[t] = writes[t]
      BY <3>4, <3>5 DEF tm_write, Goto, TypeOK
    <3>7. ~ Returns(t)
      BY <3>6 DEF Returns
    <3> QED BY <1>1, <1>4, <2>0, <2>2, <3>3, <3>6, <3>7 DEF Decreasing
  <2>3. CASE pc[t] = "insert"
    <3>1. WriteInsert(t)
      BY <2>3, StepKinds, AdvanceByPlace
    <3>2. /\ pc'[t] = "active" /\ reads'[t] = reads[t]
          /\ writes'[t] = Append(writes[t], [word |-> word[t], value |-> buf[t]])
      BY <1>2, <3>1 DEF WriteInsert, Goto, TypeOK
    <3>3. Returns(t)
      BY <2>3, <3>2 DEF Returns
    <3>4. writes'[t] = <<[word |-> Count, value |-> Fill(got[t][1] - 1)]>>
      BY <2>0, <2>3, <3>2
    <3> QED BY <1>1, <1>4, <2>0, <2>3, <3>2, <3>3, <3>4 DEF Decreasing
  <2> QED BY <2>0, <2>2, <2>3
<1>5. CASE at[t] = 3
  <2>0. /\ pc[t] = "active" /\ Len(got[t]) = 1 /\ reads[t] = <<Count>>
        /\ writes[t] = <<[word |-> Count, value |-> Fill(got[t][1] - 1)]>>
        /\ got[t][1] <= last[t]
    BY <1>5 DEF Decreasing
  <2>1. ~ MakeCall(t)
    BY <1>5, PlanOfDecrease DEF MakeCall
  <2>2. EndWithWrites(t)
    BY <1>2, <2>0, <2>1, StepKinds DEF End
  <2>3. pc'[t] = "acquire" /\ reads'[t] = reads[t] /\ writes'[t] = writes[t]
    BY <2>2 DEF EndWithWrites, Goto, TypeOK, descriptor
  <2>4. ~ Returns(t)
    BY <2>3 DEF Returns
  <2> QED BY <1>1, <1>5, <2>0, <2>3, <2>4 DEF Decreasing, CommitPC
<1> QED BY <1>0, <1>3, <1>4, <1>5

LEMMA RoPlaces ==
  ASSUME TypeOK, NEW t \in Tx, Call(t) \/ Advance(t), isRo[t],
         pc[t] \notin CommitPC \cup {"lookup", "insert"}
  PROVE  pc'[t] \notin CommitPC \cup {"lookup", "insert"}
<1> USE DEF TypeOK, Goto, CommitPC
<1>0. cleanTransaction(t) => pc'[t] = "idle"
  BY DEF cleanTransaction
<1>1. ASSUME NEW ro \in BOOLEAN, tm_begin(t, ro) PROVE pc'[t] = "active"
  BY <1>1 DEF tm_begin
<1>2. ASSUME NEW w \in Word, tm_read(t, w) PROVE pc'[t] = "copy"
  BY <1>2 DEF tm_read
<1>3. ASSUME NEW w \in Word, NEW d \in Data PROVE ~ tm_write(t, w, d)
  BY DEF tm_write
<1>4. CASE EndWithoutWrites(t) \/ EndWithWrites(t)
  BY <1>0, <1>4 DEF EndWithoutWrites, EndWithWrites
<1>5. CASE Advance(t)
  <2>1. pc[t] \notin {"active", "idle"}
    BY <1>5 DEF Advance, ReadLookup, ReadCopy, ReadCheckLock, ReadCheckVersion, WriteInsert,
         AcquireLock, ReleaseLock, AbortCommit, IncClock, ValidateVersion, ValidateLock,
         ValidateDone, CopyBack, StoreVersion, Unlock
  <2>2. pc[t] \in {"copy", "checklock", "checkversion"}
    BY <2>1 DEF PC, ReadPC
  <2>3. ReadCopy(t) \/ ReadCheckLock(t) \/ ReadCheckVersion(t)
    BY <1>5, <2>2, AdvanceByPlace
  <2> QED BY <1>0, <2>3 DEF ReadCopy, ReadCheckLock, ReadCheckVersion
<1> QED BY <1>1, <1>2, <1>3, <1>4, <1>5 DEF Call

LEMMA ShapeNext ==
  ASSUME TypeOK, ClientOK, ShapeInv, NEW t \in Tx, Step(t)
  PROVE  ShapeInv'
<1>0. Shape(t)
  BY DEF ShapeInv
<1>1. ASSUME NEW u \in Tx, u # t PROVE Shape(u)'
  BY <1>1, ShapeOthers DEF ShapeInv
<1>2. Shape(t)'
  <2>1. CASE pc'[t] = "idle"
    BY <2>1, ShapeToIdle
  <2>2. CASE pc'[t] # "idle" /\ pc[t] = "idle"
    BY <1>0, <2>2, BeginShape
  <2>3. CASE pc'[t] # "idle" /\ pc[t] \in CommitPC
    BY <1>0, <2>3, CommitShape
  <2>4. CASE pc'[t] # "idle" /\ pc[t] # "idle" /\ pc[t] \notin CommitPC
    <3>1. /\ isRo[t] = (Kind(t) \in ReadOnly) /\ isRo'[t] = isRo[t] /\ Kind(t)' = Kind(t)
          /\ isRo[t] => pc[t] \notin CommitPC \cup {"lookup", "insert"}
      BY <1>0, <2>4, InsideKept DEF Shape
    <3>2. isRo'[t] => pc'[t] \notin CommitPC \cup {"lookup", "insert"}
      BY <3>1, StepIsCall, RoPlaces
    <3>3. Kind(t) \in {"init", "set"} => Writing(t)'
      <4>1. Kind(t) \in {"init", "set"} => ~ isRo[t] /\ Writing(t)
        BY <1>0, <2>4, <3>1 DEF Shape, ReadOnly
      <4> QED BY <2>4, <4>1, WritingNext
    <3>4. Kind(t) \in {"peek", "seen", "last", "zero"} => Fetching(t)'
      <4>1. Kind(t) \in {"peek", "seen", "last", "zero"} => isRo[t] /\ Fetching(t)
        BY <1>0, <2>4, <3>1 DEF Shape, ReadOnly
      <4> QED BY <2>4, <4>1, FetchingNext
    <3>5. Kind(t) = "dec" => Decreasing(t)'
      <4>1. Kind(t) = "dec" => ~ isRo[t] /\ Decreasing(t)
        BY <1>0, <2>4, <3>1 DEF Shape, ReadOnly
      <4> QED BY <2>4, <4>1, DecreasingNext
    <3> QED BY <2>4, <3>1, <3>2, <3>3, <3>4, <3>5 DEF Shape
  <2> QED BY <2>1, <2>2, <2>3, <2>4
<1> QED BY <1>1, <1>2 DEF ShapeInv

---------------------------------------------------------------------------
(* What init and check's set leave in memory.                              *)

LEMMA FilledWhenAllAre ==
  ASSUME NEW d \in Data, NEW v
  PROVE  d = Fill(v) <=> \A x \in Unit : d[x] = v
BY DEF Data, Fill

LEMMA ScriptStore ==
  ASSUME TypeOK, CursorInv, NEW t \in Tx, CopyBack(t), Kind(t) \in {"init", "set"}, Writing(t),
         NEW n \in 1..Len(Script(t))
  PROVE  /\ cur[t] \in 1..Len(Script(t)) /\ CurWord(t) = Script(t)[cur[t]].word
         /\ \E x \in left[t] :
              /\ left'[t] = left[t] \ {x} /\ cur'[t] = cur[t]
              /\ pc'[t] = (IF left[t] = {x} THEN "storeversion" ELSE "copyback")
              /\ \A y \in Unit : mem'[Script(t)[n].word][y] =
                   IF cur[t] = n /\ y = x THEN Script(t)[n].value ELSE mem[Script(t)[n].word][y]
<1>1. /\ pc[t] = "copyback" /\ Len(writes[t]) = Len(Script(t)) /\ cur[t] \in 1..Len(Script(t))
      /\ \A i \in 1..Len(writes[t]) : writes[t][i] = NodeOf(Script(t)[i])
  BY DEF CopyBack, Writing, CommitPC, CursorInv, CursorsOnLists, WriteBackPC
<1>2. /\ CurWord(t) = Script(t)[cur[t]].word
      /\ writes[t][cur[t]].value = Fill(Script(t)[cur[t]].value)
  <2>1. writes[t][cur[t]] = NodeOf(Script(t)[cur[t]])
    BY <1>1
  <2>2. /\ NodeOf(Script(t)[cur[t]]).word = Script(t)[cur[t]].word
        /\ NodeOf(Script(t)[cur[t]]).value = Fill(Script(t)[cur[t]].value)
    BY DEF NodeOf
  <2> QED BY <2>1, <2>2 DEF CurWord, NodeWord
<1>3. PICK x \in left[t] :
        /\ mem' = [mem EXCEPT ![CurWord(t)][x] = writes[t][cur[t]].value[x]]
        /\ left' = [left EXCEPT ![t] = @ \ {x}]
        /\ Goto(t, IF left[t] = {x} THEN "storeversion" ELSE "copyback")
  BY DEF CopyBack
<1>4. left'[t] = left[t] \ {x} /\ pc'[t] = (IF left[t] = {x} THEN "storeversion" ELSE "copyback")
      /\ x \in Unit
  BY <1>3 DEF TypeOK, Goto
<1>5. cur' = cur
  BY DEF CopyBack, cursors
<1>6. /\ Script(t)[cur[t]].word \in Word /\ Script(t)[n].word \in Word
      /\ Script(t)[cur[t]].word = Script(t)[n].word => cur[t] = n
  BY <1>1, PlanOfScript
<1>7. writes[t][cur[t]].value[x] = Script(t)[cur[t]].value
  BY <1>2, <1>4, FillType
<1>8. ASSUME NEW y \in Unit
      PROVE  mem'[Script(t)[n].word][y] =
               IF cur[t] = n /\ y = x THEN Script(t)[n].value ELSE mem[Script(t)[n].word][y]
  <2>1. mem \in [Word -> Data] /\ mem[Script(t)[n].word] \in Data
    BY <1>6 DEF TypeOK
  <2>2. mem' = [mem EXCEPT ![Script(t)[cur[t]].word] =
                  [mem[Script(t)[cur[t]].word] EXCEPT ![x] = Script(t)[cur[t]].value]]
    BY <1>2, <1>3, <1>7
  <2>3. CASE cur[t] = n
    BY <1>6, <2>1, <2>2, <2>3 DEF Data
  <2>4. CASE cur[t] # n
    BY <1>6, <2>1, <2>2, <2>4
  <2> QED BY <2>3, <2>4
<1> QED BY <1>1, <1>2, <1>4, <1>5, <1>8

\* The way into the write-back.
LEMMA WriteBackBegins ==
  ASSUME TypeOK, NEW t \in Tx, Call(t) \/ Advance(t), pc[t] \notin WriteBackPC, pc'[t] \in WriteBackPC
  PROVE  (IncClock(t) \/ ValidateDone(t)) /\ StartWriteBack(t)
<1> USE DEF WriteBackPC, Goto, TypeOK
<1>1. /\ \A ro \in BOOLEAN : ~ tm_begin(t, ro)
      /\ \A w \in Word : ~ tm_read(t, w)
      /\ \A w \in Word : \A d \in Data : ~ tm_write(t, w, d)
  BY DEF tm_begin, tm_read, tm_write
<1>2. ~ EndWithoutWrites(t) /\ ~ EndWithWrites(t)
  BY DEF EndWithoutWrites, EndWithWrites, cleanTransaction
<1>3. Advance(t)
  BY <1>1, <1>2 DEF Call
<1>4. ~ (ReadLookup(t) \/ ReadCopy(t) \/ ReadCheckLock(t) \/ ReadCheckVersion(t) \/ WriteInsert(t))
  BY DEF ReadLookup, ReadCopy, ReadCheckLock, ReadCheckVersion, WriteInsert, cleanTransaction
<1>5. ~ (AcquireLock(t) \/ ReleaseLock(t) \/ AbortCommit(t) \/ ValidateVersion(t) \/ ValidateLock(t))
  BY DEF AcquireLock, ReleaseLock, AbortCommit, ValidateVersion, ValidateLock,
         StartRelease, cleanTransaction
<1>6. ~ (CopyBack(t) \/ StoreVersion(t) \/ Unlock(t))
  BY DEF CopyBack, StoreVersion, Unlock
<1>7. IncClock(t) \/ ValidateDone(t)
  BY <1>3, <1>4, <1>5, <1>6 DEF Advance
<1>8. StartWriteBack(t)
  BY <1>7 DEF IncClock, ValidateDone
<1> QED BY <1>7, <1>8

\* Node by node, a script is stored as it stands.
LEMMA ScriptStored ==
  ASSUME TypeOK, TypeOK', CursorInv, ClientOK, NEW t \in Tx, Step(t), pc[t] # "idle", pc'[t] # "idle",
         Kind(t) \in {"init", "set"}, Writing(t), NEW n \in 1..Len(Script(t)),
         NEW w \in Word, w = Script(t)[n].word, NEW v, v = Script(t)[n].value,
         Stored(t, n) => mem[w] = Fill(v),
         Storing(t, n) => \A x \in Unit \ left[t] : mem[w][x] = v
  PROVE  /\ Stored(t, n)' => mem'[w] = Fill(v)
         /\ Storing(t, n)' => \A x \in Unit \ left'[t] : mem'[w][x] = v
<1> USE DEF WriteBackPC
<1>0. cur[t] \in Nat /\ n \in Nat /\ n >= 1 /\ n <= Len(Script(t)) /\ Len(Script(t)) \in Nat
      /\ mem[w] \in Data /\ mem'[w] \in Data
  <2>1. Len(Script(t)) \in Nat
    BY PlanOfScript
  <2>2. n \in Nat /\ n >= 1 /\ n <= Len(Script(t))
    BY <2>1
  <2>3. cur[t] \in Nat /\ mem[w] \in Data
    BY DEF TypeOK
  <2>4. mem'[w] \in Data
    BY DEF TypeOK
  <2> QED BY <2>1, <2>2, <2>3, <2>4
<1>1. CASE pc[t] = "copyback"
  <2>1. CopyBack(t)
    BY <1>1, StepKinds, AdvanceByPlace
  <2>2. PICK x \in left[t] :
          /\ left'[t] = left[t] \ {x} /\ cur'[t] = cur[t]
          /\ pc'[t] = (IF left[t] = {x} THEN "storeversion" ELSE "copyback")
          /\ \A y \in Unit : mem'[w][y] = IF cur[t] = n /\ y = x THEN v ELSE mem[w][y]
    BY <2>1, ScriptStore
  <2>3. CASE cur[t] < n
    <3>1. mem[w] = Fill(v) /\ cur[t] # n
      BY <1>0, <1>1, <2>3 DEF Stored
    <3>2. mem'[w] = Fill(v)
      BY <1>0, <2>2, <3>1, FilledWhenAllAre
    <3> QED BY <1>0, <2>2, <2>3, <3>2 DEF Storing
  <2>4. CASE cur[t] = n
    <3>1. \A y \in Unit \ left[t] : mem[w][y] = v
      BY <1>1, <2>4 DEF Storing
    <3>2. \A y \in Unit \ left'[t] : mem'[w][y] = v
      BY <2>2, <2>4, <3>1
    <3>3. Stored(t, n)' => left'[t] = {}
      BY <1>0, <2>2, <2>4 DEF Stored
    <3>4. Stored(t, n)' => mem'[w] = Fill(v)
      BY <1>0, <3>2, <3>3, FilledWhenAllAre
    <3> QED BY <3>2, <3>4
  <2>5. CASE cur[t] > n
    BY <1>0, <2>2, <2>5 DEF Stored, Storing
  <2> QED BY <1>0, <2>3, <2>4, <2>5
<1>2. CASE pc[t] = "storeversion"
  <2>1. StoreVersion(t)
    BY <1>2, StepKinds, AdvanceByPlace
  <2>2. pc'[t] = "unlock" /\ cur' = cur /\ mem' = mem
    BY <2>1 DEF StoreVersion, Goto, TypeOK, cursors
  <2> QED BY <1>2, <2>2 DEF Stored, Storing
<1>3. CASE pc[t] = "unlock"
  <2>1. Unlock(t)
    BY <1>3, StepKinds, AdvanceByPlace
  <2>2. ~ cleanTransaction(t)
    BY DEF cleanTransaction, Goto, TypeOK
  <2>3. pc'[t] = "copyback" /\ cur'[t] = cur[t] - 1 /\ left'[t] = Unit /\ mem' = mem
    BY <2>1, <2>2 DEF Unlock, Goto, TypeOK
  <2>4. cur'[t] < n => cur[t] < n \/ cur[t] = n
    BY <1>0, <2>3
  <2> QED BY <1>3, <2>3, <2>4 DEF Stored, Storing
<1>4. CASE pc[t] \notin WriteBackPC
  <2>1. CASE pc'[t] \notin WriteBackPC
    BY <2>1 DEF Stored, Storing
  <2>2. CASE pc'[t] \in WriteBackPC
    <3>1. (IncClock(t) \/ ValidateDone(t)) /\ StartWriteBack(t)
      BY <1>4, <2>2, StepIsCall, WriteBackBegins
    <3>3. pc'[t] = "copyback" /\ cur'[t] = Len(writes[t]) /\ left'[t] = Unit
      BY <3>1 DEF StartWriteBack, Goto, TypeOK
    <3>4. pc[t] \in CommitPC
      BY <3>1 DEF IncClock, ValidateDone, CommitPC
    <3>5. Len(writes[t]) = Len(Script(t))
      BY <3>4 DEF Writing
    <3> QED BY <1>0, <3>3, <3>5 DEF Stored, Storing
  <2> QED BY <2>1, <2>2
<1> QED BY <1>1, <1>2, <1>3, <1>4

\* As long as somebody is in the first part, only init writes.
LEMMA FirstPartStores ==
  ASSUME TypeOK, CursorInv, ClientOK, JobsInv, TurnInv, ShapeInv, NEW t \in Tx, todo[t] # <<>>,
         Part(Kind(t)) = 1, NEW v \in Tx, Step(v)
  PROVE  \A x \in Unit : mem'[Account(0)][x] \in {mem[Account(0)][x], InitBalance}
<1>1. CASE ~ CopyBack(v)
  <2>1. mem' = mem
    BY <1>1, StepIsCall, Effects DEF Untouched, IncClock, StoreVersion
  <2> QED BY <2>1
<1>2. CASE CopyBack(v)
  <2>1. todo[v] # <<>> /\ Part(Kind(v)) <= Part(Kind(t))
    BY BeginsInTurn DEF InTurn
  <2>2. Kind(v) \in Kinds /\ Part(Kind(v)) \in 1..5
    BY <2>1, CurrentJob
  <2>3. Kind(v) \in {"init", "peek"}
    <3>1. Part(Kind(v)) = 1
      BY <2>1, <2>2
    <3> QED BY <2>2, <3>1, KindsOfPart
  <2>4. pc[v] \in CommitPC /\ pc[v] # "idle"
    BY <1>2 DEF CopyBack, CommitPC
  <2>5. Kind(v) = "init" /\ Writing(v)
    BY <2>3, <2>4 DEF ShapeInv, Shape, ReadOnly
  <2>6. /\ 2 \in 1..Len(Script(v)) /\ Script(v)[2].word = Account(0)
        /\ Script(v)[2].value = InitBalance
    BY <2>5, InitTxIs, BankAssumption DEF Script, Account
  <2> QED BY <1>2, <2>5, <2>6, ScriptStore
<1> QED BY <1>1, <1>2

\* Who commits anything but a read has gone through the write-back.
LEMMA ScriptCommits ==
  ASSUME TypeOK, CursorInv, ClientOK, ShapeInv, NEW t \in Tx, Step(t), Commits(t),
         Kind(t) \in {"init", "set"}
  PROVE  Unlock(t) /\ pc[t] = "unlock" /\ cur[t] = 1 /\ mem' = mem
<1>1. Writing(t) /\ ~ isRo[t]
  BY DEF ShapeInv, Shape, Commits, ReadOnly
<1>2. cleanTransaction(t)
  BY StepIsCall, StepToIdle DEF Commits
<1>3. pc[t] # "active"
  <2>1. SUFFICES ASSUME pc[t] = "active" PROVE FALSE
    OBVIOUS
  <2>2. ~ MakeCall(t) /\ ~ EndWithWrites(t)
    BY <1>2 DEF MakeCall, tm_read, tm_write, EndWithWrites, cleanTransaction, Goto, TypeOK
  <2>3. writes[t] = <<>> /\ at[t] > Len(Plan(t))
    BY <1>1, <2>1, <2>2, StepKinds DEF End, CallsMade, EndWithoutWrites
  <2>4. at[t] = 1
    BY <1>1, <2>3 DEF Writing
  <2> QED BY <2>3, <2>4, PlanOfScript
<1>4. Unlock(t) /\ pc[t] = "unlock"
  BY <1>3, StepKinds, AdvanceByPlace DEF Commits
<1>5. cur[t] = 1
  BY <1>2, <1>4 DEF Unlock, Goto, cleanTransaction, TypeOK
<1> QED BY <1>4, <1>5 DEF Unlock

LEMMA PeekFollowsInit ==
  ASSUME TypeOK, CursorInv, ClientOK, JobsInv, TurnInv, ShapeInv, InitInv, NEW t \in Tx, Step(t),
         Commits(t) => Correct(t), todo'[t] # <<>>, Kind(t)' = "peek", todo'[t] # todo[t]
  PROVE  mem'[Account(0)] = Fill(InitBalance)
<1>1. /\ Commits(t) /\ todo[t] # <<>> /\ Len(todo'[t]) = Len(todo[t]) - 1
      /\ todo'[t] \in Seq(Kinds) /\ \A i \in 1..Len(todo'[t]) : todo'[t][i] = todo[t][i + 1]
  BY TodoNext
<1>2. Len(todo'[t]) >= 1 /\ Kind(t)' = todo'[t][1]
  BY <1>1 DEF Kind
<1>3. Len(todo[t]) \in Nat /\ 2 \in 1..Len(todo[t]) /\ todo[t][2] = "peek"
  BY <1>1, <1>2, TodoType
<1>4. Done(t) \in Nat /\ Done(t) + 2 \in DOMAIN Jobs[t] /\ Jobs[t][Done(t) + 2] = "peek"
  BY <1>3, TodoType, JobsType
<1>5. (Done(t) + 2) - 1 = Done(t) + 1
  BY <1>4
<1>6. Jobs[t][Done(t) + 1] = "init"
  BY <1>4, <1>5, JobsAssumption DEF Pairs
<1>7. Kind(t) = "init"
  BY <1>1, <1>6, CurrentJob
<1>8. Unlock(t) /\ pc[t] = "unlock" /\ cur[t] = 1 /\ mem' = mem
  BY <1>1, <1>7, ScriptCommits
<1>9. Runs(t, "init") /\ Stored(t, 2)
  BY <1>7, <1>8 DEF Runs, Stored, WriteBackPC
<1> QED BY <1>8, <1>9 DEF InitInv

InitOK(t) ==
  /\ todo[t] # <<>> /\ Kind(t) = "peek" => mem[Account(0)] = Fill(InitBalance)
  /\ Runs(t, "init") /\ Stored(t, 2) => mem[Account(0)] = Fill(InitBalance)
  /\ Runs(t, "init") /\ Storing(t, 2) =>
       \A x \in Unit \ left[t] : mem[Account(0)][x] = InitBalance
  /\ Runs(t, "peek") /\ pc[t] # "active" => \A x \in Unit \ left[t] : buf[t][x] = InitBalance
  /\ Runs(t, "peek") /\ pc[t] = "active" /\ got[t] # <<>> => got[t][1] = InitBalance

LEMMA InitOthers ==
  ASSUME TypeOK, TypeOK', CursorInv, ClientOK, JobsInv, TurnInv, ShapeInv, NEW v \in Tx, Step(v),
         NEW t \in Tx, t # v, InitOK(t)
  PROVE  InitOK(t)'
<1>1. /\ pc'[t] = pc[t] /\ cur'[t] = cur[t] /\ left'[t] = left[t] /\ buf'[t] = buf[t]
      /\ todo'[t] = todo[t] /\ got'[t] = got[t]
  BY StepIsCall, StepIsLocal, OthersClient DEF Kept
<1>2. Kind(t)' = Kind(t)
  BY <1>1 DEF Kind
<1>3. /\ Runs(t, "init")' = Runs(t, "init") /\ Runs(t, "peek")' = Runs(t, "peek")
      /\ Stored(t, 2)' = Stored(t, 2) /\ Storing(t, 2)' = Storing(t, 2)
  BY <1>1, <1>2 DEF Runs, Stored, Storing
<1>4. ASSUME todo[t] # <<>>, Kind(t) \in {"init", "peek"}
      PROVE  /\ mem[Account(0)] = Fill(InitBalance) => mem'[Account(0)] = Fill(InitBalance)
             /\ \A x \in Unit : mem[Account(0)][x] = InitBalance => mem'[Account(0)][x] = InitBalance
  <2>1. Part(Kind(t)) = 1
    BY <1>4 DEF Part
  <2>2. \A x \in Unit : mem'[Account(0)][x] \in {mem[Account(0)][x], InitBalance}
    BY <1>4, <2>1, FirstPartStores
  <2>3. mem[Account(0)] \in Data /\ mem'[Account(0)] \in Data
    BY Words DEF TypeOK
  <2> QED BY <2>2, <2>3, FilledWhenAllAre
<1>5. Runs(t, "init") => todo[t] # <<>> /\ Kind(t) = "init"
  BY DEF Runs, TurnInv
<1> QED BY <1>1, <1>2, <1>3, <1>4, <1>5 DEF InitOK

LEMMA PeekNext ==
  ASSUME TypeOK, ClientOK, TurnInv, ShapeInv, NEW t \in Tx, Step(t), InitOK(t), Runs(t, "peek"),
         pc'[t] # "idle"
  PROVE  /\ pc'[t] # "active" => \A x \in Unit \ left'[t] : buf'[t][x] = InitBalance
         /\ pc'[t] = "active" /\ got'[t] # <<>> => got'[t][1] = InitBalance
<1>1. Fetching(t) /\ Kind(t) = "peek" /\ isRo[t] /\ todo[t] # <<>>
  BY DEF Runs, ShapeInv, Shape, ReadOnly, TurnInv
<1>2. /\ pc[t] \in {"active", "copy", "checklock", "checkversion"}
      /\ pc[t] # "active" => at[t] = 1 /\ got[t] = <<>> /\ word[t] = Account(0)
      /\ pc[t] = "active" => (at[t] = 2 /\ Len(got[t]) = 1) \/ (at[t] = 1 /\ got[t] = <<>>)
      /\ pc[t] \in {"checklock", "checkversion"} => left[t] = {}
  BY <1>1 DEF Fetching, Fetched
<1>3. mem[Account(0)] = Fill(InitBalance) /\ (pc[t] # "active" => \A x \in Unit \ left[t] : buf[t][x] = InitBalance)
  BY <1>1 DEF InitOK, Runs
<1>4. got'[t] = (IF pc[t] = "checkversion" THEN Append(got[t], ValueOf(buf[t])) ELSE got[t])
  BY <1>2, InsideKept
<1>5. ~ cleanTransaction(t) /\ ~ EndWithoutWrites(t) /\ ~ EndWithWrites(t)
  BY <1>1 DEF EndWithoutWrites, EndWithWrites, cleanTransaction, Goto, TypeOK
<1>6. CASE pc[t] = "active"
  <2>1. MakeCall(t) /\ at[t] = 1
    BY <1>1, <1>2, <1>5, <1>6, StepKinds, PlanOfFetch DEF End, MakeCall
  <2>2. tm_read(t, Account(0))
    BY <1>1, <2>1, PlanOfFetch DEF MakeCall, Fetched
  <2>3. pc'[t] = "copy" /\ left'[t] = Unit
    BY <1>1, <2>2 DEF tm_read, Goto, TypeOK
  <2> QED BY <2>3
<1>7. CASE pc[t] = "copy"
  <2>1. ReadCopy(t)
    BY <1>7, StepKinds, AdvanceByPlace
  <2>2. PICK x \in left[t] : /\ buf' = [buf EXCEPT ![t][x] = mem[word[t]][x]]
                             /\ left' = [left EXCEPT ![t] = @ \ {x}]
    BY <2>1 DEF ReadCopy
  <2>3. /\ pc'[t] \in {"copy", "checklock"} /\ left'[t] = left[t] \ {x} /\ x \in Unit
        /\ \A y \in Unit : buf'[t][y] = IF y = x THEN mem[word[t]][x] ELSE buf[t][y]
    BY <2>1, <2>2 DEF ReadCopy, Goto, TypeOK, Data
  <2>4. mem[word[t]][x] = InitBalance
    BY <1>2, <1>3, <1>7, <2>3, FillType
  <2> QED BY <1>3, <1>7, <2>3, <2>4
<1>8. CASE pc[t] = "checklock"
  <2>1. ReadCheckLock(t)
    BY <1>8, StepKinds, AdvanceByPlace
  <2>2. pc'[t] = "checkversion" /\ left'[t] = left[t] /\ buf'[t] = buf[t]
    BY <1>5, <2>1 DEF ReadCheckLock, Goto, TypeOK, locals
  <2> QED BY <1>3, <1>8, <2>2
<1>9. CASE pc[t] = "checkversion"
  <2>1. ReadCheckVersion(t)
    BY <1>9, StepKinds, AdvanceByPlace
  <2>2. pc'[t] = "active"
    BY <1>5, <2>1 DEF ReadCheckVersion, Goto, TypeOK
  <2>3. buf[t] = Fill(InitBalance)
    BY <1>2, <1>3, <1>9, FilledWhenAllAre DEF TypeOK
  <2>4. got'[t] = Append(<<>>, InitBalance)
    BY <1>2, <1>4, <1>9, <2>3, FillType
  <2>5. got'[t][1] = InitBalance
    BY <2>4
  <2> QED BY <2>2, <2>5
<1> QED BY <1>2, <1>6, <1>7, <1>8, <1>9

LEMMA InitNext ==
  ASSUME TypeOK, TypeOK', CursorInv, ClientOK, JobsInv, TurnInv, ShapeInv, ShapeInv', InitInv,
         NEW v \in Tx, Step(v), Commits(v) => Correct(v)
  PROVE  InitInv'
<1> DEFINE w == Account(0)
<1>0. InitInv <=> \A t \in Tx : InitOK(t)
  BY DEF InitInv, InitOK
<1>1. InitInv' <=> \A t \in Tx : InitOK(t)'
  BY DEF InitInv, InitOK
<1>2. \A t \in Tx \ {v} : InitOK(t)'
  BY <1>0, InitOthers
<1>3. InitOK(v) /\ mem[w] \in Data /\ mem'[w] \in Data
  BY <1>0, Words DEF TypeOK
<1>4. todo'[v] # <<>> /\ Kind(v)' = "peek" => mem'[w] = Fill(InitBalance)
  <2>1. CASE todo'[v] = todo[v]
    <3>1. SUFFICES ASSUME todo[v] # <<>>, Kind(v) = "peek" PROVE mem'[w] = Fill(InitBalance)
      BY <2>1 DEF Kind
    <3>2. Part(Kind(v)) = 1 /\ mem[w] = Fill(InitBalance)
      BY <1>3, <3>1 DEF Part, InitOK
    <3>3. \A x \in Unit : mem'[w][x] \in {mem[w][x], InitBalance}
      BY <3>1, <3>2, FirstPartStores
    <3> QED BY <1>3, <3>2, <3>3, FilledWhenAllAre
  <2>2. CASE todo'[v] # todo[v]
    BY <2>2, PeekFollowsInit
  <2> QED BY <2>1, <2>2
<1>5. CASE pc'[v] = "idle"
  BY <1>2, <1>1, <1>4, <1>5 DEF InitOK, Runs, Stored, Storing, WriteBackPC
<1>6. CASE pc[v] = "idle" /\ pc'[v] # "idle"
  <2>1. pc'[v] = "active"
    BY <1>6, StepKinds DEF Begin, tm_begin, Goto, TypeOK
  <2>2. got'[v] = <<>>
    BY <1>6, <2>1, StepKinds, StaysInCall DEF Returns, ShapeInv, Shape
  <2> QED BY <1>1, <1>2, <1>4, <2>1, <2>2 DEF InitOK, Runs, Stored, Storing, WriteBackPC
<1>7. CASE pc[v] # "idle" /\ pc'[v] # "idle"
  <2>1. Kind(v)' = Kind(v)
    BY <1>7, InsideKept
  <2>2. CASE Kind(v) = "init"
    <3>1. Writing(v) /\ Runs(v, "init")
      BY <1>7, <2>2 DEF ShapeInv, Shape, Runs
    <3>2. /\ 2 \in 1..Len(Script(v)) /\ Script(v)[2].word = w
          /\ Script(v)[2].value = InitBalance /\ w \in Word
      BY <2>2, InitTxIs, BankAssumption, Words DEF Script, Account
    <3>3. /\ Stored(v, 2) => mem[w] = Fill(InitBalance)
          /\ Storing(v, 2) => \A x \in Unit \ left[v] : mem[w][x] = InitBalance
      BY <1>3, <3>1 DEF InitOK
    <3>4. /\ Stored(v, 2)' => mem'[w] = Fill(InitBalance)
          /\ Storing(v, 2)' => \A x \in Unit \ left'[v] : mem'[w][x] = InitBalance
      <4> HIDE DEF w
      <4> QED BY <1>7, <2>2, <3>1, <3>2, <3>3, ScriptStored
    <3>5. ~ Runs(v, "peek")'
      BY <2>1, <2>2 DEF Runs
    <3> QED BY <1>1, <1>2, <1>4, <3>4, <3>5 DEF InitOK
  <2>3. CASE Kind(v) = "peek"
    <3>1. ~ Runs(v, "init")' /\ Runs(v, "peek")
      BY <1>7, <2>1, <2>3 DEF Runs
    <3> QED BY <1>1, <1>2, <1>3, <1>4, <1>7, <3>1, PeekNext DEF InitOK
  <2>4. CASE Kind(v) \notin {"init", "peek"}
    BY <1>1, <1>2, <1>4, <2>1, <2>4 DEF InitOK, Runs
  <2> QED BY <2>2, <2>3, <2>4
<1> QED BY <1>5, <1>6, <1>7

---------------------------------------------------------------------------
(* The first worker sets the counter, alone.                               *)

LEMMA PartThreeIsFirst ==
  ASSUME NEW t \in Tx, NEW v \in Tx, NEW i \in DOMAIN Jobs[t], NEW j \in DOMAIN Jobs[v],
         Part(Jobs[t][i]) = 3, Part(Jobs[v][j]) = 3
  PROVE  t = v
BY JobsAssumption

LEMMA SetAlone ==
  ASSUME ClientOK, JobsInv, TurnInv, NEW t \in Tx, Runs(t, "set"),
         NEW v \in Tx, todo[v] # <<>>, InTurn(v)
  PROVE  v = t
<1>1. todo[t] # <<>> /\ InTurn(t) /\ Kind(t) = "set" /\ Part(Kind(t)) = 3
  BY DEF Runs, TurnInv, Part
<1>2. /\ Done(t) + 1 \in DOMAIN Jobs[t] /\ Kind(t) = Jobs[t][Done(t) + 1]
      /\ Done(v) + 1 \in DOMAIN Jobs[v] /\ Kind(v) = Jobs[v][Done(v) + 1]
      /\ Part(Kind(v)) \in 1..5
  BY <1>1, CurrentJob, JobsType
<1>3. Part(Kind(v)) <= 3 /\ 3 <= Part(Kind(v))
  BY <1>1 DEF InTurn
<1>4. Part(Kind(v)) = 3
  BY <1>2, <1>3
<1> QED BY <1>1, <1>2, <1>4, PartThreeIsFirst

SetOK(t) ==
  /\ Runs(t, "set") /\ Stored(t, 1) => mem[Count] = Fill(Decrements)
  /\ Runs(t, "set") /\ Storing(t, 1) =>
       \A x \in Unit \ left[t] : mem[Count][x] = Decrements

LEMMA SetNext ==
  ASSUME TypeOK, TypeOK', CursorInv, ClientOK, JobsInv, TurnInv, ShapeInv, SetInv,
         NEW v \in Tx, Step(v)
  PROVE  SetInv'
<1>0. (SetInv <=> \A t \in Tx : SetOK(t)) /\ (SetInv' <=> \A t \in Tx : SetOK(t)')
  BY DEF SetInv, SetOK
<1>1. ASSUME NEW t \in Tx, t # v PROVE ~ Runs(t, "set")'
  <2>1. pc'[t] = pc[t] /\ todo'[t] = todo[t]
    BY <1>1, StepIsCall, StepIsLocal, OthersClient DEF Kept
  <2>2. Runs(t, "set")' = Runs(t, "set")
    BY <2>1 DEF Runs, Kind
  <2> QED BY <1>1, <2>2, BeginsInTurn, SetAlone
<1>2. \A t \in Tx : t # v => SetOK(t)'
  BY <1>1 DEF SetOK
<1>3. SetOK(v)'
  <2>1. CASE pc'[v] = "idle"
    BY <2>1 DEF SetOK, Runs
  <2>2. CASE pc[v] = "idle" /\ pc'[v] # "idle"
    <3>1. pc'[v] = "active"
      BY <2>2, StepKinds DEF Begin, tm_begin, Goto, TypeOK
    <3> QED BY <3>1 DEF SetOK, Stored, Storing, WriteBackPC
  <2>3. CASE pc[v] # "idle" /\ pc'[v] # "idle"
    <3>1. Kind(v)' = Kind(v)
      BY <2>3, InsideKept
    <3>2. CASE Kind(v) # "set"
      BY <3>1, <3>2 DEF SetOK, Runs
    <3>3. CASE Kind(v) = "set"
      <4>1. Writing(v) /\ Runs(v, "set")
        BY <2>3, <3>3 DEF ShapeInv, Shape, Runs
      <4>2. /\ 1 \in 1..Len(Script(v)) /\ Script(v)[1].word = Count
            /\ Script(v)[1].value = Decrements /\ Count \in Word
        BY <3>3, Words DEF Script, Write
      <4>3. /\ Stored(v, 1) => mem[Count] = Fill(Decrements)
            /\ Storing(v, 1) => \A x \in Unit \ left[v] : mem[Count][x] = Decrements
        BY <1>0, <4>1 DEF SetOK
      <4>4. /\ Stored(v, 1)' => mem'[Count] = Fill(Decrements)
            /\ Storing(v, 1)' => \A x \in Unit \ left'[v] : mem'[Count][x] = Decrements
        <5> HIDE DEF Count
        <5> QED BY <2>3, <3>3, <4>1, <4>2, <4>3, ScriptStored
      <4> QED BY <4>4 DEF SetOK, Count
    <3> QED BY <3>2, <3>3
  <2> QED BY <2>1, <2>2, <2>3
<1> QED BY <1>0, <1>2, <1>3

---------------------------------------------------------------------------
(* The counter: how many decreases are left.                               *)

LEMMA DecTurnsFinite == IsFiniteSet(DecTurns)
<1> DEFINE Turns(t) == {t} \X {i \in DOMAIN Jobs[t] : Jobs[t][i] = "dec"}
           S == {Turns(t) : t \in Tx}
           f == [t \in Tx |-> Turns(t)]
<1>1. IsFiniteSet(S)
  <2>1. f \in Surjection(Tx, S)
    BY DEF Surjection
  <2> HIDE DEF f, S
  <2> QED BY <2>1, JobsAssumption, FS_Surjection
<1>2. ASSUME NEW t \in Tx PROVE IsFiniteSet(Turns(t))
  <2>1. IsFiniteSet(1..Len(Jobs[t]))
    BY FS_Interval, JobsType
  <2>2. {i \in DOMAIN Jobs[t] : Jobs[t][i] = "dec"} \in SUBSET (1..Len(Jobs[t]))
    BY JobsType
  <2>3. IsFiniteSet({i \in DOMAIN Jobs[t] : Jobs[t][i] = "dec"})
    BY <2>1, <2>2, FS_Subset
  <2>4. IsFiniteSet({t})
    BY FS_Singleton
  <2> QED BY <2>3, <2>4, FS_Product
<1>3. IsFiniteSet(UNION S)
  <2>1. \A T \in S : IsFiniteSet(T)
    BY <1>2
  <2> HIDE DEF S
  <2> QED BY <1>1, <2>1, FS_UNION
<1>4. DecTurns = UNION S
  BY DEF DecTurns
<1> QED BY <1>3, <1>4

LEMMA DecTurnsIs ==
  ASSUME NEW p
  PROVE  p \in DecTurns <=> /\ p = <<p[1], p[2]>> /\ p[1] \in Tx /\ p[2] \in DOMAIN Jobs[p[1]]
                            /\ Jobs[p[1]][p[2]] = "dec"
<1>1. p \in DecTurns => /\ p = <<p[1], p[2]>> /\ p[1] \in Tx /\ p[2] \in DOMAIN Jobs[p[1]]
                        /\ Jobs[p[1]][p[2]] = "dec"
  BY DEF DecTurns
<1>2. ASSUME p = <<p[1], p[2]>>, p[1] \in Tx, p[2] \in DOMAIN Jobs[p[1]], Jobs[p[1]][p[2]] = "dec"
      PROVE  p \in DecTurns
  <2>1. p \in {p[1]} \X {i \in DOMAIN Jobs[p[1]] : Jobs[p[1]][i] = "dec"}
    BY <1>2
  <2> QED BY <1>2, <2>1 DEF DecTurns
<1> QED BY <1>1, <1>2

LEMMA CounterType == DecsLeft \subseteq DecTurns /\ IsFiniteSet(DecsLeft) /\ Counter \in Nat
<1>1. DecsLeft \in SUBSET DecTurns
  BY DEF DecsLeft
<1>2. IsFiniteSet(DecsLeft)
  BY <1>1, DecTurnsFinite, FS_Subset
<1> QED BY <1>1, <1>2, FS_CardinalityType DEF Counter

\* A decrease has passed once it begins to store its value.
Passed(p) == ~ (/\ p[2] > Done(p[1])
                /\ pc[p[1]] \in WriteBackPC => p[2] # Done(p[1]) + 1)

LEMMA PassedIs == DecsLeft = {p \in DecTurns : ~ Passed(p)}
BY DEF DecsLeft, Passed

\* dec commits through the write-back.
LEMMA DecCommits ==
  ASSUME TypeOK, ClientOK, ShapeInv, NEW t \in Tx, Step(t), Commits(t), Correct(t), Kind(t) = "dec"
  PROVE  pc[t] = "unlock"
<1>1. SUFFICES ASSUME pc[t] = "active" PROVE FALSE
  BY DEF Commits
<1>2. Decreasing(t) /\ ~ isRo[t]
  BY <1>1 DEF ShapeInv, Shape, ReadOnly
<1>3. pc'[t] = "idle"
  BY DEF Commits
<1>4. ~ MakeCall(t) /\ ~ EndWithWrites(t)
  BY <1>3 DEF MakeCall, tm_read, tm_write, EndWithWrites, Goto, TypeOK
<1>5. writes[t] = <<>> /\ at[t] > Len(Plan(t))
  BY <1>1, <1>2, <1>4, StepKinds DEF End, CallsMade, EndWithoutWrites
<1>6. Got(t, 1) \in Int /\ last[t] \in Int /\ Got(t, 1) <= last[t]
  <2>1. Got(t, 1) \in Int
    <3>1. CASE 1 \in DOMAIN got[t]
      <4>1. got[t] \in Seq(Int)
        BY DEF ClientOK
      <4> QED BY <3>1, <4>1, ElementOfSeq DEF Got
    <3>2. CASE 1 \notin DOMAIN got[t]
      BY <3>2 DEF Got
    <3> QED BY <3>1, <3>2
  <2> QED BY <2>1 DEF Correct, ClientOK
<1>7. Len(Plan(t)) = 2 /\ at[t] \in 1..3
  <2>1. Len(Plan(t)) = 2
    BY <1>6, PlanOfDecrease
  <2> QED BY <1>2, <2>1 DEF Decreasing
<1>8. at[t] = 3
  BY <1>5, <1>7
<1> QED BY <1>2, <1>5, <1>8 DEF Decreasing

LEMMA LeavesWriteBack ==
  ASSUME TypeOK, NEW t \in Tx, Step(t), pc[t] \in WriteBackPC, pc'[t] \notin WriteBackPC
  PROVE  pc[t] = "unlock" /\ pc'[t] = "idle" /\ Commits(t)
<1>1. CopyBack(t) \/ StoreVersion(t) \/ Unlock(t)
  BY StepKinds, AdvanceByPlace DEF WriteBackPC
<1>2. Unlock(t) /\ pc[t] = "unlock" /\ pc'[t] = "idle"
  BY <1>1 DEF CopyBack, StoreVersion, Unlock, cleanTransaction, WriteBackPC, Goto, TypeOK
<1> QED BY <1>2 DEF Commits

\* Nothing but dec's entry into the write-back changes what is left.
LEMMA DecsLeftNext ==
  ASSUME TypeOK, CursorInv, ClientOK, JobsInv, TurnInv, ShapeInv, NEW v \in Tx, Step(v),
         Commits(v) => Correct(v)
  PROVE  IF pc[v] \notin WriteBackPC /\ pc'[v] \in WriteBackPC /\ Kind(v) = "dec"
         THEN Counter' = Counter - 1 /\ Counter >= 1
         ELSE Counter' = Counter
<1> DEFINE enters == pc[v] \notin WriteBackPC /\ pc'[v] \in WriteBackPC /\ Kind(v) = "dec"
           d == <<v, Done(v) + 1>>
<1>1. ASSUME NEW p \in DecTurns, p[1] # v PROVE Passed(p)' <=> Passed(p)
  <2>1. p[1] \in Tx
    BY DecTurnsIs
  <2>2. pc'[p[1]] = pc[p[1]] /\ todo'[p[1]] = todo[p[1]]
    BY <1>1, <2>1, StepIsCall, StepIsLocal, OthersClient DEF Kept
  <2> QED BY <2>2 DEF Passed, Done
<1>2. todo[v] # <<>> /\ Done(v) \in Nat /\ Done(v) + 1 \in DOMAIN Jobs[v] /\ Kind(v) = Jobs[v][Done(v) + 1]
  BY BeginsInTurn, CurrentJob, TodoType, JobsType
<1>3. d \in DecTurns <=> Kind(v) = "dec"
  BY <1>2, DecTurnsIs
<1>4. ASSUME NEW p \in DecTurns, p[1] = v PROVE p[2] \in Nat /\ p = <<v, p[2]>> /\ p[1] = v
                                          /\ (p[2] = Done(v) + 1 <=> p = d)
  BY <1>4, DecTurnsIs, JobsType
<1>5. CASE todo' = todo
  <2>1. Done(v)' = Done(v)
    BY <1>5 DEF Done
  <2>2. \A p \in DecTurns : p[1] = v =>
          /\ Passed(p) <=> ~ (p[2] > Done(v) /\ (pc[v] \in WriteBackPC => p # d))
          /\ Passed(p)' <=> ~ (p[2] > Done(v) /\ (pc'[v] \in WriteBackPC => p # d))
    BY <1>4, <2>1 DEF Passed
  <2>3. pc[v] \in WriteBackPC /\ pc'[v] \notin WriteBackPC => Kind(v) \notin {"dec"}
    <3>1. SUFFICES ASSUME pc[v] \in WriteBackPC, pc'[v] \notin WriteBackPC, Kind(v) = "dec" PROVE FALSE
      OBVIOUS
    <3>4. Commits(v)
      BY <3>1, LeavesWriteBack
    <3>5. AfterCommit(v)
      BY <3>4 DEF Step, Follow
    <3>6. todo'[v] = Tail(todo[v]) /\ todo[v] \in Seq(Kinds)
      BY <3>1, <3>4, <3>5 DEF AfterCommit, ClientOK
    <3>7. Len(todo'[v]) = Len(todo[v]) - 1 /\ Len(todo[v]) \in Nat
      BY <1>2, <3>6, HeadTailProperties
    <3> QED BY <1>5, <3>7
  <2>4. CASE enters
    <3>1. d \in DecsLeft
      BY <1>2, <1>3, <2>4, PassedIs DEF Passed
    <3>2. \A p \in DecTurns : Passed(p)' <=> (Passed(p) \/ p = d)
      BY <1>1, <2>2, <2>4, <1>2
    <3>3. DecsLeft' = {p \in DecTurns : ~ Passed(p)'}
      BY DEF DecsLeft, Passed
    <3>4. DecsLeft' = DecsLeft \ {d}
      BY <3>2, <3>3, PassedIs
    <3>5. Counter' = Counter - 1
      BY <3>1, <3>4, CounterType, FS_RemoveElement DEF Counter
    <3>6. Counter # 0
      BY <3>1, CounterType, FS_EmptySet DEF Counter
    <3> QED BY <2>4, <3>5, <3>6, CounterType
  <2>5. CASE ~ enters
    <3>1. \A p \in DecTurns : Passed(p)' <=> Passed(p)
      BY <1>1, <1>3, <2>2, <2>3, <2>5
    <3>2. DecsLeft' = DecsLeft
      BY <3>1, PassedIs DEF DecsLeft, Passed
    <3> QED BY <2>5, <3>2 DEF Counter
  <2> QED BY <2>4, <2>5
<1>6. CASE todo' # todo
  <2>1. Commits(v) /\ Done(v)' = Done(v) + 1
    BY <1>6, TodoNext
  <2>2. pc'[v] = "idle" /\ pc'[v] \notin WriteBackPC
    BY <2>1 DEF Commits, WriteBackPC
  <2>3. Kind(v) = "dec" => pc[v] = "unlock"
    BY <2>1, DecCommits
  <2>4. \A p \in DecTurns : p[1] = v =>
          /\ Passed(p) <=> ~ (p[2] > Done(v) /\ (pc[v] \in WriteBackPC => p # d))
          /\ Passed(p)' <=> ~ (p[2] > Done(v) + 1)
    BY <1>4, <2>1, <2>2 DEF Passed
  <2>5. \A p \in DecTurns : p[1] = v => (p[2] > Done(v) + 1 <=> p[2] > Done(v) /\ p # d)
    BY <1>2, <1>4
  <2>6. \A p \in DecTurns : Passed(p)' <=> Passed(p)
    BY <1>1, <1>3, <2>3, <2>4, <2>5 DEF WriteBackPC
  <2>7. DecsLeft' = DecsLeft
    BY <2>6, PassedIs DEF DecsLeft, Passed
  <2> QED BY <2>2, <2>7 DEF Counter
<1> QED BY <1>5, <1>6

---------------------------------------------------------------------------
(* Once the counter is set, only dec writes.                               *)

LEMMA SetIsDone ==
  ASSUME ClientOK, JobsInv, Counting, NEW t \in Tx, NEW i \in DOMAIN Jobs[t], Jobs[t][i] = "set"
  PROVE  i \in 1..Done(t)
<1>1. i \in 1..Len(Jobs[t]) /\ Done(t) \in Nat /\ Len(todo[t]) \in Nat /\ Len(Jobs[t]) = Done(t) + Len(todo[t])
  BY JobsType, TodoType
<1>2. SUFFICES ASSUME i > Done(t) PROVE FALSE
  BY <1>1
<1>3. i - Done(t) \in 1..Len(todo[t]) /\ Done(t) + (i - Done(t)) = i
  BY <1>1, <1>2
<1>4. todo[t][i - Done(t)] = "set"
  BY <1>3, TodoType
<1> QED BY <1>3, <1>4 DEF Counting

LEMMA CountingKinds ==
  ASSUME ClientOK, JobsInv, DoneInv, Counting, NEW u \in Tx, todo[u] # <<>>
  PROVE  Kind(u) \in {"seen", "last", "dec", "zero"}
<1>1. PICK t \in Tx : \E i \in DOMAIN Jobs[t] : Jobs[t][i] = "set"
  BY DEF Counting
<1>2. PICK i \in DOMAIN Jobs[t] : Jobs[t][i] = "set"
  BY <1>1
<1>3. 3 <= Part(Kind(u))
  <2>1. Part(Jobs[t][i]) = 3
    BY <1>2 DEF Part
  <2> QED BY <1>2, <2>1, SetIsDone DEF DoneInv
<1>4. Kind(u) \in Kinds /\ Part(Kind(u)) \in 1..5
  BY CurrentJob
<1>5. Part(Kind(u)) = 3 \/ Part(Kind(u)) = 4 \/ Part(Kind(u)) = 5
  BY <1>3, <1>4
<1>6. Kind(u) # "set"
  <2>1. 1 \in 1..Len(todo[u]) /\ Kind(u) = todo[u][1]
    BY CurrentJob, TodoType
  <2> QED BY <2>1 DEF Counting
<1> QED BY <1>4, <1>5, <1>6, KindsOfPart

\* Whoever is past the set finds the counter set.
LEMMA CountingBegan ==
  ASSUME ClientOK, JobsInv, NEW u \in Tx, todo[u] # <<>>, InTurn(u),
         Kind(u) \in {"seen", "last", "dec", "zero"}
  PROVE  Counting
<1>1. /\ Done(u) \in Nat /\ Done(u) + 1 \in DOMAIN Jobs[u] /\ Kind(u) = Jobs[u][Done(u) + 1]
      /\ Part(Kind(u)) \in 3..5 /\ (Part(Kind(u)) = 3 => Kind(u) = "seen")
  BY CurrentJob, JobsType, TodoType DEF Part
<1>2. PICK first \in Tx :
        /\ \A t \in Tx \ {first} : \A i \in DOMAIN Jobs[t] : Part(Jobs[t][i]) # 3
        /\ (\E t \in Tx : \E i \in DOMAIN Jobs[t] : Part(Jobs[t][i]) > 2) =>
             \E k \in DOMAIN Jobs[first] : \A i \in DOMAIN Jobs[first] : Jobs[first][i] = "set" <=> i = k
  BY JobsAssumption
<1>3. PICK k \in DOMAIN Jobs[first] : \A i \in DOMAIN Jobs[first] : Jobs[first][i] = "set" <=> i = k
  <2>1. Part(Jobs[u][Done(u) + 1]) > 2
    BY <1>1
  <2> QED BY <1>1, <1>2, <2>1
<1>4. Jobs[first][k] = "set"
  BY <1>3
<1>5. ASSUME NEW t \in Tx, NEW i \in 1..Len(todo[t]), todo[t][i] = "set" PROVE FALSE
  <2>1. /\ todo[t] # <<>> /\ Part(todo[t][i]) = 3 /\ i \in Nat /\ i >= 1 /\ Done(t) \in Nat
        /\ Done(t) + i \in DOMAIN Jobs[t] /\ Jobs[t][Done(t) + i] = "set"
    BY <1>5, TodoType, JobsType DEF Part
  <2>2. t = first
    <3>1. Part(Jobs[t][Done(t) + i]) = 3
      BY <2>1 DEF Part
    <3> QED BY <1>2, <2>1, <3>1
  <2>3. Done(first) + i = k
    BY <1>3, <2>1, <2>2
  <2>4. CASE Kind(u) = "seen"
    <3>1. u = first
      BY <1>1, <1>2, <2>4 DEF Part
    <3>2. Done(u) + 1 > 1 /\ Jobs[u][(Done(u) + 1) - 1] = "set"
      <4>1. <<"set", "seen">> \in Pairs
        BY DEF Pairs
      <4>2. Jobs[u][Done(u) + 1] = <<"set", "seen">>[2]
        BY <1>1, <2>4
      <4>3. Done(u) + 1 > 1 /\ Jobs[u][(Done(u) + 1) - 1] = <<"set", "seen">>[1]
        BY <1>1, <4>1, <4>2, JobsAssumption
      <4> QED BY <4>3
    <3>3. Done(u) \in DOMAIN Jobs[u] /\ (Done(u) + 1) - 1 = Done(u)
      BY <1>1, <3>2, JobsType
    <3>4. Done(u) = k
      BY <1>3, <3>1, <3>2, <3>3
    <3> QED BY <2>1, <2>2, <2>3, <3>1, <3>4
  <2>5. CASE Kind(u) # "seen"
    <3>1. Part(Kind(u)) <= Part(Kind(t)) /\ Part(Kind(t)) <= Part(todo[t][i]) /\ Part(Kind(t)) \in 1..5
      BY <2>1, PartsGrow, CurrentJob DEF InTurn
    <3> QED BY <1>1, <2>1, <2>5, <3>1
  <2> QED BY <2>4, <2>5
<1> QED BY <1>4, <1>5 DEF Counting

LEMMA CountingNext ==
  ASSUME ClientOK, JobsInv, TurnInv, NEW v \in Tx, Step(v), Commits(v) => Correct(v)
  PROVE  /\ Counting => Counting'
         /\ ~ Counting /\ Counting' => /\ Commits(v) /\ Kind(v) = "set"
                                       /\ Done(v)' = Done(v) + 1
                                       /\ todo' = [todo EXCEPT ![v] = todo'[v]]
<1>1. CASE todo' = todo
  BY <1>1 DEF Counting
<1>2. CASE todo' # todo
  <2>1. /\ Commits(v) /\ todo[v] # <<>> /\ todo' = [todo EXCEPT ![v] = todo'[v]]
        /\ Len(todo'[v]) = Len(todo[v]) - 1 /\ Len(todo[v]) \in Nat
        /\ \A i \in 1..Len(todo'[v]) : todo'[v][i] = todo[v][i + 1]
        /\ Done(v)' = Done(v) + 1
    BY <1>2, TodoNext, TodoType DEF ClientOK
  <2>2. \A u \in Tx \ {v} : todo'[u] = todo[u]
    BY <2>1 DEF ClientOK
  <2>3. Counting => Counting'
    BY <2>1, <2>2 DEF Counting
  <2>4. ASSUME ~ Counting, Counting' PROVE Kind(v) = "set"
    <3>0. PICK u \in Tx : \E i \in 1..Len(todo[u]) : todo[u][i] = "set"
      BY <2>4 DEF Counting
    <3>1. PICK i \in 1..Len(todo[u]) : todo[u][i] = "set"
      BY <3>0
    <3>2. u = v
      BY <2>2, <2>4, <3>1 DEF Counting
    <3>3. i = 1
      <4>1. i # 1 => i - 1 \in 1..Len(todo'[v]) /\ (i - 1) + 1 = i
        BY <2>1, <3>1, <3>2
      <4>2. i # 1 => todo'[v][i - 1] = "set"
        BY <2>1, <3>1, <3>2, <4>1
      <4> QED BY <2>4, <4>1, <4>2 DEF Counting
    <3> QED BY <2>1, <3>1, <3>2, <3>3, CurrentJob
  <2> QED BY <2>1, <2>3, <2>4
<1> QED BY <1>1, <1>2

LEMMA Committing ==
  ASSUME TypeOK, CursorInv, ClientOK, JobsInv, TurnInv, DoneInv, ShapeInv, Counting,
         NEW u \in Tx, pc[u] \in CommitPC
  PROVE  /\ Kind(u) = "dec" /\ Len(got[u]) = 1 /\ got[u] # <<>> /\ got[u][1] \in Int
         /\ got[u][1] <= last[u] /\ reads[u] = <<Count>> /\ Len(reads[u]) = 1
         /\ Len(writes[u]) = 1 /\ DOMAIN writes[u] = {1} /\ NodeWord(u, 1) = Count
         /\ writes[u][1].value = Fill(got[u][1] - 1)
         /\ pc[u] \in WriteBackPC \cup {"acquire", "vallock"} => cur[u] = 1
         /\ pc[u] \in WriteBackPC => CurWord(u) = Count
<1>1. pc[u] # "idle" /\ pc[u] \notin {"active", "insert"} \cup ReadPC
  BY DEF CommitPC, ReadPC
<1>2. Kind(u) \in {"seen", "last", "dec", "zero"}
  BY <1>1, CountingKinds DEF TurnInv
<1>3. Kind(u) = "dec" /\ Decreasing(u)
  BY <1>1, <1>2 DEF ShapeInv, Shape, ReadOnly
<1>4. /\ Len(got[u]) = 1 /\ got[u][1] <= last[u] /\ reads[u] = <<Count>>
      /\ writes[u] = <<[word |-> Count, value |-> Fill(got[u][1] - 1)]>>
  BY <1>1, <1>3 DEF Decreasing
<1>5. got[u] # <<>> /\ got[u][1] \in Int
  <2>1. got[u] \in Seq(Int)
    BY DEF ClientOK
  <2> QED BY <1>4, <2>1, ElementOfSeq
<1>6. Len(reads[u]) = 1 /\ Len(writes[u]) = 1 /\ DOMAIN writes[u] = {1}
      /\ writes[u][1] = [word |-> Count, value |-> Fill(got[u][1] - 1)]
  BY <1>4
<1>7. pc[u] \in WriteBackPC \cup {"acquire", "vallock"} => cur[u] = 1
  <2>1. CursorsOnLists(u)
    BY DEF CursorInv
  <2>2. pc[u] \in WriteBackPC \cup {"acquire", "vallock"} => cur[u] \in 1..1
    BY <1>6, <2>1 DEF CursorsOnLists
  <2> QED BY <2>2
<1> QED BY <1>3, <1>4, <1>5, <1>6, <1>7 DEF NodeWord, CurWord

LockerPC == {"inc", "valversion", "vallock", "copyback", "storeversion", "unlock"}

\* The counter's lock lets one thread at a time through the rest of its commit.
LEMMA OneLocker ==
  ASSUME TypeOK, CursorInv, LockInv, ClientOK, JobsInv, TurnInv, DoneInv, ShapeInv, Counting,
         NEW u \in Tx, pc[u] \in LockerPC
  PROVE  lockBit[Count] /\ \A t \in Tx : pc[t] \in LockerPC => t = u
<1>1. ASSUME NEW t \in Tx, pc[t] \in LockerPC PROVE 1 \in HeldNodes(t) /\ NodeWord(t, 1) = Count
  <2>1. pc[t] \in CommitPC
    BY <1>1 DEF LockerPC, CommitPC
  <2>2. /\ DOMAIN writes[t] = {1} /\ NodeWord(t, 1) = Count
        /\ pc[t] \in WriteBackPC => cur[t] = 1
    BY <2>1, Committing
  <2> QED BY <1>1, <2>2 DEF HeldNodes, LockerPC, WriteBackPC
<1>2. lockBit[Count]
  BY <1>1 DEF LockInv
<1>3. ASSUME NEW t \in Tx, pc[t] \in LockerPC PROVE t = u
  BY <1>1, <1>3 DEF LockInv
<1> QED BY <1>2, <1>3

---------------------------------------------------------------------------
(* What a step shows of itself to those who read the counter.              *)

\* It draws a timestamp at the most, and is in no write-back before or after.
Calm(v) ==
  /\ mem' = mem /\ version' = version /\ Counter' = Counter
  /\ ~ Stores(v) /\ ~ Stores(v)' /\ pc'[v] \notin WriteBackPC
  /\ Drawn(v)' => (Drawn(v) /\ wv'[v] = wv[v]) \/ wv'[v] = clock + 1

Enters(v) ==
  /\ mem' = mem /\ version' = version /\ Counter' = Counter - 1
  /\ pc[v] \in {"inc", "valversion"} /\ pc'[v] = "copyback" /\ left'[v] = Unit
  /\ got'[v] = got[v] /\ got[v][1] = Counter
  /\ (Drawn(v) /\ wv'[v] = wv[v]) \/ wv'[v] = clock + 1

Copies(v) ==
  /\ pc[v] = "copyback" /\ version' = version /\ Counter' = Counter
  /\ got'[v] = got[v] /\ wv'[v] = wv[v]
  /\ \E x \in left[v] :
       /\ left'[v] = left[v] \ {x}
       /\ pc'[v] = (IF left[v] = {x} THEN "storeversion" ELSE "copyback")
       /\ \A y \in Unit : mem'[Count][y] = IF y = x THEN Counter ELSE mem[Count][y]

Publishes(v) ==
  /\ pc[v] = "storeversion" /\ pc'[v] = "unlock" /\ mem' = mem /\ Counter' = Counter
  /\ version'[Count] = wv[v] /\ got'[v] = got[v]

LEMMA ValidationBegins ==
  ASSUME TypeOK, NEW t \in Tx, Call(t) \/ Advance(t), pc'[t] \in {"valversion", "vallock"}
  PROVE  IncClock(t) \/ ValidateVersion(t) \/ ValidateLock(t)
<1> USE DEF Goto, TypeOK
<1>1. /\ \A ro \in BOOLEAN : ~ tm_begin(t, ro)
      /\ \A w \in Word : ~ tm_read(t, w)
      /\ \A w \in Word : \A d \in Data : ~ tm_write(t, w, d)
  BY DEF tm_begin, tm_read, tm_write
<1>2. ~ EndWithoutWrites(t) /\ ~ EndWithWrites(t)
  BY DEF EndWithoutWrites, EndWithWrites, cleanTransaction
<1>3. Advance(t)
  BY <1>1, <1>2 DEF Call
<1>4. ~ (ReadLookup(t) \/ ReadCopy(t) \/ ReadCheckLock(t) \/ ReadCheckVersion(t) \/ WriteInsert(t))
  BY DEF ReadLookup, ReadCopy, ReadCheckLock, ReadCheckVersion, WriteInsert, cleanTransaction
<1>5. ~ (AcquireLock(t) \/ ReleaseLock(t) \/ AbortCommit(t))
  BY DEF AcquireLock, ReleaseLock, AbortCommit, StartRelease, cleanTransaction
<1>6. ~ (ValidateDone(t) \/ CopyBack(t) \/ StoreVersion(t) \/ Unlock(t))
  BY DEF ValidateDone, StartWriteBack, CopyBack, StoreVersion, Unlock, cleanTransaction
<1> QED BY <1>3, <1>4, <1>5, <1>6 DEF Advance

LEMMA EntersKnowing ==
  ASSUME TypeOK, CursorInv, LockInv, ClientOK, JobsInv, TurnInv, DoneInv, ClockInv, ShapeInv,
         Counting, CounterInv, NEW v \in Tx, Step(v), clock' < VersionModulus,
         pc[v] \notin WriteBackPC, pc'[v] \in WriteBackPC
  PROVE  got[v][1] = Counter
<1>1. (IncClock(v) \/ ValidateDone(v)) /\ StartWriteBack(v)
  BY StepIsCall, WriteBackBegins
<1>2. pc[v] \in {"inc", "valversion"} /\ pc[v] \in CommitPC /\ pc[v] \in LockerPC
  BY <1>1 DEF IncClock, ValidateDone, CommitPC, LockerPC
<1>3. got[v] # <<>>
  BY <1>2, Committing
<1>4. Known(v, got[v][1])
  BY <1>3 DEF CounterInv, CounterOK
<1>5. \A u \in Tx \ {v} : ~ Stores(u)
  <2>1. \A u \in Tx : Stores(u) => pc[u] \in LockerPC
    BY DEF Stores, LockerPC
  <2> QED BY <1>2, <2>1, OneLocker
<1>6. version[Count] <= rv[v]
  <2>0. /\ Count \in Word /\ version[Count] \in Nat /\ rv[v] \in Nat /\ clock \in Nat
        /\ version[Count] <= clock /\ rv[v] <= clock
    BY Words DEF TypeOK, ClockInv
  <2>1. CASE ValidateDone(v)
    <3>1. pc[v] = "valversion" /\ cur[v] = 0
      BY <2>1 DEF ValidateDone
    <3> QED BY <3>1 DEF CounterInv, VersionInv
  <2>2. CASE IncClock(v)
    <3>1. clock' = clock + 1 /\ clock + 1 = Truncate(rv[v] + 1)
      BY <1>1, <2>2 DEF IncClock, StartWriteBack, Goto, TypeOK
    <3>2. rv[v] + 1 \in Nat /\ rv[v] + 1 < VersionModulus
      BY <2>0, <3>1, ConstantsAssumption
    <3>3. clock + 1 = rv[v] + 1
      BY <3>1, <3>2, TruncateBound
    <3> QED BY <2>0, <3>3
  <2> QED BY <1>1, <2>1, <2>2
<1>7. version[Count] \in Nat /\ rv[v] \in Nat
  BY Words DEF TypeOK
<1> QED BY <1>4, <1>5, <1>6, <1>7 DEF Known

LEMMA StepEffects ==
  ASSUME TypeOK, CursorInv, LockInv, ClientOK, JobsInv, TurnInv, DoneInv, ClockInv, ShapeInv,
         Counting, CounterInv, NEW v \in Tx, Step(v), Commits(v) => Correct(v), clock' < VersionModulus
  PROVE  Calm(v) \/ Enters(v) \/ Copies(v) \/ Publishes(v)
<1>0. Call(v) \/ Advance(v)
  BY StepIsCall
<1>1. CASE pc[v] \notin WriteBackPC /\ pc'[v] \in WriteBackPC
  <2>1. (IncClock(v) \/ ValidateDone(v)) /\ StartWriteBack(v)
    BY <1>0, <1>1, WriteBackBegins
  <2>2. pc[v] \in {"inc", "valversion"} /\ pc[v] \in CommitPC /\ pc'[v] = "copyback" /\ left'[v] = Unit
    BY <2>1 DEF IncClock, ValidateDone, CommitPC, StartWriteBack, Goto, TypeOK
  <2>3. Kind(v) = "dec"
    BY <2>2, Committing
  <2>4. Counter' = Counter - 1
    BY <1>1, <2>3, DecsLeftNext
  <2>5. got[v][1] = Counter
    BY <1>1, EntersKnowing
  <2>6. got'[v] = got[v]
    BY <2>2, InsideKept
  <2>7. mem' = mem /\ version' = version
    BY <2>1 DEF IncClock, ValidateDone, shared
  <2>8. (Drawn(v) /\ wv'[v] = wv[v]) \/ wv'[v] = clock + 1
    BY <2>1 DEF IncClock, ValidateDone, descriptor, Drawn, TypeOK
  <2> QED BY <2>2, <2>4, <2>5, <2>6, <2>7, <2>8 DEF Enters
<1>2. CASE pc[v] = "copyback"
  <2>1. CopyBack(v)
    BY <1>2, StepKinds, AdvanceByPlace
  <2>2. /\ CurWord(v) = Count /\ cur[v] = 1 /\ writes[v][1].value = Fill(got[v][1] - 1)
    BY <1>2, Committing DEF CommitPC, WriteBackPC
  <2>3. got[v][1] - 1 = Counter
    BY <1>2 DEF CounterInv, MemInv, WriteBackPC
  <2>4. PICK x \in left[v] :
          /\ mem' = [mem EXCEPT ![Count][x] = writes[v][cur[v]].value[x]]
          /\ left' = [left EXCEPT ![v] = @ \ {x}]
          /\ Goto(v, IF left[v] = {x} THEN "storeversion" ELSE "copyback")
    BY <2>1, <2>2 DEF CopyBack
  <2>5. /\ left'[v] = left[v] \ {x} /\ x \in Unit
        /\ pc'[v] = (IF left[v] = {x} THEN "storeversion" ELSE "copyback")
    BY <2>4 DEF TypeOK, Goto
  <2>6. mem' = [mem EXCEPT ![Count][x] = Counter]
    <3>1. writes[v][cur[v]].value[x] = Counter
      BY <2>2, <2>3, <2>5, FillType
    <3> QED BY <2>4, <3>1
  <2>7. \A y \in Unit : mem'[Count][y] = IF y = x THEN Counter ELSE mem[Count][y]
    <3>1. mem \in [Word -> Data] /\ Count \in Word /\ mem[Count] \in Data
      BY Words DEF TypeOK
    <3>2. mem'[Count] = [mem[Count] EXCEPT ![x] = Counter]
      BY <2>6, <3>1
    <3> QED BY <3>1, <3>2 DEF Data
  <2>8. version' = version /\ wv' = wv
    BY <2>1 DEF CopyBack, descriptor
  <2>9. Counter' = Counter
    BY <1>2, DecsLeftNext DEF WriteBackPC
  <2>10. got'[v] = got[v]
    BY <1>2, <2>5, InsideKept
  <2> QED BY <1>2, <2>5, <2>7, <2>8, <2>9, <2>10 DEF Copies
<1>3. CASE pc[v] = "storeversion"
  <2>1. StoreVersion(v)
    BY <1>3, StepKinds, AdvanceByPlace
  <2>2. CurWord(v) = Count
    BY <1>3, Committing DEF CommitPC, WriteBackPC
  <2>3. pc'[v] = "unlock" /\ mem' = mem /\ version'[Count] = Truncate(wv[v])
    BY <2>1, <2>2, Words DEF StoreVersion, Goto, TypeOK
  <2>4. Truncate(wv[v]) = wv[v]
    <3>1. wv[v] \in Nat /\ wv[v] <= clock /\ clock \in Nat /\ clock <= clock' /\ clock' \in Nat
      <4>1. wv[v] \in Nat /\ wv[v] <= clock /\ clock \in Nat
        BY DEF TypeOK, ClockInv
      <4>2. clock' = clock
        BY <2>1 DEF StoreVersion
      <4> QED BY <4>1, <4>2
    <3>2. wv[v] < VersionModulus
      BY <3>1, ConstantsAssumption
    <3> QED BY <3>1, <3>2, TruncateBound
  <2>5. Counter' = Counter
    BY <1>3, DecsLeftNext DEF WriteBackPC
  <2>6. got'[v] = got[v]
    BY <1>3, <2>3, InsideKept
  <2> QED BY <1>3, <2>3, <2>4, <2>5, <2>6 DEF Publishes
<1>4. CASE pc[v] = "unlock"
  <2>1. Unlock(v)
    BY <1>4, StepKinds, AdvanceByPlace
  <2>2. cur[v] = 1
    BY <1>4, Committing DEF CommitPC, WriteBackPC
  <2>3. pc'[v] = "idle" /\ mem' = mem /\ version' = version
    BY <2>1, <2>2 DEF Unlock, cleanTransaction, Goto, TypeOK
  <2>4. Counter' = Counter
    BY <1>4, DecsLeftNext DEF WriteBackPC
  <2> QED BY <1>4, <2>3, <2>4 DEF Calm, Stores, Drawn, WriteBackPC
<1>5. CASE pc[v] \notin WriteBackPC /\ pc'[v] \notin WriteBackPC
  <2>1. ~ Stores(v) /\ ~ Stores(v)'
    BY <1>5 DEF Stores, WriteBackPC
  <2>2. mem' = mem /\ version' = version
    <3>1. ~ CopyBack(v) /\ ~ StoreVersion(v)
      BY <1>5 DEF CopyBack, StoreVersion, WriteBackPC
    <3> QED BY <1>0, <3>1, Effects DEF Untouched
  <2>3. Counter' = Counter
    BY <1>5, DecsLeftNext
  <2>4. Drawn(v)' => (Drawn(v) /\ wv'[v] = wv[v]) \/ wv'[v] = clock + 1
    <3>1. SUFFICES ASSUME Drawn(v)' PROVE (Drawn(v) /\ wv'[v] = wv[v]) \/ wv'[v] = clock + 1
      OBVIOUS
    <3>2. pc'[v] \in {"valversion", "vallock"}
      BY <2>1, <3>1 DEF Drawn
    <3>3. IncClock(v) \/ ValidateVersion(v) \/ ValidateLock(v)
      BY <1>0, <3>2, ValidationBegins
    <3> QED BY <3>3 DEF IncClock, ValidateVersion, ValidateLock, descriptor, Drawn, TypeOK
  <2> QED BY <1>5, <2>1, <2>2, <2>3, <2>4 DEF Calm
<1> QED BY <1>1, <1>2, <1>3, <1>4, <1>5 DEF WriteBackPC

---------------------------------------------------------------------------
(* What the others have read of the counter keeps its meaning.             *)

LEMMA CounterNat ==
  ASSUME NEW v \in Tx, Calm(v) \/ Enters(v) \/ Copies(v) \/ Publishes(v), ~ Enters(v) \/ Counter >= 1
  PROVE  Counter' \in Nat /\ Counter' <= Counter /\ Counter \in Nat
BY CounterType DEF Calm, Enters, Copies, Publishes

LEMMA VersionGrows ==
  ASSUME TypeOK, TypeOK', CounterInv, Counting, NEW v \in Tx,
         Calm(v) \/ Enters(v) \/ Copies(v) \/ Publishes(v)
  PROVE  /\ version[Count] \in Nat /\ version'[Count] \in Nat /\ version[Count] <= version'[Count]
         /\ Publishes(v) => version'[Count] > version[Count]
<1>1. version[Count] \in Nat /\ version'[Count] \in Nat
  BY Words DEF TypeOK
<1>2. Publishes(v) => version'[Count] > version[Count]
  BY <1>1 DEF Publishes, CounterInv, VersionInv, Drawn, Stores
<1> QED BY <1>1, <1>2 DEF Calm, Enters, Copies

LEMMA KnownOthers ==
  ASSUME TypeOK, TypeOK', ClientOK, ClockInv, CounterInv, Counting, NEW v \in Tx, Step(v),
         Calm(v) \/ Enters(v) \/ Copies(v) \/ Publishes(v), Counter' <= Counter, Counter' \in Nat,
         NEW t \in Tx, t # v, NEW n, Known(t, n)
  PROVE  Known(t, n)'
<1>0. \A u \in Tx \ {v} : pc'[u] = pc[u] /\ wv'[u] = wv[u] /\ rv'[u] = rv[u]
  BY StepIsCall, StepIsLocal DEF Kept
<1>1. \A u \in Tx \ {v} : Drawn(u)' = Drawn(u) /\ Stores(u)' = Stores(u)
  BY <1>0 DEF Drawn, Stores
<1>2. Fits(t, n)' = Fits(t, n)
  <2>1. todo'[t] = todo[t] /\ last'[t] = last[t]
    BY OthersClient
  <2> QED BY <2>1 DEF Fits, Kind
<1>3. /\ n \in Nat /\ Counter <= n /\ Fits(t, n)
      /\ \A u \in Tx \ {t} : Drawn(u) => rv[t] < wv[u]
      /\ n = Counter \/ version[Count] > rv[t] \/ \E u \in Tx \ {t} : Stores(u)
  BY DEF Known
<1>4. Counter' <= n
  BY <1>3, CounterType
<1>5. ASSUME NEW u \in Tx \ {t}, Drawn(u)' PROVE rv'[t] < wv'[u]
  <2>1. CASE u # v
    BY <1>0, <1>1, <1>3, <1>5, <2>1
  <2>2. CASE u = v
    <3>1. (Drawn(v) /\ wv'[v] = wv[v]) \/ wv'[v] = clock + 1
      BY <1>5, <2>2 DEF Calm, Enters, Copies, Publishes, Drawn, Stores
    <3>2. rv[t] < clock + 1
      <4>1. rv[t] \in Nat /\ clock \in Nat /\ rv[t] <= clock
        BY DEF ClockInv, TypeOK
      <4> QED BY <4>1
    <3> QED BY <1>0, <1>3, <2>2, <3>1, <3>2
  <2> QED BY <2>1, <2>2
<1>6. n = Counter' \/ version'[Count] > rv'[t] \/ \E u \in Tx \ {t} : Stores(u)'
  <2>0. /\ version[Count] \in Nat /\ version'[Count] \in Nat /\ version[Count] <= version'[Count]
        /\ rv'[t] = rv[t] /\ rv[t] \in Nat
    BY <1>0, VersionGrows DEF TypeOK
  <2>1. CASE version[Count] > rv[t]
    BY <2>0, <2>1
  <2>2. CASE Calm(v)
    BY <1>1, <1>3, <2>0, <2>2 DEF Calm
  <2>3. CASE Enters(v) \/ Copies(v)
    <3>1. Stores(v)'
      BY <2>3 DEF Enters, Copies, Stores
    <3> QED BY <3>1
  <2>4. CASE Publishes(v)
    <3>1. Drawn(v)
      BY <2>4 DEF Publishes, Drawn, Stores
    <3>2. rv[t] < wv[v]
      BY <1>3, <3>1
    <3> QED BY <2>0, <2>4, <3>2 DEF Publishes
  <2> QED BY <2>2, <2>3, <2>4
<1> QED BY <1>2, <1>3, <1>4, <1>5, <1>6 DEF Known

LEMMA CounterOthers ==
  ASSUME TypeOK, TypeOK', ClientOK, ClockInv, CounterInv, Counting, NEW v \in Tx, Step(v),
         Calm(v) \/ Enters(v) \/ Copies(v) \/ Publishes(v), Counter' <= Counter, Counter' \in Nat,
         NEW t \in Tx, t # v
  PROVE  CounterOK(t)'
<1>0. /\ pc'[t] = pc[t] /\ before'[t] = before[t] /\ buf'[t] = buf[t] /\ left'[t] = left[t]
      /\ todo'[t] = todo[t] /\ last'[t] = last[t] /\ got'[t] = got[t]
  BY StepIsCall, StepIsLocal, OthersClient DEF Kept
<1>1. Kind(t)' = Kind(t) /\ Sampling(t)' = Sampling(t)
  BY <1>0 DEF Kind, Sampling
<1>2. CounterOK(t)
  BY DEF CounterInv
<1>3. /\ version[Count] \in Nat /\ version'[Count] \in Nat /\ version[Count] <= version'[Count]
      /\ Publishes(v) => version'[Count] > version[Count]
      /\ before[t] \in Nat
  BY VersionGrows DEF TypeOK
<1>4. todo'[t] # <<>> /\ Kind(t)' = "dec" /\ pc'[t] \notin WriteBackPC => Counter' <= last'[t]
  BY <1>0, <1>1, <1>2, CounterType DEF CounterOK, ClientOK
<1>5. SampleOK(t) => SampleOK(t)'
  <2>1. SUFFICES ASSUME SampleOK(t) PROVE SampleOK(t)'
    OBVIOUS
  <2>2. before[t] <= version'[Count]
    BY <1>3, <2>1 DEF SampleOK
  <2>3. CASE version[Count] > before[t]
    <3>1. version'[Count] > before[t]
      BY <1>3, <2>3
    <3> QED BY <1>0, <2>2, <3>1 DEF SampleOK
  <2>4. CASE Enters(v) \/ Copies(v)
    <3>1. Stores(v)'
      BY <2>4 DEF Enters, Copies, Stores
    <3> QED BY <1>0, <2>2, <3>1 DEF SampleOK
  <2>5. CASE Publishes(v)
    <3>1. version'[Count] > before[t]
      BY <1>3, <2>1, <2>5 DEF SampleOK
    <3> QED BY <1>0, <2>2, <3>1 DEF SampleOK
  <2>6. CASE Calm(v) /\ ~ (version[Count] > before[t])
    <3>1. \A u \in Tx : Stores(u)' <=> Stores(u)
      <4>1. \A u \in Tx \ {v} : pc'[u] = pc[u]
        BY StepIsCall, StepIsLocal DEF Kept
      <4> QED BY <2>6, <4>1 DEF Calm, Stores
    <3> QED BY <1>0, <2>1, <2>2, <2>6, <3>1 DEF SampleOK, Calm
  <2> QED BY <2>3, <2>4, <2>5, <2>6
<1>6. pc'[t] = "checkversion" =>
        /\ before'[t] <= version'[Count]
        /\ version'[Count] > before'[t] \/ \E n \in Nat : buf'[t] = Fill(n) /\ Known(t, n)'
  <2>1. SUFFICES ASSUME pc[t] = "checkversion"
                 PROVE  /\ before[t] <= version'[Count]
                        /\ version'[Count] > before[t] \/ \E n \in Nat : buf[t] = Fill(n) /\ Known(t, n)'
    BY <1>0
  <2>2. /\ before[t] <= version[Count]
        /\ version[Count] > before[t] \/ \E n \in Nat : buf[t] = Fill(n) /\ Known(t, n)
    BY <1>2, <2>1 DEF CounterOK
  <2>3. CASE version[Count] > before[t]
    BY <1>3, <2>2, <2>3
  <2>4. CASE \E n \in Nat : buf[t] = Fill(n) /\ Known(t, n)
    <3>1. PICK n \in Nat : buf[t] = Fill(n) /\ Known(t, n)
      BY <2>4
    <3>2. Known(t, n)'
      BY <3>1, KnownOthers
    <3> QED BY <1>3, <2>2, <3>1, <3>2
  <2> QED BY <2>2, <2>3, <2>4
<1>7. got'[t] # <<>> /\ pc'[t] \notin WriteBackPC => Known(t, got[t][1])'
  <2>1. SUFFICES ASSUME got[t] # <<>>, pc[t] \notin WriteBackPC PROVE Known(t, got[t][1])'
    BY <1>0
  <2>2. PICK n : n = got[t][1]
    OBVIOUS
  <2>3. Known(t, n)
    BY <1>2, <2>1, <2>2 DEF CounterOK
  <2>4. Known(t, n)'
    BY <2>3, KnownOthers
  <2> QED BY <1>0, <2>2, <2>4 DEF Known, Fits
<1> QED BY <1>1, <1>2, <1>4, <1>5, <1>6, <1>7 DEF CounterOK

---------------------------------------------------------------------------
(* The memory of the counter and its version.                              *)

LEMMA MemNext ==
  ASSUME TypeOK, CursorInv, LockInv, ClientOK, JobsInv, TurnInv, DoneInv, ShapeInv, CounterInv, Counting,
         NEW v \in Tx, Step(v), Calm(v) \/ Enters(v) \/ Copies(v) \/ Publishes(v)
  PROVE  MemInv'
<1>0. /\ \A u \in Tx \ {v} : pc'[u] = pc[u] /\ left'[u] = left[u] /\ got'[u] = got[u]
      /\ Counter \in Nat
  BY StepIsCall, StepIsLocal, OthersClient, CounterType DEF Kept
<1>1. /\ \A x \in Unit : mem[Count][x] = Counter \/ \E u \in Tx : pc[u] = "copyback" /\ x \in left[u]
      /\ \A u \in Tx : pc[u] \in WriteBackPC => got[u][1] - 1 = Counter
  BY DEF CounterInv, MemInv
<1>2. ASSUME NEW x \in Unit
      PROVE  mem'[Count][x] = Counter' \/ \E u \in Tx : pc'[u] = "copyback" /\ x \in left'[u]
  <2>1. CASE Calm(v) \/ Publishes(v)
    <3>1. mem' = mem /\ Counter' = Counter /\ pc[v] # "copyback"
      BY <2>1 DEF Calm, Publishes, Stores
    <3> QED BY <1>0, <1>1, <3>1
  <2>2. CASE Enters(v)
    BY <2>2 DEF Enters
  <2>3. CASE Copies(v)
    <3>1. PICK y \in left[v] :
            /\ left'[v] = left[v] \ {y}
            /\ pc'[v] = (IF left[v] = {y} THEN "storeversion" ELSE "copyback")
            /\ \A z \in Unit : mem'[Count][z] = IF z = y THEN Counter ELSE mem[Count][z]
      BY <2>3 DEF Copies
    <3>2. Counter' = Counter
      BY <2>3 DEF Copies
    <3>3. x # y /\ x \in left[v] => pc'[v] = "copyback" /\ x \in left'[v]
      BY <3>1
    <3> QED BY <1>0, <1>1, <3>1, <3>2, <3>3
  <2> QED BY <2>1, <2>2, <2>3
<1>3. ASSUME NEW u \in Tx, pc'[u] \in WriteBackPC PROVE got'[u][1] - 1 = Counter'
  <2>1. CASE u = v
    <3>1. CASE Enters(v)
      BY <2>1, <3>1 DEF Enters
    <3>2. CASE ~ Enters(v)
      BY <1>1, <1>3, <2>1, <3>2 DEF Calm, Copies, Publishes, WriteBackPC
    <3> QED BY <3>1, <3>2
  <2>2. CASE u # v
    <3>1. pc[u] \in WriteBackPC /\ pc[u] \in LockerPC
      BY <1>0, <1>3, <2>2 DEF WriteBackPC, LockerPC
    <3>2. ~ Enters(v)
      BY <2>2, <3>1, OneLocker DEF Enters, LockerPC
    <3> QED BY <1>0, <1>1, <2>2, <3>1, <3>2 DEF Calm, Copies, Publishes
  <2> QED BY <2>1, <2>2
<1> QED BY <1>2, <1>3 DEF MemInv

LEMMA CheckedVersion ==
  ASSUME TypeOK, CursorInv, ClientOK, JobsInv, TurnInv, DoneInv, ShapeInv, CounterInv, Counting,
         NEW v \in Tx, Step(v), version' = version,
         pc'[v] = "vallock" \/ (pc'[v] = "valversion" /\ cur'[v] = 0)
  PROVE  version'[Count] <= rv'[v]
<1>1. IncClock(v) \/ ValidateVersion(v) \/ ValidateLock(v)
  BY StepIsCall, ValidationBegins
<1>2. pc[v] \in CommitPC /\ reads[v] = <<Count>> /\ Len(reads[v]) = 1
  <2>1. pc[v] \in CommitPC
    BY <1>1 DEF IncClock, ValidateVersion, ValidateLock, CommitPC
  <2> QED BY <2>1, Committing
<1>3. ~ IncClock(v)
  <2>1. IncClock(v) => pc'[v] \in {"copyback", "valversion"} /\ (pc'[v] = "valversion" => cur'[v] = 1)
    BY <1>2 DEF IncClock, StartWriteBack, Goto, TypeOK
  <2> QED BY <2>1
<1>4. CASE ValidateVersion(v)
  <2>1. pc[v] = "valversion" /\ cur[v] # 0 /\ cur[v] \in Nat /\ cur[v] <= 1
    BY <1>2, <1>4 DEF ValidateVersion, CursorInv, CursorsOnLists, TypeOK
  <2>2. cur[v] = 1
    BY <2>1
  <2>3. version[reads[v][cur[v]]] <= rv[v] /\ rv'[v] = rv[v]
    BY <1>4 DEF ValidateVersion, StartRelease, Goto, TypeOK, descriptor
  <2> QED BY <1>2, <2>2, <2>3
<1>5. CASE ValidateLock(v)
  <2>1. pc[v] = "vallock" /\ rv'[v] = rv[v]
    BY <1>5 DEF ValidateLock, descriptor
  <2> QED BY <2>1 DEF CounterInv, VersionInv
<1> QED BY <1>1, <1>3, <1>4, <1>5

LEMMA VersionNext ==
  ASSUME TypeOK, CursorInv, LockInv, ClientOK, JobsInv, TurnInv, DoneInv, ClockInv, ShapeInv,
         CounterInv, Counting,
         NEW v \in Tx, Step(v), Calm(v) \/ Enters(v) \/ Copies(v) \/ Publishes(v)
  PROVE  VersionInv'
<1>0. \A u \in Tx \ {v} : pc'[u] = pc[u] /\ wv'[u] = wv[u] /\ rv'[u] = rv[u] /\ cur'[u] = cur[u]
  BY StepIsCall, StepIsLocal DEF Kept
<1>1. version[Count] \in Nat /\ clock \in Nat /\ version[Count] <= clock
  BY Words DEF ClockInv, TypeOK
<1>2. VersionInv
  BY DEF CounterInv
<1>3. ASSUME NEW u \in Tx, u # v, pc[u] \in LockerPC PROVE version' = version
  <2>1. ~ Publishes(v)
    BY <1>3, OneLocker DEF Publishes, LockerPC
  <2> QED BY <2>1 DEF Calm, Enters, Copies
<1>4. ASSUME NEW u \in Tx, u # v
      PROVE  /\ Drawn(u)' => version'[Count] < wv'[u]
             /\ pc'[u] = "vallock" \/ (pc'[u] = "valversion" /\ cur'[u] = 0) => version'[Count] <= rv'[u]
  <2>1. Drawn(u) \/ pc[u] \in {"vallock", "valversion"} => pc[u] \in LockerPC
    BY DEF Drawn, Stores, LockerPC
  <2>2. Drawn(u)' = Drawn(u)
    BY <1>0, <1>4 DEF Drawn, Stores
  <2> QED BY <1>0, <1>2, <1>3, <1>4, <2>1, <2>2 DEF VersionInv
<1>5. Drawn(v)' => version'[Count] < wv'[v]
  <2>1. CASE Publishes(v)
    BY <2>1 DEF Publishes, Drawn, Stores
  <2>2. CASE Calm(v) \/ Enters(v) \/ Copies(v)
    <3>1. version' = version
      BY <2>2 DEF Calm, Enters, Copies
    <3>2. Drawn(v)' => (Drawn(v) /\ wv'[v] = wv[v]) \/ wv'[v] = clock + 1
      BY <2>2 DEF Calm, Enters, Copies, Drawn, Stores
    <3> QED BY <1>1, <1>2, <3>1, <3>2 DEF VersionInv
  <2> QED BY <2>1, <2>2
<1>6. pc'[v] = "vallock" \/ (pc'[v] = "valversion" /\ cur'[v] = 0) => version'[Count] <= rv'[v]
  <2>1. Publishes(v) => pc'[v] = "unlock"
    BY DEF Publishes
  <2>2. ~ Publishes(v) => version' = version
    BY DEF Calm, Enters, Copies
  <2> QED BY <2>1, <2>2, CheckedVersion
<1> QED BY <1>4, <1>5, <1>6 DEF VersionInv

---------------------------------------------------------------------------
(* What a worker reads of the counter.                                     *)

\* Before the fourth part no decrease has passed.
LEMMA NonePassed ==
  ASSUME ClientOK, JobsInv, TurnInv, DoneInv,
         NEW t \in Tx, todo[t] # <<>>, InTurn(t), Part(Kind(t)) = 3
  PROVE  Counter = Decrements
<1>1. ASSUME NEW p \in DecTurns, Passed(p) PROVE FALSE
  <2>1. /\ p[1] \in Tx /\ p[2] \in 1..Len(Jobs[p[1]]) /\ Jobs[p[1]][p[2]] = "dec"
        /\ Part(Jobs[p[1]][p[2]]) = 4 /\ Done(p[1]) \in Nat
    BY DecTurnsIs, JobsType, TodoType DEF Part
  <2>2. CASE p[2] <= Done(p[1])
    <3>1. p[2] \in 1..Done(p[1])
      BY <2>1, <2>2
    <3> QED BY <2>1, <3>1 DEF DoneInv
  <2>3. CASE p[2] = Done(p[1]) + 1 /\ pc[p[1]] \in WriteBackPC
    <3>1. todo[p[1]] # <<>> /\ InTurn(p[1])
      BY <2>1, <2>3 DEF TurnInv, WriteBackPC
    <3>2. Kind(p[1]) = Jobs[p[1]][p[2]]
      BY <2>1, <2>3, <3>1, CurrentJob
    <3> QED BY <2>1, <3>1, <3>2 DEF InTurn
  <2> QED BY <1>1, <2>1, <2>2, <2>3 DEF Passed
<1>2. DecsLeft = DecTurns
  BY <1>1, PassedIs
<1> QED BY <1>2, JobsAssumption DEF Counter

\* Nothing is left of the parts before t's, nothing done of those after it.
LEMMA FitsNow ==
  ASSUME ClientOK, JobsInv, TurnInv, DoneInv, ShapeInv, CounterInv, Counting,
         NEW t \in Tx, pc[t] \notin WriteBackPC \cup {"idle"}
  PROVE  Fits(t, Counter)
<1>0. todo[t] # <<>> /\ InTurn(t) /\ Kind(t) \in {"seen", "last", "dec", "zero"}
  BY CountingKinds DEF TurnInv
<1>1. CASE Kind(t) = "dec"
  BY <1>0, <1>1 DEF CounterInv, CounterOK, Fits
<1>2. CASE Kind(t) = "seen"
  <2>1. Part(Kind(t)) = 3
    BY <1>2 DEF Part
  <2> QED BY <1>0, <1>2, <2>1, NonePassed, JobsAssumption DEF Fits
<1>3. CASE Kind(t) = "zero"
  <2>1. Part(Kind(t)) = 5
    BY <1>3 DEF Part
  <2>2. ASSUME NEW p \in DecTurns, ~ Passed(p) PROVE FALSE
    <3>1. /\ p[1] \in Tx /\ p[2] \in 1..Len(Jobs[p[1]]) /\ Jobs[p[1]][p[2]] = "dec"
          /\ Part("dec") = 4 /\ Done(p[1]) \in Nat /\ p[2] > Done(p[1])
          /\ Len(Jobs[p[1]]) = Done(p[1]) + Len(todo[p[1]]) /\ Len(todo[p[1]]) \in Nat
      BY <2>2, DecTurnsIs, JobsType, TodoType DEF Part, Passed
    <3>2. p[2] - Done(p[1]) \in 1..Len(todo[p[1]]) /\ Done(p[1]) + (p[2] - Done(p[1])) = p[2]
      <4>1. ASSUME NEW i \in Int, NEW d \in Nat, NEW l \in Nat, i > d, i <= d + l
            PROVE  i - d \in 1..l /\ d + (i - d) = i
        BY <4>1
      <4>2. p[2] \in Int /\ p[2] <= Done(p[1]) + Len(todo[p[1]])
        BY <3>1
      <4> QED BY <3>1, <4>1, <4>2
    <3>3. todo[p[1]][p[2] - Done(p[1])] = "dec"
      BY <3>1, <3>2, TodoType
    <3>4. /\ todo[p[1]] # <<>> /\ Part(Kind(p[1])) \in 1..5 /\ Part(Kind(p[1])) <= 4
      BY <3>1, <3>2, <3>3, PartsGrow, CurrentJob
    <3>5. Part(Kind(t)) <= Part(Kind(p[1]))
      BY <1>0, <3>1, <3>4 DEF InTurn
    <3> QED BY <2>1, <3>4, <3>5
  <2>3. DecsLeft = {}
    BY <2>2, PassedIs
  <2> QED BY <1>3, <2>3, FS_EmptySet DEF Counter, Fits
<1>4. CASE Kind(t) = "last"
  BY <1>4 DEF Fits
<1> QED BY <1>0, <1>1, <1>2, <1>3, <1>4

LEMMA FetchEnds ==
  ASSUME ClientOK, TurnInv, ShapeInv, NEW t \in Tx, CallsMade(t),
         Kind(t) \in {"peek", "seen", "last", "zero"}
  PROVE  got[t] # <<>> /\ Got(t, 1) = got[t][1] /\ pc[t] \notin WriteBackPC
<1>1. pc[t] = "active" /\ at[t] > 1 /\ Fetching(t)
  BY PlanOfFetch DEF CallsMade, ShapeInv, Shape
<1>2. Len(got[t]) = 1 /\ got[t] \in Seq(Int)
  BY <1>1 DEF Fetching, ClientOK
<1>3. 1 \in DOMAIN got[t] /\ got[t] # <<>>
  BY <1>2
<1> QED BY <1>1, <1>3 DEF Got, WriteBackPC

\* A commit that goes through no write-back has made its calls.
LEMMA EndsAfterCalls ==
  ASSUME TypeOK, NEW t \in Tx, Step(t), pc[t] = "active", pc'[t] = "idle"
  PROVE  CallsMade(t)
<1>1. ~ MakeCall(t)
  BY DEF MakeCall, tm_read, tm_write, Goto, TypeOK
<1> QED BY <1>1, StepKinds DEF End

LEMMA ReadersCommit ==
  ASSUME TypeOK, ShapeInv, NEW t \in Tx, Step(t), Commits(t), Kind(t) \in ReadOnly
  PROVE  pc[t] = "active" /\ CallsMade(t)
<1>1. pc[t] \notin CommitPC
  BY DEF Commits, ShapeInv, Shape
<1>2. pc[t] = "active"
  BY <1>1 DEF Commits, CommitPC
<1> QED BY <1>2, EndsAfterCalls DEF Commits

LEMMA BoundNext ==
  ASSUME TypeOK, CursorInv, ClientOK, JobsInv, TurnInv, DoneInv, ShapeInv, CounterInv, Counting,
         NEW v \in Tx, Step(v), Commits(v) => Correct(v), Counter' <= Counter, Counter' \in Nat,
         todo'[v] # <<>>, Kind(v)' = "dec", pc'[v] \notin WriteBackPC
  PROVE  Counter' <= last'[v]
<1>0. Counter \in Nat /\ todo[v] # <<>> /\ Kind(v) \in {"seen", "last", "dec", "zero"}
  BY CounterType, BeginsInTurn, CountingKinds
<1>1. CASE ~ Commits(v)
  <2>1. todo' = todo /\ last' = last /\ pc[v] \notin WriteBackPC
    BY <1>1, NoCommit, StepKinds, LeavesWriteBack
  <2>2. Kind(v) = "dec"
    BY <2>1 DEF Kind
  <2>3. Counter <= last[v] /\ last[v] \in Int
    BY <1>0, <2>1, <2>2 DEF CounterInv, CounterOK, ClientOK
  <2> QED BY <1>0, <2>1, <2>3
<1>2. CASE Commits(v)
  <2>1. AfterCommit(v) /\ Correct(v)
    BY <1>2 DEF Step, Follow
  <2>2. todo'[v] = Tail(todo[v]) /\ last'[v] = (IF Kind(v) = "last" THEN Got(v, 1) ELSE 0)
    BY <1>0, <2>1 DEF AfterCommit, ClientOK
  <2>3. /\ Len(todo'[v]) = Len(todo[v]) - 1 /\ todo'[v] \in Seq(Kinds)
        /\ \A i \in 1..Len(todo'[v]) : todo'[v][i] = todo[v][i + 1]
    BY <1>0, <2>2, HeadTailProperties DEF ClientOK
  <2>4. Len(todo'[v]) >= 1 /\ Kind(v)' = todo'[v][1]
    BY <2>3 DEF Kind
  <2>5. Len(todo[v]) \in Nat /\ 2 \in 1..Len(todo[v]) /\ todo[v][2] = "dec"
    BY <2>3, <2>4, TodoType
  <2>6. Done(v) \in Nat /\ Done(v) + 2 \in DOMAIN Jobs[v] /\ Jobs[v][Done(v) + 2] = "dec"
    BY <2>5, TodoType, JobsType
  <2>7. (Done(v) + 2) - 1 = Done(v) + 1
    BY <2>6
  <2>8. Jobs[v][Done(v) + 1] = "last"
    <3>1. <<"last", "dec">> \in Pairs
      BY DEF Pairs
    <3>2. Jobs[v][Done(v) + 2] = <<"last", "dec">>[2]
      BY <2>6
    <3>3. Jobs[v][(Done(v) + 2) - 1] = <<"last", "dec">>[1]
      BY <2>6, <3>1, <3>2, JobsAssumption
    <3> QED BY <2>7, <3>3
  <2>9. Kind(v) = "last"
    BY <1>0, <2>8, CurrentJob
  <2>10. got[v] # <<>> /\ Got(v, 1) = got[v][1] /\ pc[v] \notin WriteBackPC
    BY <1>2, <2>9, ReadersCommit, FetchEnds DEF ReadOnly
  <2>11. Known(v, got[v][1])
    BY <2>10 DEF CounterInv, CounterOK
  <2> QED BY <1>0, <2>2, <2>9, <2>10, <2>11 DEF Known
<1> QED BY <1>1, <1>2

LEMMA SampleNext ==
  ASSUME TypeOK, TypeOK', CursorInv, ClientOK, JobsInv, TurnInv, DoneInv, ShapeInv, ShapeInv', CounterInv,
         Counting, NEW v \in Tx, Step(v), Calm(v), Sampling(v)'
  PROVE  SampleOK(v)'
<1>0. pc'[v] \in {"lookup", "copy", "checklock"} /\ pc'[v] # "idle" /\ pc'[v] # "active"
      /\ mem' = mem /\ version' = version
  BY DEF Sampling, Calm
<1>1. pc[v] # "idle"
  BY <1>0, StepKinds DEF Begin, tm_begin, Goto, TypeOK
<1>2. Kind(v) \in {"seen", "last", "dec", "zero"} /\ Kind(v)' = Kind(v)
  BY <1>0, <1>1, CountingKinds, InsideKept DEF TurnInv
<1>3. word'[v] = Count
  <2>1. CASE Kind(v) = "dec"
    <3>1. Decreasing(v)'
      BY <1>0, <1>2, <2>1 DEF ShapeInv, Shape
    <3> QED BY <1>0, <3>1 DEF Decreasing, CommitPC
  <2>2. CASE Kind(v) # "dec"
    <3>1. Fetching(v)'
      BY <1>0, <1>2, <2>2 DEF ShapeInv, Shape
    <3> QED BY <1>0, <1>2, <2>2, <3>1 DEF Fetching, Fetched
  <2> QED BY <2>1, <2>2
<1>4. version[Count] \in Nat /\ Count \in Word /\ mem[Count] \in Data
  BY Words DEF TypeOK
<1>5. \A u \in Tx : Stores(u)' <=> Stores(u)
  <2>1. \A u \in Tx \ {v} : pc'[u] = pc[u]
    BY StepIsCall, StepIsLocal DEF Kept
  <2> QED BY <2>1 DEF Calm, Stores
<1>6. CASE pc[v] = "active"
  <2>1. PICK w \in Word : tm_read(v, w)
    <3>1. ~ End(v)
      BY <1>0 DEF End, EndWithoutWrites, EndWithWrites, cleanTransaction, Goto, TypeOK
    <3>2. MakeCall(v)
      BY <1>6, <3>1, StepKinds
    <3>3. PICK c : c = Plan(v)[at[v]]
      OBVIOUS
    <3>4. ~ tm_write(v, c.word, Fill(c.value))
      BY <1>0, <1>6 DEF tm_write, Goto, TypeOK
    <3>5. tm_read(v, c.word)
      BY <3>2, <3>3, <3>4 DEF MakeCall
    <3>6. c.word \in Word
      BY <3>5, ClientType DEF tm_read
    <3> QED BY <3>5, <3>6
  <2>2. before'[v] = version[Count] /\ left'[v] = Unit
    BY <1>3, <2>1 DEF tm_read, TypeOK
  <2> QED BY <1>0, <1>4, <2>2 DEF SampleOK
<1>7. CASE pc[v] = "lookup"
  <2>1. ReadLookup(v) /\ before' = before
    BY <1>7, StepKinds, AdvanceByPlace DEF ReadLookup
  <2>2. Decreasing(v) /\ writes[v] = <<>> /\ left[v] = Unit
    <3>1. Kind(v) = "dec" /\ Decreasing(v)
      BY <1>1, <1>2, <1>7 DEF ShapeInv, Shape, ReadOnly
    <3> QED BY <1>7, <3>1 DEF Decreasing, CommitPC
  <2>3. getWriteNode(v, word[v]) = 0
    BY <2>2, WriteNodeOfWord
  <2>4. left'[v] = Unit
    BY <2>1, <2>2, <2>3 DEF ReadLookup
  <2>5. before[v] <= version[Count]
    BY <1>7 DEF CounterInv, CounterOK, Sampling, SampleOK
  <2> QED BY <1>0, <2>1, <2>4, <2>5 DEF SampleOK
<1>8. CASE pc[v] = "copy"
  <2>1. ReadCopy(v) /\ before' = before /\ word' = word
    BY <1>8, StepKinds, AdvanceByPlace DEF ReadCopy
  <2>2. PICK x \in left[v] : /\ buf' = [buf EXCEPT ![v][x] = mem[word[v]][x]]
                             /\ left' = [left EXCEPT ![v] = @ \ {x}]
    BY <2>1 DEF ReadCopy
  <2>3. /\ left'[v] = left[v] \ {x} /\ x \in Unit
        /\ \A y \in Unit : buf'[v][y] = IF y = x THEN mem[Count][x] ELSE buf[v][y]
    BY <1>3, <2>1, <2>2 DEF TypeOK, Data
  <2>4. SampleOK(v)
    BY <1>8 DEF CounterInv, CounterOK, Sampling
  <2>5. (\A y \in Unit \ left[v] : buf[v][y] = mem[Count][y])
        => \A y \in Unit \ left'[v] : buf'[v][y] = mem'[Count][y]
    BY <1>0, <2>3
  <2> QED BY <1>0, <1>5, <2>1, <2>4, <2>5 DEF SampleOK
<1>9. pc[v] \in {"active", "lookup", "copy"}
  <2>1. pc[v] # "active" => Advance(v)
    BY <1>1, StepKinds
  <2>2. ~ ReadCheckLock(v) /\ ~ ReadCheckVersion(v) /\ ~ WriteInsert(v)
    BY <1>0 DEF ReadCheckLock, ReadCheckVersion, WriteInsert, cleanTransaction, Goto, TypeOK
  <2>3. ~ AcquireLock(v) /\ ~ ReleaseLock(v) /\ ~ AbortCommit(v) /\ ~ IncClock(v)
    BY <1>0 DEF AcquireLock, ReleaseLock, AbortCommit, IncClock, StartRelease, StartWriteBack,
                cleanTransaction, Goto, TypeOK
  <2>4. ~ ValidateVersion(v) /\ ~ ValidateLock(v) /\ ~ ValidateDone(v)
    BY <1>0 DEF ValidateVersion, ValidateLock, ValidateDone, StartRelease, StartWriteBack, Goto, TypeOK
  <2>5. ~ CopyBack(v) /\ ~ StoreVersion(v) /\ ~ Unlock(v)
    BY <1>0 DEF CopyBack, StoreVersion, Unlock, cleanTransaction, Goto, TypeOK
  <2>6. Advance(v) => ReadLookup(v) \/ ReadCopy(v)
    BY <2>2, <2>3, <2>4, <2>5 DEF Advance
  <2> QED BY <2>1, <2>6 DEF ReadLookup, ReadCopy
<1> QED BY <1>6, <1>7, <1>8, <1>9

---------------------------------------------------------------------------
(* The worker that takes the step.                                         *)

LEMMA FetchesCount ==
  ASSUME ClientOK, JobsInv, TurnInv, DoneInv, ShapeInv, Counting,
         NEW t \in Tx, pc[t] \in {"checklock", "checkversion"}
  PROVE  word[t] = Count /\ left[t] = {} /\ got[t] = <<>>
<1>1. Kind(t) \in {"seen", "last", "dec", "zero"}
  BY CountingKinds DEF TurnInv
<1>2. CASE Kind(t) = "dec"
  <2>1. Decreasing(t)
    BY <1>2 DEF ShapeInv, Shape
  <2> QED BY <2>1 DEF Decreasing, CommitPC
<1>3. CASE Kind(t) # "dec"
  <2>1. Fetching(t) /\ Fetched(t) = Count
    BY <1>1, <1>3 DEF ShapeInv, Shape, Fetched
  <2> QED BY <2>1 DEF Fetching
<1> QED BY <1>2, <1>3

LEMMA KnownOwn ==
  ASSUME TypeOK, NEW v \in Tx, Step(v), Calm(v), NEW n, Known(v, n),
         Kind(v)' = Kind(v), last'[v] = last[v], rv'[v] = rv[v]
  PROVE  Known(v, n)'
<1>1. \A u \in Tx \ {v} : pc'[u] = pc[u] /\ wv'[u] = wv[u]
  BY StepIsCall, StepIsLocal DEF Kept
<1>2. \A u \in Tx \ {v} : Drawn(u)' = Drawn(u) /\ Stores(u)' = Stores(u)
  BY <1>1 DEF Drawn, Stores
<1>3. Fits(v, n)' = Fits(v, n)
  BY DEF Fits
<1>4. Counter' = Counter /\ version' = version
  BY DEF Calm
<1> QED BY <1>1, <1>2, <1>3, <1>4 DEF Known

\* Under a free lock nobody stores: what was copied is the counter.
LEMMA CheckedLock ==
  ASSUME TypeOK, CursorInv, LockInv, ClientOK, JobsInv, TurnInv, DoneInv, ShapeInv, CounterInv,
         Counting, NEW v \in Tx, pc[v] = "checklock", ~ lockBit[Count]
  PROVE  /\ before[v] <= version[Count]
         /\ version[Count] > before[v] \/ (buf[v] = Fill(Counter) /\ Known(v, Counter))
<1>1. word[v] = Count /\ left[v] = {}
  BY FetchesCount
<1>2. \A u \in Tx : pc[u] \notin LockerPC
  BY OneLocker
<1>3. \A u \in Tx : ~ Drawn(u) /\ ~ Stores(u) /\ pc[u] # "copyback"
  BY <1>2 DEF Drawn, Stores, LockerPC, WriteBackPC
<1>4. SampleOK(v)
  BY DEF CounterInv, CounterOK, Sampling
<1>5. \A x \in Unit : mem[Count][x] = Counter
  BY <1>3 DEF CounterInv, MemInv
<1>6. (\A x \in Unit \ left[v] : buf[v][x] = mem[Count][x]) => buf[v] = Fill(Counter)
  <2>1. buf[v] = [x \in Unit |-> buf[v][x]]
    BY DEF TypeOK, Data
  <2> QED BY <1>1, <1>5, <2>1 DEF Fill
<1>7. Known(v, Counter)
  <2>1. Fits(v, Counter)
    BY FitsNow DEF WriteBackPC
  <2>2. Counter \in Nat
    BY CounterType
  <2> QED BY <1>3, <2>1, <2>2 DEF Known
<1> QED BY <1>3, <1>4, <1>6, <1>7 DEF SampleOK

LEMMA CheckNext ==
  ASSUME TypeOK, TypeOK', CursorInv, LockInv, ClientOK, JobsInv, TurnInv, DoneInv, ShapeInv, CounterInv,
         Counting, NEW v \in Tx, Step(v), Calm(v), pc'[v] = "checkversion"
  PROVE  /\ before'[v] <= version'[Count]
         /\ \/ version'[Count] > before'[v]
            \/ \E n \in Nat : buf'[v] = Fill(n) /\ Known(v, n)'
<1>1. pc[v] = "checklock" /\ ReadCheckLock(v)
  <2>1. pc[v] # "idle" /\ pc[v] # "active"
    <3>1. ~ Begin(v)
      BY DEF Begin, tm_begin, Goto, TypeOK
    <3>2. ~ End(v)
      BY DEF End, EndWithoutWrites, EndWithWrites, cleanTransaction, Goto, TypeOK
    <3>3. ~ MakeCall(v)
      BY DEF MakeCall, tm_read, tm_write, Goto, TypeOK
    <3> QED BY <3>1, <3>2, <3>3, StepKinds
  <2>2. Advance(v)
    BY <2>1, StepKinds
  <2>3. ~ ReadLookup(v) /\ ~ ReadCopy(v) /\ ~ ReadCheckVersion(v) /\ ~ WriteInsert(v)
    BY DEF ReadLookup, ReadCopy, ReadCheckVersion, WriteInsert, cleanTransaction, Goto, TypeOK
  <2>4. pc[v] \notin CommitPC
    BY StepIsCall, CommitKeeps DEF CommitPC
  <2>5. ReadCheckLock(v)
    BY <2>2, <2>3, <2>4 DEF Advance, AcquireLock, ReleaseLock, AbortCommit, IncClock, ValidateVersion,
          ValidateLock, ValidateDone, CopyBack, StoreVersion, Unlock, CommitPC
  <2> QED BY <2>5 DEF ReadCheckLock
<1>2. word[v] = Count
  BY <1>1, FetchesCount
<1>3. ~ lockBit[Count] /\ before' = before /\ buf' = buf /\ rv' = rv
  BY <1>1, <1>2 DEF ReadCheckLock, cleanTransaction, descriptor, locals, Goto, TypeOK
<1>4. version' = version
  BY DEF Calm
<1>5. Kind(v)' = Kind(v) /\ last' = last
  BY <1>1, InsideKept
<1>6. \E n \in Nat : n = Counter
  BY CounterType
<1>7. PICK n \in Nat : n = Counter
  BY <1>6
<1>8. Known(v, n) => Known(v, n)'
  BY <1>3, <1>5, KnownOwn
<1>9. /\ before[v] <= version[Count]
      /\ version[Count] > before[v] \/ (buf[v] = Fill(n) /\ Known(v, n))
  BY <1>1, <1>3, <1>7, CheckedLock
<1> QED BY <1>3, <1>4, <1>8, <1>9

LEMMA ReadReturns ==
  ASSUME TypeOK, ClientOK, JobsInv, TurnInv, DoneInv, ShapeInv, CounterInv, Counting,
         NEW v \in Tx, Step(v), pc[v] = "checkversion", pc'[v] # "idle"
  PROVE  Known(v, got'[v][1]) /\ rv'[v] = rv[v]
<1>1. ReadCheckVersion(v)
  BY StepKinds, AdvanceByPlace
<1>2. ~ cleanTransaction(v)
  BY DEF cleanTransaction, Goto, TypeOK
<1>3. VersionFits(v) /\ rv'[v] = rv[v]
  BY <1>1, <1>2 DEF ReadCheckVersion
<1>4. word[v] = Count /\ got[v] = <<>>
  BY FetchesCount
<1>5. version[Count] = before[v] /\ version[Count] \in Nat
  BY <1>3, <1>4, Words DEF VersionFits, TypeOK
<1>6. PICK n \in Nat : buf[v] = Fill(n) /\ Known(v, n)
  BY <1>5 DEF CounterInv, CounterOK
<1>7. got'[v] = Append(<<>>, ValueOf(buf[v]))
  BY <1>4, InsideKept
<1>8. got'[v] = <<n>>
  BY <1>6, <1>7, FillType
<1> QED BY <1>3, <1>6, <1>8

LEMMA CounterOwn ==
  ASSUME TypeOK, TypeOK', CursorInv, LockInv, ClientOK, JobsInv, TurnInv, DoneInv, ShapeInv, ShapeInv',
         CounterInv, Counting, NEW v \in Tx, Step(v), Commits(v) => Correct(v),
         Calm(v) \/ Enters(v) \/ Copies(v) \/ Publishes(v), Counter' <= Counter, Counter' \in Nat
  PROVE  CounterOK(v)'
<1>1. ~ Calm(v) => pc'[v] \in WriteBackPC
  BY DEF Enters, Copies, Publishes, WriteBackPC
<1>2. todo'[v] # <<>> /\ Kind(v)' = "dec" /\ pc'[v] \notin WriteBackPC => Counter' <= last'[v]
  BY BoundNext
<1>3. Sampling(v)' => SampleOK(v)'
  <2>1. Sampling(v)' => pc'[v] \notin WriteBackPC
    BY DEF Sampling, WriteBackPC
  <2> QED BY <1>1, <2>1, SampleNext
<1>4. pc'[v] = "checkversion" => /\ before'[v] <= version'[Count]
                                 /\ \/ version'[Count] > before'[v]
                                    \/ \E n \in Nat : buf'[v] = Fill(n) /\ Known(v, n)'
  <2>1. pc'[v] = "checkversion" => pc'[v] \notin WriteBackPC
    BY DEF WriteBackPC
  <2> QED BY <1>1, <2>1, CheckNext
<1>5. ASSUME got'[v] # <<>>, pc'[v] \notin WriteBackPC
      PROVE  \E n : n = got'[v][1] /\ Known(v, n)'
  <2>1. Follow(v) /\ pc'[v] # "idle"
    BY <1>5, StepKinds, GoesIdle
  <2>2. pc[v] # "idle"
    <3>1. SUFFICES ASSUME pc[v] = "idle" PROVE FALSE
      OBVIOUS
    <3>2. got[v] = <<>>
      BY <3>1 DEF ShapeInv, Shape
    <3>3. got'[v] = got[v]
      BY <2>1, <3>1 DEF Follow, ClientOK
    <3> QED BY <1>5, <3>2, <3>3
  <2>3. Kind(v)' = Kind(v) /\ last'[v] = last[v] /\ (pc[v] # "checkversion" => got'[v] = got[v])
    BY <2>1, <2>2, InsideKept
  <2>4. Known(v, got'[v][1]) /\ rv'[v] = rv[v]
    <3>1. CASE pc[v] = "checkversion"
      BY <2>1, <3>1, ReadReturns
    <3>2. CASE pc[v] # "checkversion"
      <4>1. pc[v] \notin WriteBackPC
        BY <1>5, <2>1, LeavesWriteBack
      <4>2. Known(v, got[v][1])
        BY <1>5, <2>3, <3>2, <4>1 DEF CounterInv, CounterOK
      <4>3. ~ cleanTransaction(v)
        BY <2>1 DEF cleanTransaction, Goto, TypeOK
      <4>4. rv'[v] = rv[v]
        BY <2>2, <4>3, StepIsCall, Timestamps
      <4> QED BY <2>3, <3>2, <4>2, <4>4
    <3> QED BY <3>1, <3>2
  <2>5. PICK n : n = got'[v][1]
    OBVIOUS
  <2>6. Known(v, n)
    BY <2>4, <2>5
  <2>7. Calm(v)
    BY <1>1, <1>5
  <2>8. Known(v, n)'
    BY <2>3, <2>4, <2>6, <2>7, KnownOwn
  <2> QED BY <2>5, <2>8
<1>6. got'[v] # <<>> /\ pc'[v] \notin WriteBackPC => Known(v, got[v][1])'
  <2>1. ASSUME NEW n, n = got'[v][1], Known(v, n)' PROVE Known(v, got[v][1])'
    BY <2>1 DEF Known, Fits
  <2> QED BY <1>5, <2>1
<1> QED BY <1>2, <1>3, <1>4, <1>6 DEF CounterOK

---------------------------------------------------------------------------
(* "set" commits: the counter is the number of decreases to come.          *)

\* No decrease comes straight after "set", and none has its "last" behind it.
LEMMA NoDecYet ==
  ASSUME TypeOK, ClientOK, JobsInv, TurnInv, DoneInv, NEW v \in Tx, Step(v), Commits(v),
         Runs(v, "set"), Done(v)' = Done(v) + 1, ClientOK', JobsInv', todo' = [todo EXCEPT ![v] = todo'[v]],
         NEW t \in Tx, todo'[t] # <<>>, Kind(t)' = "dec"
  PROVE  FALSE
<1>1. /\ todo[v] # <<>> /\ Kind(v) = "set" /\ Part(Kind(v)) = 3
      /\ Kind(v) = Jobs[v][Done(v) + 1] /\ Done(v) \in Nat
  BY CurrentJob, TodoType DEF Runs, TurnInv, Part
<1>2. <<"last", "dec">> \in Pairs /\ <<"last", "dec">>[1] = "last" /\ <<"last", "dec">>[2] = "dec"
  BY DEF Pairs
<1>3. ASSUME NEW i \in DOMAIN Jobs[t], Jobs[t][i] = "dec" PROVE i > 1 /\ Jobs[t][i - 1] = "last"
  BY <1>2, <1>3, JobsAssumption
<1>4. CASE t = v
  <2>1. /\ todo'[v] \in Seq(Kinds) /\ Len(todo'[v]) >= 1 /\ todo'[v][1] = "dec"
        /\ Len(Jobs[v]) \in Nat /\ DOMAIN Jobs[v] = 1..Len(Jobs[v])
    BY <1>4, JobsType DEF ClientOK, Kind
  <2>2. Len(todo'[v]) \in Nat /\ 1 \in 1..Len(todo'[v])
    BY <2>1
  <2>3. /\ Len(todo'[v]) <= Len(Jobs[v]) /\ Done(v)' = Len(Jobs[v]) - Len(todo'[v])
        /\ todo'[v][1] = Jobs[v][Done(v)' + 1]
    BY <2>2 DEF JobsInv, Done
  <2>4. (Done(v) + 1) + 1 \in DOMAIN Jobs[v] /\ Jobs[v][(Done(v) + 1) + 1] = "dec"
    <3>1. todo'[v][1] = Jobs[v][(Done(v) + 1) + 1]
      BY <2>3
    <3>2. Done(v) + 1 = Len(Jobs[v]) - Len(todo'[v])
      BY <2>3
    <3>3. ASSUME NEW d \in Nat, NEW n \in Nat, NEW l \in Nat, l >= 1, d + 1 = n - l
          PROVE  (d + 1) + 1 \in 1..n
      BY <3>3
    <3>4. (Done(v) + 1) + 1 \in DOMAIN Jobs[v]
      BY <1>1, <2>1, <2>2, <3>2, <3>3
    <3> QED BY <2>1, <3>1, <3>4
  <2>5. Jobs[v][((Done(v) + 1) + 1) - 1] = "last" /\ ((Done(v) + 1) + 1) - 1 = Done(v) + 1
    BY <1>1, <1>3, <1>4, <2>4
  <2> QED BY <1>1, <2>5
<1>5. CASE t # v
  <2>1. todo'[t] = todo[t]
    BY <1>5, OthersClient
  <2>2. todo[t] # <<>> /\ Kind(t) = "dec"
    BY <2>1 DEF Kind
  <2>3. Done(t) + 1 \in DOMAIN Jobs[t] /\ Jobs[t][Done(t) + 1] = "dec" /\ Done(t) \in Nat
    BY <2>2, CurrentJob, JobsType, TodoType
  <2>4. Done(t) \in 1..Done(t) /\ Jobs[t][Done(t)] = "last"
    <3>1. Done(t) + 1 > 1 /\ Jobs[t][(Done(t) + 1) - 1] = "last"
      BY <1>3, <2>3
    <3> QED BY <2>3, <3>1
  <2>5. Part(Jobs[t][Done(t)]) = 4
    BY <2>4 DEF Part
  <2> QED BY <1>1, <2>4, <2>5 DEF DoneInv
<1> QED BY <1>4, <1>5

LEMMA CounterBegins ==
  ASSUME TypeOK, CursorInv, ClientOK, JobsInv, TurnInv, DoneInv, ShapeInv, SetInv, ClientOK', JobsInv',
         NEW v \in Tx, Step(v), Commits(v) => Correct(v), ~ Counting, Counting'
  PROVE  CounterInv'
<1>1. /\ Commits(v) /\ Kind(v) = "set" /\ Done(v)' = Done(v) + 1
      /\ todo' = [todo EXCEPT ![v] = todo'[v]]
  BY CountingNext
<1>2. Unlock(v) /\ pc[v] = "unlock" /\ cur[v] = 1 /\ mem' = mem
  BY <1>1, ScriptCommits
<1>3. Runs(v, "set") /\ todo[v] # <<>> /\ InTurn(v) /\ Part(Kind(v)) = 3
  BY <1>1, <1>2 DEF Runs, TurnInv, Part
<1>4. mem[Count] = Fill(Decrements)
  BY <1>2, <1>3 DEF SetInv, Stored, WriteBackPC
<1>5. \A t \in Tx : pc'[t] = "idle" /\ got'[t] = <<>>
  <2>1. pc'[v] = "idle" /\ got'[v] = <<>>
    BY <1>1, StepKinds, GoesIdle DEF Commits
  <2>2. ASSUME NEW t \in Tx, t # v PROVE pc'[t] = "idle" /\ got'[t] = <<>>
    <3>1. pc[t] = "idle"
      BY <1>3, <2>2, SetAlone DEF TurnInv
    <3>2. pc'[t] = pc[t] /\ got'[t] = got[t]
      BY <2>2, StepIsCall, StepIsLocal, OthersClient DEF Kept
    <3> QED BY <3>1, <3>2 DEF ShapeInv, Shape
  <2> QED BY <2>1, <2>2
<1>6. Counter' = Decrements
  BY <1>1, <1>3, NonePassed, DecsLeftNext
<1>7. MemInv'
  <2>1. \A x \in Unit : mem'[Count][x] = Decrements
    BY <1>2, <1>4 DEF Fill
  <2> QED BY <1>5, <1>6, <2>1 DEF MemInv, WriteBackPC
<1>8. VersionInv'
  BY <1>5 DEF VersionInv, Drawn, Stores
<1>9. ASSUME NEW t \in Tx PROVE CounterOK(t)'
  <2>1. ~ (todo'[t] # <<>> /\ Kind(t)' = "dec")
    BY <1>1, <1>3, NoDecYet
  <2>2. ~ Sampling(t)'
    BY <1>5 DEF Sampling
  <2> QED BY <1>5, <2>1, <2>2 DEF CounterOK
<1> QED BY <1>7, <1>8, <1>9 DEF CounterInv

LEMMA CounterNext ==
  ASSUME TypeOK, TypeOK', CursorInv, LockInv, ClientOK, ClientOK', JobsInv, JobsInv', TurnInv, DoneInv,
         ClockInv, ShapeInv, ShapeInv', SetInv, CounterInv,
         NEW v \in Tx, Step(v), Commits(v) => Correct(v), clock' < VersionModulus
  PROVE  CounterInv'
<1>1. CASE ~ Counting /\ Counting'
  BY <1>1, CounterBegins
<1>2. CASE ~ Counting'
  BY <1>2 DEF CounterInv
<1>3. CASE Counting
  <2>1. Calm(v) \/ Enters(v) \/ Copies(v) \/ Publishes(v)
    BY <1>3, StepEffects
  <2>2. ~ Enters(v) \/ Counter >= 1
    <3>1. Enters(v) => Counter' = Counter - 1
      BY DEF Enters
    <3>2. Counter' = Counter \/ Counter >= 1
      BY DecsLeftNext
    <3> QED BY <3>1, <3>2, CounterType
  <2>3. Counter' \in Nat /\ Counter' <= Counter
    BY <2>1, <2>2, CounterNat
  <2>4. MemInv'
    BY <1>3, <2>1, MemNext
  <2>5. VersionInv'
    BY <1>3, <2>1, VersionNext
  <2>6. \A t \in Tx : t # v => CounterOK(t)'
    BY <1>3, <2>1, <2>3, CounterOthers
  <2>7. CounterOK(v)'
    BY <1>3, <2>1, <2>3, CounterOwn
  <2> QED BY <2>4, <2>5, <2>6, <2>7 DEF CounterInv
<1> QED BY <1>1, <1>2, <1>3

---------------------------------------------------------------------------
(* What the closures return.                                               *)

LEMMA ResultIsCorrect ==
  ASSUME ClientOK, JobsInv, TurnInv, DoneInv, ShapeInv, InitInv, CounterInv,
         NEW t \in Tx, CallsMade(t), Kind(t) # "long"
  PROVE  Correct(t)
<1>1. pc[t] = "active" /\ at[t] > Len(Plan(t)) /\ todo[t] # <<>> /\ InTurn(t)
      /\ pc[t] \notin WriteBackPC
  BY DEF CallsMade, TurnInv, WriteBackPC
<1>2. Kind(t) \in {"seen", "last", "dec", "zero"} /\ got[t] # <<>> => Known(t, got[t][1])
  BY <1>1, CountingBegan DEF CounterInv, CounterOK
<1>3. CASE Kind(t) = "peek"
  <2>1. got[t] # <<>> /\ Got(t, 1) = got[t][1]
    BY <1>3, FetchEnds
  <2>2. Runs(t, "peek")
    BY <1>1, <1>3 DEF Runs
  <2> QED BY <1>1, <1>3, <2>1, <2>2 DEF InitInv, Correct
<1>4. CASE Kind(t) \in {"seen", "zero"}
  <2>1. got[t] # <<>> /\ Got(t, 1) = got[t][1]
    BY <1>4, FetchEnds
  <2> QED BY <1>2, <1>4, <2>1 DEF Known, Fits, Correct
<1>5. CASE Kind(t) = "dec"
  <2>1. Decreasing(t) /\ Len(Plan(t)) >= 1
    BY <1>1, <1>5, PlanOfDecrease DEF ShapeInv, Shape
  <2>2. Len(got[t]) = 1 /\ got[t] \in Seq(Int)
    <3>1. at[t] # 1 /\ at[t] > 1
      BY <1>1, <2>1 DEF ClientOK
    <3> QED BY <2>1, <3>1 DEF Decreasing, ClientOK
  <2>3. got[t] # <<>> /\ Got(t, 1) = got[t][1]
    BY <2>2 DEF Got
  <2> QED BY <1>2, <1>5, <2>3 DEF Known, Fits, Correct
<1>6. CASE Kind(t) \notin {"peek", "seen", "zero", "dec"}
  BY <1>6 DEF Correct
<1> QED BY <1>3, <1>4, <1>5, <1>6

\* No worker is stopped by a wrong result.
LEMMA CommitIsCorrect ==
  ASSUME TypeOK, ClientOK, JobsInv, TurnInv, DoneInv, ShapeInv, InitInv, CounterInv, SumsAddUp,
         NEW t \in Tx, Step(t), Commits(t)
  PROVE  Correct(t)
<1>1. CASE pc[t] = "active"
  <2>1. CallsMade(t)
    BY <1>1, EndsAfterCalls DEF Commits
  <2>2. todo[t] # <<>>
    BY <1>1 DEF TurnInv
  <2> QED BY <2>1, <2>2, ResultIsCorrect DEF SumsAddUp
<1>2. CASE pc[t] = "unlock"
  <2>1. todo[t] # <<>> /\ pc[t] \in CommitPC
    BY <1>2 DEF TurnInv, CommitPC
  <2>2. Kind(t) \notin ReadOnly
    BY <1>2, <2>1 DEF ShapeInv, Shape
  <2>3. Kind(t) = "dec" => Got(t, 1) <= last[t]
    <3>1. SUFFICES ASSUME Kind(t) = "dec" PROVE Got(t, 1) <= last[t]
      OBVIOUS
    <3>2. Decreasing(t)
      BY <1>2, <3>1 DEF ShapeInv, Shape
    <3>3. Len(got[t]) = 1 /\ got[t][1] <= last[t] /\ got[t] \in Seq(Int)
      BY <1>2, <3>2 DEF Decreasing, ReadPC, ClientOK
    <3>4. 1 \in DOMAIN got[t]
      BY <3>3
    <3> QED BY <3>3, <3>4 DEF Got
  <2> QED BY <2>2, <2>3 DEF ReadOnly, Correct
<1> QED BY <1>1, <1>2 DEF Commits

---------------------------------------------------------------------------
(* The inductive invariant.                                                *)

LEMMA SeqInit == BInit => SeqInv
<1> SUFFICES ASSUME BInit PROVE SeqInv
  OBVIOUS
<1> USE DEF BInit, Init
<1>1. ClientOK
  BY BankAssumption DEF ClientOK
<1>2. ASSUME NEW t \in Tx
      PROVE  /\ Len(Jobs[t]) \in Nat /\ DOMAIN Jobs[t] = 1..Len(Jobs[t])
             /\ todo[t] = Jobs[t] /\ Done(t) = 0
  <2>1. Len(Jobs[t]) \in Nat /\ DOMAIN Jobs[t] = 1..Len(Jobs[t]) /\ todo[t] = Jobs[t]
    BY JobsType
  <2> QED BY <2>1 DEF Done
<1>3. JobsInv
  <2>1. ASSUME NEW t \in Tx, NEW i \in 1..Len(todo[t]) PROVE todo[t][i] = Jobs[t][Done(t) + i]
    <3>1. Done(t) + i = i
      BY <1>2
    <3> QED BY <1>2, <3>1
  <2>2. ASSUME NEW t \in Tx PROVE Len(todo[t]) <= Len(Jobs[t])
    <3> HIDE DEF BInit, Init
    <3>1. Len(todo[t]) = Len(Jobs[t]) /\ Len(Jobs[t]) \in Nat
      BY <1>2
    <3> QED BY <3>1
  <2> QED BY <2>1, <2>2 DEF JobsInv
<1>4. TurnInv
  BY DEF TurnInv
<1>5. DoneInv
  BY <1>2 DEF DoneInv
<1>6. ClockInv
  BY DEF ClockInv
<1>7. ShapeInv
  BY DEF ShapeInv, Shape
<1>8. InitInv
  <2>1. ASSUME NEW t \in Tx, todo[t] # <<>>, Kind(t) = "peek" PROVE FALSE
    <3>1. 1 \in DOMAIN Jobs[t] /\ Jobs[t][1] = "peek"
      BY <1>1, <1>2, <1>3, <2>1, CurrentJob
    <3>2. <<"init", "peek">> \in Pairs /\ <<"init", "peek">>[2] = "peek"
      BY DEF Pairs
    <3>3. 1 > 1
      BY <3>1, <3>2, JobsAssumption
    <3> QED BY <3>3
  <2>2. \A t \in Tx : ~ Runs(t, "init") /\ ~ Runs(t, "peek")
    BY DEF Runs
  <2> QED BY <2>1, <2>2 DEF InitInv
<1>9. SetInv
  BY DEF SetInv, Runs
<1>10. CounterInv
  <2>1. ~ Counting
    BY <1>2 DEF Counting
  <2> QED BY <2>1 DEF CounterInv
<1> QED BY <1>1, <1>3, <1>4, <1>5, <1>6, <1>7, <1>8, <1>9, <1>10 DEF SeqInv

LEMMA SeqStep ==
  ASSUME TypeOK, CursorInv, LockInv, SeqInv, SumsAddUp, clock' < VersionModulus,
         NEW v \in Tx, Step(v)
  PROVE  SeqInv'
<1> USE DEF SeqInv
<1>1. Commits(v) => Correct(v)
  BY CommitIsCorrect
<1>2. TypeOK' /\ ClientOK' /\ ShapeInv'
  BY MemoryNext, ClientNext, ShapeNext
<1>3. JobsInv' /\ TurnInv' /\ DoneInv' /\ ClockInv'
  BY <1>1, JobsNext, TurnNext, DoneNext, ClockNext
<1>4. InitInv' /\ SetInv'
  BY <1>1, <1>2, InitNext, SetNext
<1>5. CounterInv'
  BY <1>1, <1>2, <1>3, CounterNext
<1> QED BY <1>2, <1>3, <1>4, <1>5

LEMMA SeqStutter ==
  ASSUME SeqInv, UNCHANGED bvars
  PROVE  SeqInv'
<1> USE DEF bvars, vars, client, shared, descriptor, locals, cursors
<1>0. \A t \in Tx : Done(t)' = Done(t) /\ Kind(t)' = Kind(t)
  BY DEF Done, Kind
<1>1. ClientOK' /\ JobsInv' /\ ClockInv'
  BY <1>0 DEF SeqInv, ClientOK, JobsInv, ClockInv
<1>2. TurnInv' /\ DoneInv'
  <2>1. \A t \in Tx : InTurn(t)' = InTurn(t)
    BY <1>0 DEF InTurn
  <2> QED BY <1>0, <2>1 DEF SeqInv, TurnInv, DoneInv
<1>3. ShapeInv'
  <2>1. ASSUME NEW t \in Tx PROVE Shape(t)' = Shape(t)
    <3>1. Script(t)' = Script(t) /\ Fetched(t)' = Fetched(t)
      BY <1>0 DEF Script, Fetched
    <3>2. Writing(t)' = Writing(t) /\ Fetching(t)' = Fetching(t) /\ Decreasing(t)' = Decreasing(t)
      BY <3>1 DEF Writing, Fetching, Decreasing
    <3> QED BY <1>0, <3>2 DEF Shape
  <2> QED BY <2>1 DEF SeqInv, ShapeInv
<1>4. InitInv' /\ SetInv'
  BY <1>0 DEF SeqInv, InitInv, SetInv, Runs, Stored, Storing
<1>5. CounterInv'
  <2>1. DecsLeft' = DecsLeft /\ Counter' = Counter
    BY DEF DecsLeft, Done, Counter
  <2>2. MemInv' = MemInv /\ VersionInv' = VersionInv /\ Counting' = Counting
    BY <2>1 DEF MemInv, VersionInv, Drawn, Stores, Counting
  <2>3. ASSUME NEW t \in Tx PROVE CounterOK(t)' = CounterOK(t)
    <3>1. ASSUME NEW n PROVE Known(t, n)' = Known(t, n)
      BY <1>0, <2>1 DEF Known, Fits, Drawn, Stores
    <3>2. SampleOK(t)' = SampleOK(t) /\ Sampling(t)' = Sampling(t)
      BY DEF SampleOK, Sampling, Stores
    <3>3. Known(t, got[t][1])' = Known(t, got[t][1])
      BY <1>0, <2>1 DEF Known, Fits, Drawn, Stores
    <3> QED BY <1>0, <2>1, <3>1, <3>2, <3>3 DEF CounterOK
  <2> QED BY <2>2, <2>3 DEF SeqInv, CounterInv
<1> QED BY <1>1, <1>2, <1>3, <1>4, <1>5 DEF SeqInv

---------------------------------------------------------------------------
\* class Transaction (transactional.hpp:286-329) uses the memory by tm_begin,
\* tm_read, tm_write and tm_end alone, whatever the closures of workload.hpp
\* compute and however often they are retried: every behaviour of the workload
\* is one of TL2, and what is proved of TL2 holds of it.
THEOREM BankUsesTL2 == BSpec => Spec
<1>1. BInit => Init
  BY DEF BInit
<1>2. [BNext]_bvars => [Next]_vars
  <2>1. UNCHANGED bvars => UNCHANGED vars
    BY DEF bvars
  <2>2. ASSUME NEW t \in Tx, Step(t) PROVE Next
    BY <2>2, StepIsCall DEF Next
  <2> QED BY <2>1, <2>2 DEF BNext, Over
<1> QED BY <1>1, <1>2, PTL DEF BSpec, Spec

\* check's workers "decrease a counter in a sequential manner" (workload.hpp:328),
\* however many they are and however often each does it: nobody sees the counter
\* grow, not even in a transaction that is about to abort, and it is 0 at the
\* end.  (init, too, sees the balance it has written.)  As long as long_tx
\* finds its sums right, because a worker that does not stops early, and as
\* long as the clock has not outgrown the version field.
THEOREM DecreasesAreSequential ==
  BSpec /\ []SumsAddUp /\ [](clock < VersionModulus) => []CounterIsSequential
<1>1. SeqInv /\ TypeOK /\ CursorInv /\ LockInv /\ SumsAddUp /\ (clock < VersionModulus)' /\ [BNext]_bvars
      => SeqInv'
  <2> SUFFICES ASSUME SeqInv, TypeOK, CursorInv, LockInv, SumsAddUp, clock' < VersionModulus,
                      [BNext]_bvars
               PROVE  SeqInv'
    OBVIOUS
  <2>1. CASE UNCHANGED bvars
    BY <2>1, SeqStutter
  <2>2. CASE \E v \in Tx : Step(v)
    BY <2>2, SeqStep
  <2> QED BY <2>1, <2>2 DEF BNext, Over
<1>2. SeqInv => CounterIsSequential
  BY ResultIsCorrect DEF SeqInv, CounterIsSequential
<1> QED BY <1>1, <1>2, SeqInit, BankUsesTL2, TypeCorrect, CursorsStayOnLists, LocksHeldOnce, PTL DEF BSpec
===========================================================================
