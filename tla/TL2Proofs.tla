----------------------------- MODULE TL2Proofs ----------------------------
(***************************************************************************)
(* Machine-checked theorems about TL2, for every value of its constants.   *)
(***************************************************************************)
EXTENDS TL2, TLAPS, WellFoundedInduction, SequenceTheorems

\* A nonempty set of list positions has a largest one: getWriteNode is defined.
LEMMA LargestPosition ==
  ASSUME NEW n \in Nat, NEW S \in SUBSET (1..n), S # {}
  PROVE  \E i \in S : \A j \in S : j <= i
<1> DEFINE R == OpToRel(<, Nat)
           T == {n - i : i \in S}
<1>1. T \subseteq Nat /\ T # {}
  <2>1. PICK i \in S : TRUE
    OBVIOUS
  <2>2. n - i \in T
    BY <2>1
  <2>3. \A j \in S : n - j \in Nat
    OBVIOUS
  <2> QED BY <2>2, <2>3
<1>2. PICK m \in T : \A k \in T : ~ (<<k, m>> \in R)
  <2>1. IsWellFoundedOn(R, Nat)
    BY NatLessThanWellFounded
  <2> HIDE DEF R, T
  <2> QED BY <1>1, <2>1, WFMin
<1>3. \A k \in T : ~ (k < m)
  BY <1>1, <1>2 DEF OpToRel
<1>4. PICK i \in S : m = n - i
  OBVIOUS
<1>5. \A j \in S : j <= i
  <2> TAKE j \in S
  <2>1. n - j \in T
    OBVIOUS
  <2> QED BY <1>3, <1>4, <2>1
<1> QED BY <1>5

---------------------------------------------------------------------------
\* The initial contents and the idle locals are in their types.
LEMMA Defaults == InitData \in Data /\ AnyWord \in Word
BY ConstantsAssumption DEF InitData, Data, AnyWord

LEMMA ClientType ==
  ASSUME NEW t \in Tx
  PROVE  Client[t].reads \subseteq Word /\ Client[t].writes \subseteq Word
         /\ Client[t].stores \subseteq Data /\ Client[t].modes \subseteq BOOLEAN
BY ConstantsAssumption

LEMMA TruncateType ==
  ASSUME NEW n \in Nat PROVE Truncate(n) \in Nat
BY ConstantsAssumption DEF Truncate

\* getWriteNode returns NULL or a node of the word.
LEMMA WriteNodeOfWord ==
  ASSUME TypeOK, NEW t \in Tx, NEW w
  PROVE  LET i == getWriteNode(t, w)
         IN  \/ i = 0 /\ \A j \in DOMAIN writes[t] : NodeWord(t, j) # w
             \/ i \in DOMAIN writes[t] /\ NodeWord(t, i) = w
<1> DEFINE hits == {i \in DOMAIN writes[t] : writes[t][i].word = w}
<1>1. CASE hits = {}
  BY <1>1 DEF getWriteNode, NodeWord
<1>2. CASE hits # {}
  <2>1. writes[t] \in Seq(Node)
    BY DEF TypeOK
  <2>2. Len(writes[t]) \in Nat /\ DOMAIN writes[t] = 1..Len(writes[t])
    BY <2>1
  <2>3. \E i \in hits : \A j \in hits : j <= i
    <3>1. hits \in SUBSET (1..Len(writes[t]))
      BY <2>2
    <3> HIDE DEF hits
    <3> QED BY <1>2, <2>2, <3>1, LargestPosition
  <2>4. getWriteNode(t, w) \in hits
    BY <1>2, <2>3 DEF getWriteNode
  <2> QED BY <2>4 DEF NodeWord
<1> QED BY <1>1, <1>2

LEMMA NodeType ==
  ASSUME TypeOK, NEW t \in Tx, NEW i \in DOMAIN writes[t]
  PROVE  writes[t][i] \in Node /\ NodeWord(t, i) \in Word
         /\ writes[t][i].value \in Data
<1>1. writes[t] \in Seq(Node)
  BY DEF TypeOK
<1>2. writes[t][i] \in Node
  BY <1>1
<1> QED BY <1>2 DEF NodeWord, Node

\* A step of t leaves the other threads' descriptors, locals and cursors alone.
Kept(u) ==
  /\ pc'[u] = pc[u] /\ isRo'[u] = isRo[u] /\ rv'[u] = rv[u] /\ wv'[u] = wv[u]
  /\ reads'[u] = reads[u] /\ writes'[u] = writes[u] /\ filter'[u] = filter[u]
  /\ word'[u] = word[u] /\ before'[u] = before[u] /\ buf'[u] = buf[u]
  /\ left'[u] = left[u] /\ cur'[u] = cur[u] /\ until'[u] = until[u]

LEMMA StepIsLocal ==
  ASSUME TypeOK, NEW t \in Tx, Call(t) \/ Advance(t), NEW u \in Tx, u # t
  PROVE  Kept(u)
<1> USE DEF Kept, TypeOK, Goto, EndCall, cleanTransaction, descriptor, locals, cursors
<1>1. ASSUME cleanTransaction(t) PROVE Kept(u)
  BY <1>1
<1>2. ASSUME NEW ro \in BOOLEAN, tm_begin(t, ro) PROVE Kept(u)
  BY <1>2 DEF tm_begin
<1>3. ASSUME NEW w \in Word, tm_read(t, w) PROVE Kept(u)
  BY <1>3 DEF tm_read
<1>4. ASSUME NEW w \in Word, NEW d \in Data, tm_write(t, w, d) PROVE Kept(u)
  BY <1>4 DEF tm_write
<1>5. CASE EndWithoutWrites(t) \/ EndWithWrites(t)
  BY <1>1, <1>5 DEF EndWithoutWrites, EndWithWrites
<1>6. CASE ReadLookup(t)
  BY <1>6 DEF ReadLookup
<1>7. CASE ReadCopy(t)
  BY <1>7 DEF ReadCopy
<1>8. CASE ReadCheckLock(t) \/ ReadCheckVersion(t)
  BY <1>1, <1>8 DEF ReadCheckLock, ReadCheckVersion
<1>9. CASE WriteInsert(t)
  BY <1>1, <1>9 DEF WriteInsert
<1>10. CASE AcquireLock(t)
  BY <1>10 DEF AcquireLock, StartRelease
<1>11. CASE ReleaseLock(t) \/ AbortCommit(t)
  BY <1>1, <1>11 DEF ReleaseLock, AbortCommit
<1>12. CASE IncClock(t)
  BY <1>12 DEF IncClock, StartWriteBack
<1>13. CASE ValidateVersion(t) \/ ValidateLock(t) \/ ValidateDone(t)
  BY <1>13 DEF ValidateVersion, ValidateLock, ValidateDone, StartRelease, StartWriteBack
<1>14. CASE CopyBack(t)
  BY <1>14 DEF CopyBack
<1>15. CASE StoreVersion(t) \/ Unlock(t)
  BY <1>1, <1>15 DEF StoreVersion, Unlock
<1> QED
  BY <1>2, <1>3, <1>4, <1>5, <1>6, <1>7, <1>8, <1>9, <1>10, <1>11, <1>12, <1>13,
     <1>14, <1>15 DEF Call, Advance

\* Every way out of a call that ends the transaction frees all it had.
LEMMA StepToIdle ==
  ASSUME TypeOK, NEW t \in Tx, Call(t) \/ Advance(t), pc'[t] = "idle"
  PROVE  cleanTransaction(t)
<1> USE DEF TypeOK, Goto
<1>1. ASSUME NEW ro \in BOOLEAN PROVE ~ tm_begin(t, ro)
  BY DEF tm_begin
<1>2. ASSUME NEW w \in Word PROVE ~ tm_read(t, w)
  BY DEF tm_read
<1>3. ASSUME NEW w \in Word, NEW d \in Data PROVE ~ tm_write(t, w, d)
  BY DEF tm_write
<1>4. CASE EndWithoutWrites(t) \/ EndWithWrites(t)
  BY <1>4 DEF EndWithoutWrites, EndWithWrites
<1>5. CASE ReadLookup(t) \/ ReadCopy(t) \/ ReadCheckLock(t) \/ ReadCheckVersion(t) \/ WriteInsert(t)
  BY <1>5 DEF ReadLookup, ReadCopy, ReadCheckLock, ReadCheckVersion, WriteInsert
<1>6. CASE AcquireLock(t) \/ ReleaseLock(t) \/ AbortCommit(t)
  BY <1>6 DEF AcquireLock, ReleaseLock, AbortCommit, StartRelease
<1>7. CASE IncClock(t) \/ ValidateVersion(t) \/ ValidateLock(t) \/ ValidateDone(t)
  BY <1>7 DEF IncClock, ValidateVersion, ValidateLock, ValidateDone, StartRelease, StartWriteBack
<1>8. CASE CopyBack(t) \/ StoreVersion(t) \/ Unlock(t)
  BY <1>8 DEF CopyBack, StoreVersion, Unlock
<1> QED BY <1>1, <1>2, <1>3, <1>4, <1>5, <1>6, <1>7, <1>8 DEF Call, Advance

LEMMA CursorFrame ==
  ASSUME TypeOK, CursorInv, NEW t \in Tx, Call(t) \/ Advance(t), CursorsOnLists(t)'
  PROVE  CursorInv'
<1> SUFFICES ASSUME NEW u \in Tx, u # t PROVE CursorsOnLists(u)'
  BY DEF CursorInv
<1>1. Kept(u) /\ CursorsOnLists(u)
  BY StepIsLocal DEF CursorInv
<1> QED BY <1>1 DEF Kept, CursorsOnLists

---------------------------------------------------------------------------
\* A call that ends the transaction, and one that leaves t inside or between
\* calls with no cursor in use.
EndsOrRests(t) ==
  \/ cleanTransaction(t)
  \/ pc'[t] \in {"active", "insert"} \cup ReadPC

LEMMA RestingCursors ==
  ASSUME TypeOK, NEW t \in Tx, EndsOrRests(t)
  PROVE  CursorsOnLists(t)'
BY DEF EndsOrRests, TypeOK, CursorsOnLists, cleanTransaction, Goto, WriteBackPC, ReadPC, CommitPC

LEMMA CleanType ==
  ASSUME TypeOK, NEW t \in Tx, cleanTransaction(t),
         clock' \in Nat, mem' \in [Word -> Data], version' \in [Word -> Nat],
         lockBit' \in [Word -> BOOLEAN]
  PROVE  TypeOK'
<1>1. pc' \in [Tx -> PC]
  BY DEF TypeOK, cleanTransaction, Goto, PC
<1>2. /\ isRo' \in [Tx -> BOOLEAN]
      /\ rv' \in [Tx -> Nat] /\ wv' \in [Tx -> Nat]
      /\ filter' \in [Tx -> SUBSET Bit]
  BY DEF TypeOK, cleanTransaction
<1>3. reads' \in [Tx -> Seq(Word)]
  BY DEF TypeOK, cleanTransaction
<1>4. writes' \in [Tx -> Seq(Node)]
  BY DEF TypeOK, cleanTransaction
<1>5. /\ word' \in [Tx -> Word] /\ before' \in [Tx -> Nat]
      /\ buf' \in [Tx -> Data] /\ left' \in [Tx -> SUBSET Unit]
  BY Defaults DEF TypeOK, cleanTransaction, EndCall
<1>6. cur' \in [Tx -> Nat] /\ until' \in [Tx -> Nat]
  BY DEF TypeOK, cleanTransaction
<1> QED BY <1>1, <1>2, <1>3, <1>4, <1>5, <1>6 DEF TypeOK

\* The steps of tm_begin, tm_read and tm_write.
LEMMA TypeOfCall ==
  ASSUME TypeOK, NEW t \in Tx, Call(t)
  PROVE  TypeOK' /\ CursorsOnLists(t)'
<1> USE DEF shared, descriptor, locals, cursors, Goto
<1>1. ASSUME NEW ro \in BOOLEAN, tm_begin(t, ro)
      PROVE  TypeOK' /\ CursorsOnLists(t)'
  <2>1. TypeOK'
    BY <1>1, TruncateType DEF TypeOK, tm_begin, PC
  <2>2. EndsOrRests(t)
    BY <1>1 DEF tm_begin, EndsOrRests, TypeOK
  <2> QED BY <2>1, <2>2, RestingCursors
<1>2. ASSUME NEW w \in Word, tm_read(t, w)
      PROVE  TypeOK' /\ CursorsOnLists(t)'
  <2>1. TypeOK'
    BY <1>2 DEF TypeOK, tm_read, PC, ReadPC
  <2>2. EndsOrRests(t)
    BY <1>2 DEF tm_read, EndsOrRests, TypeOK, ReadPC
  <2> QED BY <2>1, <2>2, RestingCursors
<1>3. ASSUME NEW w \in Word, NEW d \in Data, tm_write(t, w, d)
      PROVE  TypeOK' /\ CursorsOnLists(t)'
  <2> DEFINE i == getWriteNode(t, w)
  <2>1. CASE /\ isInBloomFilter(t, w) /\ i # 0
             /\ writes' = [writes EXCEPT ![t][i].value = d]
             /\ UNCHANGED <<pc, word, buf>>
    <3>1. i \in DOMAIN writes[t] /\ writes[t] \in Seq(Node) /\ writes[t][i] \in Node
      BY <2>1, WriteNodeOfWord, NodeType DEF TypeOK
    <3>2. [writes[t][i] EXCEPT !.value = d] \in Node
      BY <3>1 DEF Node
    <3> DEFINE list == [writes[t] EXCEPT ![i] = [writes[t][i] EXCEPT !.value = d]]
    <3>3. list \in Seq(Node)
      BY <3>1, <3>2
    <3>4. writes' \in [Tx -> Seq(Node)]
      <4>1. writes' = [writes EXCEPT ![t] = list]
        BY <2>1
      <4> HIDE DEF list
      <4> QED BY <3>3, <4>1 DEF TypeOK
    <3>5. TypeOK'
      BY <1>3, <2>1, <3>4 DEF TypeOK, tm_write
    <3>6. EndsOrRests(t)
      BY <1>3, <2>1 DEF tm_write, EndsOrRests, TypeOK
    <3> QED BY <3>5, <3>6, RestingCursors
  <2>2. CASE /\ word' = [word EXCEPT ![t] = w]
             /\ buf' = [buf EXCEPT ![t] = d]
             /\ Goto(t, "insert")
             /\ UNCHANGED writes
    <3>1. TypeOK'
      BY <1>3, <2>2 DEF TypeOK, tm_write, PC
    <3>2. EndsOrRests(t)
      BY <2>2 DEF EndsOrRests, TypeOK
    <3> QED BY <3>1, <3>2, RestingCursors
  <2> QED BY <1>3, <2>1, <2>2 DEF tm_write
<1>4. CASE EndWithoutWrites(t)
  <2>1. TypeOK'
    BY <1>4, CleanType DEF EndWithoutWrites, TypeOK
  <2>2. EndsOrRests(t)
    BY <1>4 DEF EndWithoutWrites, EndsOrRests
  <2> QED BY <2>1, <2>2, RestingCursors
<1>5. CASE EndWithWrites(t)
  <2>1. writes[t] \in Seq(Node) /\ writes[t] # <<>>
    BY <1>5 DEF EndWithWrites, TypeOK
  <2>2. Len(writes[t]) \in Nat /\ Len(writes[t]) >= 1
    BY <2>1, EmptySeq
  <2>3. TypeOK'
    BY <1>5, <2>2 DEF EndWithWrites, TypeOK, PC, CommitPC
  <2>4. CursorsOnLists(t)'
    BY <1>5, <2>2 DEF EndWithWrites, TypeOK, CursorsOnLists, WriteBackPC, CommitPC
  <2> QED BY <2>3, <2>4
<1> QED BY <1>1, <1>2, <1>3, <1>4, <1>5 DEF Call

\* The steps that follow a call.
LEMMA TypeOfReadSteps ==
  ASSUME TypeOK, NEW t \in Tx,
         ReadLookup(t) \/ ReadCopy(t) \/ ReadCheckLock(t) \/ ReadCheckVersion(t)
         \/ WriteInsert(t)
  PROVE  TypeOK' /\ CursorsOnLists(t)'
<1> USE DEF shared, descriptor, locals, cursors, Goto
<1>1. CASE ReadLookup(t)
  <2> DEFINE i == getWriteNode(t, word[t])
  <2>1. i # 0 => writes[t][i].value \in Data
    BY WriteNodeOfWord, NodeType
  <2>2. TypeOK'
    BY <1>1, <2>1 DEF ReadLookup, TypeOK, PC, ReadPC
  <2>3. EndsOrRests(t)
    BY <1>1 DEF ReadLookup, EndsOrRests, TypeOK, ReadPC
  <2> QED BY <2>2, <2>3, RestingCursors
<1>2. CASE ReadCopy(t)
  <2>1. PICK u \in left[t] :
          /\ buf' = [buf EXCEPT ![t][u] = mem[word[t]][u]]
          /\ left' = [left EXCEPT ![t] = @ \ {u}]
          /\ Goto(t, IF left[t] = {u} THEN "checklock" ELSE "copy")
    BY <1>2 DEF ReadCopy
  <2> DEFINE b == [buf[t] EXCEPT ![u] = mem[word[t]][u]]
  <2>2. b \in Data
    BY DEF TypeOK, Data
  <2>3. buf' = [buf EXCEPT ![t] = b]
    BY <2>1
  <2>4. buf' \in [Tx -> Data]
    <3> HIDE DEF b
    <3> QED BY <2>2, <2>3 DEF TypeOK
  <2>5. TypeOK'
    BY <1>2, <2>1, <2>4 DEF ReadCopy, TypeOK, PC, ReadPC
  <2>6. EndsOrRests(t)
    BY <2>1 DEF EndsOrRests, TypeOK, ReadPC
  <2> QED BY <2>5, <2>6, RestingCursors
<1>3. CASE ReadCheckLock(t)
  <2>1. CASE cleanTransaction(t)
    BY <1>3, <2>1, CleanType, RestingCursors DEF ReadCheckLock, EndsOrRests, TypeOK
  <2>2. CASE Goto(t, "checkversion") /\ UNCHANGED <<descriptor, locals, cursors>>
    <3>1. TypeOK'
      BY <1>3, <2>2 DEF ReadCheckLock, TypeOK, PC, ReadPC
    <3>2. EndsOrRests(t)
      BY <2>2 DEF EndsOrRests, TypeOK, ReadPC
    <3> QED BY <3>1, <3>2, RestingCursors
  <2> QED BY <1>3, <2>1, <2>2 DEF ReadCheckLock
<1>4. CASE ReadCheckVersion(t)
  <2>1. CASE cleanTransaction(t)
    BY <1>4, <2>1, CleanType, RestingCursors DEF ReadCheckVersion, EndsOrRests, TypeOK
  <2>2. CASE /\ reads' = [reads EXCEPT ![t] = IF isRo[t] THEN @ ELSE Append(@, word[t])]
             /\ Goto(t, "active")
             /\ EndCall(t)
             /\ UNCHANGED <<isRo, rv, wv, writes, filter, cursors>>
    <3>1. Append(reads[t], word[t]) \in Seq(Word) /\ reads[t] \in Seq(Word)
      BY DEF TypeOK
    <3>2. TypeOK'
      BY <1>4, <2>2, <3>1, Defaults DEF ReadCheckVersion, EndCall, TypeOK, PC
    <3>3. EndsOrRests(t)
      BY <2>2 DEF EndsOrRests, TypeOK
    <3> QED BY <3>2, <3>3, RestingCursors
  <2> QED BY <1>4, <2>1, <2>2 DEF ReadCheckVersion
<1>5. CASE WriteInsert(t)
  <2>1. CASE cleanTransaction(t)
    BY <1>5, <2>1, CleanType, RestingCursors DEF WriteInsert, EndsOrRests, TypeOK
  <2>2. CASE /\ writes' = [writes EXCEPT ![t] =
                             Append(@, [word |-> word[t], value |-> buf[t]])]
             /\ filter' = [filter EXCEPT ![t] = @ \cup FilterBits(word[t])]
             /\ Goto(t, "active")
             /\ EndCall(t)
             /\ UNCHANGED <<isRo, rv, wv, reads, cursors>>
    <3>1. [word |-> word[t], value |-> buf[t]] \in Node
      BY DEF TypeOK, Node
    <3>2. Append(writes[t], [word |-> word[t], value |-> buf[t]]) \in Seq(Node)
      BY <3>1 DEF TypeOK
    <3>3. filter[t] \cup FilterBits(word[t]) \in SUBSET Bit
      BY ConstantsAssumption DEF FilterBits, TypeOK
    <3>4. TypeOK'
      BY <1>5, <2>2, <3>2, <3>3, Defaults DEF WriteInsert, EndCall, TypeOK, PC
    <3>5. EndsOrRests(t)
      BY <2>2 DEF EndsOrRests, TypeOK
    <3> QED BY <3>4, <3>5, RestingCursors
  <2> QED BY <1>5, <2>1, <2>2 DEF WriteInsert
<1> QED BY <1>1, <1>2, <1>3, <1>4, <1>5

\* releaseLocks starts at the head and its end is on the list.
LEMMA TypeOfStartRelease ==
  ASSUME TypeOK, NEW t \in Tx, NEW n \in Nat, n <= Len(writes[t]), Len(writes[t]) >= 1,
         StartRelease(t, n),
         UNCHANGED <<shared, descriptor, locals>>
  PROVE  TypeOK' /\ CursorsOnLists(t)'
<1>1. Len(writes[t]) \in Nat
  BY DEF TypeOK
<1>2. TypeOK'
  BY <1>1 DEF TypeOK, StartRelease, Goto, shared, descriptor, locals, PC, CommitPC
<1>3. CursorsOnLists(t)'
  BY <1>1 DEF TypeOK, StartRelease, Goto, descriptor, CursorsOnLists, WriteBackPC, CommitPC
<1> QED BY <1>2, <1>3

\* So does writeToLocations, on a list that is not empty.
LEMMA TypeOfStartWriteBack ==
  ASSUME TypeOK, NEW t \in Tx, Len(writes[t]) >= 1, StartWriteBack(t),
         clock' \in Nat, wv' \in [Tx -> Nat],
         UNCHANGED <<mem, version, lockBit, isRo, rv, reads, writes, filter, word,
                     before, buf, until>>
  PROVE  TypeOK' /\ CursorsOnLists(t)'
<1>1. Len(writes[t]) \in Nat
  BY DEF TypeOK
<1>2. TypeOK'
  BY <1>1 DEF TypeOK, StartWriteBack, Goto, PC, CommitPC
<1>3. CursorsOnLists(t)'
  BY <1>1 DEF TypeOK, StartWriteBack, Goto, CursorsOnLists, WriteBackPC, CommitPC
<1> QED BY <1>2, <1>3

\* The steps of tm_end that take and return locks.
LEMMA TypeOfLockSteps ==
  ASSUME TypeOK, NEW t \in Tx, CursorsOnLists(t),
         AcquireLock(t) \/ ReleaseLock(t) \/ AbortCommit(t)
  PROVE  TypeOK' /\ CursorsOnLists(t)'
<1> USE DEF shared, descriptor, locals, cursors, Goto
<1>1. Len(writes[t]) \in Nat /\ cur[t] \in Nat /\ until[t] \in Nat
      /\ DOMAIN writes[t] = 1..Len(writes[t])
  BY DEF TypeOK
<1>2. CASE AcquireLock(t)
  <2>1. cur[t] \in 1..Len(writes[t]) /\ CurWord(t) \in Word
    BY <1>1, <1>2, NodeType DEF AcquireLock, CursorsOnLists, CurWord
  <2>2. CASE /\ lockBit' = [lockBit EXCEPT ![CurWord(t)] = TRUE]
             /\ cur' = [cur EXCEPT ![t] = @ - 1]
             /\ Goto(t, IF cur[t] = 1 THEN "inc" ELSE "acquire")
             /\ UNCHANGED until
    <3>1. TypeOK'
      BY <1>1, <1>2, <2>1, <2>2 DEF AcquireLock, TypeOK, PC, CommitPC
    <3>2. CursorsOnLists(t)'
      BY <1>1, <1>2, <2>1, <2>2 DEF AcquireLock, TypeOK, CursorsOnLists, WriteBackPC, CommitPC
    <3> QED BY <3>1, <3>2
  <2>3. CASE StartRelease(t, cur[t]) /\ UNCHANGED lockBit
    <3>1. cur[t] <= Len(writes[t])
      BY <1>1, <2>1
    <3>2. UNCHANGED <<shared, descriptor, locals>>
      BY <1>2, <2>3 DEF AcquireLock
    <3> QED BY <1>1, <2>1, <2>3, <3>1, <3>2, TypeOfStartRelease
  <2> QED BY <1>2, <2>2, <2>3 DEF AcquireLock
<1>3. CASE ReleaseLock(t)
  <2>1. cur[t] \in 1..Len(writes[t]) /\ until[t] <= cur[t] - 1
    BY <1>1, <1>3 DEF ReleaseLock, CursorsOnLists
  <2>2. cur' \in [Tx -> Nat] /\ lockBit' \in [Word -> BOOLEAN]
    <3>1. cur[t] - 1 \in Nat
      BY <1>1, <2>1
    <3>2. cur' \in [Tx -> Nat]
      BY <1>3, <3>1 DEF ReleaseLock, TypeOK
    <3>3. lockBit' \in [Word -> BOOLEAN]
      BY <1>3 DEF ReleaseLock, TypeOK
    <3> QED BY <3>2, <3>3
  <2>3. TypeOK'
    BY <1>3, <2>2 DEF ReleaseLock, TypeOK
  <2>4. CursorsOnLists(t)'
    BY <1>1, <1>3, <2>1 DEF ReleaseLock, TypeOK, CursorsOnLists, WriteBackPC, CommitPC
  <2> QED BY <2>3, <2>4
<1>4. CASE AbortCommit(t)
  BY <1>4, CleanType, RestingCursors DEF AbortCommit, EndsOrRests, TypeOK
<1> QED BY <1>2, <1>3, <1>4

\* The clock and the validation.
LEMMA TypeOfValidationSteps ==
  ASSUME TypeOK, NEW t \in Tx, CursorsOnLists(t),
         IncClock(t) \/ ValidateVersion(t) \/ ValidateLock(t) \/ ValidateDone(t)
  PROVE  TypeOK' /\ CursorsOnLists(t)'
<1> USE DEF shared, descriptor, locals, cursors, Goto
<1>1. Len(writes[t]) \in Nat /\ Len(reads[t]) \in Nat /\ cur[t] \in Nat
  BY DEF TypeOK
<1>2. Len(writes[t]) >= 1
  BY DEF CursorsOnLists, CommitPC, IncClock, ValidateVersion, ValidateLock, ValidateDone
<1>3. CASE IncClock(t)
  <2>1. clock' \in Nat /\ wv' \in [Tx -> Nat]
    BY <1>3 DEF IncClock, TypeOK
  <2>2. CASE StartWriteBack(t)
    BY <1>2, <1>3, <2>1, <2>2, TypeOfStartWriteBack DEF IncClock
  <2>3. CASE /\ Goto(t, "valversion")
             /\ cur' = [cur EXCEPT ![t] = Len(reads[t])]
             /\ UNCHANGED left
    <3>1. TypeOK'
      BY <1>1, <1>3, <2>1, <2>3 DEF IncClock, TypeOK, PC, CommitPC
    <3>2. CursorsOnLists(t)'
      BY <1>1, <1>2, <1>3, <2>3 DEF IncClock, TypeOK, CursorsOnLists, WriteBackPC, CommitPC
    <3> QED BY <3>1, <3>2
  <2> QED BY <1>3, <2>2, <2>3 DEF IncClock
<1>4. CASE ValidateVersion(t)
  <2>1. CASE StartRelease(t, 0)
    BY <1>1, <1>2, <1>4, <2>1, TypeOfStartRelease DEF ValidateVersion
  <2>2. CASE Goto(t, "vallock") /\ UNCHANGED cursors
    <3>1. TypeOK'
      BY <1>4, <2>2 DEF ValidateVersion, TypeOK, PC, CommitPC
    <3>2. CursorsOnLists(t)'
      BY <1>1, <1>2, <1>4, <2>2 DEF ValidateVersion, TypeOK, CursorsOnLists, WriteBackPC, CommitPC
    <3> QED BY <3>1, <3>2
  <2> QED BY <1>4, <2>1, <2>2 DEF ValidateVersion
<1>5. CASE ValidateLock(t)
  <2>1. CASE StartRelease(t, 0)
    BY <1>1, <1>2, <1>5, <2>1, TypeOfStartRelease DEF ValidateLock
  <2>2. CASE /\ cur' = [cur EXCEPT ![t] = @ - 1]
             /\ Goto(t, "valversion")
             /\ UNCHANGED until
    <3>1. cur[t] \in 1..Len(reads[t])
      BY <1>5 DEF ValidateLock, CursorsOnLists
    <3>2. cur[t] - 1 \in Nat
      BY <1>1, <3>1
    <3>3. cur' \in [Tx -> Nat]
      BY <2>2, <3>2 DEF TypeOK
    <3>4. pc' \in [Tx -> PC]
      BY <2>2 DEF TypeOK, PC, CommitPC
    <3>5. UNCHANGED <<shared, descriptor, locals, until>>
      BY <1>5, <2>2 DEF ValidateLock
    <3>6. TypeOK'
      BY <3>3, <3>4, <3>5 DEF TypeOK
    <3>7. CursorsOnLists(t)'
      BY <1>1, <1>2, <1>5, <2>2, <3>1
         DEF ValidateLock, TypeOK, CursorsOnLists, WriteBackPC, CommitPC
    <3> QED BY <3>6, <3>7
  <2> QED BY <1>5, <2>1, <2>2 DEF ValidateLock
<1>6. CASE ValidateDone(t)
  BY <1>2, <1>6, TypeOfStartWriteBack DEF ValidateDone, TypeOK
<1> QED BY <1>3, <1>4, <1>5, <1>6

\* writeToLocations.
LEMMA TypeOfWriteBackSteps ==
  ASSUME TypeOK, NEW t \in Tx, CursorsOnLists(t),
         CopyBack(t) \/ StoreVersion(t) \/ Unlock(t)
  PROVE  TypeOK' /\ CursorsOnLists(t)'
<1> USE DEF shared, descriptor, locals, cursors, Goto
<1>1. Len(writes[t]) \in Nat /\ cur[t] \in 1..Len(writes[t])
      /\ DOMAIN writes[t] = 1..Len(writes[t])
  BY DEF TypeOK, CursorsOnLists, CopyBack, StoreVersion, Unlock, WriteBackPC
<1>2. CurWord(t) \in Word /\ writes[t][cur[t]].value \in Data
  BY <1>1, NodeType DEF CurWord
<1>3. CASE CopyBack(t)
  <2>1. PICK u \in left[t] :
          /\ mem' = [mem EXCEPT ![CurWord(t)][u] = writes[t][cur[t]].value[u]]
          /\ left' = [left EXCEPT ![t] = @ \ {u}]
          /\ Goto(t, IF left[t] = {u} THEN "storeversion" ELSE "copyback")
    BY <1>3 DEF CopyBack
  <2>2. mem' \in [Word -> Data]
    <3> DEFINE d == [mem[CurWord(t)] EXCEPT ![u] = writes[t][cur[t]].value[u]]
    <3>1. d \in Data
      BY <1>2 DEF TypeOK, Data
    <3>2. mem' = [mem EXCEPT ![CurWord(t)] = d]
      BY <2>1
    <3> HIDE DEF d
    <3> QED BY <3>1, <3>2 DEF TypeOK
  <2>3. TypeOK'
    BY <1>3, <2>1, <2>2 DEF CopyBack, TypeOK, PC, CommitPC
  <2>4. CursorsOnLists(t)'
    BY <1>1, <1>3, <2>1 DEF CopyBack, TypeOK, CursorsOnLists, WriteBackPC, CommitPC
  <2> QED BY <2>3, <2>4
<1>4. CASE StoreVersion(t)
  <2>1. Truncate(wv[t]) \in Nat
    BY TruncateType DEF TypeOK
  <2>2. TypeOK'
    BY <1>2, <1>4, <2>1 DEF StoreVersion, TypeOK, PC, CommitPC
  <2>3. CursorsOnLists(t)'
    BY <1>1, <1>4 DEF StoreVersion, TypeOK, CursorsOnLists, WriteBackPC, CommitPC
  <2> QED BY <2>2, <2>3
<1>5. CASE Unlock(t)
  <2>1. CASE cleanTransaction(t)
    BY <1>2, <1>5, <2>1, CleanType, RestingCursors DEF Unlock, EndsOrRests, TypeOK
  <2>2. CASE /\ cur[t] # 1
             /\ cur' = [cur EXCEPT ![t] = @ - 1]
             /\ left' = [left EXCEPT ![t] = Unit]
             /\ Goto(t, "copyback")
             /\ UNCHANGED <<descriptor, word, before, buf, until>>
    <3>1. TypeOK'
      BY <1>1, <1>2, <1>5, <2>2 DEF Unlock, TypeOK, PC, CommitPC
    <3>2. CursorsOnLists(t)'
      BY <1>1, <1>5, <2>2 DEF Unlock, TypeOK, CursorsOnLists, WriteBackPC, CommitPC
    <3> QED BY <3>1, <3>2
  <2> QED BY <1>5, <2>1, <2>2 DEF Unlock
<1> QED BY <1>3, <1>4, <1>5

LEMMA TypeInit == Init => TypeOK /\ CursorInv
<1> SUFFICES ASSUME Init PROVE TypeOK /\ CursorInv
  OBVIOUS
<1>1. TypeOK
  BY Defaults, EmptySeq DEF Init, TypeOK, PC
<1>2. CursorInv
  BY DEF Init, CursorInv, CursorsOnLists, WriteBackPC, CommitPC
<1> QED BY <1>1, <1>2

LEMMA TypeNext == TypeOK /\ CursorInv /\ [Next]_vars => TypeOK' /\ CursorInv'
<1> SUFFICES ASSUME TypeOK, CursorInv, [Next]_vars PROVE TypeOK' /\ CursorInv'
  OBVIOUS
<1>1. CASE Next
  <2>1. PICK t \in Tx : Call(t) \/ Advance(t)
    BY <1>1 DEF Next
  <2>2. CursorsOnLists(t)
    BY DEF CursorInv
  <2>3. TypeOK' /\ CursorsOnLists(t)'
    BY <2>1, <2>2, TypeOfCall, TypeOfReadSteps, TypeOfLockSteps,
       TypeOfValidationSteps, TypeOfWriteBackSteps DEF Advance
  <2> QED BY <2>1, <2>3, CursorFrame
<1>2. CASE UNCHANGED vars
  BY <1>2 DEF vars, shared, descriptor, locals, cursors, TypeOK, CursorInv, CursorsOnLists
<1> QED BY <1>1, <1>2

\* Every variable keeps its type: in particular the words hold data, the lists
\* hold words and nodes, and no cursor becomes negative.
THEOREM TypeCorrect == Spec => []TypeOK
<1>1. TypeOK /\ CursorInv /\ [Next]_vars => (TypeOK /\ CursorInv)'
  BY TypeNext
<1> QED BY <1>1, TypeInit, PTL DEF Spec

\* No loop of tm_end runs past the end of a list (helper_functions.h:33).
THEOREM CursorsStayOnLists == Spec => []CursorInv
<1>1. TypeOK /\ CursorInv /\ [Next]_vars => (TypeOK /\ CursorInv)'
  BY TypeNext
<1> QED BY <1>1, TypeInit, PTL DEF Spec

---------------------------------------------------------------------------
\* A step of t changes neither the locks of another thread nor its nodes.
LEMMA OthersHold ==
  ASSUME TypeOK, NEW t \in Tx, Call(t) \/ Advance(t), NEW u \in Tx, u # t
  PROVE  HeldNodes(u)' = HeldNodes(u) /\ \A i : NodeWord(u, i)' = NodeWord(u, i)
<1>1. Kept(u)
  BY StepIsLocal
<1> QED BY <1>1 DEF Kept, HeldNodes, NodeWord

\* What a step of t may do to the locks: nothing, take one, return one.
HeldSame(t) ==
  /\ lockBit' = lockBit
  /\ HeldNodes(t)' = HeldNodes(t)
  /\ \A i \in HeldNodes(t) : NodeWord(t, i)' = NodeWord(t, i)

HeldMore(t, n) ==
  /\ ~ lockBit[NodeWord(t, n)]
  /\ lockBit' = [lockBit EXCEPT ![NodeWord(t, n)] = TRUE]
  /\ HeldNodes(t)' = HeldNodes(t) \cup {n}
  /\ \A i \in HeldNodes(t) \cup {n} : NodeWord(t, i)' = NodeWord(t, i)

HeldLess(t, n) ==
  /\ lockBit' = [lockBit EXCEPT ![NodeWord(t, n)] = FALSE]
  /\ n \in HeldNodes(t)
  /\ HeldNodes(t)' = HeldNodes(t) \ {n}
  /\ \A i \in HeldNodes(t) \ {n} : NodeWord(t, i)' = NodeWord(t, i)

LEMMA LocksKept ==
  ASSUME TypeOK, LockInv, NEW t \in Tx, Call(t) \/ Advance(t), HeldSame(t)
  PROVE  LockInv'
BY OthersHold DEF LockInv, HeldSame

LEMMA LockTaken ==
  ASSUME TypeOK, LockInv, NEW t \in Tx, Call(t) \/ Advance(t),
         NEW n \in DOMAIN writes[t], HeldMore(t, n)
  PROVE  LockInv'
<1> DEFINE w == NodeWord(t, n)
<1>1. w \in Word
  BY NodeType
<1>2. \A v \in Word : lockBit'[v] = (lockBit[v] \/ v = w)
  BY <1>1 DEF HeldMore, TypeOK
<1>3. \A v \in Word : lockBit'[v] =>
        \E u \in Tx : \E i \in HeldNodes(u)' : NodeWord(u, i)' = v
  <2> SUFFICES ASSUME NEW v \in Word, lockBit'[v]
               PROVE  \E u \in Tx : \E i \in HeldNodes(u)' : NodeWord(u, i)' = v
    OBVIOUS
  <2>1. CASE v = w
    BY <2>1 DEF HeldMore
  <2>2. CASE lockBit[v]
    <3>1. PICK u \in Tx : \E i \in HeldNodes(u) : NodeWord(u, i) = v
      BY <2>2 DEF LockInv
    <3>2. PICK i \in HeldNodes(u) : NodeWord(u, i) = v
      BY <3>1
    <3>3. i \in HeldNodes(u)' /\ NodeWord(u, i)' = v
      BY <3>2, OthersHold DEF HeldMore
    <3> QED BY <3>3
  <2> QED BY <1>2, <2>1, <2>2
<1>4. \A u \in Tx : \A i \in HeldNodes(u)' : lockBit'[NodeWord(u, i)']
  <2> SUFFICES ASSUME NEW u \in Tx, NEW i \in HeldNodes(u)'
               PROVE  lockBit'[NodeWord(u, i)']
    OBVIOUS
  <2>1. CASE u = t /\ i = n
    BY <1>1, <1>2, <2>1 DEF HeldMore
  <2>2. CASE ~ (u = t /\ i = n)
    <3>1. i \in HeldNodes(u) /\ NodeWord(u, i)' = NodeWord(u, i)
      BY <2>2, OthersHold DEF HeldMore
    <3>2. lockBit[NodeWord(u, i)] /\ NodeWord(u, i) \in Word
      BY <3>1, NodeType DEF LockInv, HeldNodes
    <3> QED BY <1>2, <3>1, <3>2
  <2> QED BY <2>1, <2>2
<1>5. \A u, v \in Tx : \A i \in HeldNodes(u)', j \in HeldNodes(v)' :
        NodeWord(u, i)' = NodeWord(v, j)' => u = v /\ i = j
  <2>1. \A u \in Tx : \A i \in HeldNodes(u) : NodeWord(u, i) # w
    BY DEF HeldMore, LockInv
  <2>2. \A u \in Tx : \A i \in HeldNodes(u)' :
          /\ NodeWord(u, i)' = NodeWord(u, i)
          /\ i \in HeldNodes(u) \/ (u = t /\ i = n)
    BY OthersHold DEF HeldMore
  <2> QED BY <2>1, <2>2 DEF LockInv
<1> QED BY <1>3, <1>4, <1>5 DEF LockInv

LEMMA LockReturned ==
  ASSUME TypeOK, LockInv, NEW t \in Tx, Call(t) \/ Advance(t),
         NEW n \in DOMAIN writes[t], HeldLess(t, n)
  PROVE  LockInv'
<1> DEFINE w == NodeWord(t, n)
<1>1. \A v \in Word : lockBit'[v] = (lockBit[v] /\ v # w)
  BY NodeType DEF HeldLess, TypeOK
<1>2. \A u \in Tx : \A i \in HeldNodes(u)' :
        i \in HeldNodes(u) /\ NodeWord(u, i)' = NodeWord(u, i) /\ NodeWord(u, i) # w
  BY OthersHold DEF HeldLess, LockInv
<1>3. \A v \in Word : lockBit'[v] =>
        \E u \in Tx : \E i \in HeldNodes(u)' : NodeWord(u, i)' = v
  <2> SUFFICES ASSUME NEW v \in Word, lockBit'[v]
               PROVE  \E u \in Tx : \E i \in HeldNodes(u)' : NodeWord(u, i)' = v
    OBVIOUS
  <2>1. PICK u \in Tx : \E i \in HeldNodes(u) : NodeWord(u, i) = v
    BY <1>1 DEF LockInv
  <2>2. PICK i \in HeldNodes(u) : NodeWord(u, i) = v
    BY <2>1
  <2>3. ~ (u = t /\ i = n)
    BY <1>1, <2>2
  <2>4. i \in HeldNodes(u)' /\ NodeWord(u, i)' = v
    BY <2>2, <2>3, OthersHold DEF HeldLess
  <2> QED BY <2>4
<1>4. \A u \in Tx : \A i \in HeldNodes(u)' : lockBit'[NodeWord(u, i)']
  <2> SUFFICES ASSUME NEW u \in Tx, NEW i \in HeldNodes(u)'
               PROVE  lockBit'[NodeWord(u, i)']
    OBVIOUS
  <2>1. lockBit[NodeWord(u, i)] /\ NodeWord(u, i) \in Word
    BY <1>2, NodeType DEF LockInv, HeldNodes
  <2> QED BY <1>1, <1>2, <2>1
<1>5. \A u, v \in Tx : \A i \in HeldNodes(u)', j \in HeldNodes(v)' :
        NodeWord(u, i)' = NodeWord(v, j)' => u = v /\ i = j
  BY <1>2 DEF LockInv
<1> QED BY <1>3, <1>4, <1>5 DEF LockInv

\* Outside tm_end no lock is held.
LEMMA NoneHeld ==
  ASSUME NEW t \in Tx, pc[t] \notin CommitPC
  PROVE  HeldNodes(t) = {}
BY DEF HeldNodes, CommitPC, WriteBackPC

LEMMA OutsideCommit ==
  ASSUME NEW t \in Tx, pc[t] \notin CommitPC, pc'[t] \notin CommitPC, lockBit' = lockBit
  PROVE  HeldSame(t)
BY DEF HeldSame, HeldNodes, CommitPC, WriteBackPC

LEMMA LocksOfCalls ==
  ASSUME TypeOK, NEW t \in Tx,
         \/ Call(t) \/ ReadLookup(t) \/ ReadCopy(t) \/ ReadCheckLock(t)
         \/ ReadCheckVersion(t) \/ WriteInsert(t) 
  PROVE  HeldSame(t)
<1> USE DEF shared, descriptor, locals, cursors, Goto, TypeOK
<1>1. CASE EndWithWrites(t)
  <2>1. HeldNodes(t) = {} /\ lockBit' = lockBit
    BY <1>1, NoneHeld DEF EndWithWrites, CommitPC
  <2>2. pc'[t] = "acquire" /\ writes'[t] = writes[t] /\ cur'[t] = Len(writes[t])
    BY <1>1 DEF EndWithWrites
  <2>3. HeldNodes(t)' = {}
    BY <2>2 DEF HeldNodes, WriteBackPC
  <2> QED BY <2>1, <2>3 DEF HeldSame
<1>2. ASSUME ~ EndWithWrites(t)
      PROVE  /\ pc[t] \notin CommitPC
             /\ pc'[t] \notin CommitPC
             /\ lockBit' = lockBit
  <2> USE DEF cleanTransaction, CommitPC
  <2>1. ASSUME NEW ro \in BOOLEAN, tm_begin(t, ro)
        PROVE  pc[t] \notin CommitPC /\ pc'[t] \notin CommitPC /\ lockBit' = lockBit
    BY <2>1 DEF tm_begin
  <2>2. ASSUME NEW w \in Word, tm_read(t, w)
        PROVE  pc[t] \notin CommitPC /\ pc'[t] \notin CommitPC /\ lockBit' = lockBit
    BY <2>2 DEF tm_read
  <2>3. ASSUME NEW w \in Word, NEW d \in Data, tm_write(t, w, d)
        PROVE  pc[t] \notin CommitPC /\ pc'[t] \notin CommitPC /\ lockBit' = lockBit
    BY <2>3 DEF tm_write
  <2>4. CASE EndWithoutWrites(t)
    BY <2>4 DEF EndWithoutWrites
  <2>5. CASE ReadLookup(t) \/ ReadCopy(t)
    BY <2>5 DEF ReadLookup, ReadCopy
  <2>6. CASE ReadCheckLock(t) \/ ReadCheckVersion(t)
    BY <2>6 DEF ReadCheckLock, ReadCheckVersion
  <2>7. CASE WriteInsert(t)
    BY <2>7 DEF WriteInsert
  <2> QED BY <1>2, <2>1, <2>2, <2>3, <2>4, <2>5, <2>6, <2>7 DEF Call
<1> QED BY <1>1, <1>2, OutsideCommit

\* A node stays the same when the list does.
LEMMA SameList ==
  ASSUME NEW t \in Tx, writes'[t] = writes[t]
  PROVE  DOMAIN writes'[t] = DOMAIN writes[t] /\ \A i : NodeWord(t, i)' = NodeWord(t, i)
BY DEF NodeWord

LEMMA LocksOfAcquire ==
  ASSUME TypeOK, NEW t \in Tx, CursorsOnLists(t), AcquireLock(t)
  PROVE  HeldSame(t) \/ (cur[t] \in DOMAIN writes[t] /\ HeldMore(t, cur[t]))
<1> DEFINE n == Len(writes[t])
<1>1. n \in Nat /\ DOMAIN writes[t] = 1..n /\ cur[t] \in 1..n /\ pc[t] = "acquire"
      /\ writes'[t] = writes[t]
  BY DEF TypeOK, AcquireLock, CursorsOnLists, descriptor
<1>2. CASE /\ ~ lockBit[CurWord(t)]
           /\ lockBit' = [lockBit EXCEPT ![CurWord(t)] = TRUE]
           /\ cur' = [cur EXCEPT ![t] = @ - 1]
           /\ Goto(t, IF cur[t] = 1 THEN "inc" ELSE "acquire")
  <2>1. cur'[t] = cur[t] - 1 /\ pc'[t] = IF cur[t] = 1 THEN "inc" ELSE "acquire"
    BY <1>2 DEF Goto, TypeOK
  <2>2. HeldNodes(t) = {i \in 1..n : i > cur[t]}
    BY <1>1 DEF HeldNodes, WriteBackPC
  <2>3. HeldNodes(t)' = {i \in 1..n : i > cur[t] - 1}
    BY <1>1, <2>1 DEF HeldNodes, WriteBackPC
  <2>4. HeldNodes(t)' = HeldNodes(t) \cup {cur[t]}
    BY <1>1, <2>2, <2>3
  <2> QED BY <1>1, <1>2, <2>4, SameList DEF HeldMore, CurWord
<1>3. CASE StartRelease(t, cur[t]) /\ lockBit' = lockBit
  <2>1. cur'[t] = n /\ until'[t] = cur[t] /\ pc'[t] = "release"
    BY <1>3 DEF StartRelease, Goto, TypeOK
  <2>2. HeldNodes(t)' = HeldNodes(t)
    BY <1>1, <2>1 DEF HeldNodes, WriteBackPC
  <2> QED BY <1>1, <1>3, <2>2, SameList DEF HeldSame
<1> QED BY <1>2, <1>3 DEF AcquireLock

LEMMA LocksOfRelease ==
  ASSUME TypeOK, NEW t \in Tx, CursorsOnLists(t), ReleaseLock(t)
  PROVE  cur[t] \in DOMAIN writes[t] /\ HeldLess(t, cur[t])
<1> DEFINE n == Len(writes[t])
<1>1. /\ n \in Nat /\ DOMAIN writes[t] = 1..n
      /\ cur[t] \in Nat /\ until[t] \in Nat /\ until[t] < cur[t] /\ cur[t] <= n
      /\ pc[t] = "release" /\ writes'[t] = writes[t]
  BY DEF TypeOK, ReleaseLock, CursorsOnLists, descriptor
<1>2. cur'[t] = cur[t] - 1 /\ until'[t] = until[t] /\ pc'[t] = "release"
  BY <1>1 DEF ReleaseLock, TypeOK
<1>3. HeldNodes(t) = {i \in 1..n : until[t] < i /\ i <= cur[t]}
  BY <1>1 DEF HeldNodes, WriteBackPC
<1>4. HeldNodes(t)' = {i \in 1..n : until[t] < i /\ i <= cur[t] - 1}
  BY <1>1, <1>2 DEF HeldNodes, WriteBackPC
<1>5. HeldNodes(t)' = HeldNodes(t) \ {cur[t]} /\ cur[t] \in HeldNodes(t)
  BY <1>1, <1>3, <1>4
<1>6. lockBit' = [lockBit EXCEPT ![NodeWord(t, cur[t])] = FALSE]
  BY DEF ReleaseLock, CurWord
<1> QED BY <1>1, <1>5, <1>6, SameList DEF HeldLess

LEMMA LocksOfAbort ==
  ASSUME TypeOK, NEW t \in Tx, AbortCommit(t)
  PROVE  HeldSame(t)
<1>1. cur[t] \in Nat /\ cur[t] = until[t] /\ pc[t] = "release" /\ lockBit' = lockBit
  BY DEF AbortCommit, TypeOK, shared
<1>2. pc'[t] = "idle"
  BY DEF AbortCommit, cleanTransaction, Goto, TypeOK
<1>3. writes[t] \in Seq(Node)
  BY DEF TypeOK
<1>4. HeldNodes(t) = {}
  BY <1>1, <1>3 DEF HeldNodes, WriteBackPC
<1>5. HeldNodes(t)' = {}
  BY <1>2 DEF HeldNodes, WriteBackPC
<1> QED BY <1>1, <1>4, <1>5 DEF HeldSame

\* Between the last acquisition and the write-back every node is held.
LEMMA LocksOfValidation ==
  ASSUME TypeOK, NEW t \in Tx, CursorsOnLists(t),
         IncClock(t) \/ ValidateVersion(t) \/ ValidateLock(t) \/ ValidateDone(t)
  PROVE  HeldSame(t)
<1> DEFINE n == Len(writes[t])
<1>1. n \in Nat /\ DOMAIN writes[t] = 1..n
  BY DEF TypeOK
<1>2. pc[t] \in {"inc", "valversion", "vallock"} /\ lockBit' = lockBit
      /\ writes'[t] = writes[t]
  BY DEF IncClock, ValidateVersion, ValidateLock, ValidateDone, shared, descriptor
<1>3. \/ pc'[t] \in {"valversion", "vallock"}
      \/ pc'[t] = "release" /\ until'[t] = 0 /\ cur'[t] = n
      \/ pc'[t] = "copyback" /\ cur'[t] = n
  BY DEF IncClock, ValidateVersion, ValidateLock, ValidateDone, StartRelease,
         StartWriteBack, Goto, TypeOK
<1>4. HeldNodes(t) = 1..n
  BY <1>1, <1>2 DEF HeldNodes, WriteBackPC
<1>5. HeldNodes(t)' = 1..n
  BY <1>1, <1>2, <1>3 DEF HeldNodes, WriteBackPC
<1> QED BY <1>2, <1>4, <1>5, SameList DEF HeldSame

LEMMA LocksOfWriteBack ==
  ASSUME TypeOK, NEW t \in Tx, CursorsOnLists(t), CopyBack(t) \/ StoreVersion(t)
  PROVE  HeldSame(t)
<1>1. /\ pc[t] \in WriteBackPC /\ pc'[t] \in WriteBackPC
      /\ writes'[t] = writes[t] /\ cur'[t] = cur[t] /\ lockBit' = lockBit
  BY DEF CopyBack, StoreVersion, WriteBackPC, Goto, TypeOK, descriptor, cursors
<1>2. HeldNodes(t)' = HeldNodes(t)
  BY <1>1 DEF HeldNodes, WriteBackPC
<1> QED BY <1>1, <1>2, SameList DEF HeldSame

LEMMA LocksOfUnlock ==
  ASSUME TypeOK, NEW t \in Tx, CursorsOnLists(t), Unlock(t)
  PROVE  cur[t] \in DOMAIN writes[t] /\ HeldLess(t, cur[t])
<1> DEFINE n == Len(writes[t])
<1>1. n \in Nat /\ DOMAIN writes[t] = 1..n /\ cur[t] \in 1..n /\ pc[t] = "unlock"
  BY DEF TypeOK, Unlock, CursorsOnLists, WriteBackPC
<1>2. lockBit' = [lockBit EXCEPT ![NodeWord(t, cur[t])] = FALSE]
  BY DEF Unlock, CurWord
<1>3. HeldNodes(t) = {i \in 1..n : i <= cur[t]}
  BY <1>1 DEF HeldNodes, WriteBackPC
<1>4. CASE cur[t] = 1 /\ cleanTransaction(t)
  <2>1. pc'[t] = "idle"
    BY <1>4 DEF cleanTransaction, Goto, TypeOK
  <2>2. HeldNodes(t)' = {}
    BY <2>1 DEF HeldNodes, WriteBackPC
  <2>3. HeldNodes(t) = {cur[t]}
    BY <1>1, <1>3, <1>4
  <2> QED BY <1>1, <1>2, <2>2, <2>3 DEF HeldLess
<1>5. CASE /\ cur[t] # 1
           /\ cur' = [cur EXCEPT ![t] = @ - 1]
           /\ Goto(t, "copyback")
           /\ UNCHANGED descriptor
  <2>1. cur'[t] = cur[t] - 1 /\ pc'[t] = "copyback" /\ writes'[t] = writes[t]
    BY <1>5 DEF Goto, TypeOK, descriptor
  <2>2. HeldNodes(t)' = {i \in 1..n : i <= cur[t] - 1}
    BY <1>1, <2>1 DEF HeldNodes, WriteBackPC
  <2>3. HeldNodes(t)' = HeldNodes(t) \ {cur[t]} /\ cur[t] \in HeldNodes(t)
    BY <1>1, <1>3, <2>2
  <2> QED BY <1>1, <1>2, <2>1, <2>3, SameList DEF HeldLess
<1> QED BY <1>4, <1>5 DEF Unlock

LEMMA LockInit == Init => LockInv
BY DEF Init, LockInv, HeldNodes, WriteBackPC

LEMMA LockNext ==
  TypeOK /\ CursorInv /\ LockInv /\ [Next]_vars => LockInv'
<1> SUFFICES ASSUME TypeOK, CursorInv, LockInv, [Next]_vars PROVE LockInv'
  OBVIOUS
<1>1. CASE Next
  <2>1. PICK t \in Tx : Call(t) \/ Advance(t)
    BY <1>1 DEF Next
  <2>2. CursorsOnLists(t)
    BY DEF CursorInv
  <2>3. CASE HeldSame(t)
    BY <2>1, <2>3, LocksKept
  <2>4. CASE AcquireLock(t)
    BY <2>1, <2>2, <2>3, <2>4, LocksOfAcquire, LockTaken
  <2>5. CASE ReleaseLock(t) \/ Unlock(t)
    BY <2>1, <2>2, <2>5, LocksOfRelease, LocksOfUnlock, LockReturned
  <2>6. CASE ~ (AcquireLock(t) \/ ReleaseLock(t) \/ Unlock(t))
    BY <2>1, <2>2, <2>3, <2>6, LocksOfCalls, LocksOfAbort, LocksOfValidation,
       LocksOfWriteBack DEF Advance
  <2> QED BY <2>4, <2>5, <2>6
<1>2. CASE UNCHANGED vars
  BY <1>2 DEF vars, shared, descriptor, locals, cursors, LockInv, HeldNodes, NodeWord
<1> QED BY <1>1, <1>2

\* A lock bit is set exactly while one thread holds it for one of its write
\* nodes: no lock leaks on an abort, none is cleared by a thread that did not
\* take it, and no two threads are in the write-back of one word.
THEOREM LocksHeldOnce == Spec => []LockInv
<1>1. TypeOK /\ CursorInv /\ LockInv /\ [Next]_vars => (TypeOK /\ CursorInv /\ LockInv)'
  BY TypeNext, LockNext
<1> QED BY <1>1, TypeInit, LockInit, PTL DEF Spec
===========================================================================
