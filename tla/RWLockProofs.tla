---------------------------- MODULE RWLockProofs ---------------------------
(***************************************************************************)
(* Machine-checked theorems about RWLock, for every finite set of threads. *)
(* Its two safety properties are inductive together with the types.        *)
(***************************************************************************)
EXTENDS RWLock, FiniteSetTheorems, TLAPS

IInv == TypeOK /\ Exclusion /\ NoLostWakeup

\* The threads at a place are finitely many, and counted as one expects when
\* one of them comes or goes.
LEMMA AtFinite == \A l : IsFiniteSet(At(l)) /\ Cardinality(At(l)) \in Nat
<1> TAKE l
<1>1. At(l) \in SUBSET Thread
  BY DEF At
<1>2. IsFiniteSet(At(l))
  BY <1>1, ThreadAssumption, FS_Subset
<1> QED BY <1>2, FS_CardinalityType

LEMMA Arrives ==
  ASSUME NEW l, NEW t, t \notin At(l), At(l)' = At(l) \cup {t}
  PROVE  Cardinality(At(l)') = Cardinality(At(l)) + 1
BY AtFinite, FS_AddElement

LEMMA Departs ==
  ASSUME NEW l, NEW t \in At(l), At(l)' = At(l) \ {t}
  PROVE  Cardinality(At(l)') = Cardinality(At(l)) - 1
BY AtFinite, FS_RemoveElement

\* A place with at most one thread holds no other beside t.
LEMMA Alone ==
  ASSUME NEW l, NEW t \in At(l), Cardinality(At(l)) <= 1
  PROVE  At(l) = {t}
<1>1. Cardinality(At(l)) \in Nat /\ IsFiniteSet(At(l))
  BY AtFinite
<1>2. Cardinality(At(l)) # 0
  BY <1>1, FS_EmptySet
<1>3. Cardinality(At(l)) = 1
  BY <1>1, <1>2
<1>4. PICK u : At(l) = {u}
  BY <1>1, <1>3, FS_Singleton
<1> QED BY <1>4

\* Readers are counted, so one that is inside can be taken off.
LEMMA SomeReader ==
  ASSUME IInv, NEW t \in Thread, pc[t] = "reading"
  PROVE  readers \in Nat \ {0} /\ ~ writing /\ At("readwait") = {}
<1>1. At("reading") # {}
  BY DEF At
<1>2. readers # 0
  BY <1>1, AtFinite, FS_EmptySet DEF IInv, Exclusion
<1> QED BY <1>2 DEF IInv, TypeOK, Exclusion, NoLostWakeup

\* Where everybody is after t alone has moved.
LEMMA OneMoves ==
  ASSUME TypeOK, NEW t \in Thread, NEW m \in PC, Goto(t, m)
  PROVE  /\ pc' \in [Thread -> PC]
         /\ At(m)' = At(m) \cup {t}
         /\ \A l : l # m => At(l)' = At(l) \ {t}
BY DEF TypeOK, Goto, At

---------------------------------------------------------------------------
LEMMA ReadLockStep ==
  ASSUME IInv, NEW t \in Thread, readLock(t)
  PROVE  IInv'
<1> USE DEF IInv
<1>1. pc[t] \in {"idle", "readwoken"} /\ writing' = writing
  BY DEF readLock
<1>2. CASE writing /\ Goto(t, "readwait") /\ UNCHANGED readers
  <2>1. /\ pc' \in [Thread -> PC]
        /\ \A l \in {"reading", "writing"} : At(l)' = At(l)
    BY <1>1, <1>2, OneMoves DEF PC, At
  <2> QED BY <1>1, <1>2, <2>1 DEF TypeOK, Exclusion, NoLostWakeup
<1>3. CASE ~ writing /\ Goto(t, "reading") /\ readers' = readers + 1
  <2>1. /\ pc' \in [Thread -> PC]
        /\ \A l \in {"writing", "readwait"} : At(l)' = At(l)
        /\ At("reading")' = At("reading") \cup {t} /\ t \notin At("reading")
    BY <1>1, <1>3, OneMoves DEF PC, At
  <2>2. readers' = Cardinality(At("reading"))'
    BY <1>3, <2>1, Arrives DEF Exclusion
  <2> QED BY <1>1, <1>3, <2>1, <2>2 DEF TypeOK, Exclusion, NoLostWakeup
<1> QED BY <1>2, <1>3 DEF readLock

LEMMA WriteLockStep ==
  ASSUME IInv, NEW t \in Thread, writeLock(t)
  PROVE  IInv'
<1> USE DEF IInv
<1>1. pc[t] \in {"idle", "writewoken"} /\ readers' = readers
  BY DEF writeLock
<1>2. CASE (writing \/ ReadersInside) /\ Goto(t, "writewait") /\ UNCHANGED writing
  <2>1. /\ pc' \in [Thread -> PC]
        /\ \A l \in {"reading", "writing", "readwait"} : At(l)' = At(l)
    BY <1>1, <1>2, OneMoves DEF PC, At
  <2> QED BY <1>1, <1>2, <2>1 DEF TypeOK, Exclusion, NoLostWakeup, ReadersInside
<1>3. CASE ~ (writing \/ ReadersInside) /\ Goto(t, "writing") /\ writing' = TRUE
  <2>1. readers = 0
    BY <1>3 DEF ReadersInside, TypeOK
  <2>2. At("writing") = {}
    BY <1>3 DEF Exclusion
  <2>3. /\ pc' \in [Thread -> PC]
        /\ At("reading")' = At("reading")
        /\ At("writing")' = {t}
    BY <1>1, <1>3, <2>2, OneMoves DEF PC, At
  <2>4. Cardinality(At("writing"))' <= 1
    BY <2>3, FS_Singleton
  <2> QED BY <1>1, <1>3, <2>1, <2>3, <2>4 DEF TypeOK, Exclusion, NoLostWakeup
<1> QED BY <1>2, <1>3 DEF writeLock

\* After a signal no writer waits, or one is on its way to the mutex; readers
\* and the thread inside are where p puts them.
LEMMA Signalled ==
  ASSUME NEW p \in [Thread -> PC], SignalWriter(p),
         \A t \in Thread : p[t] = "writewait" <=> pc[t] = "writewait"
  PROVE  /\ pc' \in [Thread -> PC]
         /\ \A l \in {"reading", "writing", "readwait"} :
              At(l)' = {t \in Thread : p[t] = l}
         /\ At("writewait")' # {} => At("writewoken")' # {}
<1>1. CASE At("writewait") = {} /\ pc' = p
  BY <1>1 DEF At
<1>2. ASSUME NEW w \in At("writewait"), pc' = [p EXCEPT ![w] = "writewoken"]
      PROVE  /\ pc' \in [Thread -> PC]
             /\ \A l \in {"reading", "writing", "readwait"} :
                  At(l)' = {t \in Thread : p[t] = l}
             /\ At("writewoken")' # {}
  <2>1. w \in Thread /\ p[w] = "writewait"
    BY <1>2 DEF At
  <2>2. pc' \in [Thread -> PC]
    BY <1>2 DEF PC
  <2>3. w \in At("writewoken")'
    BY <1>2, <2>1 DEF At
  <2> QED BY <1>2, <2>1, <2>2, <2>3 DEF At
<1> QED BY <1>1, <1>2 DEF SignalWriter

LEMMA ReadUnlockStep ==
  ASSUME IInv, NEW t \in Thread, readUnlock(t)
  PROVE  IInv'
<1> USE DEF IInv
<1> DEFINE p == [pc EXCEPT ![t] = "idle"]
<1>1. /\ readers \in Nat \ {0} /\ ~ writing /\ At("readwait") = {}
      /\ pc[t] = "reading" /\ readers' = readers - 1 /\ writing' = writing
  BY SomeReader DEF readUnlock
<1>2. /\ p \in [Thread -> PC]
      /\ \A u \in Thread : p[u] = IF u = t THEN "idle" ELSE pc[u]
  BY DEF TypeOK, PC
<1>3. /\ pc' \in [Thread -> PC]
      /\ \A l \in {"reading", "writing", "readwait"} : At(l)' = {u \in Thread : p[u] = l}
      /\ At("writewait")' # {} => readers' > 0 \/ At("writewoken")' # {}
  <2>1. CASE readers = 1 /\ SignalWriter(p)
    <3>1. \A u \in Thread : p[u] = "writewait" <=> pc[u] = "writewait"
      BY <1>1, <1>2
    <3> HIDE DEF p
    <3> QED BY <1>2, <2>1, <3>1, Signalled
  <2>2. CASE readers # 1 /\ pc' = p
    BY <1>1, <1>2, <2>2 DEF At
  <2> QED BY <2>1, <2>2 DEF readUnlock
<1>4. /\ At("reading")' = At("reading") \ {t} /\ t \in At("reading")
      /\ At("writing")' = At("writing") /\ At("readwait")' = At("readwait")
  BY <1>1, <1>2, <1>3 DEF At
<1>5. readers' = Cardinality(At("reading"))'
  BY <1>1, <1>4, Departs DEF Exclusion
<1> QED BY <1>1, <1>3, <1>4, <1>5 DEF TypeOK, Exclusion, NoLostWakeup

LEMMA WriteUnlockStep ==
  ASSUME IInv, NEW t \in Thread, writeUnlock(t)
  PROVE  IInv'
<1> USE DEF IInv
<1> DEFINE p == [u \in Thread |-> IF u = t THEN "idle"
                                  ELSE IF pc[u] = "readwait" THEN "readwoken"
                                  ELSE pc[u]]
<1>1. /\ pc[t] = "writing" /\ writing' = FALSE /\ readers' = readers
      /\ SignalWriter(p)
  BY DEF writeUnlock
<1>2. At("writing") = {t} /\ readers = 0
  <2>1. t \in At("writing")
    BY <1>1 DEF At
  <2> QED BY <2>1, Alone DEF Exclusion
<1>3. /\ p \in [Thread -> PC]
      /\ \A u \in Thread : p[u] = "writewait" <=> pc[u] = "writewait"
  BY <1>1 DEF TypeOK, PC
<1>4. /\ pc' \in [Thread -> PC]
      /\ \A l \in {"reading", "writing", "readwait"} : At(l)' = {u \in Thread : p[u] = l}
      /\ At("writewait")' # {} => At("writewoken")' # {}
  <2> HIDE DEF p
  <2> QED BY <1>1, <1>3, Signalled
<1>5. /\ At("reading")' = At("reading")
      /\ At("writing")' = {} /\ At("readwait")' = {}
  BY <1>1, <1>2, <1>4 DEF At
<1>6. Cardinality(At("writing"))' <= 1
  BY <1>5, FS_EmptySet
<1> HIDE DEF p
<1>7. TypeOK' /\ NoLostWakeup'
  BY <1>1, <1>4, <1>5 DEF TypeOK, NoLostWakeup
<1>8. Exclusion'
  BY <1>1, <1>2, <1>5, <1>6 DEF Exclusion
<1> QED BY <1>7, <1>8

LEMMA SpuriousStep ==
  ASSUME IInv, NEW t \in Thread, Spurious(t)
  PROVE  IInv'
<1> USE DEF IInv
<1>1. readers' = readers /\ writing' = writing
  BY DEF Spurious
<1>2. /\ pc' \in [Thread -> PC]
      /\ \A l \in {"reading", "writing"} : At(l)' = At(l)
      /\ At("readwait")' \subseteq At("readwait")
      /\ At("writewait")' # {} => At("writewait") # {}
      /\ At("writewoken")' = {} => At("writewoken") = {}
  <2>1. CASE pc[t] = "readwait" /\ Goto(t, "readwoken")
    BY <2>1, OneMoves DEF PC, At
  <2>2. CASE pc[t] = "writewait" /\ Goto(t, "writewoken")
    BY <2>2, OneMoves DEF PC, At
  <2> QED BY <2>1, <2>2 DEF Spurious
<1> QED BY <1>1, <1>2 DEF TypeOK, Exclusion, NoLostWakeup

---------------------------------------------------------------------------
LEMMA IInvInit == Init => IInv
<1> SUFFICES ASSUME Init PROVE IInv
  OBVIOUS
<1>1. TypeOK
  BY DEF Init, initRWLock, TypeOK, PC
<1>2. \A l : l # "idle" => At(l) = {}
  BY DEF Init, At
<1>3. Exclusion /\ NoLostWakeup
  BY <1>2, FS_EmptySet DEF Init, initRWLock, Exclusion, NoLostWakeup
<1> QED BY <1>1, <1>3 DEF IInv

LEMMA IInvNext == IInv /\ [Next]_vars => IInv'
<1> SUFFICES ASSUME IInv, [Next]_vars PROVE IInv'
  OBVIOUS
<1>1. CASE Next
  BY <1>1, ReadLockStep, WriteLockStep, ReadUnlockStep, WriteUnlockStep, SpuriousStep
     DEF Next
<1>2. CASE UNCHANGED vars
  BY <1>2 DEF vars, IInv, TypeOK, Exclusion, NoLostWakeup, At
<1> QED BY <1>1, <1>2

\* The count of readers never runs below zero (readUnlock, readers_writer.h).
THEOREM TypeCorrect == Spec => []TypeOK
<1>1. IInv => TypeOK
  BY DEF IInv
<1> QED BY <1>1, IInvInit, IInvNext, PTL DEF Spec

\* A writer is inside alone, and the two fields say who is inside, whatever
\* wakes a thread on a condition variable.
THEOREM WritersExclude == Spec => []Exclusion
<1>1. IInv => Exclusion
  BY DEF IInv
<1> QED BY <1>1, IInvInit, IInvNext, PTL DEF Spec

\* Signalling one writer and all readers is enough: whoever sleeps has someone
\* inside, or on the way there, that will wake it.
THEOREM SleepersAreWatched == Spec => []NoLostWakeup
<1>1. IInv => NoLostWakeup
  BY DEF IInv
<1> QED BY <1>1, IInvInit, IInvNext, PTL DEF Spec
===========================================================================
