------------------------------- MODULE RWLock -----------------------------
(***************************************************************************)
(* readers_writer.h: a reader-writer lock made of a mutex and two          *)
(* condition variables.                                                    *)
(*                                                                         *)
(* The fields are only touched under the mutex, so a step is one critical  *)
(* section: from taking the mutex (entering the call, or waking from       *)
(* pthread_cond_wait, which takes it again) to giving it up (returning, or *)
(* waiting).  pthread_cond_wait may also return without a signal.          *)
(***************************************************************************)
EXTENDS Naturals, FiniteSets

CONSTANT Thread
ASSUME ThreadAssumption == IsFiniteSet(Thread)

VARIABLES
  readers, writing,   \* the fields
  pc                  \* "idle"; "reading" or "writing" inside; "...wait" on a
                      \* condition variable; "...woken" and after the mutex
vars == <<readers, writing, pc>>

PC == {"idle", "reading", "writing", "readwait", "writewait", "readwoken", "writewoken"}

TypeOK == readers \in Nat /\ writing \in BOOLEAN /\ pc \in [Thread -> PC]

initRWLock == readers = 0 /\ writing = FALSE
Init == initRWLock /\ pc = [t \in Thread |-> "idle"]

At(l) == {t \in Thread : pc[t] = l}
Goto(t, l) == pc' = [pc EXCEPT ![t] = l]

\* Readers in writeLock's test.
ReadersInside_OffByOne == readers > 1
ReadersInside == readers > 0

\* One round of the loop of readLock, then of writeLock: enter or wait.
readLock(t) ==
  /\ pc[t] \in {"idle", "readwoken"}
  /\ \/ writing /\ Goto(t, "readwait") /\ UNCHANGED readers
     \/ ~ writing /\ Goto(t, "reading") /\ readers' = readers + 1
  /\ UNCHANGED writing

writeLock(t) ==
  /\ pc[t] \in {"idle", "writewoken"}
  /\ \/ (writing \/ ReadersInside) /\ Goto(t, "writewait") /\ UNCHANGED writing
     \/ ~ (writing \/ ReadersInside) /\ Goto(t, "writing") /\ writing' = TRUE
  /\ UNCHANGED readers

\* pthread_cond_signal wakes one thread, if any waits: pc with t's own
\* successor and with w, one of the writers waiting, woken.
SignalWriter(p) ==
  \/ At("writewait") = {} /\ pc' = p
  \/ \E w \in At("writewait") : pc' = [p EXCEPT ![w] = "writewoken"]

readUnlock_Twice(t) ==
  /\ pc[t] = "reading"
  /\ readers' = readers - 2
  /\ pc' = [pc EXCEPT ![t] = "idle"]
  /\ UNCHANGED writing

readUnlock_NoSignal(t) ==
  /\ pc[t] = "reading"
  /\ readers' = readers - 1
  /\ pc' = [pc EXCEPT ![t] = "idle"]
  /\ UNCHANGED writing

readUnlock(t) ==
  LET p == [pc EXCEPT ![t] = "idle"]
  IN  /\ pc[t] = "reading"
      /\ readers' = readers - 1
      /\ \/ readers = 1 /\ SignalWriter(p)
         \/ readers # 1 /\ pc' = p
      /\ UNCHANGED writing

\* Every waiting reader and one waiting writer are woken.
writeUnlock_WritersOnly(t) ==
  /\ pc[t] = "writing"
  /\ writing' = FALSE
  /\ SignalWriter([pc EXCEPT ![t] = "idle"])
  /\ UNCHANGED readers

writeUnlock(t) ==
  /\ pc[t] = "writing"
  /\ writing' = FALSE
  /\ SignalWriter([u \in Thread |-> IF u = t THEN "idle"
                                    ELSE IF pc[u] = "readwait" THEN "readwoken"
                                    ELSE pc[u]])
  /\ UNCHANGED readers

Spurious(t) ==
  /\ \/ pc[t] = "readwait" /\ Goto(t, "readwoken")
     \/ pc[t] = "writewait" /\ Goto(t, "writewoken")
  /\ UNCHANGED <<readers, writing>>

Retry(t) == pc[t] # "idle" /\ (readLock(t) \/ writeLock(t))
Leave(t) == readUnlock(t) \/ writeUnlock(t)

Next == \E t \in Thread :
          readLock(t) \/ writeLock(t) \/ readUnlock(t) \/ writeUnlock(t) \/ Spurious(t)

Spec == Init /\ [][Next]_vars

\* A woken thread gets the mutex again, and no one stays inside for ever.
FairSpec == Spec /\ \A t \in Thread : WF_vars(Retry(t)) /\ WF_vars(Leave(t))

---------------------------------------------------------------------------
\* A writer is inside alone, and the two fields say who is inside.
Exclusion ==
  /\ readers = Cardinality(At("reading"))
  /\ writing <=> At("writing") # {}
  /\ Cardinality(At("writing")) <= 1
  /\ writing => readers = 0

\* No wakeup is lost: while a thread is on a condition variable someone is
\* inside, or woken, who will signal it.
NoLostWakeup ==
  /\ At("readwait") # {} => writing
  /\ At("writewait") # {} => writing \/ readers > 0 \/ At("writewoken") # {}

\* A reader does not sleep through the writer it waits for: each one on the
\* condition variable is woken.  (That it then enters is not promised, nor is
\* anything to a writer: a steady stream of readers keeps all writers out.)
ReadersAreWoken ==
  \A t \in Thread : pc[t] = "readwait" ~> pc[t] # "readwait"
===========================================================================
