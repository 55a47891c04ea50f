---------------------------- MODULE SyncExamples --------------------------
(***************************************************************************)
(* Any one of the programs of src/sync-examples and src/playground.        *)
(***************************************************************************)
EXTENDS Counters, Elections, ProCon

vars == <<main, threads, lock, counters, elections, procon>>

Init ==
  /\ program \in CounterPrograms \cup ElectionPrograms \cup ProConPrograms
  /\ SyncInit /\ CounterInit /\ ElectionInit /\ ProConInit

\* One step of main or of a thread.
Process(p) ==
  \/ CounterStep(p) /\ UNCHANGED <<elections, procon>>
  \/ ElectionStep(p) /\ UNCHANGED <<counters, procon>>
  \/ ProConStep(p) /\ UNCHANGED <<counters, elections>>

Ended == verdict # "none"

Next ==
  \/ \E p \in {Main} \cup Thread : Process(p)
  \/ Spurious /\ UNCHANGED <<counters, elections, procon>>
  \/ Ended /\ UNCHANGED vars

Spec == Init /\ [][Next]_vars

\* A thread that can go on again and again does: the mutex is not kept from a
\* thread for ever by another that takes it in every gap.
FairSpec == Spec /\ \A p \in {Main} \cup Thread : SF_vars(Process(p))

---------------------------------------------------------------------------
TypeOK ==
  /\ SyncTypeOK
  /\ counter \in Nat /\ check_counter \in 0..(RUNS * THREADS)
  /\ leader \in [Round -> {Nobody} \cup Thread] /\ nb_leaders \in [Round -> 0..THREADS]
  /\ produced_until \in 0..RUNS /\ consumed_until \in 0..RUNS
  /\ \A f \in {buffer, produced, consumed} : \A i \in DOMAIN f : f[i] \in Data

C == INSTANCE Channel WITH
       Item <- Data, Capacity <- BUFFER_SIZE, sent <- Sent, received <- Received

\* Whatever is consumed is what was produced, complete and in order, and no slot
\* is filled again before it is drained: the comments "Correct" of procon2.c
\* and procon4.c, and those on the memory order of procon3.c.  Every other
\* program, procon1 among them, sends and receives nothing here, and nothing is
\* said of it.
ImplementsChannel == C!Spec

\* Every program comes to its verdict, the sleepers of procon4 included, which
\* are woken by a broadcast that comes after the mutex has been given back; and
\* the verdict on the synchronized programs is that they are correct.
Terminates == <>(verdict # "none" /\ (Synchronized => verdict = "correct"))
===========================================================================
