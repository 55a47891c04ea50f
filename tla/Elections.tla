------------------------------ MODULE Elections ---------------------------
(***************************************************************************)
(* election1.c to election4.c: in every round each thread tries to become  *)
(* its leader; nb_leaders counts those that believe they are.              *)
(***************************************************************************)
EXTENDS SyncLock

VARIABLES leader, nb_leaders
elections == <<leader, nb_leaders>>

Round == 0..(RUNS - 1)
Nobody == 0

ElectionInit ==
  /\ leader = [r \in Round |-> Nobody]
  /\ nb_leaders = [r \in Round |-> 0]

Vacant(t) == leader[round[t]] = Nobody

Impose(t, from, to) ==
  /\ Step(t, from, to)
  /\ leader' = [leader EXCEPT ![round[t]] = t]
  /\ UNCHANGED <<nb_leaders, lock>>

Boast(t, from, to) ==
  /\ Step(t, from, to)
  /\ nb_leaders' = [nb_leaders EXCEPT ![round[t]] = @ + 1]
  /\ UNCHANGED <<leader, lock>>

\* Test for a vacant round: on to one label or to the other.
Test(t, from, yes, no) ==
  /\ Step(t, from, IF Vacant(t) THEN yes ELSE no)
  /\ UNCHANGED <<elections, lock>>

---------------------------------------------------------------------------
\* The test and the set are two steps.
elect1(t) ==
  Test(t, "round", "set", "next") \/ Impose(t, "set", "boast") \/ Boast(t, "boast", "next")

elect2_TestFirst(t) ==
  \/ Test(t, "round", "lock", "next")
  \/ Step(t, "lock", "set") /\ lock_acquire(t) /\ UNCHANGED elections
  \/ Impose(t, "set", "boast")
  \/ Boast(t, "boast", "unlock")
  \/ Step(t, "unlock", "next") /\ lock_release(t) /\ UNCHANGED elections

elect2(t) ==
  \/ Step(t, "round", "test") /\ lock_acquire(t) /\ UNCHANGED elections
  \/ Test(t, "test", "set", "unlock")
  \/ Impose(t, "set", "boast")
  \/ Boast(t, "boast", "unlock")
  \/ Step(t, "unlock", "next") /\ lock_release(t) /\ UNCHANGED elections

\* Atomic variables, and still two steps.
elect3(t) ==
  Test(t, "round", "set", "next") \/ Impose(t, "set", "boast") \/ Boast(t, "boast", "next")

\* Compare and swap.
elect4(t) ==
  \/ Impose(t, "round", "boast") /\ Vacant(t)
  \/ Test(t, "round", "round", "next") /\ ~ Vacant(t)
  \/ Boast(t, "boast", "next")

---------------------------------------------------------------------------
OneEach == \A r \in Round : nb_leaders[r] = 1
Candidates == Run(THREADS, OneEach) /\ UNCHANGED elections

election1(p) == IF p = Main THEN Candidates ELSE elect1(p)
election2(p) == IF p = Main THEN Candidates ELSE elect2(p)
election3(p) == IF p = Main THEN Candidates ELSE elect3(p)
election4(p) == IF p = Main THEN Candidates ELSE elect4(p)

ElectionPrograms == {"election1", "election2", "election3", "election4"}

ElectionStep(p) ==
  \/ program = "election1" /\ election1(p)
  \/ program = "election2" /\ election2(p)
  \/ program = "election3" /\ election3(p)
  \/ program = "election4" /\ election4(p)

---------------------------------------------------------------------------
\* Threads that have imposed themselves and not yet counted themselves.
Winners(r) ==
  {t \in Thread : round[t] = r /\ pc[t] = "boast"}

\* With the lock or the compare-and-swap no two threads ever both consider
\* themselves the leader of a round, not even for a moment (README.md of
\* sync-examples); in all programs a round that somebody has passed has a
\* leader, and in the end at least one.
OneLeader ==
  program \in ElectionPrograms =>
    \A r \in Round :
      /\ program \in {"election2", "election4"} =>
           nb_leaders[r] + Cardinality(Winners(r)) =
             (IF leader[r] = Nobody THEN 0 ELSE 1)
      /\ (\E t \in Thread : round[t] > r) => leader[r] # Nobody
      /\ verdict # "none" => nb_leaders[r] \in 1..THREADS
===========================================================================
