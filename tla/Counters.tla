------------------------------ MODULE Counters ----------------------------
(***************************************************************************)
(* counter1.c to counter4.c, and the program of src/playground with the    *)
(* empty lock it is shipped with: threads that increment one counter.      *)
(* The plain increments are a load and a store, which is how they are      *)
(* built (no optimisation in sync-examples/Makefile; one non-atomic        *)
(* instruction in the playground).                                         *)
(***************************************************************************)
EXTENDS SyncLock

VARIABLES counter, check_counter, local
counters == <<counter, check_counter, local>>

CounterInit ==
  /\ counter = 0 /\ check_counter = 0
  /\ local = [t \in Thread |-> 0]

Load(t, from, to) ==
  /\ Step(t, from, to)
  /\ local' = [local EXCEPT ![t] = counter]
  /\ UNCHANGED <<counter, check_counter, lock>>

Store(t, from, to) ==
  /\ Step(t, from, to)
  /\ counter' = local[t] + 1
  /\ local' = [local EXCEPT ![t] = 0]
  /\ UNCHANGED <<check_counter, lock>>

---------------------------------------------------------------------------
count1(t) == Load(t, "round", "store") \/ Store(t, "store", "next")

count2(t) ==
  \/ Step(t, "round", "load") /\ lock_acquire(t) /\ UNCHANGED counters
  \/ Load(t, "load", "store")
  \/ Store(t, "store", "unlock")
  \/ Step(t, "unlock", "next") /\ lock_release(t) /\ UNCHANGED counters

\* The variable is atomic, the increment is not.
count3(t) == Load(t, "round", "store") \/ Store(t, "store", "next")

count4_TwoSteps(t) == Load(t, "round", "store") \/ Store(t, "store", "next")

count4(t) ==
  /\ Step(t, "round", "next")
  /\ counter' = counter + 1
  /\ UNCHANGED <<check_counter, local, lock>>

\* Lock::lock and Lock::unlock do nothing; shared_access counts twice.
shared_access(t) ==
  \/ Load(t, "round", "store")
  \/ Store(t, "store", "check")
  \/ /\ Step(t, "check", "next")
     /\ check_counter' = check_counter + 1
     /\ UNCHANGED <<counter, local, lock>>

shared_check == counter = check_counter
Counted == counter = RUNS * THREADS

---------------------------------------------------------------------------
Threads(correct) == Run(THREADS, correct) /\ UNCHANGED counters

\* Process p of each program: main, or one of its threads.
counter1(p) == IF p = Main THEN Threads(Counted) ELSE count1(p)
counter2(p) == IF p = Main THEN Threads(Counted) ELSE count2(p)
counter3(p) == IF p = Main THEN Threads(Counted) ELSE count3(p)
counter4(p) == IF p = Main THEN Threads(Counted) ELSE count4(p)
playground(p) == IF p = Main THEN Threads(shared_check) ELSE shared_access(p)

CounterPrograms == {"counter1", "counter2", "counter3", "counter4", "playground"}

CounterStep(p) ==
  \/ program = "counter1" /\ counter1(p)
  \/ program = "counter2" /\ counter2(p)
  \/ program = "counter3" /\ counter3(p)
  \/ program = "counter4" /\ counter4(p)
  \/ program = "playground" /\ playground(p)

---------------------------------------------------------------------------
\* README.md of sync-examples: the programs with a lock and with fetch-and-add
\* count every increment.  The others may lose most of them, and the playground
\* says so exactly when it has happened, but two survive whatever the schedule
\* (a thread's last store builds on what another thread's first one left).
CounterBounds ==
  verdict # "none" /\ program \in CounterPrograms =>
    /\ program \in {"counter2", "counter4"} => verdict = "correct"
    /\ counter \in (IF RUNS = 1 THEN 1 ELSE 2)..(RUNS * THREADS)
    /\ program = "playground" => check_counter = RUNS * THREADS
===========================================================================
