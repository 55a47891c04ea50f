------------------------------ MODULE SyncLock ----------------------------
(***************************************************************************)
(* What the programs of src/sync-examples share: the lock of lock.c (a     *)
(* mutex and a condition variable), a main that starts threads, joins them *)
(* and judges the result, and threads that run RUNS rounds of a loop.      *)
(*                                                                         *)
(* A thread at label "round" is at the head of its loop.  Step moves it    *)
(* from label to label; "next" stands for the end of the loop's body.      *)
(***************************************************************************)
EXTENDS Naturals, FiniteSets

CONSTANTS THREADS, RUNS
ASSUME SyncAssumption == THREADS \in Nat \ {0, 1} /\ RUNS \in Nat \ {0}

Thread == 1..THREADS
Main == 0
NoThread == 0

VARIABLES
  program,           \* the program this process runs
  created, verdict,  \* main: threads started so far, what it prints at the end
  pc, round,         \* each thread's place in its loop, and the loop's counter
  owner, asleep      \* lock_t: holder of the mutex, threads that wait on cv
main == <<program, created, verdict>>
threads == <<pc, round>>
lock == <<owner, asleep>>

SyncTypeOK ==
  /\ created \in 0..THREADS /\ verdict \in {"none", "correct", "wrong"}
  /\ round \in [Thread -> 0..RUNS]
  /\ owner \in {NoThread} \cup Thread /\ asleep \subseteq Thread

lock_init == owner = NoThread /\ asleep = {}

SyncInit ==
  /\ created = 0 /\ verdict = "none"
  /\ pc = [t \in Thread |-> "round"] /\ round = [t \in Thread |-> 0]
  /\ lock_init

---------------------------------------------------------------------------
Goto(t, to) ==
  /\ round' = [round EXCEPT ![t] = IF to = "next" THEN @ + 1 ELSE @]
  /\ pc' = [pc EXCEPT ![t] = IF to # "next" THEN to
                             ELSE IF round[t] + 1 = RUNS THEN "exited" ELSE "round"]

Step(t, from, to) ==
  t <= created /\ pc[t] = from /\ Goto(t, to) /\ UNCHANGED main

lock_acquire(t) == owner = NoThread /\ owner' = t /\ UNCHANGED asleep
lock_release(t) == owner' = NoThread /\ UNCHANGED asleep

\* lock_wait gives the mutex back and sleeps in one step.
lock_wait(t) == owner' = NoThread /\ asleep' = asleep \cup {t}

\* Woken up, the thread is still inside lock_wait until it has the mutex again.
lock_awake(t) == t \notin asleep /\ lock_acquire(t)

lock_wake_up == asleep' = {} /\ UNCHANGED owner

\* pthread_cond_wait may return without a broadcast.
Spurious ==
  /\ \E t \in asleep : asleep' = asleep \ {t}
  /\ UNCHANGED <<main, threads, owner>>

---------------------------------------------------------------------------
\* A main that starts one thread too many; and main with n threads: start them
\* one after the other, join them, judge.
Run_OneMore(n, correct) ==
  /\ \/ created <= n /\ created' = created + 1 /\ UNCHANGED verdict
     \/ /\ created = n /\ verdict = "none"
        /\ \A t \in 1..n : pc[t] = "exited"
        /\ verdict' = IF correct THEN "correct" ELSE "wrong"
        /\ UNCHANGED created
  /\ UNCHANGED <<program, threads, lock>>

Run(n, correct) ==
  /\ \/ created < n /\ created' = created + 1 /\ UNCHANGED verdict
     \/ /\ created = n /\ verdict = "none"
        /\ \A t \in 1..n : pc[t] = "exited"
        /\ verdict' = IF correct THEN "correct" ELSE "wrong"
        /\ UNCHANGED created
  /\ UNCHANGED <<program, threads, lock>>
===========================================================================
