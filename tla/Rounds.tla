------------------------------- MODULE Rounds -----------------------------
(***************************************************************************)
(* What Sync and the loops of measure in grading.cpp promise together: the *)
(* master starts a round, all workers get ready, none starts its work      *)
(* before all are ready, and the master goes on when all are done - to the *)
(* next round, or, after the last one or a failure, to the verdict.        *)
(***************************************************************************)
EXTENDS Naturals

CONSTANTS Worker, Last   \* Last: the number of rounds
VARIABLES
  phase,   \* "start": the master may start a round; "run"; "over"
  round,   \* how many rounds have been started
  ready, done,   \* the workers ready for the round, and done with it
  bad,     \* the workers that failed in it
  verdict  \* what the master reports
rvars == <<phase, round, ready, done, bad, verdict>>

Init ==
  /\ phase = "start" /\ round = 0 /\ verdict = "none"
  /\ ready = Worker /\ done = Worker /\ bad = {}

Start ==
  /\ phase = "start"
  /\ phase' = "run"
  /\ round' = round + 1
  /\ ready' = {} /\ done' = {} /\ bad' = {}
  /\ UNCHANGED verdict

Ready(w) ==
  /\ phase = "run" /\ w \notin ready
  /\ ready' = ready \cup {w}
  /\ UNCHANGED <<phase, round, done, bad, verdict>>

Work(w) ==
  /\ phase = "run" /\ ready = Worker /\ w \notin done
  /\ done' = done \cup {w}
  /\ bad' \in {bad, bad \cup {w}}
  /\ UNCHANGED <<phase, round, ready, verdict>>

Finish ==
  /\ phase = "run" /\ done = Worker
  /\ \/ /\ bad = {} /\ round < Last
        /\ phase' = "start"
        /\ UNCHANGED verdict
     \/ /\ bad # {} \/ round = Last
        /\ phase' = "over"
        /\ verdict' = IF bad = {} THEN "pass" ELSE "fail"
  /\ UNCHANGED <<round, ready, done, bad>>

Next == Start \/ Finish \/ \E w \in Worker : Ready(w) \/ Work(w)
Spec == Init /\ [][Next]_rvars
===========================================================================
