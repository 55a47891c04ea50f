------------------------------ MODULE Harness -----------------------------
(***************************************************************************)
(* The master and the workers of grading.cpp: class Sync with its Latch    *)
(* (common.hpp), the loops of measure, and the barriers of                 *)
(* WorkloadBank::check (workload.hpp), which the workers run in the last   *)
(* round.  Work inside the transactional memory is reduced to its outcome: *)
(* no error, an error message, or an exception.                            *)
(*                                                                         *)
(* Every operation on status, nbready, errmsg and the latch is a step.     *)
(* The latch's mutex makes raise and each turn of wait atomic.             *)
(***************************************************************************)
EXTENDS Barrier

CONSTANTS
  First,       \* the worker with uid 0
  Last,        \* rounds: one of init, nbrepeats of run, one of check
  ThrowRounds, \* the rounds in which a workload may throw
  Timed        \* whether the master waits with a time limit

ASSUME HarnessAssumption ==
  /\ First \in Worker /\ Last \in Nat \ {0}
  /\ ThrowRounds \subseteq 1..Last /\ Timed \in BOOLEAN

VARIABLES
  status, nbready, errmsg, raised,  \* Sync; errmsg: whose message it is, if any
  mpc, started, error,              \* the master; error: what master_wait returned
  wpc, round, outcome               \* each worker
sync   == <<status, nbready, errmsg, raised>>
master == <<mpc, started, error>>
worker == <<wpc, round, outcome>>
vars == <<sync, master, worker, barrier>>

Status == {"Wait", "Run", "Abort", "Done", "Fail", "Quit"}
MasterPC == {"notify", "wait", "asleep", "result", "join", "joining", "end",
             "overrun", "unreachable"}
WorkerPC == {"await", "ready", "run!", "spin", "run", "errmsg", "abort", "count",
             "verdict", "Done", "Fail", "raise", "exited"}
Outcome == {"ok", "error", "throw"}

TypeOK ==
  /\ BarrierTypeOK
  /\ status \in Status /\ nbready \in 0..Cardinal /\ raised \in BOOLEAN
  /\ errmsg \subseteq Worker /\ error \subseteq Worker
  /\ mpc \in MasterPC /\ started \in 0..Last
  /\ wpc \in [Worker -> WorkerPC] /\ round \in [Worker -> 1..(Last + 1)]
  /\ outcome \in [Worker -> Outcome]

Init ==
  /\ status = "Done" /\ nbready = 0 /\ errmsg = {} /\ raised = FALSE
  /\ mpc = "notify" /\ started = 0 /\ error = {}
  /\ wpc = [w \in Worker |-> "await"]
  /\ round = [w \in Worker |-> 1]
  /\ outcome = [w \in Worker |-> "ok"]
  /\ BarrierInit

Goto(w, l) == wpc' = [wpc EXCEPT ![w] = l]

---------------------------------------------------------------------------
(* The master.                                                             *)

master_notify ==
  /\ mpc = "notify"
  /\ status' = "Wait"
  /\ started' = started + 1
  /\ mpc' = "wait"
  /\ UNCHANGED <<nbready, errmsg, raised, error, worker, barrier>>

\* One turn of Latch::wait: consume the latch or sleep.
LatchWait ==
  /\ mpc = "wait"
  /\ raised' = FALSE
  /\ mpc' = IF raised THEN "result" ELSE "asleep"
  /\ UNCHANGED <<status, nbready, errmsg, started, error, worker, barrier>>

\* The condition variable may wake by itself, or the time be up: then
\* master_wait throws, and main ends the process.
LatchWake ==
  /\ mpc = "asleep"
  /\ mpc' \in {"wait"} \cup (IF Timed THEN {"overrun"} ELSE {})
  /\ UNCHANGED <<sync, started, error, worker, barrier>>

\* A master that drops the message of a failure; and the switch of master_wait
\* with what measure makes of its result.
master_wait_NoMessage ==
  /\ mpc = "result"
  /\ mpc' = CASE status = "Done" /\ started < Last -> "notify"
              [] status \in {"Done", "Fail"} -> "join"
              [] OTHER -> "unreachable"
  /\ error' = {}
  /\ UNCHANGED <<sync, started, worker, barrier>>

master_wait ==
  /\ mpc = "result"
  /\ mpc' = CASE status = "Done" /\ started < Last -> "notify"
              [] status = "Done" /\ started = Last -> "join"
              [] status = "Fail" -> "join"
              [] OTHER -> "unreachable"
  /\ error' = IF status = "Fail" THEN errmsg ELSE {}
  /\ UNCHANGED <<sync, started, worker, barrier>>

master_join ==
  /\ mpc = "join"
  /\ status' = "Quit"
  /\ mpc' = "joining"
  /\ UNCHANGED <<nbready, errmsg, raised, started, error, worker, barrier>>

Join ==
  /\ mpc = "joining"
  /\ \A w \in Worker : wpc[w] = "exited"
  /\ mpc' = "end"
  /\ UNCHANGED <<sync, started, error, worker, barrier>>

---------------------------------------------------------------------------
(* Sync::worker_wait.                                                      *)

\* After an overrun Sync is gone with the stack frame of measure while the
\* workers still run; the process is about to end (quick_exit) and the model
\* does not follow it any further.
At(w, l) == wpc[w] = l /\ mpc # "overrun"

\* The first loop ends with Wait or with Quit.
WaitStatus(w) ==
  /\ At(w, "await") /\ status \in {"Wait", "Quit"}
  /\ Goto(w, IF status = "Quit" THEN "exited" ELSE "ready")
  /\ UNCHANGED <<sync, master, round, outcome, barrier>>

\* The last to be ready resets the counter ...
GetReady(w) ==
  /\ At(w, "ready")
  /\ nbready' = nbready + 1
  /\ Goto(w, IF nbready' = Cardinal THEN "run!" ELSE "spin")
  /\ UNCHANGED <<status, errmsg, raised, master, round, outcome, barrier>>

\* ... and sets the others going.  The counter is read by no one in between.
StartRun_NoReset(w) ==
  /\ At(w, "run!")
  /\ status' = "Run"
  /\ Goto(w, "run")
  /\ UNCHANGED <<nbready, errmsg, raised, master, round, outcome, barrier>>

StartRun(w) ==
  /\ At(w, "run!")
  /\ nbready' = 0
  /\ status' = "Run"
  /\ Goto(w, "run")
  /\ UNCHANGED <<errmsg, raised, master, round, outcome, barrier>>

SpinUntilRun_OnlyRun(w) ==
  /\ At(w, "spin") /\ status = "Run"
  /\ Goto(w, "run")
  /\ UNCHANGED <<sync, master, round, outcome, barrier>>

\* A slow worker may find that a fast one has already failed.
SpinUntilRun(w) ==
  /\ At(w, "spin") /\ status \in {"Run", "Abort"}
  /\ Goto(w, "run")
  /\ UNCHANGED <<sync, master, round, outcome, barrier>>

---------------------------------------------------------------------------
(* The workload.                                                           *)

\* What follows a workload that ended with o.
Report(w, o) ==
  /\ outcome' = [outcome EXCEPT ![w] = o]
  /\ Goto(w, IF o = "ok" THEN "count" ELSE "errmsg")

\* Workload::init and Workload::run; after the last round worker_wait must not
\* let a worker through any more, and the thread throws when it does.
Outcomes(w) ==
  IF round[w] > Last THEN {"throw"}
  ELSE {"ok", "error"} \cup (IF round[w] \in ThrowRounds THEN {"throw"} ELSE {})

Work(w) ==
  /\ At(w, "run") /\ round[w] # Last
  /\ \E o \in Outcomes(w) : Report(w, o)
  /\ UNCHANGED <<sync, master, round, barrier>>

\* WorkloadBank::check.  Before its second and after its third barrier only the
\* first worker uses the memory, between them all do; once something is wrong
\* a worker does no more than meet the others.
UsesMemory(w) ==
  /\ outcome[w] = "ok"
  /\ met[w] = 2 \/ (met[w] \in {1, 3} /\ w = First)

InCheck(w) == At(w, "run") /\ round[w] = Last /\ at[w] = "outside"

CheckMeet(w) ==
  /\ InCheck(w) /\ met[w] < 3
  /\ \E o \in {outcome[w]} \cup (IF UsesMemory(w) THEN {"error"} ELSE {}) :
       outcome' = [outcome EXCEPT ![w] = o]
  /\ Enter(w)
  /\ UNCHANGED <<sync, master, wpc, round>>

CheckReturn(w) ==
  /\ InCheck(w) /\ met[w] = 3
  /\ \E o \in {outcome[w]} \cup (IF UsesMemory(w) THEN {"error"} ELSE {}) :
       Report(w, o)
  /\ UNCHANGED <<sync, master, round, barrier>>

CheckThrow(w) ==
  /\ InCheck(w) /\ UsesMemory(w) /\ Last \in ThrowRounds
  /\ Report(w, "throw")
  /\ UNCHANGED <<sync, master, round, barrier>>

CheckSync(w) == At(w, "run") /\ Sync(w) /\ UNCHANGED <<sync, master, worker>>

---------------------------------------------------------------------------
(* Sync::worker_notify.                                                    *)

StoreError(w) ==
  /\ At(w, "errmsg")
  /\ errmsg' = {w}
  /\ Goto(w, "abort")
  /\ UNCHANGED <<status, nbready, raised, master, round, outcome, barrier>>

StoreAbort(w) ==
  /\ At(w, "abort")
  /\ status' = "Abort"
  /\ Goto(w, "count")
  /\ UNCHANGED <<nbready, errmsg, raised, master, round, outcome, barrier>>

\* The worker's next round; its thread ends if the workload has thrown.
NextRound(w) ==
  /\ Goto(w, IF outcome[w] = "throw" THEN "exited" ELSE "await")
  /\ round' = [round EXCEPT ![w] = @ + 1]

CountDone(w) ==
  /\ At(w, "count")
  /\ nbready' = nbready + 1
  /\ \/ nbready' # Cardinal /\ NextRound(w)
     \/ nbready' = Cardinal /\ Goto(w, "verdict") /\ UNCHANGED round
  /\ UNCHANGED <<status, errmsg, raised, master, outcome, barrier>>

\* The last to be done resets the counter and loads the status ...
LoadVerdict(w) ==
  /\ At(w, "verdict")
  /\ nbready' = 0
  /\ Goto(w, IF status = "Abort" THEN "Fail" ELSE "Done")
  /\ UNCHANGED <<status, errmsg, raised, master, round, outcome, barrier>>

\* ... stores what it means ...
StoreVerdict_AlwaysDone(w) ==
  /\ At(w, "Done") \/ At(w, "Fail")
  /\ status' = "Done"
  /\ Goto(w, "raise")
  /\ UNCHANGED <<nbready, errmsg, raised, master, round, outcome, barrier>>

StoreVerdict(w) ==
  /\ At(w, "Done") \/ At(w, "Fail")
  /\ status' = wpc[w]
  /\ Goto(w, "raise")
  /\ UNCHANGED <<nbready, errmsg, raised, master, round, outcome, barrier>>

\* ... and raises the latch, which wakes the master.
LatchRaise(w) ==
  /\ At(w, "raise")
  /\ raised' = TRUE
  /\ mpc' = IF mpc = "asleep" THEN "wait" ELSE mpc
  /\ NextRound(w)
  /\ UNCHANGED <<status, nbready, errmsg, started, error, outcome, barrier>>

---------------------------------------------------------------------------
MasterStep == master_notify \/ LatchWait \/ master_wait \/ master_join \/ Join

WorkerStep(w) ==
  \/ WaitStatus(w) \/ GetReady(w) \/ StartRun(w) \/ SpinUntilRun(w)
  \/ Work(w) \/ CheckMeet(w) \/ CheckReturn(w) \/ CheckThrow(w) \/ CheckSync(w)
  \/ StoreError(w) \/ StoreAbort(w) \/ CountDone(w)
  \/ LoadVerdict(w) \/ StoreVerdict(w) \/ LatchRaise(w)

MeasureStep == MasterStep \/ LatchWake \/ \E w \in Worker : WorkerStep(w)

---------------------------------------------------------------------------
(* The harness implements Rounds.                                          *)

Past(w, before) == round[w] > started \/ wpc[w] \notin before
ReadyWorkers == {w \in Worker : Past(w, {"await", "ready"})}
DoneWorkers == {w \in Worker : Past(w, {"await", "ready", "run!", "spin", "run"})}

R == INSTANCE Rounds WITH
       phase   <- CASE mpc = "notify" -> "start"
                    [] mpc \in {"join", "joining", "end"} -> "over"
                    [] OTHER -> "run",
       round   <- started,
       ready   <- ReadyWorkers,
       done    <- DoneWorkers,
       bad     <- {w \in DoneWorkers : outcome[w] # "ok"},
       verdict <- IF mpc \notin {"join", "joining", "end"} THEN "none"
                  ELSE IF error = {} THEN "pass" ELSE "fail"

\* Rounds never overlap, no worker starts before all are ready, and the verdict
\* of the master is that of the workers (class Sync, grading.cpp:41-139).
ImplementsRounds == R!Spec

\* A worker has left the check by an exception before its last barrier.
LeftCheck ==
  started = Last /\ \E w \in Worker : outcome[w] = "throw" /\ met[w] < 3
===========================================================================
