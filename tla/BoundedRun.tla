---------------------------- MODULE BoundedRun ----------------------------
(***************************************************************************)
(* bounded_run of common.hpp: a caller gives a function to a thread of its *)
(* own, the runner, and waits for its notification at most for a given     *)
(* time.  The caller holds the mutex from before the runner exists.        *)
(***************************************************************************)
VARIABLES
  bpc,      \* the caller
  rpc,      \* the runner; "unborn" before it is started
  guard,    \* who holds the mutex: "caller", "runner" or "free"
  late      \* whether the time is up
bounded == <<bpc, rpc, guard, late>>

CallerPC == {"outside", "start", "wait", "asleep", "woken", "join", "returned", "threw"}
RunnerPC == {"unborn", "func", "lock", "notify", "finished", "threw"}

BoundedTypeOK ==
  /\ bpc \in CallerPC /\ rpc \in RunnerPC
  /\ guard \in {"caller", "runner", "free"} /\ late \in BOOLEAN

BoundedInit == bpc = "outside" /\ rpc = "unborn" /\ guard = "free" /\ late = FALSE

\* The call: a new mutex, taken at once.
BoundedCall ==
  /\ bpc' = "start" /\ guard' = "caller"
  /\ rpc' = "unborn" /\ late' = FALSE

StartRunner ==
  /\ bpc = "start"
  /\ bpc' = "wait"
  /\ rpc' = "func"
  /\ UNCHANGED <<guard, late>>

\* wait_for gives the mutex back and sleeps in one step.
WaitFor ==
  /\ bpc = "wait"
  /\ bpc' = "asleep" /\ guard' = "free"
  /\ UNCHANGED <<rpc, late>>

TimeUp ==
  /\ bpc \in {"wait", "asleep", "woken"} /\ ~ late
  /\ late' = TRUE
  /\ UNCHANGED <<bpc, rpc, guard>>

\* The end of the time wakes the caller, ...
WakeLate ==
  /\ bpc = "asleep" /\ late
  /\ bpc' = "woken"
  /\ UNCHANGED <<rpc, guard, late>>

\* ... and the condition variable may wake it for no reason.
WakeSpuriously ==
  /\ bpc = "asleep" /\ ~ late
  /\ bpc' = "woken"
  /\ UNCHANGED <<rpc, guard, late>>

\* Once it has the mutex again wait_for looks at the clock only: the caller
\* does not know whether the runner has notified it.
Reacquire ==
  /\ bpc = "woken" /\ guard = "free"
  /\ guard' = "caller"
  /\ bpc' = IF late THEN "threw" ELSE "join"
  /\ UNCHANGED <<rpc, late>>

JoinRunner ==
  /\ bpc = "join" /\ rpc = "finished"
  /\ bpc' = "returned" /\ guard' = "free"
  /\ UNCHANGED <<rpc, late>>

\* The runner: the function returns, or an exception leaves it.  It may also do
\* neither.
FuncEnds(how) ==
  /\ rpc = "func"
  /\ rpc' = how
  /\ UNCHANGED <<bpc, guard, late>>

\* A runner that notifies without the mutex; and the one of the code.  After the
\* caller has left, the mutex is gone with its stack frame; the model does not
\* follow the runner into it.
RunnerLock_None ==
  /\ rpc = "lock" /\ bpc # "threw"
  /\ rpc' = "notify"
  /\ UNCHANGED <<bpc, guard, late>>

RunnerLock ==
  /\ rpc = "lock" /\ guard = "free" /\ bpc # "threw"
  /\ guard' = "runner"
  /\ rpc' = "notify"
  /\ UNCHANGED <<bpc, late>>

RunnerNotify ==
  /\ rpc = "notify"
  /\ bpc' = IF bpc = "asleep" THEN "woken" ELSE bpc
  /\ guard' = "free"
  /\ rpc' = "finished"
  /\ UNCHANGED late

Caller == StartRunner \/ WaitFor \/ WakeLate \/ Reacquire \/ JoinRunner
Runner == RunnerLock \/ RunnerNotify
BoundedStep == Caller \/ Runner \/ TimeUp \/ WakeSpuriously

---------------------------------------------------------------------------
\* The notification is never lost: a caller that sleeps can still be notified.
\* The code takes the mutex before it starts the runner (common.hpp:272-276),
\* because the condition variable does not remember.
NotifiedIsAwake == bpc = "asleep" => rpc \in {"func", "lock", "notify", "threw"}

\* The caller has been woken by nobody.  It holds the mutex while it joins the
\* runner, which cannot end without the mutex.
WokenByNobody == bpc = "join" /\ rpc \in {"func", "lock"}

\* common.hpp:265: bounded_run is to "Run some function for some bounded time",
\* and to throw on overtime.
Bounded == [](bpc = "start" => <>(bpc \in {"returned", "threw"} \/ rpc = "threw"))
===========================================================================
