------------------------------ MODULE Grading -----------------------------
(***************************************************************************)
(* The program grading for one library: load it, create the shared memory  *)
(* (the constructor of WorkloadBank, by bounded_run), measure, destroy the *)
(* memory (by bounded_run again), unload the library.  Harness models      *)
(* measure and BoundedRun both bounded_run's.                              *)
(***************************************************************************)
EXTENDS Harness, BoundedRun

VARIABLES
  stage,   \* where main is
  loaded,  \* whether the library is mapped into the process
  code     \* how the process ended
program == <<stage, loaded, code>>
gvars == <<vars, bounded, program>>

GradingTypeOK ==
  /\ TypeOK /\ BoundedTypeOK
  /\ stage \in {"load", "create", "measure", "destroy", "over"}
  /\ loaded \in BOOLEAN
  /\ code \in {"none", "return 0", "return 1", "quick_exit", "terminate"}

GInit == Init /\ BoundedInit /\ stage = "load" /\ loaded = FALSE /\ code = "none"

End(c) == stage' = "over" /\ code' = c

\* The constructor of TransactionalLibrary, then that of TransactionalMemory.
Load ==
  /\ stage = "load"
  /\ \/ End("return 1") /\ UNCHANGED <<loaded, bounded>>
     \/ stage' = "create" /\ loaded' = TRUE /\ BoundedCall /\ UNCHANGED code
  /\ UNCHANGED vars

\* tm_create returns; or it has failed, and the exception that says so leaves
\* the runner's function and ends the process there and then.
tm_create ==
  /\ stage = "create"
  /\ \/ FuncEnds("lock") /\ UNCHANGED program
     \/ FuncEnds("threw") /\ End("terminate") /\ UNCHANGED loaded
  /\ UNCHANGED vars

Created ==
  /\ stage = "create" /\ bpc = "returned"
  /\ stage' = "measure"
  /\ UNCHANGED <<loaded, code, vars, bounded>>

\* The exception of a late tm_create passes the inner try by; the library is
\* unloaded on the way to the outer one.
CreateOverrun ==
  /\ stage = "create" /\ bpc = "threw"
  /\ End("return 1")
  /\ loaded' = FALSE
  /\ UNCHANGED <<vars, bounded>>

\* Both ways out of a finished measurement destroy the memory.
Measured ==
  /\ stage = "measure" /\ mpc = "end"
  /\ stage' = "destroy"
  /\ BoundedCall
  /\ UNCHANGED <<loaded, code, vars>>

MeasureOverrun_Return ==
  /\ stage = "measure" /\ mpc = "overrun"
  /\ End("return 1")
  /\ loaded' = FALSE
  /\ UNCHANGED <<vars, bounded>>

MeasureOverrun ==
  /\ stage = "measure" /\ mpc = "overrun"
  /\ End("quick_exit")
  /\ UNCHANGED <<loaded, vars, bounded>>

tm_destroy ==
  /\ stage = "destroy"
  /\ FuncEnds("lock")
  /\ UNCHANGED <<vars, program>>

Destroyed ==
  /\ stage = "destroy" /\ bpc = "returned"
  /\ End(IF error = {} THEN "return 0" ELSE "return 1")
  /\ loaded' = FALSE
  /\ UNCHANGED <<vars, bounded>>

\* The destructor is noexcept.
DestroyOverrun ==
  /\ stage = "destroy" /\ bpc = "threw"
  /\ End("terminate")
  /\ UNCHANGED <<loaded, vars, bounded>>

---------------------------------------------------------------------------
MainStep ==
  \/ Load \/ Created \/ CreateOverrun
  \/ Measured \/ MeasureOverrun
  \/ Destroyed \/ DestroyOverrun

InBounded(A) == stage \in {"create", "destroy"} /\ A /\ UNCHANGED <<vars, program>>
InMeasure(A) == stage = "measure" /\ A /\ UNCHANGED <<bounded, program>>

GNext ==
  \/ MainStep
  \/ tm_create \/ tm_destroy
  \/ InBounded(BoundedStep)
  \/ InMeasure(MeasureStep)
  \/ stage = "over" /\ UNCHANGED gvars

GSpec == GInit /\ [][GNext]_gvars

\* All threads keep running, time passes, and every call of the workload
\* returns.  Nothing is assumed of tm_create and tm_destroy, of the time limits
\* of measure, and of spurious wakeups.
FairGSpec ==
  /\ GSpec
  /\ WF_gvars(MainStep)
  /\ WF_gvars(InBounded(Caller)) /\ WF_gvars(InBounded(Runner))
  /\ WF_gvars(InBounded(TimeUp))
  /\ WF_gvars(InMeasure(MasterStep))
  /\ \A w \in Worker : WF_gvars(InMeasure(WorkerStep(w)))

---------------------------------------------------------------------------
\* The program ends, whatever the library does, the workloads report or the
\* threads throw, but for two hazards: a bounded_run that was woken by nobody,
\* and a worker that leaves the check before its last barrier.  None of the
\* waits for status, nbready, the latch or the barrier is in vain.
GradingEnds == <>(stage = "over" \/ WokenByNobody \/ LeftCheck)

\* The exit code is the verdict on the library: 0 only if all rounds were run
\* and no worker reported anything, 1 only if one did or the memory was never
\* made (grading.cpp:314-318, 351).
ExitCode ==
  /\ code = "return 0" => /\ started = Last
                          /\ \A w \in Worker : outcome[w] = "ok" /\ met[w] = 3
  /\ code = "return 1" => \/ started = 0
                          \/ \E w \in Worker : outcome[w] # "ok"

\* grading.cpp:341: "cannot unload library with running threads".  The library
\* is unloaded only when no thread is inside it - unless tm_create came late:
\* then the runner is.
UnloadsIdle ==
  stage = "over" /\ ~ loaded =>
    /\ started > 0 => \A w \in Worker : wpc[w] = "exited"
    /\ rpc = "func" => bpc = "threw" /\ started = 0
===========================================================================
