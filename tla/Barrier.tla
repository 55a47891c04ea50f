------------------------------ MODULE Barrier -----------------------------
(***************************************************************************)
(* The spin barrier of common.hpp: one counter that runs up while threads  *)
(* enter and down while they leave, and a mode that the last one flips.    *)
(* Each atomic operation on step or mode is a step; a spinning load that   *)
(* does not see what it waits for changes nothing.                         *)
(***************************************************************************)
EXTENDS Naturals, FiniteSets

CONSTANT Worker
ASSUME WorkerAssumption == IsFiniteSet(Worker) /\ Worker # {}

Cardinal == Cardinality(Worker)

VARIABLES
  step, mode,   \* the fields
  at,           \* where each thread is in sync()
  met           \* how many calls of sync() each has completed
barrier == <<step, mode, at, met>>

Place == {"outside", "open", "entered", "leave", "close", "left"}

BarrierTypeOK ==
  /\ step \in 0..Cardinal
  /\ mode \in {"enter", "leave"}
  /\ at \in [Worker -> Place]
  /\ met \in [Worker -> Nat]

BarrierInit ==
  /\ step = 0 /\ mode = "enter"
  /\ at = [w \in Worker |-> "outside"]
  /\ met = [w \in Worker |-> 0]

Move(w, p) == at' = [at EXCEPT ![w] = p]
Return(w) == Move(w, "outside") /\ met' = [met EXCEPT ![w] = @ + 1]

\* fetch_add: the last one in goes on to open the way out.
Enter(w) ==
  /\ at[w] = "outside"
  /\ step' = step + 1
  /\ Move(w, IF step' = Cardinal THEN "open" ELSE "entered")
  /\ UNCHANGED <<mode, met>>

Open(w) ==
  /\ at[w] = "open"
  /\ mode' = "leave"
  /\ Move(w, "leave")
  /\ UNCHANGED <<step, met>>

SeeLeave(w) ==
  /\ at[w] = "entered" /\ mode = "leave"
  /\ Move(w, "leave")
  /\ UNCHANGED <<step, mode, met>>

\* A barrier without its second half: a thread that leaves returns at once.
Leave_AtOnce(w) ==
  /\ at[w] = "leave"
  /\ step' = step - 1
  /\ mode' = IF step' = 0 THEN "enter" ELSE mode
  /\ Return(w)

\* fetch_sub: the last one out goes on to close it again.
Leave(w) ==
  /\ at[w] = "leave"
  /\ step' = step - 1
  /\ Move(w, IF step' = 0 THEN "close" ELSE "left")
  /\ UNCHANGED <<mode, met>>

Close(w) ==
  /\ at[w] = "close"
  /\ mode' = "enter"
  /\ Return(w)
  /\ UNCHANGED step

SeeEnter(w) ==
  /\ at[w] = "left" /\ mode = "enter"
  /\ Return(w)
  /\ UNCHANGED <<step, mode>>

\* What a call of sync() does once it has begun.
Sync(w) == Open(w) \/ SeeLeave(w) \/ Leave(w) \/ Close(w) \/ SeeEnter(w)

BarrierNext == \E w \in Worker : Enter(w) \/ Sync(w)
BarrierSpec == BarrierInit /\ [][BarrierNext]_barrier

---------------------------------------------------------------------------
\* No thread returns from its n-th sync() before all have called it n times:
\* one that is behind is so by one, and inside.  WorkloadBank::check uses the
\* barrier three times in a row.
Meeting ==
  \A v, w \in Worker :
    met[v] > met[w] => met[v] = met[w] + 1 /\ at[w] # "outside"
===========================================================================
