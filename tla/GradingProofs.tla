--------------------------- MODULE GradingProofs --------------------------
(***************************************************************************)
(* Proofs about the grading program: its barrier, class Sync and the       *)
(* rounds of measure, bounded_run, and how the process ends.               *)
(***************************************************************************)
EXTENDS Grading, FiniteSetTheorems, TLAPS

(* Counting workers.                                                       *)

LEMMA CardinalType == Cardinal \in Nat \ {0}
BY WorkerAssumption, FS_CardinalityType, FS_EmptySet DEF Cardinal

LEMMA CountType ==
  ASSUME NEW S, S \subseteq Worker
  PROVE  /\ Cardinality(S) \in 0..Cardinal
         /\ Cardinality(S) = 0 <=> S = {}
         /\ Cardinality(S) = Cardinal <=> S = Worker
<1>1. IsFiniteSet(S) /\ Cardinality(S) <= Cardinal /\ (Cardinality(S) = Cardinal => S = Worker)
  BY WorkerAssumption, FS_Subset DEF Cardinal
<1> QED BY <1>1, CardinalType, FS_CardinalityType, FS_EmptySet DEF Cardinal

LEMMA CountOneMore ==
  ASSUME NEW S, S \subseteq Worker, NEW w \in Worker, w \notin S
  PROVE  Cardinality(S \cup {w}) = Cardinality(S) + 1
BY WorkerAssumption, FS_Subset, FS_AddElement

LEMMA CountOneLess ==
  ASSUME NEW S, S \subseteq Worker, NEW w \in S
  PROVE  Cardinality(S \ {w}) = Cardinality(S) - 1
BY WorkerAssumption, FS_Subset, FS_RemoveElement

---------------------------------------------------------------------------
(* The barrier.                                                            *)

\* step counts those that have entered and not yet begun to leave.
Counted == {w \in Worker : at[w] \in {"open", "entered", "leave"}}

\* While the barrier is closed a thread still on its way out is one meeting
\* behind; while it is open no one is outside, and all have met equally often.
BarrierInv ==
  /\ BarrierTypeOK
  /\ step = Cardinality(Counted)
  /\ \E m \in Nat : \A w \in Worker :
       met[w] + (IF mode = "enter" /\ at[w] = "left" THEN 1 ELSE 0) = m
  /\ mode = "enter" => \A w \in Worker : at[w] \in {"outside", "left", "entered", "open"}
  /\ mode = "leave" => \A w \in Worker : at[w] \in {"entered", "leave", "left", "close"}
  /\ \A w \in Worker : at[w] = "open" => step = Cardinal
  /\ \A w \in Worker : at[w] = "close" => step = 0
  /\ \A v, w \in Worker : at[v] = at[w] /\ at[v] \in {"open", "close"} => v = w

LEMMA BarrierInvInit == BarrierInit => BarrierInv
<1> SUFFICES ASSUME BarrierInit PROVE BarrierInv
  OBVIOUS
<1>1. Counted = {}
  BY DEF BarrierInit, Counted
<1>2. BarrierTypeOK /\ step = Cardinality(Counted)
  BY <1>1, CardinalType, CountType DEF BarrierInit, BarrierTypeOK, Place
<1>3. \A w \in Worker : met[w] + (IF mode = "enter" /\ at[w] = "left" THEN 1 ELSE 0) = 0
  BY DEF BarrierInit
<1> QED BY <1>2, <1>3 DEF BarrierInit, BarrierInv

LEMMA EnterInv == ASSUME BarrierInv, NEW w \in Worker, Enter(w) PROVE BarrierInv'
<1>1. /\ BarrierTypeOK /\ mode = "enter" /\ at[w] = "outside"
      /\ UNCHANGED <<mode, met>> /\ step' = step + 1
      /\ at' = [at EXCEPT ![w] = IF step + 1 = Cardinal THEN "open" ELSE "entered"]
  BY DEF BarrierInv, BarrierTypeOK, Enter, Move
<1>2. /\ Counted \subseteq Worker /\ w \notin Counted /\ Counted' = Counted \cup {w}
      /\ \A v \in Worker \ {w} : at'[v] = at[v]
      /\ at'[w] = IF step + 1 = Cardinal THEN "open" ELSE "entered"
  BY <1>1 DEF Counted, BarrierTypeOK
<1>3. step' = Cardinality(Counted')
  BY <1>1, <1>2, CountOneMore DEF BarrierInv
<1>4. step # Cardinal /\ \A v \in Worker : at[v] # "open"
  BY <1>2, CountType DEF BarrierInv
<1>5. BarrierTypeOK'
  BY <1>1, <1>2, <1>3, CountType DEF BarrierTypeOK, Place
<1> QED BY <1>1, <1>2, <1>3, <1>4, <1>5 DEF BarrierInv

LEMMA SyncInv == ASSUME BarrierInv, NEW w \in Worker, Sync(w) PROVE BarrierInv'
<1>1. BarrierTypeOK /\ Counted \subseteq Worker /\ Cardinal \in Nat \ {0}
  BY CardinalType DEF BarrierInv, Counted
<1> USE DEF Move, Return
<1>2. CASE Open(w)
  <2>1. /\ mode = "enter" /\ at[w] = "open" /\ mode' = "leave" /\ UNCHANGED <<step, met>>
        /\ at'[w] = "leave" /\ \A v \in Worker \ {w} : at'[v] = at[v]
    BY <1>1, <1>2 DEF BarrierInv, BarrierTypeOK, Open
  <2>2. Counted' = Counted
    BY <2>1 DEF Counted
  <2>3. Counted = Worker
    BY <1>1, <2>1, CountType DEF BarrierInv
  <2>4. \A v \in Worker \ {w} : at[v] = "entered"
    BY <2>1, <2>3 DEF BarrierInv, Counted
  <2>5. BarrierTypeOK'
    BY <1>1, <1>2 DEF BarrierTypeOK, Open, Place
  <2>6. \E m \in Nat : \A v \in Worker :
          met'[v] + (IF mode' = "enter" /\ at'[v] = "left" THEN 1 ELSE 0) = m
    BY <2>1, <2>4 DEF BarrierInv
  <2> QED BY <2>1, <2>2, <2>4, <2>5, <2>6 DEF BarrierInv
<1>3. CASE SeeLeave(w)
  <2>1. /\ mode = "leave" /\ at[w] = "entered" /\ UNCHANGED <<step, mode, met>>
        /\ at'[w] = "leave" /\ \A v \in Worker \ {w} : at'[v] = at[v]
    BY <1>1, <1>3 DEF BarrierTypeOK, SeeLeave
  <2>2. Counted' = Counted
    BY <2>1 DEF Counted
  <2>3. BarrierTypeOK'
    BY <1>1, <1>3 DEF BarrierTypeOK, SeeLeave, Place
  <2> QED BY <2>1, <2>2, <2>3 DEF BarrierInv
<1>4. CASE Leave(w)
  <2>1. /\ mode = "leave" /\ at[w] = "leave" /\ UNCHANGED <<mode, met>> /\ step' = step - 1
        /\ at' = [at EXCEPT ![w] = IF step - 1 = 0 THEN "close" ELSE "left"]
    BY <1>1, <1>4 DEF BarrierInv, BarrierTypeOK, Leave
  <2>2. /\ w \in Counted /\ Counted' = Counted \ {w}
        /\ \A v \in Worker \ {w} : at'[v] = at[v]
        /\ at'[w] = IF step - 1 = 0 THEN "close" ELSE "left"
    BY <1>1, <2>1 DEF Counted, BarrierTypeOK
  <2>3. step' = Cardinality(Counted')
    BY <1>1, <2>1, <2>2, CountOneLess DEF BarrierInv
  <2>4. step # 0 /\ \A v \in Worker : at[v] # "close"
    BY <1>1, <2>2, CountType DEF BarrierInv
  <2>5. BarrierTypeOK'
    BY <1>1, <2>1, <2>2, <2>3, CountType DEF BarrierTypeOK, Place
  <2> QED BY <2>1, <2>2, <2>3, <2>4, <2>5 DEF BarrierInv
<1>5. CASE Close(w)
  <2>1. /\ mode = "leave" /\ at[w] = "close" /\ mode' = "enter" /\ UNCHANGED step /\ step = 0
        /\ at'[w] = "outside" /\ met'[w] = met[w] + 1
        /\ \A v \in Worker \ {w} : at'[v] = at[v] /\ met'[v] = met[v]
    BY <1>1, <1>5 DEF BarrierInv, BarrierTypeOK, Close
  <2>2. Counted = {} /\ Counted' = {}
    BY <1>1, <2>1, CountType DEF BarrierInv, Counted
  <2>3. \A v \in Worker \ {w} : at[v] = "left"
    BY <2>1, <2>2 DEF BarrierInv, Counted
  <2>4. BarrierTypeOK'
    BY <1>1, <1>5 DEF BarrierTypeOK, Close, Place
  <2>5. \E m \in Nat : \A v \in Worker :
          met'[v] + (IF mode' = "enter" /\ at'[v] = "left" THEN 1 ELSE 0) = m
    <3>1. PICK m \in Nat : \A v \in Worker : met[v] = m
      BY <1>1, <2>1 DEF BarrierInv, BarrierTypeOK
    <3> QED BY <2>1, <2>3, <3>1
  <2> QED BY <2>1, <2>2, <2>3, <2>4, <2>5 DEF BarrierInv
<1>6. CASE SeeEnter(w)
  <2>1. /\ mode = "enter" /\ at[w] = "left" /\ UNCHANGED <<step, mode>>
        /\ at'[w] = "outside" /\ met'[w] = met[w] + 1
        /\ \A v \in Worker \ {w} : at'[v] = at[v] /\ met'[v] = met[v]
    BY <1>1, <1>6 DEF BarrierTypeOK, SeeEnter
  <2>2. Counted' = Counted
    BY <2>1 DEF Counted
  <2>3. BarrierTypeOK'
    BY <1>1, <1>6 DEF BarrierTypeOK, SeeEnter, Place
  <2>4. \E m \in Nat : \A v \in Worker :
          met'[v] + (IF mode' = "enter" /\ at'[v] = "left" THEN 1 ELSE 0) = m
    BY <1>1, <2>1 DEF BarrierInv, BarrierTypeOK
  <2> QED BY <2>1, <2>2, <2>3, <2>4 DEF BarrierInv
<1> QED BY <1>2, <1>3, <1>4, <1>5, <1>6 DEF Sync

LEMMA BarrierStutter == BarrierInv /\ UNCHANGED barrier => BarrierInv'
BY DEF barrier, BarrierInv, BarrierTypeOK, Counted

LEMMA BarrierMeets == BarrierInv => Meeting
<1> SUFFICES ASSUME BarrierInv, NEW v \in Worker, NEW w \in Worker, met[v] > met[w]
             PROVE  met[v] = met[w] + 1 /\ at[w] # "outside"
  BY DEF Meeting
<1>1. met[v] \in Nat /\ met[w] \in Nat
  BY DEF BarrierInv, BarrierTypeOK
<1> QED BY <1>1 DEF BarrierInv

---------------------------------------------------------------------------
(* Class Sync and the loops of measure.                                    *)

\* A worker that is done with the round waits for the next, or has thrown.
Finished(w) ==
  round[w] = started + 1 /\ wpc[w] = IF outcome[w] = "throw" THEN "exited" ELSE "await"

\* The round is prepared: status is still that of the last one.
Between ==
  /\ mpc = "notify" /\ status = "Done" /\ ~ raised /\ nbready = 0 /\ started < Last
  /\ \A w \in Worker : round[w] = started + 1 /\ wpc[w] = "await" /\ outcome[w] = "ok"

\* Workers get ready; nbready counts those that are.
Gathering ==
  /\ mpc \in {"wait", "asleep"} /\ status = "Wait" /\ ~ raised /\ started > 0
  /\ \A w \in Worker : round[w] = started /\ wpc[w] \in {"await", "ready", "spin", "run!"}
  /\ nbready = Cardinality({w \in Worker : wpc[w] \in {"spin", "run!"}})
  /\ \A w \in Worker : wpc[w] = "run!" => nbready = Cardinal
  /\ \A v, w \in Worker : wpc[v] = "run!" /\ wpc[w] = "run!" => v = w

\* Workers run; nbready counts those that are done, until the last resets it, and
\* status says whether one of them has reported a failure.
Told(w) == Finished(w) \/ wpc[w] \in {"count", "verdict", "Done", "Fail"}
Running ==
  /\ mpc \in {"wait", "asleep"} /\ status \in {"Run", "Abort"} /\ ~ raised /\ started > 0
  /\ \A w \in Worker :
       \/ Finished(w)
       \/ round[w] = started /\ wpc[w] \in {"spin", "run", "errmsg", "abort", "count",
                                           "verdict", "Done", "Fail"}
  /\ \A v, w \in Worker : wpc[v] \in {"verdict", "Done", "Fail"} => v = w \/ Finished(w)
  /\ nbready = IF \E w \in Worker : wpc[w] \in {"Done", "Fail"} THEN 0
               ELSE Cardinality({w \in Worker : round[w] > started \/ wpc[w] = "verdict"})
  /\ \A w \in Worker : Told(w) /\ outcome[w] # "ok" => status = "Abort"
  /\ status = "Abort" => errmsg # {} /\ \E w \in Worker : Told(w) /\ outcome[w] # "ok"
  /\ \A w \in Worker :
       /\ wpc[w] \in {"errmsg", "abort"} => outcome[w] # "ok"
       /\ wpc[w] = "abort" => errmsg # {}
       /\ wpc[w] = "Done" => status = "Run"
       /\ wpc[w] = "Fail" => status = "Abort"

\* The last worker has stored the verdict and goes to raise the latch.
Closing ==
  /\ mpc \in {"wait", "asleep", "result"} /\ status \in {"Done", "Fail"} /\ nbready = 0
  /\ started > 0
  /\ \A w \in Worker : Finished(w) \/ (round[w] = started /\ wpc[w] = "raise")
  /\ \A v, w \in Worker : wpc[v] = "raise" => v = w \/ Finished(w)
  /\ raised \/ mpc = "result" => \A w \in Worker : Finished(w)
  /\ mpc = "result" => ~ raised
  /\ mpc = "asleep" => ~ raised
  /\ (status = "Done") <=> \A w \in Worker : outcome[w] = "ok"
  /\ status = "Fail" => errmsg # {}

\* The verdict has been taken; workers only leave.
Leaving ==
  /\ mpc \in {"join", "joining", "end"}
  /\ status \in (IF mpc = "join" THEN {"Done", "Fail"} ELSE {"Quit"})
  /\ \A w \in Worker : round[w] = started + 1 /\ wpc[w] \in {"await", "exited"}
  /\ mpc = "end" => \A w \in Worker : wpc[w] = "exited"
  /\ error = {} => started = Last /\ \A w \in Worker : outcome[w] = "ok"
  /\ error # {} => \E w \in Worker : outcome[w] # "ok"

\* A worker that has returned from the check came through its three barriers.
Checked ==
  \A w \in Worker :
    /\ \/ round[w] > Last
       \/ round[w] = Last /\ wpc[w] \in {"errmsg", "abort", "count", "verdict", "Done",
                                         "Fail", "raise"}
    /\ outcome[w] # "throw"
    => met[w] = 3

HarnessInv ==
  /\ TypeOK /\ BarrierInv /\ Checked
  /\ Between \/ Gathering \/ Running \/ Closing \/ Leaving \/ mpc = "overrun"

LEMMA HarnessInvInit == Init => HarnessInv
<1> SUFFICES ASSUME Init PROVE HarnessInv
  OBVIOUS
<1>1. BarrierInv
  BY BarrierInvInit DEF Init
<1>2. TypeOK
  <2>1. BarrierTypeOK /\ nbready \in 0..Cardinal /\ started \in 0..Last
        /\ 1 \in 1..(Last + 1)
    BY <1>1, CardinalType, HarnessAssumption DEF Init, BarrierInv
  <2> QED BY <2>1 DEF Init, TypeOK, Status, MasterPC, WorkerPC, Outcome
<1>3. Between /\ Checked
  BY HarnessAssumption DEF Init, Between, Checked
<1> QED BY <1>1, <1>2, <1>3 DEF HarnessInv

\* What every step of the master leaves alone.
LEMMA MasterFrame ==
  ASSUME HarnessInv, UNCHANGED <<worker, barrier>>
  PROVE  BarrierTypeOK' /\ BarrierInv' /\ Checked'
<1>1. BarrierInv'
  BY BarrierStutter DEF HarnessInv
<1>2. Checked'
  BY DEF HarnessInv, Checked, worker, barrier
<1> QED BY <1>1, <1>2 DEF BarrierInv

LEMMA MasterInv == ASSUME HarnessInv, MasterStep \/ LatchWake PROVE HarnessInv'
<1>1. TypeOK /\ UNCHANGED <<worker, barrier>>
  BY DEF HarnessInv, MasterStep, master_notify, LatchWait, master_wait, master_join, Join, LatchWake
<1>2. BarrierTypeOK' /\ BarrierInv' /\ Checked'
  BY <1>1, MasterFrame
<1> USE DEF worker, sync, Status, MasterPC
<1>3. CASE master_notify
  <2>1. Between /\ started \in Nat
    BY <1>1, <1>3, HarnessAssumption
       DEF master_notify, HarnessInv, Between, Gathering, Running, Closing, Leaving, TypeOK
  <2>2. TypeOK'
    BY <1>1, <1>2, <1>3, <2>1, HarnessAssumption DEF master_notify, TypeOK, Between
  <2>3. {w \in Worker : wpc[w] \in {"spin", "run!"}} = {}
    BY <2>1 DEF Between
  <2>4. Gathering'
    BY <1>1, <1>3, <2>1, <2>3, FS_EmptySet DEF master_notify, Between, Gathering
  <2> QED BY <1>2, <2>2, <2>4 DEF HarnessInv
<1>4. CASE LatchWait
  <2>1. /\ mpc = "wait" /\ mpc' = (IF raised THEN "result" ELSE "asleep") /\ raised' = FALSE
        /\ UNCHANGED <<status, nbready, errmsg, started, error, wpc, round, outcome>>
    BY <1>4 DEF LatchWait
  <2>2. TypeOK'
    BY <1>1, <1>2, <2>1 DEF TypeOK
  <2>3. ~ raised \/ Closing
    BY <2>1 DEF HarnessInv, Between, Gathering, Running, Closing, Leaving
  <2>4. ASSUME Closing PROVE Closing'
    BY <2>1, <2>4 DEF Closing, Finished
  <2>5. ASSUME Gathering PROVE Gathering'
    BY <2>1, <2>5 DEF Gathering
  <2>6. ASSUME Running PROVE Running'
    BY <2>1, <2>6 DEF Running, Told, Finished
  <2>7. Closing' \/ Gathering' \/ Running'
    BY <2>1, <2>4, <2>5, <2>6 DEF HarnessInv, Between, Leaving
  <2> QED BY <1>2, <2>2, <2>7 DEF HarnessInv
<1>5. CASE LatchWake
  <2>1. /\ mpc = "asleep" /\ mpc' \in {"wait", "overrun"}
        /\ UNCHANGED <<status, nbready, errmsg, raised, started, error, wpc, round, outcome>>
    BY <1>5 DEF LatchWake
  <2>2. TypeOK'
    BY <1>1, <1>2, <2>1 DEF TypeOK
  <2>3. ASSUME Closing, mpc' = "wait" PROVE Closing'
    BY <2>1, <2>3 DEF Closing, Finished
  <2>4. ASSUME Gathering, mpc' = "wait" PROVE Gathering'
    BY <2>1, <2>4 DEF Gathering
  <2>5. ASSUME Running, mpc' = "wait" PROVE Running'
    BY <2>1, <2>5 DEF Running, Told, Finished
  <2>6. Closing' \/ Gathering' \/ Running' \/ mpc' = "overrun"
    BY <2>1, <2>3, <2>4, <2>5 DEF HarnessInv, Between, Leaving
  <2> QED BY <1>2, <2>2, <2>6 DEF HarnessInv
<1>6. CASE master_wait
  <2>1. Closing /\ mpc = "result"
    BY <1>6 DEF master_wait, HarnessInv, Between, Gathering, Running, Leaving
  <2>2. /\ UNCHANGED <<status, nbready, errmsg, raised, started, wpc, round, outcome>>
        /\ status \in {"Done", "Fail"} /\ ~ raised /\ nbready = 0 /\ started \in 0..Last
        /\ mpc' = (IF status = "Done" /\ started < Last THEN "notify" ELSE "join")
        /\ error' = (IF status = "Fail" THEN errmsg ELSE {})
    <3>1. status = "Done" => started < Last \/ started = Last
      BY <1>1, HarnessAssumption DEF TypeOK
    <3> QED BY <1>1, <1>6, <2>1, <3>1 DEF master_wait, Closing, TypeOK
  <2>3. TypeOK'
    BY <1>1, <1>2, <2>2 DEF TypeOK
  <2>4. CASE status = "Done" /\ started < Last
    <3>1. Between'
      BY <2>1, <2>2, <2>4 DEF Closing, Finished, Between
    <3> QED BY <1>2, <2>3, <3>1 DEF HarnessInv
  <2>5. CASE ~ (status = "Done" /\ started < Last)
    <3>1. status = "Done" => started = Last
      BY <2>2, <2>5, HarnessAssumption
    <3>2. Leaving'
      BY <2>1, <2>2, <2>5, <3>1 DEF Closing, Finished, Leaving
    <3> QED BY <1>2, <2>3, <3>2 DEF HarnessInv
  <2> QED BY <2>4, <2>5
<1>7. CASE master_join \/ Join
  <2>1. Leaving /\ UNCHANGED <<started, error, wpc, round, outcome>>
    BY <1>7 DEF master_join, Join, HarnessInv, Between, Gathering, Running, Closing
  <2>2. TypeOK'
    BY <1>1, <1>2, <1>7 DEF master_join, Join, TypeOK
  <2>3. Leaving'
    BY <1>7, <2>1 DEF master_join, Join, Leaving
  <2> QED BY <1>2, <2>2, <2>3 DEF HarnessInv
<1> QED BY <1>3, <1>4, <1>5, <1>6, <1>7 DEF MasterStep

\* Where a worker is tells what the round has come to.
LEMMA PhaseOf ==
  ASSUME HarnessInv, NEW w \in Worker, mpc # "overrun"
  PROVE  /\ wpc[w] \in {"ready", "run!"} => Gathering
         /\ wpc[w] = "spin" /\ status # "Wait" => Running
         /\ wpc[w] \in {"run", "errmsg", "abort", "count", "verdict", "Done", "Fail"} =>
              Running /\ round[w] = started /\ started \in 1..Last /\ ~ Finished(w)
         /\ wpc[w] = "raise" =>
              Closing /\ round[w] = started /\ started \in 1..Last /\ ~ Finished(w)
<1>1. started \in 0..Last /\ Last \in Nat
  BY HarnessAssumption DEF HarnessInv, TypeOK
<1> QED BY <1>1 DEF HarnessInv, Between, Gathering, Running, Closing, Leaving, Finished

LEMMA ReadyInv ==
  ASSUME HarnessInv, NEW w \in Worker, WaitStatus(w) \/ GetReady(w) \/ StartRun(w)
  PROVE  HarnessInv'
<1>1. /\ TypeOK /\ BarrierInv' /\ BarrierTypeOK' /\ mpc # "overrun"
      /\ UNCHANGED <<mpc, started, error, round, outcome, met, raised, errmsg>>
      /\ Cardinal \in Nat \ {0}
  BY BarrierStutter, CardinalType
     DEF HarnessInv, WaitStatus, GetReady, StartRun, At, sync, master, barrier, BarrierInv
<1>2. \A v \in Worker \ {w} : wpc'[v] = wpc[v]
  BY <1>1 DEF WaitStatus, GetReady, StartRun, Goto, TypeOK
<1>3. Checked'
  BY <1>1, <1>2, PhaseOf
     DEF HarnessInv, Checked, WaitStatus, GetReady, StartRun, At, Goto, TypeOK
<1> DEFINE S == {v \in Worker : wpc[v] \in {"spin", "run!"}}
<1>4. CASE WaitStatus(w)
  <2>1. /\ wpc[w] = "await" /\ UNCHANGED <<status, nbready>>
        /\ wpc'[w] = (IF status = "Quit" THEN "exited" ELSE "ready")
        /\ status \in {"Wait", "Quit"}
    BY <1>1, <1>4 DEF WaitStatus, Goto, TypeOK, sync, At
  <2>2. TypeOK'
    BY <1>1, <1>4 DEF WaitStatus, Goto, TypeOK, sync, WorkerPC
  <2>3. ASSUME Gathering PROVE Gathering'
    <3>1. S' = S
      BY <1>2, <2>1, <2>3 DEF Gathering
    <3> QED BY <1>1, <1>2, <2>1, <2>3, <3>1 DEF Gathering
  <2>4. ASSUME Leaving PROVE Leaving'
    BY <1>1, <1>2, <2>1, <2>4 DEF Leaving
  <2>5. Gathering \/ Leaving
    BY <1>1, <2>1 DEF HarnessInv, Between, Running, Closing
  <2> QED BY <1>1, <1>3, <2>2, <2>3, <2>4, <2>5 DEF HarnessInv
<1>5. CASE GetReady(w)
  <2>1. /\ wpc[w] = "ready" /\ UNCHANGED status /\ nbready' = nbready + 1 /\ Gathering
        /\ wpc' = [wpc EXCEPT ![w] = IF nbready + 1 = Cardinal THEN "run!" ELSE "spin"]
    BY <1>1, <1>5, PhaseOf DEF GetReady, Goto, At
  <2>2. S \subseteq Worker /\ w \notin S /\ S' = S \cup {w} /\ nbready = Cardinality(S)
    BY <1>1, <2>1 DEF Gathering, TypeOK
  <2>3. nbready' = Cardinality(S') /\ nbready # Cardinal /\ nbready' \in 0..Cardinal
    BY <2>1, <2>2, CountOneMore, CountType
  <2>4. TypeOK'
    BY <1>1, <2>1, <2>3 DEF TypeOK, WorkerPC
  <2>5. wpc'[w] = IF nbready' = Cardinal THEN "run!" ELSE "spin"
    BY <1>1, <2>1 DEF TypeOK
  <2>6. Gathering'
    BY <1>1, <1>2, <2>1, <2>3, <2>5 DEF Gathering
  <2> QED BY <1>1, <1>3, <2>4, <2>6 DEF HarnessInv
<1>6. CASE StartRun(w)
  <2>1. /\ wpc[w] = "run!" /\ status' = "Run" /\ nbready' = 0 /\ Gathering /\ wpc'[w] = "run"
    BY <1>1, <1>6, PhaseOf DEF StartRun, Goto, At, TypeOK
  <2>2. S = Worker
    BY <2>1, CountType DEF Gathering
  <2>3. \A v \in Worker \ {w} : wpc[v] = "spin"
    BY <2>1, <2>2 DEF Gathering
  <2>4. TypeOK'
    BY <1>1, <1>6, <2>1 DEF StartRun, Goto, TypeOK, WorkerPC, Status
  <2>5. \A v \in Worker : round'[v] = started /\ wpc'[v] \in {"spin", "run"} /\ started \in Nat
    BY <1>1, <1>2, <2>1, <2>3, HarnessAssumption DEF Gathering, TypeOK
  <2>6. {v \in Worker : round'[v] > started' \/ wpc'[v] = "verdict"} = {}
    BY <1>1, <2>5
  <2>7. \A v \in Worker : ~ Told(v)'
    BY <1>1, <2>5 DEF Told, Finished
  <2>8. Running'
    BY <1>1, <2>1, <2>5, <2>6, <2>7, FS_EmptySet DEF Running, Gathering
  <2> QED BY <1>1, <1>3, <2>4, <2>8 DEF HarnessInv
<1> QED BY <1>4, <1>5, <1>6

\* The steps of a worker that runs its workload and reports what came of it.
LEMMA RunInv ==
  ASSUME HarnessInv, NEW w \in Worker,
         \/ SpinUntilRun(w) \/ Work(w) \/ CheckMeet(w) \/ CheckReturn(w) \/ CheckThrow(w)
         \/ CheckSync(w)
  PROVE  HarnessInv'
<1>1. /\ TypeOK /\ mpc # "overrun" /\ UNCHANGED <<sync, master, round>>
      /\ UNCHANGED <<status, nbready, errmsg, raised, mpc, started, error>>
      /\ wpc[w] \in {"spin", "run"} /\ Running /\ round[w] = started /\ started \in 1..Last
      /\ ~ Finished(w)
  <2>1. CASE SpinUntilRun(w)
    <3>1. wpc[w] = "spin" /\ status \in {"Run", "Abort"} /\ mpc # "overrun"
      BY <2>1 DEF SpinUntilRun, At
    <3>2. Running /\ round[w] = started /\ started \in 1..Last /\ ~ Finished(w)
      BY <3>1, PhaseOf, HarnessAssumption DEF Running, Finished, HarnessInv, TypeOK
    <3> QED BY <2>1, <3>1, <3>2 DEF SpinUntilRun, HarnessInv, sync, master
  <2>2. CASE ~ SpinUntilRun(w)
    <3>1. wpc[w] = "run" /\ mpc # "overrun" /\ UNCHANGED <<sync, master, round>>
      BY <2>2 DEF Work, CheckMeet, CheckReturn, CheckThrow, CheckSync, InCheck, At, worker
    <3> QED BY <3>1, PhaseOf DEF HarnessInv, sync, master
  <2> QED BY <2>1, <2>2
<1>2. /\ BarrierInv' /\ \A v \in Worker \ {w} : met'[v] = met[v]
  <2>1. CASE UNCHANGED barrier
    BY <2>1, BarrierStutter DEF HarnessInv, barrier
  <2>2. CASE Enter(w)
    BY <2>2, EnterInv DEF HarnessInv, Enter
  <2>3. CASE Sync(w)
    BY <1>1, <2>3, SyncInv
       DEF HarnessInv, Sync, Open, SeeLeave, Leave, Close, SeeEnter, Return, TypeOK, BarrierTypeOK
  <2> QED BY <2>1, <2>2, <2>3
          DEF SpinUntilRun, Work, CheckMeet, CheckReturn, CheckThrow, CheckSync
<1>3. /\ \A v \in Worker \ {w} : wpc'[v] = wpc[v] /\ outcome'[v] = outcome[v]
      /\ wpc' \in [Worker -> WorkerPC] /\ outcome' \in [Worker -> Outcome]
  BY <1>1 DEF SpinUntilRun, Work, CheckMeet, CheckReturn, CheckThrow, CheckSync, Report, Goto,
     Outcomes, TypeOK, worker, WorkerPC, Outcome
<1>4. \/ wpc'[w] = "run"
      \/ wpc'[w] = "count" /\ outcome'[w] = "ok"
      \/ wpc'[w] = "errmsg" /\ outcome'[w] # "ok"
  BY <1>1 DEF SpinUntilRun, Work, CheckMeet, CheckReturn, CheckThrow, CheckSync, InCheck, At,
     Report, Goto, TypeOK, worker
<1>5. TypeOK'
  BY <1>1, <1>2, <1>3 DEF TypeOK, BarrierInv
<1>6. Checked'
  <2>1. wpc'[w] # "run" /\ round[w] = Last /\ outcome'[w] # "throw" => met'[w] = 3
    BY <1>1 DEF SpinUntilRun, Work, CheckMeet, CheckReturn, CheckThrow, CheckSync, InCheck, At,
       Report, Goto, TypeOK, worker, barrier
  <2>2. ~ (round[w] > Last)
    BY <1>1, HarnessAssumption
  <2> QED BY <1>1, <1>2, <1>3, <2>1, <2>2, <1>4 DEF HarnessInv, Checked
<1>7. Running'
  <2>1. \A v \in Worker \ {w} : Finished(v)' = Finished(v) /\ Told(v)' = Told(v)
    BY <1>1, <1>3 DEF Finished, Told
  <2>2. ~ Finished(w)' /\ ~ Told(w) /\ (Told(w)' => outcome'[w] = "ok")
    BY <1>1, <1>4, HarnessAssumption DEF Finished, Told
  <2>3. {v \in Worker : round'[v] > started' \/ wpc'[v] = "verdict"} =
        {v \in Worker : round[v] > started \/ wpc[v] = "verdict"}
    BY <1>1, <1>3, <1>4
  <2>4. (\E v \in Worker : wpc'[v] \in {"Done", "Fail"}) =
        (\E v \in Worker : wpc[v] \in {"Done", "Fail"})
    BY <1>1, <1>3, <1>4
  <2>5. \A v \in Worker : wpc[v] \notin {"verdict", "Done", "Fail"}
    BY <1>1 DEF Running
  <2> QED BY <1>1, <1>3, <1>4, <2>1, <2>2, <2>3, <2>4, <2>5 DEF Running
<1> QED BY <1>2, <1>5, <1>6, <1>7 DEF HarnessInv

\* Class Sync after the workload: report, count, and close the round.
LEMMA ReportInv ==
  ASSUME HarnessInv, NEW w \in Worker, StoreError(w) \/ StoreAbort(w) \/ CountDone(w)
  PROVE  HarnessInv'
<1>1. /\ TypeOK /\ mpc # "overrun" /\ BarrierInv' /\ BarrierTypeOK'
      /\ UNCHANGED <<raised, mpc, started, error, outcome, met>>
      /\ wpc[w] \in {"errmsg", "abort", "count"} /\ Running /\ round[w] = started
      /\ started \in 1..Last /\ ~ Finished(w)
  <2>1. wpc[w] \in {"errmsg", "abort", "count"} /\ mpc # "overrun" /\ UNCHANGED barrier
    BY DEF StoreError, StoreAbort, CountDone, At
  <2> QED BY <2>1, PhaseOf, BarrierStutter
          DEF HarnessInv, StoreError, StoreAbort, CountDone, master, barrier, BarrierInv
<1>2. \A v \in Worker \ {w} : wpc'[v] = wpc[v] /\ round'[v] = round[v]
  BY <1>1 DEF StoreError, StoreAbort, CountDone, NextRound, Goto, TypeOK
<1>3. \A v \in Worker : wpc[v] \notin {"verdict", "Done", "Fail"}
  BY <1>1 DEF Running
<1>4. \A v \in Worker \ {w} : Finished(v)' = Finished(v) /\ Told(v)' = Told(v)
  BY <1>1, <1>2 DEF Finished, Told
<1> DEFINE F == {v \in Worker : round[v] > started \/ wpc[v] = "verdict"}
<1>5. F \subseteq Worker /\ w \notin F /\ nbready = Cardinality(F) /\ F = {v \in Worker : Finished(v)}
  BY <1>1, <1>3, HarnessAssumption DEF Running, Finished
<1>6. CASE StoreError(w)
  <2>1. /\ wpc[w] = "errmsg" /\ wpc'[w] = "abort" /\ errmsg' = {w} /\ round' = round
        /\ status' = status /\ nbready' = nbready
    BY <1>1, <1>6 DEF StoreError, At, Goto, TypeOK
  <2>2. TypeOK'
    BY <1>1, <1>6 DEF StoreError, Goto, TypeOK, WorkerPC
  <2>3. Checked'
    BY <1>1, <1>2, <2>1 DEF HarnessInv, Checked
  <2>4. F' = F /\ ~ Told(w) /\ ~ Told(w)' /\ outcome[w] # "ok"
    BY <1>1, <1>2, <2>1 DEF Told, Finished, Running
  <2>5. Running'
    BY <1>1, <1>2, <1>3, <1>4, <2>1, <2>4 DEF Running
  <2> QED BY <1>1, <2>2, <2>3, <2>5 DEF HarnessInv
<1>7. CASE StoreAbort(w)
  <2>1. /\ wpc[w] = "abort" /\ wpc'[w] = "count" /\ errmsg' = errmsg /\ round' = round
        /\ status' = "Abort" /\ nbready' = nbready
    BY <1>1, <1>7 DEF StoreAbort, At, Goto, TypeOK
  <2>2. TypeOK'
    BY <1>1, <1>7 DEF StoreAbort, Goto, TypeOK, WorkerPC, Status
  <2>3. Checked'
    BY <1>1, <1>2, <2>1 DEF HarnessInv, Checked
  <2>4. F' = F /\ ~ Told(w) /\ Told(w)' /\ outcome[w] # "ok" /\ errmsg # {}
    BY <1>1, <1>2, <2>1 DEF Told, Finished, Running
  <2>5. Running'
    BY <1>1, <1>2, <1>3, <1>4, <2>1, <2>4 DEF Running
  <2> QED BY <1>1, <2>2, <2>3, <2>5 DEF HarnessInv
<1>8. CASE CountDone(w)
  <2>1. /\ wpc[w] = "count" /\ nbready' = nbready + 1 /\ UNCHANGED <<status, errmsg>>
        /\ \/ /\ nbready' # Cardinal
              /\ wpc'[w] = (IF outcome[w] = "throw" THEN "exited" ELSE "await")
              /\ round'[w] = started + 1
           \/ /\ nbready' = Cardinal /\ wpc'[w] = "verdict" /\ round'[w] = started
    BY <1>1, <1>8 DEF CountDone, NextRound, At, Goto, TypeOK
  <2>2. F' = F \cup {w}
    BY <1>1, <1>2, <1>3, <2>1, HarnessAssumption
  <2>3. nbready' = Cardinality(F') /\ nbready' \in 0..Cardinal /\ F' \subseteq Worker
    BY <1>5, <2>1, <2>2, CountOneMore, CountType
  <2>4. nbready' = Cardinal => \A v \in Worker \ {w} : Finished(v)
    BY <1>5, <2>2, <2>3, CountType
  <2>5. TypeOK'
    <3>1. round[w] + 1 \in 1..(Last + 1)
      BY <1>1, HarnessAssumption
    <3> QED BY <1>1, <1>8, <2>3, <3>1 DEF CountDone, NextRound, Goto, TypeOK, WorkerPC
  <2>6. Checked'
    <3>1. round'[w] > Last => round[w] = Last
      BY <1>1, <2>1, HarnessAssumption
    <3>2. \A v \in Worker : round'[v] = round[v] \/ v = w
      BY <1>2
    <3> QED BY <1>1, <1>2, <2>1, <3>1, <3>2 DEF HarnessInv, Checked
  <2>7. Told(w) /\ Told(w)'
    BY <1>1, <2>1 DEF Told, Finished
  <2>8. Finished(w)' \/ (nbready' = Cardinal /\ wpc'[w] = "verdict" /\ round'[w] = started')
    BY <1>1, <2>1 DEF Finished
  <2>9. ~ \E v \in Worker : wpc'[v] \in {"Done", "Fail"}
    BY <1>2, <1>3, <2>1
  <2>10. \A u, v \in Worker : wpc'[u] \in {"verdict", "Done", "Fail"} => u = v \/ Finished(v)'
    BY <1>2, <1>3, <1>4, <2>1, <2>4
  <2>11. \A v \in Worker : wpc'[v] \in {"errmsg", "abort"} => v # w
    BY <2>1
  <2>12. Running'
    BY <1>1, <1>2, <1>3, <1>4, <2>1, <2>3, <2>7, <2>8, <2>9, <2>10, <2>11 DEF Running
  <2> QED BY <1>1, <2>5, <2>6, <2>12 DEF HarnessInv
<1> QED BY <1>6, <1>7, <1>8

LEMMA VerdictInv ==
  ASSUME HarnessInv, NEW w \in Worker, LoadVerdict(w) \/ StoreVerdict(w) \/ LatchRaise(w)
  PROVE  HarnessInv'
<1>1. /\ TypeOK /\ mpc # "overrun" /\ BarrierInv' /\ BarrierTypeOK'
      /\ UNCHANGED <<errmsg, started, error, outcome, met>>
      /\ round[w] = started /\ started \in 1..Last /\ ~ Finished(w)
      /\ IF wpc[w] = "raise" THEN Closing ELSE wpc[w] \in {"verdict", "Done", "Fail"} /\ Running
  <2>1. wpc[w] \in {"verdict", "Done", "Fail", "raise"} /\ mpc # "overrun" /\ UNCHANGED barrier
    BY DEF LoadVerdict, StoreVerdict, LatchRaise, At
  <2> QED BY <2>1, PhaseOf, BarrierStutter
          DEF HarnessInv, LoadVerdict, StoreVerdict, LatchRaise, master, barrier, BarrierInv
<1>2. \A v \in Worker \ {w} : wpc'[v] = wpc[v] /\ round'[v] = round[v] /\ Finished(v) /\ Finished(v)'
  <2>1. \A v \in Worker \ {w} : wpc'[v] = wpc[v] /\ round'[v] = round[v] /\ Finished(v)
    BY <1>1 DEF LoadVerdict, StoreVerdict, LatchRaise, NextRound, Goto, TypeOK, Running, Closing
  <2> QED BY <1>1, <2>1 DEF Finished
<1>3. \A v \in Worker \ {w} : round'[v] > started' /\ wpc'[v] \in {"await", "exited"}
  BY <1>1, <1>2, HarnessAssumption DEF Finished
<1>4. CASE LoadVerdict(w)
  <2>1. /\ wpc[w] = "verdict" /\ nbready' = 0 /\ round' = round /\ UNCHANGED <<status, raised, mpc>>
        /\ wpc'[w] = (IF status = "Abort" THEN "Fail" ELSE "Done")
    BY <1>1, <1>4 DEF LoadVerdict, At, Goto, TypeOK, master
  <2>2. TypeOK'
    BY <1>1, <1>4, CardinalType DEF LoadVerdict, Goto, TypeOK, WorkerPC, master
  <2>3. Checked'
    BY <1>1, <1>2, <2>1 DEF HarnessInv, Checked
  <2>4. \A v \in Worker : Told(v) /\ Told(v)'
    BY <1>2, <2>1 DEF Told
  <2>5. Running'
    BY <1>1, <1>2, <1>3, <2>1, <2>4 DEF Running
  <2> QED BY <1>1, <2>2, <2>3, <2>5 DEF HarnessInv
<1>5. CASE StoreVerdict(w)
  <2>1. /\ wpc[w] \in {"Done", "Fail"} /\ status' = wpc[w] /\ wpc'[w] = "raise" /\ round' = round
        /\ UNCHANGED <<nbready, raised, mpc>>
    BY <1>1, <1>5 DEF StoreVerdict, At, Goto, TypeOK, master
  <2>2. TypeOK'
    BY <1>1, <1>5, <2>1 DEF StoreVerdict, Goto, TypeOK, WorkerPC, Status, master
  <2>3. Checked'
    BY <1>1, <1>2, <2>1 DEF HarnessInv, Checked
  <2>4. \A v \in Worker : Told(v)
    BY <1>2, <2>1 DEF Told
  <2>5. Closing'
    BY <1>1, <1>2, <1>3, <2>1, <2>4 DEF Running, Closing
  <2> QED BY <1>1, <2>2, <2>3, <2>5 DEF HarnessInv
<1>6. CASE LatchRaise(w)
  <2>1. /\ wpc[w] = "raise" /\ raised' = TRUE /\ round'[w] = started + 1
        /\ mpc' = (IF mpc = "asleep" THEN "wait" ELSE mpc) /\ UNCHANGED <<status, nbready>>
        /\ wpc'[w] = (IF outcome[w] = "throw" THEN "exited" ELSE "await")
    BY <1>1, <1>6 DEF LatchRaise, NextRound, At, Goto, TypeOK
  <2>2. TypeOK'
    <3>1. round[w] + 1 \in 1..(Last + 1)
      BY <1>1, HarnessAssumption
    <3> QED BY <1>1, <1>6, <3>1 DEF LatchRaise, NextRound, Goto, TypeOK, WorkerPC, MasterPC
  <2>3. Checked'
    <3>1. round'[w] > Last => round[w] = Last
      BY <1>1, <2>1, HarnessAssumption
    <3> QED BY <1>1, <1>2, <2>1, <3>1 DEF HarnessInv, Checked
  <2>4. \A v \in Worker : Finished(v)'
    BY <1>1, <1>2, <2>1 DEF Finished
  <2>5. Closing /\ mpc # "result"
    BY <1>1, <2>1 DEF Closing
  <2>6. Closing'
    BY <1>1, <1>3, <2>1, <2>4, <2>5 DEF Closing
  <2> QED BY <1>1, <2>2, <2>3, <2>6 DEF HarnessInv
<1> QED BY <1>4, <1>5, <1>6

LEMMA HarnessInvNext == HarnessInv /\ (MeasureStep \/ UNCHANGED vars) => HarnessInv'
<1>1. HarnessInv /\ UNCHANGED vars => HarnessInv'
  <2> SUFFICES ASSUME HarnessInv, UNCHANGED vars PROVE HarnessInv'
    OBVIOUS
  <2>1. /\ BarrierInv' /\ UNCHANGED <<status, nbready, errmsg, raised, mpc, started, error, wpc,
                                      round, outcome, met>>
    BY BarrierStutter DEF HarnessInv, vars, sync, master, worker, barrier
  <2>2. TypeOK' /\ Checked'
    BY <2>1 DEF HarnessInv, TypeOK, Checked, BarrierInv
  <2>3. \A w \in Worker : Finished(w)' = Finished(w) /\ Told(w)' = Told(w)
    BY <2>1 DEF Finished, Told
  <2>4. /\ Between' = Between /\ Gathering' = Gathering /\ Leaving' = Leaving
        /\ Running' = Running /\ Closing' = Closing
    BY <2>1, <2>3 DEF Between, Gathering, Leaving, Running, Closing
  <2> QED BY <2>1, <2>2, <2>4 DEF HarnessInv
<1> QED BY <1>1, MasterInv, ReadyInv, RunInv, ReportInv, VerdictInv DEF MeasureStep, WorkerStep

---------------------------------------------------------------------------
(* What Rounds sees of the harness.                                        *)

InRound == mpc \notin {"notify", "join", "joining", "end"}
IsOver == mpc \in {"join", "joining", "end"}
BadWorkers == {w \in DoneWorkers : outcome[w] # "ok"}

LEMMA Shown ==
  ASSUME UNCHANGED <<started, error>>, InRound' = InRound, IsOver' = IsOver,
         (mpc' = "notify") = (mpc = "notify"),
         ReadyWorkers' = ReadyWorkers, DoneWorkers' = DoneWorkers, BadWorkers' = BadWorkers
  PROVE  UNCHANGED R!rvars
BY DEF R!rvars, InRound, IsOver, BadWorkers

LEMMA InitShows == Init => R!Init
<1> SUFFICES ASSUME Init PROVE R!Init
  OBVIOUS
<1>1. ReadyWorkers = Worker /\ DoneWorkers = Worker /\ BadWorkers = {}
  BY DEF Init, ReadyWorkers, DoneWorkers, BadWorkers, Past
<1> QED BY <1>1 DEF Init, R!Init, BadWorkers

LEMMA StartShows == HarnessInv /\ master_notify => R!Start
<1> SUFFICES ASSUME HarnessInv, master_notify PROVE R!Start
  OBVIOUS
<1>1. mpc = "notify" /\ mpc' = "wait" /\ started' = started + 1 /\ UNCHANGED <<wpc, round>>
  BY DEF master_notify, worker
<1>2. started \in Nat /\ \A w \in Worker : round[w] = started' /\ wpc[w] = "await"
  BY <1>1, HarnessAssumption
     DEF HarnessInv, Between, Gathering, Running, Closing, Leaving, TypeOK
<1>3. ReadyWorkers' = {} /\ DoneWorkers' = {} /\ BadWorkers' = {}
  BY <1>1, <1>2 DEF ReadyWorkers, DoneWorkers, BadWorkers, Past
<1> QED BY <1>1, <1>3 DEF R!Start, BadWorkers

LEMMA FinishShows == HarnessInv /\ master_wait => R!Finish
<1> SUFFICES ASSUME HarnessInv, master_wait PROVE R!Finish
  OBVIOUS
<1>1. /\ Closing /\ mpc = "result" /\ started \in 0..Last /\ Last \in Nat
      /\ UNCHANGED <<started, wpc, round, outcome>>
  BY HarnessAssumption
     DEF master_wait, HarnessInv, Between, Gathering, Running, Leaving, TypeOK, worker
<1>2. \A w \in Worker : round[w] > started
  BY <1>1 DEF Closing, Finished
<1>3. /\ ReadyWorkers = Worker /\ DoneWorkers = Worker
      /\ ReadyWorkers' = Worker /\ DoneWorkers' = Worker /\ BadWorkers' = BadWorkers
  BY <1>1, <1>2 DEF ReadyWorkers, DoneWorkers, BadWorkers, Past
<1>4. (status = "Done") = (BadWorkers = {})
  BY <1>1, <1>3 DEF Closing, BadWorkers
<1>5. CASE status = "Done" /\ started < Last
  <2>1. mpc' = "notify"
    BY <1>1, <1>5 DEF master_wait
  <2> QED BY <1>1, <1>3, <1>4, <1>5, <2>1 DEF R!Finish, BadWorkers
<1>6. CASE status = "Done" /\ started = Last
  <2>1. mpc' = "join" /\ error' = {}
    BY <1>1, <1>6 DEF master_wait
  <2> QED BY <1>1, <1>3, <1>4, <1>6, <2>1 DEF R!Finish, BadWorkers
<1>7. CASE status = "Fail"
  <2>1. mpc' = "join" /\ error' # {}
    BY <1>1, <1>7 DEF master_wait, Closing
  <2>2. BadWorkers # {}
    BY <1>4, <1>7
  <2> QED BY <1>1, <1>3, <1>7, <2>1, <2>2 DEF R!Finish, BadWorkers
<1> QED BY <1>1, <1>5, <1>6, <1>7 DEF Closing

LEMMA MasterShows == HarnessInv /\ (MasterStep \/ LatchWake) => [R!Next]_(R!rvars)
<1> SUFFICES ASSUME HarnessInv, LatchWait \/ LatchWake \/ master_join \/ Join
             PROVE  UNCHANGED R!rvars
  BY StartShows, FinishShows DEF MasterStep, R!Next
<1>1. /\ UNCHANGED <<started, error, wpc, round, outcome>>
      /\ InRound' = InRound /\ IsOver' = IsOver /\ mpc # "notify" /\ mpc' # "notify"
  BY DEF LatchWait, LatchWake, master_join, Join, worker, InRound, IsOver
<1>2. ReadyWorkers' = ReadyWorkers /\ DoneWorkers' = DoneWorkers /\ BadWorkers' = BadWorkers
  BY <1>1 DEF ReadyWorkers, DoneWorkers, BadWorkers, Past
<1> QED BY <1>1, <1>2, Shown

LEMMA GetReadyShows == ASSUME HarnessInv, NEW w \in Worker, GetReady(w) PROVE R!Ready(w)
<1>1. /\ TypeOK /\ Gathering /\ UNCHANGED <<mpc, started, error, round, outcome>>
      /\ wpc[w] = "ready" /\ wpc'[w] \in {"run!", "spin"}
      /\ \A v \in Worker \ {w} : wpc'[v] = wpc[v]
  BY PhaseOf DEF HarnessInv, GetReady, At, Goto, TypeOK, master
<1>2. mpc \in {"wait", "asleep"} /\ \A v \in Worker : ~ (round[v] > started)
  BY <1>1, HarnessAssumption DEF Gathering, TypeOK
<1>3. ReadyWorkers' = ReadyWorkers \cup {w} /\ w \notin ReadyWorkers
  BY <1>1, <1>2 DEF ReadyWorkers, Past
<1>4. DoneWorkers = {} /\ DoneWorkers' = {}
  BY <1>1, <1>2 DEF Gathering, DoneWorkers, Past
<1> QED BY <1>1, <1>2, <1>3, <1>4 DEF R!Ready

LEMMA WorkShows ==
  ASSUME HarnessInv, NEW w \in Worker, Work(w) \/ CheckReturn(w) \/ CheckThrow(w)
  PROVE  R!Work(w)
<1>1. wpc[w] = "run" /\ mpc # "overrun"
  BY DEF Work, CheckReturn, CheckThrow, InCheck, At
<1>2. /\ TypeOK /\ Running /\ UNCHANGED <<mpc, started, error, round>>
      /\ round[w] = started /\ started \in 1..Last
      /\ wpc'[w] \in {"count", "errmsg"}
      /\ \A v \in Worker \ {w} : wpc'[v] = wpc[v] /\ outcome'[v] = outcome[v]
  BY <1>1, PhaseOf DEF HarnessInv, Work, CheckReturn, CheckThrow, Report, Goto, TypeOK, master
<1>3. mpc \in {"wait", "asleep"} /\ ~ (round[w] > started)
  BY <1>2, HarnessAssumption DEF Running
<1>4. ReadyWorkers = Worker /\ ReadyWorkers' = Worker
  BY <1>2, HarnessAssumption DEF Running, Finished, ReadyWorkers, Past
<1>5. DoneWorkers' = DoneWorkers \cup {w} /\ w \notin DoneWorkers
  BY <1>1, <1>2, <1>3 DEF DoneWorkers, Past
<1>6. BadWorkers' \in {BadWorkers, BadWorkers \cup {w}}
  <2>1. CASE outcome'[w] = "ok"
    BY <1>2, <1>5, <2>1 DEF BadWorkers, DoneWorkers
  <2>2. CASE outcome'[w] # "ok"
    BY <1>2, <1>5, <2>2 DEF BadWorkers, DoneWorkers
  <2> QED BY <2>1, <2>2
<1> QED BY <1>2, <1>3, <1>4, <1>5, <1>6 DEF R!Work, BadWorkers

LEMMA HiddenSteps ==
  ASSUME HarnessInv, NEW w \in Worker,
         \/ WaitStatus(w) \/ StartRun(w) \/ SpinUntilRun(w) \/ CheckMeet(w) \/ CheckSync(w)
         \/ StoreError(w) \/ StoreAbort(w) \/ CountDone(w)
         \/ LoadVerdict(w) \/ StoreVerdict(w) \/ LatchRaise(w)
  PROVE  UNCHANGED R!rvars
<1>1. /\ TypeOK /\ UNCHANGED <<started, error>> /\ mpc # "overrun"
      /\ mpc' = mpc \/ (mpc = "asleep" /\ mpc' = "wait")
      /\ \A v \in Worker \ {w} :
           wpc'[v] = wpc[v] /\ round'[v] = round[v] /\ outcome'[v] = outcome[v]
  <2>1. TypeOK
    BY DEF HarnessInv
  <2>2. CASE WaitStatus(w) \/ StartRun(w) \/ SpinUntilRun(w) \/ CheckSync(w)
    BY <2>1, <2>2 DEF WaitStatus, StartRun, SpinUntilRun, CheckSync, Goto, At, TypeOK, master, worker
  <2>3. CASE CheckMeet(w)
    BY <2>1, <2>3 DEF CheckMeet, InCheck, At, TypeOK, master
  <2>4. CASE StoreError(w) \/ StoreAbort(w) \/ LoadVerdict(w) \/ StoreVerdict(w)
    BY <2>1, <2>4 DEF StoreError, StoreAbort, LoadVerdict, StoreVerdict, Goto, At, TypeOK, master
  <2>5. CASE CountDone(w) \/ LatchRaise(w)
    BY <2>1, <2>5 DEF CountDone, LatchRaise, NextRound, Goto, At, TypeOK, master
  <2> QED BY <2>2, <2>3, <2>4, <2>5
<1>2. /\ Past(w, {"await", "ready"})' = Past(w, {"await", "ready"})
      /\ Past(w, {"await", "ready", "run!", "spin", "run"})' =
         Past(w, {"await", "ready", "run!", "spin", "run"})
      /\ Past(w, {"await", "ready", "run!", "spin", "run"}) => outcome'[w] = outcome[w]
  <2>1. CASE WaitStatus(w)
    <3>1. /\ wpc[w] = "await" /\ UNCHANGED <<round, outcome>>
          /\ wpc'[w] = (IF status = "Quit" THEN "exited" ELSE "ready")
          /\ status \in {"Wait", "Quit"}
      BY <1>1, <2>1 DEF WaitStatus, At, Goto, TypeOK
    <3>2. status = "Quit" => round[w] > started
      BY <1>1, <3>1, HarnessAssumption
         DEF HarnessInv, Between, Gathering, Running, Closing, Leaving, TypeOK
    <3> QED BY <1>1, <3>1, <3>2 DEF Past
  <2>2. CASE StartRun(w) \/ SpinUntilRun(w)
    <3>1. /\ wpc[w] \in {"run!", "spin"} /\ wpc'[w] = "run" /\ UNCHANGED <<round, outcome>>
      BY <1>1, <2>2 DEF StartRun, SpinUntilRun, At, Goto, TypeOK
    <3> QED BY <1>1, <3>1 DEF Past
  <2>3. CASE CheckMeet(w) \/ CheckSync(w)
    <3>1. wpc[w] = "run" /\ UNCHANGED <<wpc, round>> /\ mpc # "overrun"
      BY <2>3 DEF CheckMeet, CheckSync, InCheck, At, worker
    <3>2. ~ (round[w] > started)
      BY <3>1, PhaseOf, HarnessAssumption
    <3> QED BY <1>1, <3>1, <3>2 DEF Past
  <2>4. CASE StoreError(w) \/ StoreAbort(w) \/ LoadVerdict(w) \/ StoreVerdict(w)
    <3>1. /\ wpc[w] \in {"errmsg", "abort", "verdict", "Done", "Fail"}
          /\ wpc'[w] \in {"abort", "count", "Done", "Fail", "raise"} /\ UNCHANGED <<round, outcome>>
      BY <1>1, <2>4 DEF StoreError, StoreAbort, LoadVerdict, StoreVerdict, At, Goto, TypeOK
    <3> QED BY <1>1, <3>1 DEF Past
  <2>5. CASE CountDone(w) \/ LatchRaise(w)
    <3>1. wpc[w] \in {"count", "raise"} /\ outcome' = outcome /\ mpc # "overrun"
      BY <2>5 DEF CountDone, LatchRaise, At
    <3>2. round[w] = started /\ started \in Nat
      BY <3>1, PhaseOf, HarnessAssumption
    <3>3. round'[w] = started + 1 \/ wpc'[w] = "verdict"
      BY <1>1, <2>5, <3>2 DEF CountDone, LatchRaise, NextRound, Goto, TypeOK
    <3> QED BY <1>1, <3>1, <3>2, <3>3 DEF Past
  <2> QED BY <2>1, <2>2, <2>3, <2>4, <2>5
<1>3. \A v \in Worker \ {w} :
        /\ Past(v, {"await", "ready"})' = Past(v, {"await", "ready"})
        /\ Past(v, {"await", "ready", "run!", "spin", "run"})' =
           Past(v, {"await", "ready", "run!", "spin", "run"})
  BY <1>1 DEF Past
<1>4. ReadyWorkers' = ReadyWorkers /\ DoneWorkers' = DoneWorkers
  BY <1>2, <1>3 DEF ReadyWorkers, DoneWorkers
<1>5. BadWorkers' = BadWorkers
  BY <1>1, <1>2, <1>4 DEF BadWorkers, DoneWorkers
<1>6. InRound' = InRound /\ IsOver' = IsOver /\ (mpc' = "notify") = (mpc = "notify")
  BY <1>1 DEF InRound, IsOver
<1> QED BY <1>1, <1>4, <1>5, <1>6, Shown

LEMMA MeasureShows == HarnessInv /\ MeasureStep => [R!Next]_(R!rvars)
BY MasterShows, GetReadyShows, WorkShows, HiddenSteps DEF MeasureStep, WorkerStep, R!Next

---------------------------------------------------------------------------
(* bounded_run.                                                            *)

\* The caller has the mutex until it sleeps, so the runner cannot have notified
\* by then; and once the caller has its answer the runner has ended.
BoundedInv ==
  /\ BoundedTypeOK
  /\ bpc \in {"start", "wait", "join"} => guard = "caller"
  /\ bpc = "start" => rpc = "unborn"
  /\ bpc = "wait" => rpc \in {"func", "lock", "threw"}
  /\ bpc = "asleep" => rpc \in {"func", "lock", "notify", "threw"}
  /\ rpc = "notify" <=> guard = "runner"
  /\ bpc = "returned" => rpc = "finished"

LEMMA BoundedInvStarts ==
  /\ BoundedInit => BoundedInv
  /\ BoundedCall => BoundedInv'
  /\ BoundedInv /\ UNCHANGED bounded => BoundedInv'
BY DEF BoundedInit, BoundedCall, bounded, BoundedInv, BoundedTypeOK, CallerPC, RunnerPC

LEMMA BoundedStepInv == BoundedInv /\ BoundedStep => BoundedInv'
<1> USE DEF BoundedInv, BoundedTypeOK, CallerPC, RunnerPC
<1>1. BoundedInv /\ Caller => BoundedInv'
  BY DEF Caller, StartRunner, WaitFor, WakeLate, Reacquire, JoinRunner
<1>2. BoundedInv /\ Runner => BoundedInv'
  BY DEF Runner, RunnerLock, RunnerNotify
<1>3. BoundedInv /\ (TimeUp \/ WakeSpuriously) => BoundedInv'
  BY DEF TimeUp, WakeSpuriously
<1> QED BY <1>1, <1>2, <1>3 DEF BoundedStep

\* The function given to the runner ends, one way or the other.
LEMMA FuncEndsInv ==
  ASSUME BoundedInv, FuncEnds("lock") \/ FuncEnds("threw")
  PROVE  BoundedInv'
BY DEF FuncEnds, BoundedInv, BoundedTypeOK, CallerPC, RunnerPC

---------------------------------------------------------------------------
(* The stages of main.                                                     *)

\* What main has done before each stage, and what each exit code follows from.
Stages ==
  /\ stage \in {"load", "create"} => mpc = "notify" /\ started = 0
  /\ stage = "load" => bpc = "outside" /\ rpc = "unborn" /\ ~ loaded
  /\ stage \in {"create", "measure", "destroy"} => loaded
  /\ stage = "measure" => bpc = "returned"
  /\ stage = "destroy" => mpc = "end"
  /\ stage # "over" => code = "none"
  /\ code = "return 0" => mpc = "end" /\ error = {}
  /\ code = "return 1" => started = 0 \/ (mpc = "end" /\ error # {})
  /\ stage = "over" /\ ~ loaded =>
       /\ started = 0 \/ mpc = "end"
       /\ rpc = "func" => bpc = "threw" /\ started = 0

ProgramTypeOK ==
  /\ stage \in {"load", "create", "measure", "destroy", "over"}
  /\ loaded \in BOOLEAN
  /\ code \in {"none", "return 0", "return 1", "quick_exit", "terminate"}

GInv == ProgramTypeOK /\ HarnessInv /\ BoundedInv /\ Stages

LEMMA GInvInit == GInit => GInv
<1> SUFFICES ASSUME GInit PROVE GInv
  OBVIOUS
<1>1. HarnessInv /\ BoundedInv
  BY HarnessInvInit, BoundedInvStarts DEF GInit
<1>2. ProgramTypeOK /\ Stages
  BY DEF GInit, Init, BoundedInit, ProgramTypeOK, Stages
<1> QED BY <1>1, <1>2 DEF GInv

\* Each step of main, of its runners and of measure.
LEMMA MainInv == ASSUME GInv, MainStep PROVE GInv'
<1>1. UNCHANGED vars
  BY DEF MainStep, Load, Created, CreateOverrun, Measured, MeasureOverrun, Destroyed, DestroyOverrun
<1>2. HarnessInv'
  BY <1>1, HarnessInvNext DEF GInv
<1>3. BoundedInv'
  BY BoundedInvStarts
     DEF GInv, MainStep, Load, Created, CreateOverrun, Measured, MeasureOverrun, Destroyed,
         DestroyOverrun
<1>4. ProgramTypeOK' /\ Stages'
  <2> USE <1>1 DEF GInv, ProgramTypeOK, Stages, End, vars, master
  <2>1. CASE Load
    BY <2>1 DEF Load, BoundedCall, bounded
  <2>2. CASE Created \/ CreateOverrun
    BY <2>2 DEF Created, CreateOverrun, bounded
  <2>3. CASE Measured \/ MeasureOverrun
    BY <2>3 DEF Measured, MeasureOverrun, BoundedCall, bounded
  <2>4. CASE Destroyed
    BY <2>4 DEF Destroyed, bounded, BoundedInv
  <2>5. CASE DestroyOverrun
    BY <2>5 DEF DestroyOverrun, bounded
  <2> QED BY <2>1, <2>2, <2>3, <2>4, <2>5 DEF MainStep
<1> QED BY <1>2, <1>3, <1>4 DEF GInv

LEMMA RunnerInv ==
  ASSUME GInv, tm_create \/ tm_destroy \/ InBounded(BoundedStep)
  PROVE  GInv'
<1>1. UNCHANGED vars /\ UNCHANGED loaded /\ stage \in {"create", "destroy"}
  BY DEF tm_create, tm_destroy, InBounded, program
<1>2. HarnessInv'
  BY <1>1, HarnessInvNext DEF GInv
<1>3. BoundedInv'
  BY FuncEndsInv, BoundedStepInv DEF GInv, tm_create, tm_destroy, InBounded
<1>4. ProgramTypeOK' /\ Stages'
  BY <1>1 DEF GInv, ProgramTypeOK, Stages, End, vars, master, tm_create, tm_destroy, InBounded,
              program
<1> QED BY <1>2, <1>3, <1>4 DEF GInv

LEMMA InMeasureInv == ASSUME GInv, InMeasure(MeasureStep) PROVE GInv'
<1>1. stage = "measure" /\ MeasureStep /\ UNCHANGED bounded /\ UNCHANGED program
  BY DEF InMeasure
<1>2. HarnessInv' /\ BoundedInv'
  BY <1>1, HarnessInvNext, BoundedInvStarts DEF GInv
<1>3. ProgramTypeOK' /\ Stages'
  BY <1>1 DEF GInv, ProgramTypeOK, Stages, program, bounded
<1> QED BY <1>2, <1>3 DEF GInv

LEMMA GInvNext == GInv /\ [GNext]_gvars => GInv'
<1>1. GInv /\ UNCHANGED gvars => GInv'
  <2> SUFFICES ASSUME GInv, UNCHANGED gvars PROVE GInv'
    OBVIOUS
  <2>1. HarnessInv' /\ BoundedInv'
    BY HarnessInvNext, BoundedInvStarts DEF GInv, gvars
  <2>2. ProgramTypeOK' /\ Stages'
    BY DEF GInv, gvars, ProgramTypeOK, Stages, program, vars, master, bounded
  <2> QED BY <2>1, <2>2 DEF GInv
<1> QED BY <1>1, MainInv, RunnerInv, InMeasureInv DEF GNext

LEMMA GInvariant == GSpec => []GInv
<1> QED BY GInvInit, GInvNext, PTL DEF GSpec

---------------------------------------------------------------------------
(* The theorems.                                                           *)

\* Every variable of the program has its type in every state: the counters stay
\* within the number of workers, and no worker passes its last round by more
\* than one (grading.cpp:41-139, 246-318).
THEOREM GradingTypeCorrect == GSpec => []GradingTypeOK
<1>1. GInv => GradingTypeOK
  BY DEF GInv, GradingTypeOK, ProgramTypeOK, HarnessInv, BoundedInv
<1> QED BY <1>1, GInvariant, PTL

\* No worker runs ahead of another by more than one meeting of the barrier, and
\* not while the other is still before it (class Barrier, common.hpp).
THEOREM NoneRunsAhead == GSpec => []Meeting
<1>1. GInv => Meeting
  BY BarrierMeets DEF GInv, HarnessInv
<1> QED BY <1>1, GInvariant, PTL

\* A caller of bounded_run that sleeps has not missed the notification: the
\* runner still has it to give (common.hpp:265-276).
THEOREM NotificationIsNotLost == GSpec => []NotifiedIsAwake
<1>1. GInv => NotifiedIsAwake
  BY DEF GInv, BoundedInv, NotifiedIsAwake
<1> QED BY <1>1, GInvariant, PTL

\* The program returns 0 only after all rounds, in which no worker reported an
\* error and each met the others three times in the check; and 1 only if one
\* did or the memory was never made (grading.cpp:314-318, 351).
THEOREM ExitCodeIsVerdict == GSpec => []ExitCode
<1>1. ASSUME GInv PROVE ExitCode
  <2>1. CASE code = "return 0"
    <3>1. Leaving /\ error = {} /\ Last \in Nat
      BY <1>1, <2>1, HarnessAssumption
         DEF GInv, Stages, HarnessInv, Between, Gathering, Running, Closing
    <3>2. started = Last /\ \A w \in Worker : outcome[w] = "ok" /\ round[w] > Last
      BY <3>1 DEF Leaving
    <3>3. \A w \in Worker : met[w] = 3
      BY <1>1, <3>2 DEF GInv, HarnessInv, Checked
    <3> QED BY <2>1, <3>2, <3>3 DEF ExitCode
  <2>2. CASE code = "return 1"
    BY <1>1, <2>2
       DEF GInv, Stages, HarnessInv, Between, Gathering, Running, Closing, Leaving, ExitCode
  <2> QED BY <2>1, <2>2 DEF ExitCode
<1> QED BY <1>1, GInvariant, PTL

\* When the process has ended with the library unloaded, no worker was still in
\* it, and no runner either, unless tm_create came late (grading.cpp:341).
THEOREM UnloadedIsIdle == GSpec => []UnloadsIdle
<1>1. ASSUME GInv PROVE UnloadsIdle
  <2>1. SUFFICES ASSUME stage = "over", ~ loaded, started > 0
                 PROVE  \A w \in Worker : wpc[w] = "exited"
    BY <1>1 DEF GInv, Stages, UnloadsIdle
  <2>2. mpc = "end"
    <3>1. started \in Nat /\ started # 0
      BY <1>1, <2>1, HarnessAssumption DEF GInv, HarnessInv, TypeOK
    <3> QED BY <1>1, <2>1, <3>1 DEF GInv, Stages
  <2> QED BY <1>1, <2>2
          DEF GInv, HarnessInv, Between, Gathering, Running, Closing, Leaving
<1> QED BY <1>1, GInvariant, PTL

\* Master and workers together run rounds that never overlap: none starts its
\* work before all are ready, the master goes on when all are done, and its
\* verdict is theirs (class Sync, grading.cpp:41-139; measure).
THEOREM HarnessImplementsRounds == GSpec => ImplementsRounds
<1>1. GInit => R!Init
  BY InitShows DEF GInit
<1>2. GInv /\ [GNext]_gvars => [R!Next]_(R!rvars)
  <2> SUFFICES ASSUME GInv, [GNext]_gvars PROVE [R!Next]_(R!rvars)
    OBVIOUS
  <2>1. CASE InMeasure(MeasureStep)
    BY <2>1, MeasureShows DEF GInv, InMeasure
  <2>2. CASE UNCHANGED vars
    <3>1. UNCHANGED R!rvars
      BY <2>2 DEF vars, master, worker, R!rvars, ReadyWorkers, DoneWorkers, Past
    <3> QED BY <3>1
  <2>3. UNCHANGED vars \/ InMeasure(MeasureStep)
    BY DEF GNext, MainStep, Load, Created, CreateOverrun, Measured, MeasureOverrun, Destroyed,
           DestroyOverrun, tm_create, tm_destroy, InBounded, gvars
  <2> QED BY <2>1, <2>2, <2>3
<1> QED BY <1>1, <1>2, GInvariant, PTL DEF GSpec, ImplementsRounds, R!Spec
===========================================================================
