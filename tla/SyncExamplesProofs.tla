------------------------ MODULE SyncExamplesProofs ------------------------
(***************************************************************************)
(* Proofs about the programs of src/sync-examples and src/playground: what *)
(* the counters can lose, that an election has one leader, and that the    *)
(* synchronized producers and consumers are a channel.                     *)
(***************************************************************************)
EXTENDS SyncExamples, FiniteSetTheorems, TLAPS

(* What all programs share.                                                *)

Programs == CounterPrograms \cup ElectionPrograms \cup ProConPrograms
Started == IF program \in ProConPrograms THEN 2 ELSE THREADS

\* The labels between lock_acquire and lock_release.
Critical == {"load", "store", "unlock", "test", "set", "boast"}

Common ==
  /\ SyncTypeOK /\ program \in Programs
  /\ DOMAIN pc = Thread
  /\ created <= Started
  /\ \A t \in Thread : pc[t] = "exited" <=> round[t] = RUNS
  /\ \A t \in Thread : t > created => pc[t] = "round" /\ round[t] = 0
  /\ verdict # "none" => created = Started /\ \A t \in 1..Started : pc[t] = "exited"
  /\ program \in {"counter2", "election2"} =>
       \A t \in Thread : pc[t] \in Critical => owner = t

---------------------------------------------------------------------------
(* The counters.                                                           *)

Turn == Thread \X (0..(RUNS - 1))
Stored == {e \in Turn : \/ e[2] < round[e[1]]
                        \/ e[2] = round[e[1]] /\ pc[e[1]] \in {"unlock", "check"}}
Passed == {e \in Turn : e[2] < round[e[1]]}

\* Stored bounds the counter from above.  From below: once somebody has stored
\* the counter is never 0 again, so a load of a later round finds at least 1,
\* and the last store of all is one of a last round.
CounterInv ==
  /\ counter \in Nat /\ local \in [Thread -> Nat] /\ check_counter \in 0..(RUNS * THREADS)
  /\ program \in CounterPrograms =>
       /\ counter <= Cardinality(Stored)
       /\ \A t \in Thread : pc[t] = "store" => local[t] <= Cardinality(Stored)
       /\ program \in {"counter2", "counter4"} => counter = Cardinality(Stored)
       /\ \A t \in Thread : program = "counter2" /\ pc[t] = "store" => local[t] = counter
       /\ Stored # {} => counter >= 1
       /\ \A t \in Thread : pc[t] = "store" /\ round[t] >= 1 => local[t] >= 1
       /\ Stored = Turn /\ RUNS > 1 => counter >= 2
       /\ program = "playground" => check_counter = Cardinality(Passed)

---------------------------------------------------------------------------
(* The elections.                                                          *)

\* Threads that are through with round r, or all but.
Through(r) == {t \in Thread : round[t] > r \/ (round[t] = r /\ pc[t] = "unlock")}

RoundInv(r) ==
  /\ nb_leaders[r] <= Cardinality(Through(r))
  /\ leader[r] # Nobody => nb_leaders[r] >= 1 \/ Winners(r) # {}
  /\ Through(r) # {} \/ Winners(r) # {} => leader[r] # Nobody
  /\ program \in {"election2", "election4"} =>
       nb_leaders[r] + Cardinality(Winners(r)) = IF leader[r] = Nobody THEN 0 ELSE 1

ElectionInv ==
  /\ leader \in [Round -> {Nobody} \cup Thread] /\ nb_leaders \in [Round -> 0..THREADS]
  /\ program \in ElectionPrograms => \A r \in Round : RoundInv(r)
  /\ \A t \in Thread : program = "election2" /\ pc[t] = "set" => Vacant(t)

---------------------------------------------------------------------------
(* Producer and consumer.                                                  *)

Ahead(t) == IF pc[t] \in {"done", "wake"} THEN 1 ELSE 0

ProConType ==
  /\ buffer \in [0..(BUFFER_SIZE - 1) -> Data]
  /\ produced \in [0..(RUNS - 1) -> Data] /\ consumed \in [0..(RUNS - 1) -> Data]
  /\ left \in [{Producer, Consumer} -> SUBSET Unit]
  /\ produced_until \in 0..RUNS /\ consumed_until \in 0..RUNS

\* The counters follow the rounds, and neither thread runs ahead of its limit.
Progress ==
  /\ produced_until = round[Producer] + Ahead(Producer)
  /\ consumed_until = round[Consumer] + Ahead(Consumer)
  /\ consumed_until <= produced_until
  /\ produced_until <= consumed_until + BUFFER_SIZE
  /\ pc[Producer] \in {"begin", "copy", "count"} => Room
  /\ pc[Consumer] \in {"begin", "copy", "count"} => Available

\* Between the counters the buffer holds what was produced; the producer fills
\* the slot ahead of them, the consumer drains the one behind.
Copied(t) == Unit \ (IF pc[t] = "copy" THEN left[t] ELSE {})
Contents ==
  /\ \A r \in consumed_until..(produced_until - 1) : buffer[Slot(r)] = produced[r]
  /\ pc[Producer] \in {"copy", "count"} => \A u \in Copied(Producer) :
       buffer[Slot(round[Producer])][u] = produced[round[Producer]][u]
  /\ pc[Consumer] \in {"copy", "count"} => \A u \in Copied(Consumer) :
       consumed[round[Consumer]][u] = produced[round[Consumer]][u]

ProConInv ==
  /\ ProConType
  /\ ~ Synchronized => produced_until = 0 /\ consumed_until = 0
  /\ Synchronized => Progress /\ Contents

---------------------------------------------------------------------------
\* What main has found when it has judged.
Judged ==
  /\ verdict # "none" /\ program \in {"counter2", "counter4"} => verdict = "correct"

SyncInv == Common /\ CounterInv /\ ElectionInv /\ ProConInv /\ Judged

---------------------------------------------------------------------------
(* How main and the threads move.                                          *)

LEMMA Constants ==
  /\ THREADS \in Nat \ {0, 1} /\ RUNS \in Nat \ {0} /\ BUFFER_SIZE \in Nat \ {0}
  /\ Thread \subseteq Nat /\ Producer \in Thread /\ Consumer \in Thread /\ Main \notin Thread
BY SyncAssumption, ProConAssumption DEF Thread, Main, Producer, Consumer

\* A thread's step from one label to another, the end of the loop included.
LEMMA StepShape ==
  ASSUME Common
  PROVE  \A t \in Thread : \A from, to :
           Step(t, from, to) /\ from # "exited" /\ to # "exited" =>
             /\ pc[t] = from /\ t <= created /\ UNCHANGED <<program, created, verdict>>
             /\ verdict = "none" /\ round[t] \in 0..(RUNS - 1)
             /\ DOMAIN pc' = Thread /\ round' \in [Thread -> 0..RUNS]
             /\ \A v \in Thread \ {t} : pc'[v] = pc[v] /\ round'[v] = round[v]
             /\ to # "next" => pc'[t] = to /\ round'[t] = round[t]
             /\ to = "next" => /\ round'[t] = round[t] + 1
                               /\ pc'[t] = IF round[t] + 1 = RUNS THEN "exited" ELSE "round"
<1> SUFFICES ASSUME NEW t \in Thread, NEW from, NEW to,
                    Step(t, from, to), from # "exited", to # "exited"
             PROVE  /\ pc[t] = from /\ t <= created /\ UNCHANGED <<program, created, verdict>>
                    /\ verdict = "none" /\ round[t] \in 0..(RUNS - 1)
                    /\ DOMAIN pc' = Thread /\ round' \in [Thread -> 0..RUNS]
                    /\ \A v \in Thread \ {t} : pc'[v] = pc[v] /\ round'[v] = round[v]
                    /\ to # "next" => pc'[t] = to /\ round'[t] = round[t]
                    /\ to = "next" => /\ round'[t] = round[t] + 1
                                      /\ pc'[t] = IF round[t] + 1 = RUNS THEN "exited" ELSE "round"
  OBVIOUS
<1>1. pc[t] = from /\ t <= created /\ Goto(t, to) /\ UNCHANGED <<program, created, verdict>>
  BY DEF Step, main
<1>2. round[t] \in 0..(RUNS - 1) /\ round \in [Thread -> 0..RUNS]
  BY <1>1, Constants DEF Common, SyncTypeOK
<1>3. verdict = "none"
  <2>1. created \in Nat /\ Started \in Nat /\ created <= Started /\ t \in Nat /\ t >= 1
    BY Constants DEF Common, SyncTypeOK, Started, Thread
  <2> QED BY <1>1, <2>1 DEF Common
<1>4. DOMAIN pc' = Thread /\ round' \in [Thread -> 0..RUNS]
  BY <1>1, <1>2, Constants DEF Goto, Common
<1> QED BY <1>1, <1>2, <1>3, <1>4 DEF Goto, Common

\* A step keeps what all programs share, provided it enters the critical section
\* only with the mutex and gives the mutex back only on leaving it.
LEMMA CommonStep ==
  ASSUME Common
  PROVE  \A t \in Thread : \A from, to :
           /\ Step(t, from, to) /\ from # "exited" /\ to # "exited"
           /\ owner' \in {NoThread} \cup Thread /\ asleep' \subseteq Thread
           /\ program \in {"counter2", "election2"} =>
                \/ owner' = owner /\ (to \in Critical => from \in Critical)
                \/ owner = NoThread /\ owner' = t
                \/ owner' = NoThread /\ from \in Critical /\ to \notin Critical
           => Common'
<1> SUFFICES ASSUME NEW t \in Thread, NEW from, NEW to,
                    Step(t, from, to), from # "exited", to # "exited",
                    owner' \in {NoThread} \cup Thread, asleep' \subseteq Thread,
                    program \in {"counter2", "election2"} =>
                      \/ owner' = owner /\ (to \in Critical => from \in Critical)
                      \/ owner = NoThread /\ owner' = t
                      \/ owner' = NoThread /\ from \in Critical /\ to \notin Critical
             PROVE  Common'
  OBVIOUS
<1>1. /\ pc[t] = from /\ t <= created /\ UNCHANGED <<program, created, verdict>>
      /\ verdict = "none" /\ round[t] \in 0..(RUNS - 1)
      /\ DOMAIN pc' = Thread /\ round' \in [Thread -> 0..RUNS]
      /\ \A v \in Thread \ {t} : pc'[v] = pc[v] /\ round'[v] = round[v]
      /\ to # "next" => pc'[t] = to /\ round'[t] = round[t]
      /\ to = "next" => /\ round'[t] = round[t] + 1
                        /\ pc'[t] = IF round[t] + 1 = RUNS THEN "exited" ELSE "round"
  BY StepShape
<1>2. SyncTypeOK' /\ program' \in Programs /\ created' <= Started'
  BY <1>1 DEF Common, SyncTypeOK, Started
<1>3. \A v \in Thread : pc'[v] = "exited" <=> round'[v] = RUNS
  BY <1>1, Constants DEF Common
<1>4. \A v \in Thread : v > created' => pc'[v] = "round" /\ round'[v] = 0
  BY <1>1, Constants DEF Common, SyncTypeOK
<1>5. program' \in {"counter2", "election2"} =>
        \A v \in Thread : pc'[v] \in Critical => owner' = v
  <2> SUFFICES ASSUME program \in {"counter2", "election2"}, NEW v \in Thread, pc'[v] \in Critical
               PROVE  owner' = v
    BY <1>1
  <2>1. \A u \in Thread : pc[u] \in Critical => owner = u
    BY DEF Common
  <2>2. to = "next" => pc'[t] \notin Critical
    BY <1>1 DEF Critical
  <2>3. NoThread \notin Thread
    BY Constants DEF NoThread, Main
  <2> QED BY <1>1, <2>1, <2>2, <2>3
<1> QED BY <1>1, <1>2, <1>3, <1>4, <1>5 DEF Common

LEMMA CommonMain ==
  ASSUME Common
  PROVE  \A correct : Run(Started, correct) =>
           /\ Common' /\ UNCHANGED <<program, pc, round, owner, asleep>>
           /\ verdict' # "none" => /\ \A t \in 1..Started : pc[t] = "exited"
                                   /\ verdict' = IF correct THEN "correct" ELSE "wrong"
<1> SUFFICES ASSUME NEW correct, Run(Started, correct)
             PROVE  /\ Common' /\ UNCHANGED <<program, pc, round, owner, asleep>>
                    /\ verdict' # "none" => /\ \A t \in 1..Started : pc[t] = "exited"
                                            /\ verdict' = IF correct THEN "correct" ELSE "wrong"
  OBVIOUS
<1>1. /\ UNCHANGED <<program, pc, round, owner, asleep>> /\ Started' = Started
      /\ Started \in 0..THREADS
  BY Constants DEF Run, threads, lock, Started
<1>2. CASE created < Started /\ created' = created + 1 /\ UNCHANGED verdict
  <2>1. verdict = "none"
    BY <1>1, <1>2 DEF Common, SyncTypeOK
  <2> QED BY <1>1, <1>2, <2>1, Constants DEF Common, SyncTypeOK
<1>3. CASE /\ created = Started /\ verdict = "none"
           /\ \A t \in 1..Started : pc[t] = "exited"
           /\ verdict' = IF correct THEN "correct" ELSE "wrong"
           /\ UNCHANGED created
  BY <1>1, <1>3 DEF Common, SyncTypeOK
<1> QED BY <1>2, <1>3 DEF Run

---------------------------------------------------------------------------
(* The counters' steps.                                                    *)

LEMMA TurnFinite ==
  /\ IsFiniteSet(Turn) /\ Cardinality(Turn) = RUNS * THREADS
  /\ \A S \in SUBSET Turn :
       /\ IsFiniteSet(S) /\ Cardinality(S) \in 0..(RUNS * THREADS)
       /\ \A e \in Turn \ S : Cardinality(S \cup {e}) = Cardinality(S) + 1
<1>1. IsFiniteSet(Thread) /\ Cardinality(Thread) = THREADS
  BY Constants, FS_Interval DEF Thread
<1>2. IsFiniteSet(0..(RUNS - 1)) /\ Cardinality(0..(RUNS - 1)) = RUNS
  BY Constants, FS_Interval
<1>3. IsFiniteSet(Turn) /\ Cardinality(Turn) = THREADS * RUNS
  BY <1>1, <1>2, FS_Product DEF Turn
<1>4. RUNS * THREADS = THREADS * RUNS /\ RUNS * THREADS \in Nat
  BY Constants
<1> SUFFICES ASSUME NEW S \in SUBSET Turn
             PROVE  /\ IsFiniteSet(S) /\ Cardinality(S) \in 0..(RUNS * THREADS)
                    /\ \A e \in Turn \ S : Cardinality(S \cup {e}) = Cardinality(S) + 1
  BY <1>3, <1>4
<1>5. IsFiniteSet(S) /\ Cardinality(S) <= Cardinality(Turn) /\ Cardinality(S) \in Nat
  BY <1>3, FS_Subset, FS_CardinalityType
<1> QED BY <1>3, <1>4, <1>5, FS_AddElement

\* A step that touches neither the counter nor a thread's copy of it.
LEMMA CountKept ==
  ASSUME CounterInv, UNCHANGED <<program, counter, local, check_counter>>,
         Stored' = Stored, program = "playground" => Passed' = Passed,
         \A t \in Thread : pc'[t] = "store" => pc[t] = "store" /\ round'[t] = round[t]
  PROVE  CounterInv'
BY DEF CounterInv

\* What a step does to the sets that are counted.
LEMMA CountedShape ==
  ASSUME Common
  PROVE  \A t \in Thread : \A from, to :
           Step(t, from, to) /\ from # "exited" /\ to # "exited" =>
             LET e == <<t, round[t]>>
                 before == from \notin {"unlock", "check"}
             IN  /\ e \in Turn /\ Stored \subseteq Turn /\ Passed \subseteq Turn
                 /\ before <=> e \notin Stored
                 /\ e \notin Passed
                 /\ Stored' = IF to \in {"next", "unlock", "check"} THEN Stored \cup {e}
                              ELSE Stored \ {e}
                 /\ Passed' = IF to = "next" THEN Passed \cup {e} ELSE Passed
<1> SUFFICES ASSUME NEW t \in Thread, NEW from, NEW to,
                    Step(t, from, to), from # "exited", to # "exited"
             PROVE  LET e == <<t, round[t]>>
                        before == from \notin {"unlock", "check"}
                    IN  /\ e \in Turn /\ Stored \subseteq Turn /\ Passed \subseteq Turn
                        /\ before <=> e \notin Stored
                        /\ e \notin Passed
                        /\ Stored' = IF to \in {"next", "unlock", "check"} THEN Stored \cup {e}
                                     ELSE Stored \ {e}
                        /\ Passed' = IF to = "next" THEN Passed \cup {e} ELSE Passed
  OBVIOUS
<1> DEFINE e == <<t, round[t]>>
<1>1. /\ pc[t] = from /\ round[t] \in 0..(RUNS - 1)
      /\ \A v \in Thread \ {t} : pc'[v] = pc[v] /\ round'[v] = round[v]
      /\ to # "next" => pc'[t] = to /\ round'[t] = round[t]
      /\ to = "next" => /\ round'[t] = round[t] + 1
                        /\ pc'[t] = IF round[t] + 1 = RUNS THEN "exited" ELSE "round"
  BY StepShape
<1>2. e \in Turn /\ Stored \subseteq Turn /\ Passed \subseteq Turn /\ e \notin Passed
  BY <1>1, Constants DEF Turn, Stored, Passed
<1>3. from \notin {"unlock", "check"} <=> e \notin Stored
  BY <1>1, <1>2, Constants DEF Stored
<1>4. ASSUME NEW f \in Turn, f # e
      PROVE  (f \in Stored' <=> f \in Stored) /\ (f \in Passed' <=> f \in Passed)
  <2>1. f[1] \in Thread /\ f[2] \in 0..(RUNS - 1) /\ (f[1] # t \/ f[2] # round[t])
    BY <1>4 DEF Turn
  <2>2. CASE f[1] # t
    BY <1>1, <2>1, <2>2 DEF Stored, Passed
  <2>3. CASE f[1] = t /\ f[2] # round[t]
    <3>1. CASE to # "next"
      BY <1>1, <2>1, <2>3, <3>1 DEF Stored, Passed
    <3>2. CASE to = "next"
      <4>1. /\ round'[t] = round[t] + 1 /\ pc'[t] \notin {"unlock", "check"}
            /\ f[2] < round[t] + 1 <=> f[2] < round[t]
        BY <1>1, <2>1, <2>3, <3>2
      <4> QED BY <1>1, <2>1, <2>3, <4>1 DEF Stored, Passed
    <3> QED BY <3>1, <3>2
  <2> QED BY <2>1, <2>2, <2>3
<1>5. e \in Stored' <=> to \in {"next", "unlock", "check"}
  BY <1>1, <1>2, Constants DEF Stored
<1>6. e \in Passed' <=> to = "next"
  BY <1>1, <1>2, Constants DEF Passed
<1>7. Stored' \subseteq Turn /\ Passed' \subseteq Turn
  BY DEF Stored, Passed, Turn
<1> QED BY <1>2, <1>3, <1>4, <1>5, <1>6, <1>7

LEMMA LoadInv ==
  ASSUME Common, CounterInv, NEW t \in Thread, NEW from \in {"round", "load"},
         Load(t, from, "store")
  PROVE  CounterInv'
<1>1. /\ pc[t] = from /\ UNCHANGED program /\ round[t] \in 0..(RUNS - 1)
      /\ \A v \in Thread \ {t} : pc'[v] = pc[v] /\ round'[v] = round[v]
      /\ pc'[t] = "store" /\ round'[t] = round[t]
  BY StepShape DEF Load
<1>2. Stored \subseteq Turn /\ Stored' = Stored /\ Passed' = Passed
  <2>1. /\ Stored \subseteq Turn /\ <<t, round[t]>> \notin Stored
        /\ Stored' = Stored \ {<<t, round[t]>>} /\ Passed' = Passed
    <3>1. Step(t, from, "store") /\ from # "exited" /\ from \notin {"unlock", "check"}
      BY DEF Load
    <3> QED BY <3>1, CountedShape
  <2> QED BY <2>1
<1>3. /\ local' = [local EXCEPT ![t] = counter] /\ UNCHANGED <<counter, check_counter>>
      /\ counter \in Nat /\ local \in [Thread -> Nat]
  BY DEF Load, CounterInv
<1>4. round[t] >= 1 => Stored # {}
  <2>1. round[t] >= 1 => <<t, 0>> \in Turn /\ <<t, 0>>[2] < round[<<t, 0>>[1]]
    BY <1>1, Constants DEF Turn
  <2> QED BY <2>1 DEF Stored
<1> QED BY <1>1, <1>2, <1>3, <1>4 DEF CounterInv

LEMMA StoreInv ==
  ASSUME Common, CounterInv, NEW t \in Thread, NEW to \in {"next", "unlock", "check"},
         Store(t, "store", to), program \in CounterPrograms \ {"counter4"},
         program = "playground" => to = "check"
  PROVE  CounterInv'
<1> DEFINE e == <<t, round[t]>>
<1>1. /\ pc[t] = "store" /\ UNCHANGED program /\ round[t] \in 0..(RUNS - 1)
      /\ \A v \in Thread \ {t} : pc'[v] = pc[v] /\ round'[v] = round[v]
      /\ pc'[t] # "store"
  BY StepShape DEF Store
<1>2. /\ e \in Turn /\ Stored \subseteq Turn /\ e \notin Stored /\ Stored' = Stored \cup {e}
      /\ program = "playground" => Passed' = Passed
  BY CountedShape DEF Store
<1>3. Cardinality(Stored) \in Nat /\ Cardinality(Stored') = Cardinality(Stored) + 1
  BY <1>2, TurnFinite
<1>4. /\ local' = [local EXCEPT ![t] = 0] /\ counter' = local[t] + 1 /\ UNCHANGED check_counter
      /\ counter \in Nat /\ local \in [Thread -> Nat]
      /\ \A v \in Thread : pc[v] = "store" => local[v] <= Cardinality(Stored)
      /\ check_counter \in 0..(RUNS * THREADS)
  BY DEF Store, CounterInv
<1>5. /\ local' \in [Thread -> Nat] /\ counter' \in Nat /\ counter' >= 1
      /\ counter' <= Cardinality(Stored')
      /\ \A v \in Thread : pc'[v] = "store" => local'[v] <= Cardinality(Stored')
      /\ \A v \in Thread : pc'[v] = "store" /\ round'[v] >= 1 => local'[v] >= 1
  BY <1>1, <1>3, <1>4 DEF CounterInv
<1>6. program = "counter2" =>
        /\ counter' = Cardinality(Stored')
        /\ \A v \in Thread : pc'[v] # "store"
  <2> SUFFICES ASSUME program = "counter2"
               PROVE  counter' = Cardinality(Stored') /\ \A v \in Thread : pc'[v] # "store"
    OBVIOUS
  <2>1. counter = Cardinality(Stored) /\ local[t] = counter
    BY <1>1 DEF CounterInv
  <2>2. \A v \in Thread : pc[v] = "store" => v = t
    BY <1>1 DEF Common, Critical
  <2> QED BY <1>1, <1>3, <1>4, <2>1, <2>2
<1>7. Stored' = Turn /\ RUNS > 1 => counter' >= 2
  <2> SUFFICES ASSUME Stored' = Turn, RUNS > 1 PROVE local[t] >= 1
    BY <1>4
  <2>1. round[t] >= 1
    <3> SUFFICES ASSUME round[t] = 0 PROVE FALSE
      BY <1>1
    <3>1. <<t, 1>> \in Turn /\ <<t, 1>> # e
      BY Constants DEF Turn
    <3>2. <<t, 1>> \in Stored
      BY <1>2, <3>1
    <3> QED BY <3>2 DEF Stored
  <2> QED BY <1>1, <2>1 DEF CounterInv
<1>8. program = "playground" => check_counter' = Cardinality(Passed')
  BY <1>2, <1>4 DEF CounterInv
<1> QED BY <1>1, <1>4, <1>5, <1>6, <1>7, <1>8 DEF CounterInv

\* fetch-and-add.
LEMMA AddInv == ASSUME Common, CounterInv, NEW t \in Thread, count4(t), program = "counter4"
                PROVE  CounterInv'
<1> DEFINE e == <<t, round[t]>>
<1>1. /\ UNCHANGED program /\ round[t] \in 0..(RUNS - 1)
      /\ \A v \in Thread \ {t} : pc'[v] = pc[v] /\ round'[v] = round[v]
      /\ pc'[t] # "store"
  BY StepShape DEF count4
<1>2. e \in Turn /\ Stored \subseteq Turn /\ e \notin Stored /\ Stored' = Stored \cup {e}
  BY CountedShape DEF count4
<1>3. Cardinality(Stored) \in Nat /\ Cardinality(Stored') = Cardinality(Stored) + 1
  BY <1>2, TurnFinite
<1>4. UNCHANGED <<local, check_counter>> /\ counter' = counter + 1 /\ counter = Cardinality(Stored)
  BY DEF count4, CounterInv, CounterPrograms
<1>5. Stored' = Turn /\ RUNS > 1 => counter' >= 2
  BY <1>3, <1>4, TurnFinite, Constants
<1> QED BY <1>1, <1>3, <1>4, <1>5 DEF CounterInv

\* The second count of the playground, which no store is lost from.
LEMMA CheckInv ==
  ASSUME Common, CounterInv, NEW t \in Thread, Step(t, "check", "next"), program = "playground",
         check_counter' = check_counter + 1, UNCHANGED <<counter, local>>
  PROVE  CounterInv'
<1> DEFINE e == <<t, round[t]>>
<1>1. /\ UNCHANGED program
      /\ \A v \in Thread \ {t} : pc'[v] = pc[v] /\ round'[v] = round[v]
      /\ pc'[t] # "store"
  BY StepShape
<1>2. /\ e \in Turn /\ Passed \subseteq Turn /\ e \notin Passed /\ Passed' = Passed \cup {e}
      /\ Stored' = Stored
  BY CountedShape
<1>3. Cardinality(Passed') = Cardinality(Passed) + 1 /\ Cardinality(Passed') \in 0..(RUNS * THREADS)
  BY <1>2, TurnFinite
<1>4. check_counter' = Cardinality(Passed')
  BY <1>3 DEF CounterInv, CounterPrograms
<1> QED BY <1>1, <1>2, <1>3, <1>4 DEF CounterInv

LEMMA CounterMain ==
  ASSUME Common, CounterInv, NEW correct, Threads(correct), program \in CounterPrograms
  PROVE  Common' /\ CounterInv'
<1>1. Started = THREADS
  BY DEF Started, CounterPrograms, ProConPrograms
<1>2. Common' /\ UNCHANGED <<program, pc, round>> /\ UNCHANGED <<counter, check_counter, local>>
  BY <1>1, CommonMain DEF Threads, counters
<1>3. Stored' = Stored /\ Passed' = Passed
  BY <1>2 DEF Stored, Passed
<1> QED BY <1>2, <1>3, CountKept

\* Each program, thread by thread.
LEMMA CounterStepInv ==
  ASSUME Common, CounterInv, NEW p \in {Main} \cup Thread, CounterStep(p)
  PROVE  Common' /\ CounterInv'
<1>1. CASE p = Main
  <2>1. program \in CounterPrograms /\ (Threads(Counted) \/ Threads(shared_check))
    BY <1>1 DEF CounterStep, CounterPrograms, counter1, counter2, counter3, counter4, playground
  <2> QED BY <2>1, CounterMain
<1>2. CASE p # Main
  <2>1. p \in Thread /\ owner \in {NoThread} \cup Thread /\ asleep \subseteq Thread
    BY <1>2 DEF Common, SyncTypeOK
  <2>2. ASSUME count1(p), program \in {"counter1", "counter3"} PROVE Common' /\ CounterInv'
    <3>1. Common'
      BY <2>1, <2>2, CommonStep DEF count1, Load, Store, lock
    <3>2. CounterInv'
      BY <2>1, <2>2, LoadInv, StoreInv DEF count1, CounterPrograms
    <3> QED BY <3>1, <3>2
  <2>3. CASE program = "counter2" /\ count2(p)
    <3>1. CASE Step(p, "round", "load") /\ lock_acquire(p) /\ UNCHANGED counters
      <4>1. Common'
        BY <2>1, <2>3, <3>1, CommonStep DEF lock_acquire
      <4>2. Stored' = Stored
        <5>1. <<p, round[p]>> \notin Stored /\ Stored' = Stored \ {<<p, round[p]>>}
          BY <2>1, <3>1, CountedShape
        <5> QED BY <5>1
      <4>3. \A t \in Thread : pc'[t] = "store" => pc[t] = "store" /\ round'[t] = round[t]
        BY <2>1, <3>1, StepShape
      <4>4. UNCHANGED program
        BY <3>1 DEF Step, main
      <4> QED BY <2>3, <3>1, <4>1, <4>2, <4>3, <4>4, CountKept DEF counters
    <3>2. CASE Load(p, "load", "store")
      <4>1. Common'
        BY <2>1, <3>2, CommonStep DEF Load, lock, Critical
      <4> QED BY <2>1, <3>2, <4>1, LoadInv
    <3>3. CASE Store(p, "store", "unlock")
      <4>1. Common'
        BY <2>1, <3>3, CommonStep DEF Store, lock, Critical
      <4> QED BY <2>1, <2>3, <3>3, <4>1, StoreInv DEF CounterPrograms
    <3>4. CASE Step(p, "unlock", "next") /\ lock_release(p) /\ UNCHANGED counters
      <4>1. Common'
        BY <2>1, <3>4, CommonStep DEF lock_release, Critical
      <4>2. Stored' = Stored
        <5>1. <<p, round[p]>> \in Stored /\ Stored' = Stored \cup {<<p, round[p]>>}
          BY <2>1, <3>4, CountedShape
        <5> QED BY <5>1
      <4>3. \A t \in Thread : pc'[t] = "store" => pc[t] = "store" /\ round'[t] = round[t]
        BY <2>1, <3>4, StepShape
      <4>4. UNCHANGED program
        BY <3>4 DEF Step, main
      <4> QED BY <2>3, <3>4, <4>1, <4>2, <4>3, <4>4, CountKept DEF counters
    <3> QED BY <2>3, <3>1, <3>2, <3>3, <3>4 DEF count2
  <2>4. CASE program = "counter4" /\ count4(p)
    <3>1. Common'
      BY <2>1, <2>4, CommonStep DEF count4, lock
    <3> QED BY <2>1, <2>4, <3>1, AddInv
  <2>5. CASE program = "playground" /\ shared_access(p)
    <3>1. Common'
      BY <2>1, <2>5, CommonStep DEF shared_access, Load, Store, lock
    <3>2. CounterInv'
      BY <2>1, <2>5, LoadInv, StoreInv, CheckInv DEF shared_access, CounterPrograms
    <3> QED BY <3>1, <3>2
  <2>6. count3(p) => count1(p)
    BY DEF count3, count1
  <2> QED BY <1>2, <2>2, <2>3, <2>4, <2>5, <2>6
          DEF CounterStep, counter1, counter2, counter3, counter4, playground
<1> QED BY <1>1, <1>2

---------------------------------------------------------------------------
(* The elections' steps.                                                   *)

\* A step from label to label changes the sets of one round only.
Moves(t, from, to, r) ==
  /\ Winners(r)' = IF to = "boast" THEN Winners(r) \cup {t} ELSE Winners(r) \ {t}
  /\ Through(r)' = IF to \in {"next", "unlock"} THEN Through(r) \cup {t} ELSE Through(r) \ {t}
  /\ t \in Winners(r) <=> from = "boast"
  /\ t \in Through(r) <=> from = "unlock"

LEMMA RoundShape ==
  ASSUME Common
  PROVE  \A t \in Thread : \A from, to :
           Step(t, from, to) /\ from # "exited" /\ to # "exited" =>
             /\ round[t] \in Round
             /\ \A r \in Round : IF r = round[t] THEN Moves(t, from, to, r)
                                 ELSE Winners(r)' = Winners(r) /\ Through(r)' = Through(r)
<1> SUFFICES ASSUME NEW t \in Thread, NEW from, NEW to,
                    Step(t, from, to), from # "exited", to # "exited"
             PROVE  /\ round[t] \in Round
                    /\ \A r \in Round : IF r = round[t] THEN Moves(t, from, to, r)
                                        ELSE Winners(r)' = Winners(r) /\ Through(r)' = Through(r)
  OBVIOUS
<1>1. /\ pc[t] = from /\ round[t] \in 0..(RUNS - 1)
      /\ \A v \in Thread \ {t} : pc'[v] = pc[v] /\ round'[v] = round[v]
      /\ to # "next" => pc'[t] = to /\ round'[t] = round[t]
      /\ to = "next" => /\ round'[t] = round[t] + 1
                        /\ pc'[t] = IF round[t] + 1 = RUNS THEN "exited" ELSE "round"
  BY StepShape
<1>2. ASSUME NEW r \in Round, r # round[t]
      PROVE  Winners(r)' = Winners(r) /\ Through(r)' = Through(r)
  <2>1. r \in Nat /\ (to = "next" => (round'[t] > r <=> round[t] > r) /\ pc'[t] \notin {"boast", "unlock"})
    BY <1>1, <1>2, Constants DEF Round
  <2>2. t \in Winners(r) <=> t \in Winners(r)'
    BY <1>1, <1>2, <2>1 DEF Winners
  <2>3. t \in Through(r) <=> t \in Through(r)'
    BY <1>1, <1>2, <2>1 DEF Through
  <2> QED BY <1>1, <2>2, <2>3 DEF Winners, Through
<1>3. ASSUME NEW r \in Round, r = round[t]
      PROVE  Moves(t, from, to, r)
  <2>1. /\ t \in Winners(r)' <=> to = "boast"
        /\ t \in Through(r)' <=> to \in {"next", "unlock"}
    BY <1>1, <1>3 DEF Winners, Through
  <2>2. /\ t \in Winners(r) <=> from = "boast"
        /\ t \in Through(r) <=> from = "unlock"
    BY <1>1, <1>3 DEF Winners, Through
  <2>3. \A v \in Thread \ {t} : /\ v \in Winners(r)' <=> v \in Winners(r)
                                /\ v \in Through(r)' <=> v \in Through(r)
    BY <1>1 DEF Winners, Through
  <2>4. /\ Winners(r) \subseteq Thread /\ Through(r) \subseteq Thread
        /\ Winners(r)' \subseteq Thread /\ Through(r)' \subseteq Thread
    BY DEF Winners, Through
  <2> QED BY <2>1, <2>2, <2>3, <2>4 DEF Moves
<1> QED BY <1>1, <1>2, <1>3 DEF Round

LEMMA ThreadsFinite ==
  ASSUME NEW S \in SUBSET Thread
  PROVE  /\ IsFiniteSet(S) /\ Cardinality(S) \in 0..THREADS
         /\ Cardinality(S) = 0 <=> S = {}
         /\ \A t \in Thread \ S : Cardinality(S \cup {t}) = Cardinality(S) + 1
         /\ \A t \in S : Cardinality(S \ {t}) = Cardinality(S) - 1
<1>1. IsFiniteSet(Thread) /\ Cardinality(Thread) = THREADS
  BY Constants, FS_Interval DEF Thread
<1>2. IsFiniteSet(S) /\ Cardinality(S) <= THREADS /\ Cardinality(S) \in Nat
  BY <1>1, FS_Subset, FS_CardinalityType
<1>3. Cardinality(S) = 0 <=> S = {}
  BY <1>2, FS_EmptySet
<1>4. \A t \in Thread \ S : Cardinality(S \cup {t}) = Cardinality(S) + 1
  BY <1>2, FS_AddElement
<1>5. \A t \in S : Cardinality(S \ {t}) = Cardinality(S) - 1
  BY <1>2, FS_RemoveElement
<1> QED BY <1>2, <1>3, <1>4, <1>5, Constants

\* A step that leaves the elections alone, but for those that are through.
LEMMA ElectionKept ==
  ASSUME ElectionInv, UNCHANGED <<program, leader, nb_leaders>>,
         \A r \in Round : /\ Winners(r)' = Winners(r) /\ Winners(r) \subseteq Thread
                          /\ Through(r) \subseteq Through(r)' /\ Through(r)' \subseteq Thread
                          /\ Through(r)' = Through(r) \/ leader[r] # Nobody,
         \A t \in Thread : program = "election2" /\ pc'[t] = "set" =>
                             (pc[t] = "set" /\ round'[t] = round[t]) \/ leader[round'[t]] = Nobody
  PROVE  ElectionInv'
<1>1. ASSUME NEW r \in Round, RoundInv(r) PROVE RoundInv(r)'
  <2>1. Cardinality(Through(r)) <= Cardinality(Through(r)')
    <3>1. IsFiniteSet(Through(r)')
      BY ThreadsFinite
    <3> QED BY <3>1, FS_Subset
  <2>2. /\ nb_leaders[r] \in Nat /\ Cardinality(Through(r)) \in Nat
        /\ Cardinality(Through(r)') \in Nat
    <3>1. Through(r) \in SUBSET Thread /\ Through(r)' \in SUBSET Thread
      OBVIOUS
    <3> QED BY <3>1, ThreadsFinite, Constants DEF ElectionInv
  <2> QED BY <1>1, <2>1, <2>2 DEF RoundInv
<1> QED BY <1>1 DEF ElectionInv, Vacant

LEMMA ImposeInv ==
  ASSUME Common, ElectionInv, NEW t \in Thread, NEW from \in {"round", "set"},
         Impose(t, from, "boast"), program \in ElectionPrograms,
         program = "election2" => from = "set", program = "election4" => Vacant(t)
  PROVE  ElectionInv'
<1> DEFINE q == round[t]
<1>1. /\ pc[t] = from /\ UNCHANGED program /\ q \in Round
      /\ \A v \in Thread \ {t} : pc'[v] = pc[v] /\ round'[v] = round[v]
      /\ pc'[t] = "boast" /\ round'[t] = q
  BY StepShape, RoundShape DEF Impose
<1>2. /\ leader' = [leader EXCEPT ![q] = t] /\ UNCHANGED nb_leaders
      /\ leader \in [Round -> {Nobody} \cup Thread] /\ nb_leaders \in [Round -> 0..THREADS]
      /\ t # Nobody
  BY Constants DEF Impose, ElectionInv, Nobody, Main
<1>3. leader' \in [Round -> {Nobody} \cup Thread] /\ nb_leaders' \in [Round -> 0..THREADS]
  BY <1>2
<1>4. ASSUME NEW r \in Round PROVE RoundInv(r)'
  <2>1. RoundInv(r)
    BY DEF ElectionInv
  <2>2. CASE r # q
    <3>1. Winners(r)' = Winners(r) /\ Through(r)' = Through(r)
      BY <2>2, RoundShape DEF Impose
    <3> QED BY <1>1, <1>2, <2>1, <2>2, <3>1 DEF RoundInv
  <2>3. CASE r = q
    <3>1. Winners(r)' = Winners(r) \cup {t} /\ Through(r)' = Through(r) /\ t \notin Winners(r)
      <4>1. Moves(t, from, "boast", r)
        BY <2>3, RoundShape DEF Impose
      <4> QED BY <4>1 DEF Moves
    <3>2. Winners(r) \in SUBSET Thread
      BY DEF Winners
    <3>3. Cardinality(Winners(r)') = Cardinality(Winners(r)) + 1 /\ Cardinality(Winners(r)) \in Nat
      BY <3>1, <3>2, ThreadsFinite
    <3>4. program \in {"election2", "election4"} => leader[r] = Nobody
      BY <1>1, <2>3 DEF ElectionInv, Vacant
    <3>5. program' \in {"election2", "election4"} =>
            nb_leaders'[r] + Cardinality(Winners(r)') = 1
      BY <1>1, <1>2, <2>1, <3>3, <3>4, Constants DEF RoundInv
    <3> QED BY <1>2, <2>1, <2>3, <3>1, <3>5 DEF RoundInv
  <2> QED BY <2>2, <2>3
<1>5. ASSUME NEW v \in Thread, program' = "election2", pc'[v] = "set" PROVE FALSE
  BY <1>1, <1>5 DEF Common, Critical
<1> QED BY <1>3, <1>4, <1>5 DEF ElectionInv

LEMMA BoastInv ==
  ASSUME Common, ElectionInv, NEW t \in Thread, NEW to \in {"next", "unlock"},
         Boast(t, "boast", to), program \in ElectionPrograms
  PROVE  ElectionInv'
<1> DEFINE q == round[t]
<1>1. /\ UNCHANGED program /\ q \in Round
      /\ \A v \in Thread \ {t} : pc'[v] = pc[v] /\ round'[v] = round[v]
      /\ pc'[t] # "set"
  BY StepShape, RoundShape DEF Boast
<1>2. /\ nb_leaders' = [nb_leaders EXCEPT ![q] = @ + 1] /\ UNCHANGED leader
      /\ leader \in [Round -> {Nobody} \cup Thread] /\ nb_leaders \in [Round -> 0..THREADS]
  BY DEF Boast, ElectionInv
<1>3. ASSUME NEW r \in Round PROVE RoundInv(r)' /\ nb_leaders'[r] \in 0..THREADS
  <2>1. RoundInv(r)
    BY DEF ElectionInv
  <2>2. CASE r # q
    <3>1. Winners(r)' = Winners(r) /\ Through(r)' = Through(r)
      BY <2>2, RoundShape DEF Boast
    <3> QED BY <1>1, <1>2, <2>1, <2>2, <3>1 DEF RoundInv
  <2>3. CASE r = q
    <3>1. /\ Winners(r)' = Winners(r) \ {t} /\ Through(r)' = Through(r) \cup {t}
          /\ t \in Winners(r) /\ t \notin Through(r)
      <4>1. Moves(t, "boast", to, r)
        BY <2>3, RoundShape DEF Boast
      <4> QED BY <4>1 DEF Moves
    <3>2. Winners(r) \in SUBSET Thread /\ Through(r) \in SUBSET Thread /\ Through(r)' \in SUBSET Thread
      BY DEF Winners, Through
    <3>3. /\ Cardinality(Winners(r)') = Cardinality(Winners(r)) - 1
          /\ Cardinality(Winners(r)) \in Nat
          /\ Cardinality(Through(r)') = Cardinality(Through(r)) + 1
          /\ Cardinality(Through(r)) \in Nat /\ Cardinality(Through(r)') \in 0..THREADS
      BY <3>1, <3>2, ThreadsFinite
    <3>4. nb_leaders'[r] = nb_leaders[r] + 1 /\ nb_leaders[r] \in Nat
      BY <1>2, <2>3, Constants
    <3>5. nb_leaders'[r] <= Cardinality(Through(r)') /\ leader[r] # Nobody
      BY <2>1, <3>1, <3>3, <3>4 DEF RoundInv
    <3>6. program' \in {"election2", "election4"} =>
            nb_leaders'[r] + Cardinality(Winners(r)') = 1
      BY <1>1, <2>1, <3>3, <3>4, <3>5 DEF RoundInv
    <3> QED BY <1>2, <3>3, <3>4, <3>5, <3>6, Constants DEF RoundInv
  <2> QED BY <2>2, <2>3
<1>4. nb_leaders' \in [Round -> 0..THREADS]
  BY <1>2, <1>3
<1> QED BY <1>1, <1>2, <1>3, <1>4 DEF ElectionInv, Vacant

LEMMA TestInv ==
  ASSUME Common, ElectionInv, NEW t \in Thread, NEW from \in {"round", "test"},
         NEW yes \in {"set", "round"}, NEW no \in {"next", "unlock"}, Test(t, from, yes, no)
  PROVE  ElectionInv'
<1> DEFINE to == IF Vacant(t) THEN yes ELSE no
<1>1. Step(t, from, to) /\ from # "exited" /\ to # "exited" /\ UNCHANGED <<leader, nb_leaders>>
  BY DEF Test, elections
<1> HIDE DEF to
<1>2. /\ UNCHANGED program /\ round[t] \in Round
      /\ \A v \in Thread \ {t} : pc'[v] = pc[v] /\ round'[v] = round[v]
      /\ to # "next" => pc'[t] = to /\ round'[t] = round[t]
      /\ to = "next" => pc'[t] \in {"exited", "round"}
  BY <1>1, StepShape, RoundShape
<1>3. ASSUME NEW r \in Round
      PROVE  /\ Winners(r)' = Winners(r) /\ Winners(r) \subseteq Thread
             /\ Through(r) \subseteq Through(r)' /\ Through(r)' \subseteq Thread
             /\ Through(r)' = Through(r) \/ leader[r] # Nobody
  <2>1. Winners(r) \subseteq Thread /\ Through(r)' \subseteq Thread
    BY DEF Winners, Through
  <2>2. CASE r = round[t]
    <3>1. Moves(t, from, to, r)
      BY <1>1, <2>2, RoundShape
    <3>2. to \in {"set", "round"} \/ (to \in {"next", "unlock"} /\ leader[r] # Nobody)
      BY <2>2 DEF to, Vacant
    <3> QED BY <2>1, <3>1, <3>2 DEF Moves
  <2>3. CASE r # round[t]
    BY <1>1, <2>1, <2>3, RoundShape
  <2> QED BY <2>2, <2>3
<1>4. ASSUME NEW v \in Thread, pc'[v] = "set"
      PROVE  (pc[v] = "set" /\ round'[v] = round[v]) \/ leader[round'[v]] = Nobody
  <2>1. CASE v = t
    BY <1>2, <1>4, <2>1 DEF to, Vacant
  <2> QED BY <1>2, <1>4, <2>1
<1> QED BY <1>1, <1>2, <1>3, <1>4, ElectionKept

\* Taking the mutex, and giving it back.
LEMMA LockingInv ==
  ASSUME Common, ElectionInv, NEW t \in Thread, UNCHANGED elections,
         Step(t, "round", "test") \/ Step(t, "unlock", "next")
  PROVE  ElectionInv'
<1>1. UNCHANGED <<program, leader, nb_leaders>>
  BY DEF Step, main, elections
<1>2. ASSUME NEW r \in Round
      PROVE  Winners(r)' = Winners(r) /\ Through(r)' = Through(r)
  <2>1. CASE r = round[t]
    <3>1. Moves(t, "round", "test", r) \/ Moves(t, "unlock", "next", r)
      BY <2>1, RoundShape
    <3> QED BY <3>1 DEF Moves
  <2> QED BY <2>1, RoundShape
<1>3. \A v \in Thread : pc'[v] = "set" => pc[v] = "set" /\ round'[v] = round[v]
  BY StepShape
<1>4. \A r \in Round : Winners(r) \subseteq Thread /\ Through(r)' \subseteq Thread
  BY DEF Winners, Through
<1> QED BY <1>1, <1>2, <1>3, <1>4, ElectionKept

LEMMA ElectionMain ==
  ASSUME Common, ElectionInv, NEW correct, Run(Started, correct), UNCHANGED elections
  PROVE  Common' /\ ElectionInv'
<1>1. Common' /\ UNCHANGED <<program, pc, round, leader, nb_leaders>>
  BY CommonMain DEF elections
<1>2. \A r \in Round : /\ Winners(r)' = Winners(r) /\ Through(r)' = Through(r)
                       /\ Winners(r) \subseteq Thread /\ Through(r)' \subseteq Thread
  BY <1>1 DEF Winners, Through
<1> QED BY <1>1, <1>2, ElectionKept

LEMMA ElectionStepInv ==
  ASSUME Common, ElectionInv, NEW p \in {Main} \cup Thread, ElectionStep(p)
  PROVE  Common' /\ ElectionInv'
<1>1. CASE p = Main
  <2>1. program \in ElectionPrograms /\ Candidates
    BY <1>1 DEF ElectionStep, ElectionPrograms, election1, election2, election3, election4
  <2>2. Started = THREADS
    BY <2>1 DEF Started, ElectionPrograms, ProConPrograms
  <2> QED BY <2>1, <2>2, ElectionMain DEF Candidates
<1>2. CASE p # Main
  <2>1. p \in Thread /\ owner \in {NoThread} \cup Thread /\ asleep \subseteq Thread
    BY <1>2 DEF Common, SyncTypeOK
  <2>2. ASSUME elect1(p), program \in {"election1", "election3"} PROVE Common' /\ ElectionInv'
    <3>1. Common'
      <4>1. /\ UNCHANGED lock
            /\ \/ Step(p, "round", IF Vacant(p) THEN "set" ELSE "next")
               \/ Step(p, "set", "boast") \/ Step(p, "boast", "next")
        BY <2>2 DEF elect1, Test, Impose, Boast
      <4> QED BY <2>1, <2>2, <4>1, CommonStep DEF lock
    <3>2. ElectionInv'
      BY <2>1, <2>2, TestInv, ImposeInv, BoastInv DEF elect1, ElectionPrograms
    <3> QED BY <3>1, <3>2
  <2>3. CASE program = "election2" /\ elect2(p)
    <3>1. Common'
      <4>1. CASE Step(p, "round", "test") /\ lock_acquire(p)
        BY <2>1, <4>1, CommonStep DEF lock_acquire
      <4>2. CASE Step(p, "unlock", "next") /\ lock_release(p)
        BY <2>1, <4>2, CommonStep DEF lock_release, Critical
      <4>3. CASE /\ UNCHANGED lock
                 /\ \/ Step(p, "test", IF Vacant(p) THEN "set" ELSE "unlock")
                    \/ Step(p, "set", "boast") \/ Step(p, "boast", "unlock")
        BY <2>1, <4>3, CommonStep DEF lock, Critical
      <4> QED BY <2>3, <4>1, <4>2, <4>3 DEF elect2, Test, Impose, Boast
    <3>2. ElectionInv'
      BY <2>1, <2>3, TestInv, ImposeInv, BoastInv, LockingInv DEF elect2, ElectionPrograms
    <3> QED BY <3>1, <3>2
  <2>4. CASE program = "election4" /\ elect4(p)
    <3>1. Common'
      <4>1. /\ UNCHANGED lock
            /\ \/ Step(p, "round", "boast") \/ Step(p, "boast", "next")
               \/ Step(p, "round", IF Vacant(p) THEN "round" ELSE "next")
        BY <2>4 DEF elect4, Test, Impose, Boast
      <4> QED BY <2>1, <2>4, <4>1, CommonStep DEF lock
    <3>2. ElectionInv'
      BY <2>1, <2>4, TestInv, ImposeInv, BoastInv DEF elect4, ElectionPrograms
    <3> QED BY <3>1, <3>2
  <2>5. elect3(p) => elect1(p)
    BY DEF elect3, elect1
  <2> QED BY <1>2, <2>2, <2>3, <2>4, <2>5
          DEF ElectionStep, election1, election2, election3, election4
<1> QED BY <1>1, <1>2

---------------------------------------------------------------------------
(* The steps of producer and consumer.                                     *)

LEMMA Slots ==
  /\ \A r \in Nat : Slot(r) \in 0..(BUFFER_SIZE - 1)
  /\ \A a, b \in Nat : a < b /\ b < a + BUFFER_SIZE => Slot(a) # Slot(b)
<1>1. \A r \in Nat : Slot(r) \in 0..(BUFFER_SIZE - 1)
  BY Constants DEF Slot
<1>2. ASSUME NEW a \in Nat, NEW b \in Nat, a < b, b < a + BUFFER_SIZE, Slot(a) = Slot(b)
      PROVE  FALSE
  <2> DEFINE x == a \div BUFFER_SIZE
             y == b \div BUFFER_SIZE
  <2>1. /\ x \in Int /\ y \in Int /\ Slot(a) \in Int
        /\ a = BUFFER_SIZE * x + Slot(a) /\ b = BUFFER_SIZE * y + Slot(b)
    BY Constants DEF Slot
  <2> HIDE DEF x, y
  <2>2. BUFFER_SIZE * (y - x) = b - a
    BY <1>2, <2>1, Constants
  <2>3. y - x >= 1
    BY <1>2, <2>1, <2>2, Constants
  <2>4. BUFFER_SIZE * (y - x) >= BUFFER_SIZE
    BY <2>1, <2>3, Constants
  <2> QED BY <1>2, <2>2, <2>4, Constants
<1> QED BY <1>1, <1>2

\* What the steps of a thread mean for the other, and for the rounds.
LEMMA PairShape ==
  ASSUME Common, program \in ProConPrograms
  PROVE  \A t \in {Producer, Consumer} : \A from, to :
           Step(t, from, to) /\ from # "exited" /\ to # "exited" =>
             /\ pc[t] = from /\ UNCHANGED program /\ Synchronized' = Synchronized
             /\ round[t] \in 0..(RUNS - 1) /\ round \in [Thread -> 0..RUNS]
             /\ \A v \in {Producer, Consumer} \ {t} : pc'[v] = pc[v] /\ round'[v] = round[v]
             /\ to # "next" => pc'[t] = to /\ round'[t] = round[t]
             /\ to = "next" => round'[t] = round[t] + 1 /\ pc'[t] \in {"exited", "round"}
<1>1. round \in [Thread -> 0..RUNS] /\ {Producer, Consumer} \subseteq Thread
  BY Constants DEF Common, SyncTypeOK
<1>2. \A t \in Thread : \A from, to : Step(t, from, to) /\ from # "exited" /\ to # "exited" =>
        /\ pc[t] = from /\ UNCHANGED program
        /\ round[t] \in 0..(RUNS - 1)
        /\ \A v \in Thread \ {t} : pc'[v] = pc[v] /\ round'[v] = round[v]
        /\ to # "next" => pc'[t] = to /\ round'[t] = round[t]
        /\ to = "next" => round'[t] = round[t] + 1 /\ pc'[t] \in {"exited", "round"}
  BY StepShape
<1> QED BY <1>1, <1>2 DEF Synchronized

\* Steps that take, give back or wait for the mutex, or look at the counters.
Looks(t, ready) ==
  \/ Step(t, "round", "look") \/ (ready /\ Step(t, "look", "begin"))
  \/ Step(t, "look", "unlock") \/ Step(t, "unlock", "round")
  \/ Step(t, "look", "asleep") \/ Step(t, "asleep", "look")
Leaves(t) == Step(t, "done", "next") \/ Step(t, "done", "wake") \/ Step(t, "wake", "next")

LEMMA QuietInv ==
  ASSUME Common, ProConInv, program \in ProConPrograms, UNCHANGED procon,
         \/ Looks(Producer, Room) \/ Looks(Consumer, Available)
         \/ Leaves(Producer) \/ Leaves(Consumer)
  PROVE  ProConInv'
<1>1. Producer # Consumer /\ RUNS \in Nat
  BY Constants DEF Producer, Consumer
<1>2. ProConType' /\ UNCHANGED <<buffer, produced_until, consumed_until, produced, consumed, left>>
  BY DEF ProConInv, ProConType, procon
<1>3. Synchronized' = Synchronized
  BY PairShape DEF Looks, Leaves
<1>4. ASSUME Synchronized PROVE Progress' /\ Contents'
  <2>1. Progress /\ Contents
    BY <1>4 DEF ProConInv
  <2>2. CASE Looks(Producer, Room)
    <3>1. /\ pc'[Consumer] = pc[Consumer] /\ UNCHANGED <<round[Producer], round[Consumer]>>
          /\ pc[Producer] \notin {"done", "wake"}
          /\ pc'[Producer] \notin {"done", "wake", "copy", "count"}
          /\ pc'[Producer] = "begin" => Room
      BY <1>1, <2>2, PairShape DEF Looks
    <3> QED BY <1>2, <2>1, <3>1 DEF Progress, Contents, Ahead, Room, Available, Copied
  <2>3. CASE Looks(Consumer, Available)
    <3>1. /\ pc'[Producer] = pc[Producer] /\ UNCHANGED <<round[Producer], round[Consumer]>>
          /\ pc[Consumer] \notin {"done", "wake"}
          /\ pc'[Consumer] \notin {"done", "wake", "copy", "count"}
          /\ pc'[Consumer] = "begin" => Available
      BY <1>1, <2>3, PairShape DEF Looks
    <3> QED BY <1>2, <2>1, <3>1 DEF Progress, Contents, Ahead, Room, Available, Copied
  <2>4. CASE Leaves(Producer)
    <3>1. /\ pc'[Consumer] = pc[Consumer] /\ UNCHANGED round[Consumer]
          /\ pc[Producer] \in {"done", "wake"}
          /\ pc'[Producer] \notin {"begin", "copy", "count"}
          /\ round'[Producer] + Ahead(Producer)' = round[Producer] + 1
      BY <1>1, <2>4, PairShape DEF Leaves, Ahead
    <3> QED BY <1>2, <2>1, <3>1 DEF Progress, Contents, Ahead, Room, Available, Copied
  <2>5. CASE Leaves(Consumer)
    <3>1. /\ pc'[Producer] = pc[Producer] /\ UNCHANGED round[Producer]
          /\ pc[Consumer] \in {"done", "wake"}
          /\ pc'[Consumer] \notin {"begin", "copy", "count"}
          /\ round'[Consumer] + Ahead(Consumer)' = round[Consumer] + 1
      BY <1>1, <2>5, PairShape DEF Leaves, Ahead
    <3> QED BY <1>2, <2>1, <3>1 DEF Progress, Contents, Ahead, Room, Available, Copied
  <2> QED BY <2>2, <2>3, <2>4, <2>5
<1> QED BY <1>2, <1>3, <1>4 DEF ProConInv

\* Random data for the round, or the start of a copy from the buffer.
LEMMA BeginInv ==
  ASSUME Common, ProConInv, program \in ProConPrograms, NEW from \in {"round", "begin"},
         \/ Produce(from, "copy") /\ (Synchronized /\ from = "round" => Room)
         \/ Consume(from, "copy") /\ (Synchronized /\ from = "round" => Available)
  PROVE  ProConInv'
<1>1. Producer # Consumer /\ RUNS \in Nat
  BY Constants DEF Producer, Consumer
<1>2. CASE Produce(from, "copy") /\ (Synchronized /\ from = "round" => Room)
  <2> DEFINE q == round[Producer]
  <2>1. /\ pc[Producer] = from /\ Synchronized' = Synchronized
        /\ q \in 0..(RUNS - 1) /\ UNCHANGED <<round[Producer], round[Consumer], pc[Consumer]>>
        /\ pc'[Producer] = "copy"
    BY <1>1, <1>2, PairShape DEF Produce
  <2>2. PICK d \in Data : produced' = [produced EXCEPT ![q] = d]
    BY <1>2 DEF Produce
  <2>3. /\ left' = [left EXCEPT ![Producer] = Unit]
        /\ UNCHANGED <<buffer, produced_until, consumed_until, consumed>>
    BY <1>2 DEF Produce
  <2>4. ProConType'
    BY <2>1, <2>2, <2>3 DEF ProConInv, ProConType
  <2>5. ASSUME Synchronized PROVE Progress' /\ Contents'
    <3>1. Progress /\ Contents /\ ProConType
      BY <2>5 DEF ProConInv
    <3>2. Room /\ produced_until = q
      BY <1>2, <2>1, <2>5, <3>1 DEF Progress, Ahead
    <3>3. Progress'
      BY <1>1, <2>1, <2>3, <3>1, <3>2 DEF Progress, Ahead, Room, Available
    <3>4. \A r \in 0..(RUNS - 1) : r # q => produced'[r] = produced[r]
      BY <2>2, <3>1 DEF ProConType
    <3>5. \A r \in consumed_until..(produced_until - 1) : r \in 0..(RUNS - 1) /\ r # q
      BY <1>1, <2>1, <3>1, <3>2 DEF ProConType
    <3>6. /\ Copied(Producer)' = {} /\ left'[Consumer] = left[Consumer]
          /\ Copied(Consumer)' = Copied(Consumer)
      BY <1>1, <2>1, <2>3, <3>1 DEF Copied, ProConType
    <3>7. pc[Consumer] \in {"copy", "count"} =>
            round[Consumer] \in 0..(RUNS - 1) /\ round[Consumer] # q
      <4>1. round[Consumer] \in 0..RUNS
        BY Constants DEF Common, SyncTypeOK
      <4> QED BY <1>1, <2>1, <3>1, <3>2, <4>1 DEF Progress, Available
    <3> QED BY <2>1, <2>3, <3>1, <3>3, <3>4, <3>5, <3>6, <3>7 DEF Contents
  <2> QED BY <2>1, <2>3, <2>4, <2>5 DEF ProConInv
<1>3. CASE Consume(from, "copy") /\ (Synchronized /\ from = "round" => Available)
  <2>1. /\ pc[Consumer] = from /\ Synchronized' = Synchronized
        /\ UNCHANGED <<round[Producer], round[Consumer], pc[Producer]>>
        /\ pc'[Consumer] = "copy"
    BY <1>1, <1>3, PairShape DEF Consume
  <2>2. /\ left' = [left EXCEPT ![Consumer] = Unit]
        /\ UNCHANGED <<buffer, produced_until, consumed_until, produced, consumed>>
    BY <1>3 DEF Consume
  <2>3. ProConType'
    BY <2>2 DEF ProConInv, ProConType
  <2>4. ASSUME Synchronized PROVE Progress' /\ Contents'
    <3>1. Progress /\ Contents /\ ProConType
      BY <2>4 DEF ProConInv
    <3>2. Available
      BY <1>3, <2>1, <2>4, <3>1 DEF Progress
    <3>3. Progress'
      BY <1>1, <2>1, <2>2, <3>1, <3>2 DEF Progress, Ahead, Room, Available
    <3>4. Copied(Consumer)' = {} /\ Copied(Producer)' = Copied(Producer)
      BY <1>1, <2>1, <2>2, <3>1 DEF Copied, ProConType
    <3> QED BY <2>1, <2>2, <3>1, <3>3, <3>4 DEF Contents
  <2> QED BY <2>1, <2>2, <2>3, <2>4 DEF ProConInv
<1> QED BY <1>2, <1>3

\* A unit is copied into the buffer, where no data wait: the slot is the
\* producer's own.
LEMMA FillInv ==
  ASSUME Common, ProConInv, program \in ProConPrograms, NEW to \in {"count", "next"},
         Fill("copy", to), Synchronized => to = "count"
  PROVE  ProConInv'
<1> DEFINE q == round[Producer]
<1>1. Producer # Consumer /\ RUNS \in Nat
  BY Constants DEF Producer, Consumer
<1>2. PICK u \in Unit : /\ Piece(Producer, u, "copy", to) /\ UNCHANGED consumed
                        /\ buffer' = [buffer EXCEPT ![Slot(q)][u] = produced[q][u]]
  BY DEF Fill
<1> DEFINE goal == IF left[Producer] = {u} THEN to ELSE "copy"
<1>3. /\ Step(Producer, "copy", goal) /\ goal # "exited" /\ u \in left[Producer]
      /\ left' = [left EXCEPT ![Producer] = @ \ {u}]
      /\ UNCHANGED <<produced_until, consumed_until, produced>>
  BY <1>2 DEF Piece
<1> HIDE DEF goal
<1>4. /\ pc[Producer] = "copy" /\ Synchronized' = Synchronized
      /\ q \in 0..(RUNS - 1) /\ UNCHANGED <<round[Consumer], pc[Consumer]>>
      /\ goal # "next" => pc'[Producer] = goal /\ round'[Producer] = q
  <2>1. Producer \in {Producer, Consumer} /\ Consumer \in {Producer, Consumer} \ {Producer}
    BY <1>1
  <2>2. /\ pc[Producer] = "copy" /\ Synchronized' = Synchronized /\ q \in 0..(RUNS - 1)
        /\ \A v \in {Producer, Consumer} \ {Producer} : pc'[v] = pc[v] /\ round'[v] = round[v]
        /\ goal # "next" => pc'[Producer] = goal /\ round'[Producer] = q
    BY <1>3, <2>1, PairShape
  <2> QED BY <2>1, <2>2
<1>5. ProConType' /\ Slot(q) \in 0..(BUFFER_SIZE - 1)
  <2>1. produced[q][u] \in Text /\ Slot(q) \in 0..(BUFFER_SIZE - 1)
    <3>1. q \in Nat
      BY <1>1, <1>4
    <3>2. Slot(q) \in 0..(BUFFER_SIZE - 1)
      BY <3>1, Slots
    <3> QED BY <1>4, <3>2 DEF ProConInv, ProConType, Data
  <2>2. buffer' \in [0..(BUFFER_SIZE - 1) -> Data]
    BY <1>2, <2>1 DEF ProConInv, ProConType, Data
  <2> QED BY <1>2, <1>3, <2>1, <2>2 DEF ProConInv, ProConType
<1>6. ASSUME Synchronized PROVE Progress' /\ Contents'
  <2>1. Progress /\ Contents /\ ProConType
    BY <1>6 DEF ProConInv
  <2>2. goal \in {"copy", "count"} /\ pc'[Producer] = goal /\ round'[Producer] = q
    BY <1>4, <1>6 DEF goal
  <2>3. Room /\ produced_until = q
    BY <1>4, <2>1 DEF Progress, Ahead
  <2>4. Progress'
    BY <1>1, <1>3, <1>4, <2>1, <2>2 DEF Progress, Ahead, Room, Available
  <2>5. ASSUME NEW r \in consumed_until..(produced_until - 1) PROVE buffer'[Slot(r)] = produced'[r]
    <3>1. r \in Nat /\ q \in Nat /\ r < q /\ q < r + BUFFER_SIZE
      BY <1>4, <2>1, <2>3, Constants DEF Room, ProConType
    <3>2. Slot(r) # Slot(q) /\ Slot(r) \in 0..(BUFFER_SIZE - 1)
      BY <3>1, Slots
    <3> QED BY <1>2, <1>3, <2>1, <3>2 DEF ProConType, Contents
  <2>6. /\ left[Producer] \subseteq Unit /\ left'[Producer] = left[Producer] \ {u}
        /\ left'[Consumer] = left[Consumer]
    BY <1>1, <1>3, <2>1 DEF ProConType
  <2>7. Copied(Producer)' \subseteq Copied(Producer) \cup {u} /\ Copied(Consumer)' = Copied(Consumer)
    BY <1>4, <2>2, <2>6 DEF Copied, goal
  <2>8. buffer'[Slot(q)][u] = produced[q][u]
        /\ \A v \in Unit \ {u} : buffer'[Slot(q)][v] = buffer[Slot(q)][v]
    BY <1>2, <1>5, <2>1 DEF ProConType, Data
  <2>9. \A v \in Copied(Producer)' : buffer'[Slot(q)][v] = produced'[q][v]
    BY <1>3, <1>4, <2>1, <2>7, <2>8 DEF Contents, Copied
  <2> QED BY <1>2, <1>3, <1>4, <2>1, <2>2, <2>4, <2>5, <2>7, <2>9 DEF Contents
<1> QED BY <1>3, <1>4, <1>5, <1>6 DEF ProConInv

\* A unit is copied out of the buffer.
LEMMA DrainInv ==
  ASSUME Common, ProConInv, program \in ProConPrograms, NEW to \in {"count", "next"},
         Drain("copy", to), Synchronized => to = "count"
  PROVE  ProConInv'
<1> DEFINE q == round[Consumer]
<1>1. Producer # Consumer /\ RUNS \in Nat
  BY Constants DEF Producer, Consumer
<1>2. PICK u \in Unit : /\ Piece(Consumer, u, "copy", to) /\ UNCHANGED buffer
                        /\ consumed' = [consumed EXCEPT ![q][u] = buffer[Slot(q)][u]]
  BY DEF Drain
<1> DEFINE goal == IF left[Consumer] = {u} THEN to ELSE "copy"
<1>3. /\ Step(Consumer, "copy", goal) /\ goal # "exited" /\ u \in left[Consumer]
      /\ left' = [left EXCEPT ![Consumer] = @ \ {u}]
      /\ UNCHANGED <<produced_until, consumed_until, produced>>
  BY <1>2 DEF Piece
<1> HIDE DEF goal
<1>4. /\ pc[Consumer] = "copy" /\ Synchronized' = Synchronized
      /\ q \in 0..(RUNS - 1) /\ UNCHANGED <<round[Producer], pc[Producer]>>
      /\ goal # "next" => pc'[Consumer] = goal /\ round'[Consumer] = q
  <2>1. Consumer \in {Producer, Consumer} /\ Producer \in {Producer, Consumer} \ {Consumer}
    BY <1>1
  <2>2. /\ pc[Consumer] = "copy" /\ Synchronized' = Synchronized /\ q \in 0..(RUNS - 1)
        /\ \A v \in {Producer, Consumer} \ {Consumer} : pc'[v] = pc[v] /\ round'[v] = round[v]
        /\ goal # "next" => pc'[Consumer] = goal /\ round'[Consumer] = q
    BY <1>3, <2>1, PairShape
  <2> QED BY <2>1, <2>2
<1>5. ProConType' /\ Slot(q) \in 0..(BUFFER_SIZE - 1)
  <2>1. buffer[Slot(q)][u] \in Text /\ Slot(q) \in 0..(BUFFER_SIZE - 1)
    <3>1. q \in Nat
      BY <1>1, <1>4
    <3>2. Slot(q) \in 0..(BUFFER_SIZE - 1)
      BY <3>1, Slots
    <3> QED BY <1>4, <3>2 DEF ProConInv, ProConType, Data
  <2>2. consumed' \in [0..(RUNS - 1) -> Data]
    BY <1>2, <1>4, <2>1 DEF ProConInv, ProConType, Data
  <2> QED BY <1>2, <1>3, <2>1, <2>2 DEF ProConInv, ProConType
<1>6. ASSUME Synchronized PROVE Progress' /\ Contents'
  <2>1. Progress /\ Contents /\ ProConType
    BY <1>6 DEF ProConInv
  <2>2. goal \in {"copy", "count"} /\ pc'[Consumer] = goal /\ round'[Consumer] = q
    BY <1>4, <1>6 DEF goal
  <2>3. Available /\ consumed_until = q
    BY <1>4, <2>1 DEF Progress, Ahead
  <2>4. Progress'
    BY <1>1, <1>3, <1>4, <2>1, <2>2 DEF Progress, Ahead, Room, Available
  <2>5. buffer[Slot(q)] = produced[q]
    BY <1>4, <2>1, <2>3 DEF Contents, Available, ProConType
  <2>6. /\ left[Consumer] \subseteq Unit /\ left'[Consumer] = left[Consumer] \ {u}
        /\ left'[Producer] = left[Producer]
    BY <1>1, <1>3, <2>1 DEF ProConType
  <2>7. Copied(Consumer)' \subseteq Copied(Consumer) \cup {u} /\ Copied(Producer)' = Copied(Producer)
    BY <1>4, <2>2, <2>6 DEF Copied, goal
  <2>8. consumed'[q][u] = produced[q][u]
        /\ \A v \in Unit \ {u} : consumed'[q][v] = consumed[q][v]
    BY <1>2, <1>4, <2>1, <2>5 DEF ProConType, Data
  <2>9. \A v \in Copied(Consumer)' : consumed'[q][v] = produced'[q][v]
    BY <1>3, <1>4, <2>1, <2>7, <2>8 DEF Contents, Copied
  <2> QED BY <1>2, <1>3, <1>4, <2>1, <2>2, <2>4, <2>7, <2>9 DEF Contents
<1> QED BY <1>3, <1>4, <1>5, <1>6 DEF ProConInv

\* All units of the data have been copied: the slot holds them.
LEMMA CopyComplete ==
  ASSUME ProConInv, Synchronized, RUNS \in Nat, round \in [Thread -> 0..RUNS]
  PROVE  /\ pc[Producer] = "count" /\ round[Producer] < RUNS =>
              buffer[Slot(round[Producer])] = produced[round[Producer]]
         /\ pc[Consumer] = "count" /\ round[Consumer] < RUNS =>
              consumed[round[Consumer]] = produced[round[Consumer]]
<1>1. ProConType /\ Contents /\ round[Producer] \in 0..RUNS /\ round[Consumer] \in 0..RUNS
  BY Constants DEF ProConInv
<1>2. ASSUME pc[Producer] = "count", round[Producer] < RUNS
      PROVE  buffer[Slot(round[Producer])] = produced[round[Producer]]
  <2>1. buffer[Slot(round[Producer])] \in Data /\ produced[round[Producer]] \in Data
    <3>1. round[Producer] \in 0..(RUNS - 1)
      BY <1>1, <1>2
    <3>2. Slot(round[Producer]) \in 0..(BUFFER_SIZE - 1)
      BY <3>1, Slots
    <3> QED BY <1>1, <3>1, <3>2 DEF ProConType
  <2>2. \A u \in Unit : buffer[Slot(round[Producer])][u] = produced[round[Producer]][u]
    BY <1>1, <1>2 DEF Contents, Copied
  <2> QED BY <2>1, <2>2 DEF Data
<1>3. ASSUME pc[Consumer] = "count", round[Consumer] < RUNS
      PROVE  consumed[round[Consumer]] = produced[round[Consumer]]
  <2>1. consumed[round[Consumer]] \in Data /\ produced[round[Consumer]] \in Data
    BY <1>1, <1>3 DEF ProConType
  <2>2. \A u \in Unit : consumed[round[Consumer]][u] = produced[round[Consumer]][u]
    BY <1>1, <1>3 DEF Contents, Copied
  <2> QED BY <2>1, <2>2 DEF Data
<1> QED BY <1>2, <1>3

\* The data are handed over; and their slot is given back.
LEMMA HandOverInv ==
  ASSUME Common, ProConInv, Synchronized, NEW to \in {"done", "next"}, Produced("count", to)
  PROVE  ProConInv'
<1> DEFINE q == round[Producer]
<1>1. Producer # Consumer /\ RUNS \in Nat /\ program \in ProConPrograms
  BY Constants DEF Producer, Consumer, Synchronized
<1>2. /\ pc[Producer] = "count" /\ Synchronized' = Synchronized
      /\ q \in 0..(RUNS - 1) /\ round \in [Thread -> 0..RUNS]
      /\ UNCHANGED <<round[Consumer], pc[Consumer]>>
      /\ pc'[Producer] \in {"done", "exited", "round"}
      /\ round'[Producer] + Ahead(Producer)' = q + 1
  <2>1. Step(Producer, "count", to) /\ "count" # "exited" /\ to # "exited"
    BY DEF Produced
  <2>2. /\ pc[Producer] = "count" /\ Synchronized' = Synchronized
        /\ q \in 0..(RUNS - 1) /\ round \in [Thread -> 0..RUNS]
        /\ UNCHANGED <<round[Consumer], pc[Consumer]>>
        /\ to # "next" => pc'[Producer] = to /\ round'[Producer] = q
        /\ to = "next" => round'[Producer] = q + 1 /\ pc'[Producer] \in {"exited", "round"}
    BY <1>1, <2>1, PairShape
  <2> QED BY <2>2 DEF Ahead
<1>3. /\ produced_until' = produced_until + 1
      /\ UNCHANGED <<buffer, consumed_until, produced, consumed, left>>
  BY DEF Produced
<1>4. Progress /\ Contents /\ ProConType
  BY DEF ProConInv
<1>5. Room /\ produced_until = q
  BY <1>2, <1>4 DEF Progress, Ahead
<1>6. ProConType'
  <2>1. produced_until' \in 0..RUNS
    BY <1>1, <1>2, <1>3, <1>5
  <2> QED BY <1>3, <1>4, <2>1 DEF ProConType
<1>7. Progress'
  BY <1>1, <1>2, <1>3, <1>4, <1>5, Constants DEF Progress, Ahead, Room, Available, ProConType
<1>8. buffer[Slot(q)] = produced[q]
  BY <1>1, <1>2, CopyComplete
<1>9. \A r \in consumed_until..(produced_until' - 1) : r \in consumed_until..(produced_until - 1) \/ r = q
  BY <1>1, <1>2, <1>3, <1>4, <1>5 DEF ProConType
<1>10. Contents'
  BY <1>2, <1>3, <1>4, <1>8, <1>9 DEF Contents, Copied
<1> QED BY <1>2, <1>6, <1>7, <1>10 DEF ProConInv

LEMMA TakeInv ==
  ASSUME Common, ProConInv, Synchronized, NEW to \in {"done", "next"}, Consumed("count", to)
  PROVE  ProConInv'
<1> DEFINE q == round[Consumer]
<1>1. Producer # Consumer /\ RUNS \in Nat /\ program \in ProConPrograms
  BY Constants DEF Producer, Consumer, Synchronized
<1>2. /\ pc[Consumer] = "count" /\ Synchronized' = Synchronized
      /\ q \in 0..(RUNS - 1) /\ round \in [Thread -> 0..RUNS]
      /\ UNCHANGED <<round[Producer], pc[Producer]>>
      /\ pc'[Consumer] \in {"done", "exited", "round"}
      /\ round'[Consumer] + Ahead(Consumer)' = q + 1
  <2>1. Step(Consumer, "count", to) /\ "count" # "exited" /\ to # "exited"
    BY DEF Consumed
  <2>2. /\ pc[Consumer] = "count" /\ Synchronized' = Synchronized
        /\ q \in 0..(RUNS - 1) /\ round \in [Thread -> 0..RUNS]
        /\ UNCHANGED <<round[Producer], pc[Producer]>>
        /\ to # "next" => pc'[Consumer] = to /\ round'[Consumer] = q
        /\ to = "next" => round'[Consumer] = q + 1 /\ pc'[Consumer] \in {"exited", "round"}
    BY <1>1, <2>1, PairShape
  <2> QED BY <2>2 DEF Ahead
<1>3. /\ consumed_until' = consumed_until + 1
      /\ UNCHANGED <<buffer, produced_until, produced, consumed, left>>
  BY DEF Consumed
<1>4. Progress /\ Contents /\ ProConType
  BY DEF ProConInv
<1>5. Available /\ consumed_until = q
  BY <1>2, <1>4 DEF Progress, Ahead
<1>6. ProConType'
  <2>1. consumed_until' \in 0..RUNS
    BY <1>1, <1>2, <1>3, <1>5
  <2> QED BY <1>3, <1>4, <2>1 DEF ProConType
<1>7. Progress'
  BY <1>1, <1>2, <1>3, <1>4, <1>5, Constants DEF Progress, Ahead, Room, Available, ProConType
<1>8. \A r \in consumed_until'..(produced_until - 1) : r \in consumed_until..(produced_until - 1)
  BY <1>3, <1>4 DEF ProConType
<1>9. Contents'
  BY <1>2, <1>3, <1>4, <1>8 DEF Contents, Copied
<1> QED BY <1>2, <1>6, <1>7, <1>9 DEF ProConInv

LEMMA ProConMain ==
  ASSUME Common, ProConInv, Pair, program \in ProConPrograms
  PROVE  Common' /\ ProConInv'
<1>1. Run(Started, are_same) /\ UNCHANGED procon
  BY DEF Pair, Started
<1>2. Common' /\ UNCHANGED <<program, pc, round>>
  BY <1>1, CommonMain
<1> QED BY <1>1, <1>2
        DEF procon, ProConInv, ProConType, Synchronized, Progress, Contents, Ahead, Room, Available,
            Copied

\* The steps of the four programs.
LEMMA ProConStepInv ==
  ASSUME Common, ProConInv, NEW p \in {Main} \cup Thread, ProConStep(p)
  PROVE  Common' /\ ProConInv'
<1>1. /\ program \in ProConPrograms /\ Producer # Main /\ Consumer # Main /\ Producer # Consumer
      /\ {Producer, Consumer} \subseteq Thread
      /\ owner \in {NoThread} \cup Thread /\ asleep \subseteq Thread
      /\ program \notin {"counter2", "election2"}
  BY Constants DEF ProConStep, ProConPrograms, Producer, Consumer, Main, Common, SyncTypeOK
<1>2. CASE p = Main
  BY <1>1, <1>2, ProConMain DEF ProConStep, procon1, procon2, procon3, procon4
<1> DEFINE Begins  == \/ \E from \in {"round", "begin"} :
                           \/ /\ Produce(from, "copy")
                              /\ Synchronized /\ from = "round" => Room
                           \/ /\ Consume(from, "copy")
                              /\ Synchronized /\ from = "round" => Available
           Copies  == \E to \in {"count", "next"} :
                        (Synchronized => to = "count") /\ (Fill("copy", to) \/ Drain("copy", to))
           Counts  == Synchronized /\ \E to \in {"done", "next"} :
                        Produced("count", to) \/ Consumed("count", to)
           Waits   == /\ UNCHANGED procon
                      /\ \/ Looks(Producer, Room) \/ Looks(Consumer, Available)
                         \/ Leaves(Producer) \/ Leaves(Consumer)
                      /\ owner' \in {NoThread} \cup Thread /\ asleep' \subseteq Thread
<1>3. CASE p # Main
  <2>1. Begins \/ Copies \/ Counts \/ Waits
    <3>1. CASE program = "procon1"
      BY <1>1, <1>3, <3>1 DEF ProConStep, procon1, produce1, consume1, Synchronized
    <3>2. CASE program = "procon2"
      BY <1>1, <1>3, <3>2
         DEF ProConStep, procon2, produce2, consume2, Spin, Release, lock_acquire, lock_release,
             lock, Looks, Leaves, Synchronized, ProConPrograms
    <3>3. CASE program = "procon3"
      BY <1>1, <1>3, <3>3 DEF ProConStep, procon3, produce3, consume3, Synchronized, ProConPrograms
    <3>4. CASE program = "procon4"
      BY <1>1, <1>3, <3>4
         DEF ProConStep, procon4, produce4, consume4, Sleep, Release, WakeUp, lock_acquire,
             lock_release, lock_wait, lock_awake, lock_wake_up, lock, Looks, Leaves, Synchronized,
             ProConPrograms
    <3> QED BY <1>1, <3>1, <3>2, <3>3, <3>4 DEF ProConPrograms
  <2>2. ProConInv'
    BY <1>1, <2>1, BeginInv, FillInv, DrainInv, HandOverInv, TakeInv, QuietInv
  <2>3. Common'
    <3>1. /\ owner' \in {NoThread} \cup Thread /\ asleep' \subseteq Thread
          /\ \E t \in {Producer, Consumer} : \E from, to :
               Step(t, from, to) /\ from # "exited" /\ to # "exited"
      BY <1>1, <2>1 DEF Produce, Consume, Fill, Drain, Piece, Produced, Consumed, Looks, Leaves, lock
    <3> QED BY <1>1, <3>1, CommonStep
  <2> QED BY <2>2, <2>3
<1> QED BY <1>2, <1>3

---------------------------------------------------------------------------
(* The inductive invariant of all programs.                                *)

\* A program leaves the variables of the others alone.
LEMMA Elsewhere ==
  ASSUME SyncInv, UNCHANGED program
  PROVE  /\ UNCHANGED counters /\ program \notin CounterPrograms => CounterInv'
         /\ UNCHANGED elections /\ program \notin ElectionPrograms => ElectionInv'
         /\ UNCHANGED procon /\ program \notin ProConPrograms => ProConInv'
<1>1. UNCHANGED counters /\ program \notin CounterPrograms => CounterInv'
  BY DEF SyncInv, CounterInv, counters
<1>2. UNCHANGED elections /\ program \notin ElectionPrograms => ElectionInv'
  BY DEF SyncInv, ElectionInv, ElectionPrograms, elections
<1>3. UNCHANGED procon /\ program \notin ProConPrograms => ProConInv'
  BY DEF SyncInv, ProConInv, ProConType, Synchronized, procon
<1> QED BY <1>1, <1>2, <1>3

LEMMA ProgramsDiffer ==
  /\ CounterPrograms \cap ElectionPrograms = {} /\ CounterPrograms \cap ProConPrograms = {}
  /\ ElectionPrograms \cap ProConPrograms = {}
BY DEF CounterPrograms, ElectionPrograms, ProConPrograms

LEMMA ProgramIsKept ==
  /\ \A p : CounterStep(p) => UNCHANGED program /\ program \in CounterPrograms
  /\ \A p : ElectionStep(p) => UNCHANGED program /\ program \in ElectionPrograms
  /\ \A p : ProConStep(p) => UNCHANGED program /\ program \in ProConPrograms
<1> USE DEF Step, Run, main
<1>1. ASSUME NEW p, CounterStep(p) PROVE UNCHANGED program /\ program \in CounterPrograms
  BY <1>1 DEF CounterStep, CounterPrograms, counter1, counter2, counter3, counter4, playground,
              Threads, count1, count2, count3, count4, shared_access, Load, Store
<1>2. ASSUME NEW p, ElectionStep(p) PROVE UNCHANGED program /\ program \in ElectionPrograms
  BY <1>2 DEF ElectionStep, ElectionPrograms, election1, election2, election3, election4,
              Candidates, elect1, elect2, elect3, elect4, Test, Impose, Boast
<1>3. ASSUME NEW p, ProConStep(p) PROVE UNCHANGED program /\ program \in ProConPrograms
  <2>1. UNCHANGED program
    BY <1>3 DEF ProConStep, procon1, procon2, procon3, procon4, Pair, produce1, consume1, produce2,
                consume2, produce3, consume3, produce4, consume4, Spin, Sleep, Release, WakeUp,
                Produce, Consume, Fill, Drain, Piece, Produced, Consumed
  <2> QED BY <1>3, <2>1 DEF ProConStep, ProConPrograms
<1> QED BY <1>1, <1>2, <1>3

\* Main judges when every thread has ended: by then all counts are made.
LEMMA AllCounted ==
  ASSUME Common, \A t \in Thread : pc[t] = "exited"
  PROVE  Stored = Turn /\ Passed = Turn /\ Cardinality(Turn) = RUNS * THREADS
<1>1. \A t \in Thread : round[t] = RUNS
  BY DEF Common
<1>2. ASSUME NEW e \in Turn PROVE e[2] < round[e[1]]
  <2>1. e[1] \in Thread /\ e[2] \in 0..(RUNS - 1)
    BY DEF Turn
  <2>2. round[e[1]] = RUNS /\ RUNS \in Nat
    BY <1>1, <2>1, Constants
  <2> QED BY <2>1, <2>2
<1> QED BY <1>2, TurnFinite DEF Stored, Passed

LEMMA CountersJudged ==
  ASSUME Common, CounterInv, Judged, NEW p \in {Main} \cup Thread, CounterStep(p)
  PROVE  Judged'
<1>1. UNCHANGED program /\ program \in CounterPrograms
  BY ProgramIsKept
<1>2. CASE program \notin {"counter2", "counter4"}
  BY <1>1, <1>2 DEF Judged
<1>3. CASE program \in {"counter2", "counter4"} /\ p # Main
  <2>1. \E from, to : Step(p, from, to)
    BY <1>3 DEF CounterStep, counter2, counter4, count2, count4, Load, Store
  <2> QED BY <1>1, <2>1 DEF Step, main, Judged
<1>4. CASE program \in {"counter2", "counter4"} /\ p = Main
  <2>1. Run(Started, Counted) /\ Started = THREADS
    BY <1>1, <1>4, ProgramsDiffer DEF CounterStep, counter2, counter4, Threads, Started
  <2>2. verdict' # "none" => /\ \A t \in Thread : pc[t] = "exited"
                             /\ verdict' = IF Counted THEN "correct" ELSE "wrong"
    BY <2>1, CommonMain DEF Thread
  <2>3. (\A t \in Thread : pc[t] = "exited") => Counted
    BY <1>1, <1>4, AllCounted DEF CounterInv, Counted
  <2> QED BY <2>2, <2>3 DEF Judged
<1> QED BY <1>2, <1>3, <1>4

LEMMA SyncInvInit == Init => SyncInv
<1> SUFFICES ASSUME Init PROVE SyncInv
  OBVIOUS
<1> USE Constants DEF Init, SyncInit, CounterInit, ElectionInit, ProConInit, lock_init
<1>1. Common
  BY DEF Common, SyncTypeOK, Programs, Started, Critical
<1>2. CounterInv
  <2>1. Stored = {} /\ Passed = {}
    BY DEF Stored, Passed, Turn
  <2>2. Turn # {} /\ 0 \in 0..(RUNS * THREADS) /\ Cardinality({}) = 0
    <3>1. <<Producer, 0>> \in Turn
      BY DEF Turn
    <3>2. Cardinality(Turn) \in 0..(RUNS * THREADS)
      BY TurnFinite
    <3>3. RUNS * THREADS \in Nat
      OBVIOUS
    <3> QED BY <3>1, <3>2, <3>3, FS_EmptySet
  <2> QED BY <2>1, <2>2 DEF CounterInv
<1>3. ElectionInv
  <2>1. \A r \in Round : Winners(r) = {} /\ Through(r) = {}
    BY DEF Round, Winners, Through
  <2>2. Cardinality({}) = 0
    BY FS_EmptySet
  <2>3. \A r \in Round : leader[r] = Nobody /\ nb_leaders[r] = 0
    OBVIOUS
  <2>4. ASSUME NEW r \in Round PROVE RoundInv(r)
    <3>1. /\ Winners(r) = {} /\ Through(r) = {} /\ leader[r] = Nobody /\ nb_leaders[r] = 0
          /\ Cardinality(Winners(r)) = 0 /\ Cardinality(Through(r)) = 0
      BY <2>1, <2>2, <2>3
    <3>2. 0 <= 0 /\ 0 + 0 = 0
      OBVIOUS
    <3> QED BY <3>1, <3>2, Zenon DEF RoundInv
  <2> QED BY <2>3, <2>4 DEF ElectionInv
<1>4. ProConInv
  <2>1. Empty \in Data
    BY ProConAssumption DEF Empty, Data
  <2>2. ProConType
    BY <2>1 DEF ProConType
  <2>3. Progress /\ Contents
    BY DEF Progress, Contents, Ahead
  <2> QED BY <2>2, <2>3 DEF ProConInv
<1> QED BY <1>1, <1>2, <1>3, <1>4 DEF SyncInv, Judged

LEMMA SyncInvNext == SyncInv /\ [Next]_vars => SyncInv'
<1> SUFFICES ASSUME SyncInv, [Next]_vars PROVE SyncInv'
  OBVIOUS
<1>1. ASSUME NEW p \in {Main} \cup Thread, CounterStep(p), UNCHANGED <<elections, procon>>
      PROVE  SyncInv'
  BY <1>1, CounterStepInv, CountersJudged, ProgramIsKept, ProgramsDiffer, Elsewhere DEF SyncInv
<1>2. ASSUME NEW p \in {Main} \cup Thread, ElectionStep(p), UNCHANGED <<counters, procon>>
      PROVE  SyncInv'
  <2>1. program \in ElectionPrograms /\ UNCHANGED program
    BY <1>2, ProgramIsKept
  <2>2. Judged'
    BY <2>1 DEF Judged, ElectionPrograms
  <2> QED BY <1>2, <2>1, <2>2, ElectionStepInv, ProgramsDiffer, Elsewhere DEF SyncInv
<1>3. ASSUME NEW p \in {Main} \cup Thread, ProConStep(p), UNCHANGED <<counters, elections>>
      PROVE  SyncInv'
  <2>1. program \in ProConPrograms /\ UNCHANGED program
    BY <1>3, ProgramIsKept
  <2>2. Judged'
    BY <2>1 DEF Judged, ProConPrograms
  <2> QED BY <1>3, <2>1, <2>2, ProConStepInv, ProgramsDiffer, Elsewhere DEF SyncInv
<1>4. ASSUME UNCHANGED <<program, created, verdict, pc, round, owner, counters, elections, procon>>,
             asleep' \subseteq Thread
      PROVE  SyncInv'
  <2> USE <1>4 DEF SyncInv
  <2>1. Common'
    BY DEF Common, SyncTypeOK, Started
  <2>2. CounterInv'
    BY DEF CounterInv, Stored, Passed, counters
  <2>3. ElectionInv'
    <3>1. \A r : RoundInv(r)' = RoundInv(r)
      BY DEF RoundInv, Winners, Through, elections
    <3> QED BY <3>1 DEF ElectionInv, Vacant, elections
  <2>4. ProConInv'
    BY DEF ProConInv, ProConType, Synchronized, Progress, Contents, Ahead, Room, Available, Copied,
           procon
  <2> QED BY <2>1, <2>2, <2>3, <2>4 DEF Judged
<1>5. Spurious /\ UNCHANGED <<counters, elections, procon>> => SyncInv'
  BY <1>4 DEF Spurious, main, threads, SyncInv, Common, SyncTypeOK
<1>6. UNCHANGED vars => SyncInv'
  BY <1>4 DEF vars, main, threads, lock, SyncInv, Common, SyncTypeOK
<1> QED BY <1>1, <1>2, <1>3, <1>5, <1>6 DEF Next, Process

LEMMA SyncInvariant == Spec => []SyncInv
BY SyncInvInit, SyncInvNext, PTL DEF Spec

---------------------------------------------------------------------------
(* The channel.                                                            *)

LEMMA NothingSent == Init => C!Init
BY Constants DEF Init, ProConInit, C!Init, Sent, Received

\* Handing over sends, taking receives, and nothing else shows.
LEMMA HandOverSends ==
  ASSUME SyncInv, Synchronized, NEW to \in {"done", "next"}, Produced("count", to)
  PROVE  C!Send
<1> DEFINE q == round[Producer]
<1>1. /\ program \in ProConPrograms /\ Common /\ ProConType /\ Progress
      /\ RUNS \in Nat /\ BUFFER_SIZE \in Nat
  BY Constants DEF Synchronized, SyncInv, ProConInv
<1>2. Step(Producer, "count", to) /\ "count" # "exited" /\ to # "exited"
  BY DEF Produced
<1>3. pc[Producer] = "count" /\ Synchronized' = Synchronized /\ q \in 0..(RUNS - 1)
  BY <1>1, <1>2, PairShape
<1>4. Room /\ produced_until = q /\ consumed_until \in Nat
  BY <1>1, <1>3 DEF Progress, Ahead, ProConType
<1>5. /\ produced_until' = q + 1 /\ UNCHANGED <<consumed_until, produced, consumed>>
      /\ produced[q] \in Data
  BY <1>1, <1>3, <1>4 DEF Produced, ProConType
<1>6. Sent = [i \in 1..q |-> produced[i - 1]] /\ Len(Sent) = q /\ Sent \in Seq(Data)
  <2>1. \A i \in 1..q : produced[i - 1] \in Data
    BY <1>1, <1>3 DEF ProConType
  <2> QED BY <1>3, <1>4, <2>1 DEF Sent
<1>7. Sent' = [i \in 1..(q + 1) |-> produced[i - 1]]
  BY <1>3, <1>5 DEF Sent
<1>8. Sent' = Append(Sent, produced[q])
  BY <1>3, <1>6, <1>7
<1>9. Received' = Received /\ Len(Received) = consumed_until
  BY <1>3, <1>4, <1>5 DEF Received
<1>10. Len(Sent) < Len(Received) + BUFFER_SIZE
  BY <1>1, <1>4, <1>6, <1>9 DEF Room
<1> QED BY <1>5, <1>8, <1>9, <1>10 DEF C!Send

LEMMA TakeReceives ==
  ASSUME SyncInv, Synchronized, NEW to \in {"done", "next"}, Consumed("count", to)
  PROVE  C!Receive
<1> DEFINE q == round[Consumer]
<1>1. /\ program \in ProConPrograms /\ Common /\ ProConType /\ Progress /\ ProConInv
      /\ RUNS \in Nat /\ round \in [Thread -> 0..RUNS]
  BY Constants DEF Synchronized, SyncInv, ProConInv, Common, SyncTypeOK
<1>2. Step(Consumer, "count", to) /\ "count" # "exited" /\ to # "exited"
  BY DEF Consumed
<1>3. pc[Consumer] = "count" /\ Synchronized' = Synchronized /\ q \in 0..(RUNS - 1)
  BY <1>1, <1>2, PairShape
<1>4. Available /\ consumed_until = q /\ produced_until \in Nat
  BY <1>1, <1>3 DEF Progress, Ahead, ProConType
<1>5. consumed_until' = q + 1 /\ UNCHANGED <<produced_until, produced, consumed>>
  BY <1>4 DEF Consumed
<1>6. consumed[q] = produced[q]
  BY <1>1, <1>3, CopyComplete
<1>7. Received = [i \in 1..q |-> consumed[i - 1]] /\ Len(Received) = q /\ Received \in Seq(Data)
  <2>1. \A i \in 1..q : consumed[i - 1] \in Data
    BY <1>1, <1>3 DEF ProConType
  <2> QED BY <1>3, <1>4, <2>1 DEF Received
<1>8. Received' = [i \in 1..(q + 1) |-> consumed[i - 1]]
  BY <1>3, <1>5 DEF Received
<1>9. Received' = Append(Received, consumed[q])
  BY <1>3, <1>7, <1>8
<1>10. Sent' = Sent /\ Len(Sent) = produced_until /\ Sent[q + 1] = produced[q] /\ q < produced_until
  BY <1>3, <1>4, <1>5 DEF Sent, Available
<1> QED BY <1>6, <1>7, <1>9, <1>10 DEF C!Receive

LEMMA NothingShows ==
  ASSUME SyncInv, UNCHANGED <<program, produced_until, consumed_until>>,
         Synchronized => /\ \A i \in 1..produced_until : produced'[i - 1] = produced[i - 1]
                         /\ \A i \in 1..consumed_until : consumed'[i - 1] = consumed[i - 1]
  PROVE  UNCHANGED <<Sent, Received>>
BY DEF Sent, Received, Synchronized

LEMMA CopyIsHidden ==
  ASSUME SyncInv, Synchronized,
         \/ \E from : Produce(from, "copy") /\ pc[Producer] \in {"round", "begin"}
         \/ Consume("round", "copy") \/ Consume("begin", "copy")
         \/ Fill("copy", "count") \/ Drain("copy", "count")
  PROVE  UNCHANGED <<Sent, Received>>
<1>1. Common /\ ProConType /\ Progress /\ round \in [Thread -> 0..RUNS] /\ RUNS \in Nat
      /\ {Producer, Consumer} \subseteq Thread
  BY Constants DEF SyncInv, ProConInv, Common, SyncTypeOK
<1>2. UNCHANGED <<program, produced_until, consumed_until>>
  BY DEF Produce, Consume, Fill, Drain, Piece, Step, main
<1>3. CASE \E from : Produce(from, "copy") /\ pc[Producer] \in {"round", "begin"}
  <2>1. UNCHANGED consumed /\ \E d : produced' = [produced EXCEPT ![round[Producer]] = d]
    BY <1>3 DEF Produce
  <2>2. produced_until = round[Producer] /\ round[Producer] \in 0..RUNS
    BY <1>1, <1>3 DEF Progress, Ahead
  <2>3. \A i \in 1..produced_until : produced'[i - 1] = produced[i - 1]
    BY <1>1, <2>1, <2>2 DEF ProConType
  <2> QED BY <1>2, <2>1, <2>3, NothingShows
<1>4. CASE Drain("copy", "count")
  <2>1. /\ UNCHANGED produced /\ pc[Consumer] = "copy"
        /\ \E u, x : consumed' = [consumed EXCEPT ![round[Consumer]][u] = x]
    BY <1>4 DEF Drain, Piece, Step
  <2>2. consumed_until = round[Consumer] /\ round[Consumer] \in 0..RUNS
    BY <1>1, <2>1 DEF Progress, Ahead
  <2>3. \A i \in 1..consumed_until : consumed'[i - 1] = consumed[i - 1]
    BY <1>1, <2>1, <2>2 DEF ProConType
  <2> QED BY <1>2, <2>1, <2>3, NothingShows
<1>5. CASE Consume("round", "copy") \/ Consume("begin", "copy") \/ Fill("copy", "count")
  BY <1>2, <1>5, NothingShows DEF Consume, Fill, Piece
<1> QED BY <1>3, <1>4, <1>5

LEMMA ProConShows ==
  ASSUME SyncInv, NEW p \in {Main} \cup Thread, ProConStep(p)
  PROVE  C!Send \/ C!Receive \/ UNCHANGED <<Sent, Received>>
<1>1. program \in ProConPrograms /\ UNCHANGED program
  BY ProgramIsKept
<1>2. UNCHANGED procon => UNCHANGED <<Sent, Received>>
  BY <1>1, NothingShows DEF procon
<1>3. CASE ~ Synchronized
  <2>1. UNCHANGED <<produced_until, consumed_until>>
    BY <1>1, <1>3 DEF ProConStep, procon1, Pair, produce1, consume1, Produce, Consume, Fill, Drain,
                      Piece, procon, Synchronized
  <2> QED BY <1>1, <1>3, <2>1, NothingShows
<1>4. CASE Synchronized
  <2>1. \/ UNCHANGED procon
        \/ Produced("count", "done") \/ Produced("count", "next")
        \/ Consumed("count", "done") \/ Consumed("count", "next")
        \/ Produce("round", "copy") \/ Produce("begin", "copy")
        \/ Consume("round", "copy") \/ Consume("begin", "copy")
        \/ Fill("copy", "count") \/ Drain("copy", "count")
    <3>1. CASE program = "procon2"
      BY <1>4, <3>1 DEF ProConStep, procon2, Pair, produce2, consume2, Spin, Release
    <3>2. CASE program = "procon3"
      BY <1>4, <3>2 DEF ProConStep, procon3, Pair, produce3, consume3
    <3>3. CASE program = "procon4"
      BY <1>4, <3>3 DEF ProConStep, procon4, Pair, produce4, consume4, Sleep, Release, WakeUp
    <3> QED BY <1>4, <3>1, <3>2, <3>3 DEF Synchronized, ProConPrograms
  <2>2. Produce("round", "copy") \/ Produce("begin", "copy") => pc[Producer] \in {"round", "begin"}
    BY DEF Produce, Step
  <2> QED BY <1>2, <1>4, <2>1, <2>2, HandOverSends, TakeReceives, CopyIsHidden
<1> QED BY <1>3, <1>4

---------------------------------------------------------------------------
(* The theorems.                                                           *)

\* Every variable of the programs has its type in every state; threads are
\* started, rounds run and leaders counted within their bounds.
THEOREM SyncTypeCorrect == Spec => []TypeOK
<1>1. SyncInv => TypeOK
  <2> SUFFICES ASSUME SyncInv PROVE TypeOK
    OBVIOUS
  <2>1. SyncTypeOK /\ counter \in Nat /\ check_counter \in 0..(RUNS * THREADS)
        /\ leader \in [Round -> {Nobody} \cup Thread] /\ nb_leaders \in [Round -> 0..THREADS]
    BY DEF SyncInv, Common, CounterInv, ElectionInv
  <2>2. produced_until \in 0..RUNS /\ consumed_until \in 0..RUNS
        /\ \A f \in {buffer, produced, consumed} : \A i \in DOMAIN f : f[i] \in Data
    BY DEF SyncInv, ProConInv, ProConType
  <2> QED BY <2>1, <2>2 DEF TypeOK
<1> QED BY <1>1, SyncInvariant, PTL

\* However many threads and rounds: counter2 and counter4 lose no increment, the
\* others may but never count more than there are, and never less than two once
\* a thread has more than one round (counter1.c to counter4.c, playground).
THEOREM CountsAreBounded == Spec => []CounterBounds
<1>1. SyncInv => CounterBounds
  <2> SUFFICES ASSUME SyncInv, verdict # "none", program \in CounterPrograms
               PROVE  /\ program \in {"counter2", "counter4"} => verdict = "correct"
                      /\ counter \in (IF RUNS = 1 THEN 1 ELSE 2)..(RUNS * THREADS)
                      /\ program = "playground" => check_counter = RUNS * THREADS
    BY DEF CounterBounds
  <2>1. \A t \in Thread : pc[t] = "exited"
    BY ProgramsDiffer DEF SyncInv, Common, Started, Thread
  <2>2. Stored = Turn /\ Passed = Turn /\ Cardinality(Turn) = RUNS * THREADS
    BY <2>1, AllCounted DEF SyncInv
  <2>3. Turn # {}
    <3>1. <<Producer, 0>> \in Turn
      BY Constants DEF Turn
    <3> QED BY <3>1
  <2>4. /\ counter \in Nat /\ counter <= RUNS * THREADS /\ counter >= 1
        /\ RUNS > 1 => counter >= 2
        /\ program = "playground" => check_counter = RUNS * THREADS
    BY <2>2, <2>3 DEF SyncInv, CounterInv
  <2>5. counter \in (IF RUNS = 1 THEN 1 ELSE 2)..(RUNS * THREADS)
    <3>1. RUNS * THREADS \in Nat /\ (RUNS = 1 \/ RUNS > 1)
      BY Constants
    <3> QED BY <2>4, <3>1
  <2> QED BY <2>4, <2>5 DEF SyncInv, Judged
<1> QED BY <1>1, SyncInvariant, PTL

\* However many candidates: with the lock or the compare-and-swap at most one
\* thread ever takes itself for the leader of a round, and no round ends
\* without a leader in any of the programs (election1.c to election4.c).
THEOREM ElectionsAreUnique == Spec => []OneLeader
<1>1. ASSUME SyncInv, program \in ElectionPrograms, NEW r \in Round
      PROVE  /\ program \in {"election2", "election4"} =>
                  nb_leaders[r] + Cardinality(Winners(r)) =
                    (IF leader[r] = Nobody THEN 0 ELSE 1)
             /\ (\E t \in Thread : round[t] > r) => leader[r] # Nobody
             /\ verdict # "none" => nb_leaders[r] \in 1..THREADS
  <2>1. RoundInv(r) /\ nb_leaders[r] \in 0..THREADS
    BY <1>1 DEF SyncInv, ElectionInv
  <2>2. (\E t \in Thread : round[t] > r) => leader[r] # Nobody
    BY <2>1 DEF RoundInv, Through
  <2>3. verdict # "none" => nb_leaders[r] \in 1..THREADS
    <3> SUFFICES ASSUME verdict # "none" PROVE nb_leaders[r] >= 1
      BY <2>1, Constants
    <3>1. \A t \in Thread : pc[t] = "exited"
      BY <1>1, ProgramsDiffer DEF SyncInv, Common, Started, Thread
    <3>2. Winners(r) = {}
      BY <3>1 DEF Winners
    <3>3. round[Producer] = RUNS
      BY <1>1, <3>1, Constants DEF SyncInv, Common
    <3>4. round[Producer] > r
      BY <3>3, Constants DEF Round
    <3>5. leader[r] # Nobody
      BY <2>2, <3>4, Constants
    <3> QED BY <2>1, <3>2, <3>5 DEF RoundInv
  <2> QED BY <2>1, <2>2, <2>3 DEF RoundInv
<1>2. SyncInv => OneLeader
  BY <1>1 DEF OneLeader
<1> QED BY <1>2, SyncInvariant, PTL

\* procon2, procon3 and procon4 are a channel of the buffer's capacity: data are
\* received whole, in the order in which they were sent, each once, and no slot
\* is filled before it is drained (the comments "Correct" of procon2.c
\* and procon4.c, and those on the memory order of procon3.c).
\* Nothing is said of procon1, which synchronizes on nothing.
THEOREM SynchronizedPairsImplementChannel == Spec /\ Synchronized => ImplementsChannel
<1>1. SyncInv /\ [Next]_vars => [C!Send \/ C!Receive]_<<Sent, Received>>
  <2> SUFFICES ASSUME SyncInv, [Next]_vars
               PROVE  C!Send \/ C!Receive \/ UNCHANGED <<Sent, Received>>
    OBVIOUS
  <2>1. ASSUME NEW p \in {Main} \cup Thread, Process(p)
        PROVE  C!Send \/ C!Receive \/ UNCHANGED <<Sent, Received>>
    <3>1. CASE ProConStep(p)
      BY <3>1, ProConShows
    <3>2. CASE (CounterStep(p) \/ ElectionStep(p)) /\ UNCHANGED procon
      BY <3>2, ProgramIsKept, NothingShows DEF procon
    <3> QED BY <2>1, <3>1, <3>2 DEF Process
  <2>2. CASE (Spurious /\ UNCHANGED procon) \/ UNCHANGED vars
    BY <2>2, NothingShows DEF Spurious, vars, main, procon
  <2> QED BY <2>1, <2>2 DEF Next
<1> QED BY <1>1, NothingSent, SyncInvariant, PTL DEF Spec, ImplementsChannel, C!Spec
===========================================================================
