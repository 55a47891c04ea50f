----------------------------- MODULE BankOnTL2 ----------------------------
(***************************************************************************)
(* WorkloadBank of grading/workload.hpp on the memory of src/353055: init, *)
(* run and check as the transactions they make, call by call, each one     *)
(* repeated by transactional() until it commits.                           *)
(*                                                                         *)
(* What a transaction does next depends on what it has read, so Plan(t) is *)
(* the list of its calls as far as its reads decide it.  The model keeps   *)
(* the accounts in the first segment: it stops short of the allocations.   *)
(***************************************************************************)
EXTENDS TL2, Integers, FiniteSets, SequencesExt

CONSTANTS
  PerSegment,    \* nbaccounts
  InitBalance,   \* init_balance
  Trigger,       \* alloc_tx's trigger level
  Ids,           \* per worker: the pairs of sender and receiver it may draw
  Decrements,    \* nbtxperwrk of check, summed over the workers
  Jobs           \* the transactions each worker runs

Count == 0
NextSegment == 1
Parity == 2
Account(i) == 3 + i

ReadOnly == {"peek", "long", "seen", "last", "zero"}
Kinds == ReadOnly \cup {"init", "alloc", "short", "set", "dec"}

ASSUME BankAssumption ==
  /\ PerSegment \in Nat /\ PerSegment > 2
  /\ Trigger \in Nat /\ Trigger < PerSegment   \* a full segment loses an account
  /\ Word = 0..(2 + PerSegment) /\ Val \subseteq Int
  /\ InitBalance \in Nat \ {0} /\ Decrements \in Nat
  /\ Ids \in [Tx -> SUBSET (Nat \X Nat)] /\ Jobs \in [Tx -> Seq(Kinds)]

\* The parts of the workload: init, run and the three stretches of check.
Part(k) ==
  CASE k \in {"init", "peek"} -> 1
    [] k \in {"long", "alloc", "short"} -> 2
    [] k \in {"set", "seen"} -> 3
    [] k \in {"last", "dec"} -> 4
    [] k = "zero" -> 5

\* Part by part; init looks at what it has written, check at what it has set
\* and, before each decrease, at the counter; one worker sets the counter, to
\* the number of decreases there will be (workload.hpp:280-388).
DecTurns == UNION {{t} \X {i \in DOMAIN Jobs[t] : Jobs[t][i] = "dec"} : t \in Tx}
Pairs == {<<"init", "peek">>, <<"set", "seen">>, <<"last", "dec">>}
ASSUME JobsAssumption ==
  /\ IsFiniteSet(Tx)
  /\ \A t \in Tx : \A i, j \in DOMAIN Jobs[t] :
       i <= j => Part(Jobs[t][i]) <= Part(Jobs[t][j])
  /\ \A t \in Tx : \A i \in DOMAIN Jobs[t] : \A p \in Pairs :
       Jobs[t][i] = p[2] => i > 1 /\ Jobs[t][i - 1] = p[1]
  /\ \E first \in Tx :
       /\ \A t \in Tx \ {first} : \A i \in DOMAIN Jobs[t] : Part(Jobs[t][i]) # 3
       /\ (\E t \in Tx : \E i \in DOMAIN Jobs[t] : Part(Jobs[t][i]) > 2) =>
            \E k \in DOMAIN Jobs[first] : \A i \in DOMAIN Jobs[first] :
              Jobs[first][i] = "set" <=> i = k
  /\ Cardinality(DecTurns) = Decrements

VARIABLES
  todo,   \* per worker: the transactions it has yet to commit, current one first
  at,     \* the call of the transaction it is about to make
  got,    \* what the transaction's reads have returned, in their order
  ids,    \* sender and receiver of its transfers
  last    \* the counter as its previous transaction saw it
client == <<todo, at, got, ids, last>>
bvars == <<vars, client>>

Fill(v) == [u \in Unit |-> v]
ValueOf(d) == d[CHOOSE u \in Unit : TRUE]

Kind(t) == Head(todo[t])
Got(t, i) == IF i \in DOMAIN got[t] THEN got[t][i] ELSE 0

---------------------------------------------------------------------------
(* The closures given to transactional(), as the calls they make.          *)

Read(w) == <<[op |-> "read", word |-> w]>>
Write(w, v) == <<[op |-> "write", word |-> w, value |-> v]>>

InitTx ==
  Write(Count, PerSegment)
  \o [i \in 1..PerSegment |-> Write(Account(i - 1), InitBalance)[1]]

\* The first account found with a negative balance ends it.
Overdrawn(t) == \E i \in 3..(2 + Got(t, 1)) : Got(t, i) < 0
long_tx(t) ==
  LET calls == Read(Count) \o Read(Parity)
               \o [i \in 1..Got(t, 1) |-> Read(Account(i - 1))[1]]
               \o Read(NextSegment)
  IN  IF Overdrawn(t) THEN SubSeq(calls, 1, Len(got[t])) ELSE calls

\* Remove the last account, its balance going to the parity, or add one.
alloc_tx(t) ==
  LET n == Got(t, 1)
  IN  Read(Count) \o Read(NextSegment)
      \o IF n > Trigger /\ n > 2
         THEN Read(Parity) \o Read(Account(n - 1)) \o Write(Count, n - 1)
              \o Write(Parity, Got(t, 3) + Got(t, 4) - InitBalance)
         ELSE Write(Account(n), InitBalance) \o Write(Count, n + 1)

BothExist(t) == ids[t][1] < Got(t, 1) /\ ids[t][2] < Got(t, 1)

\* The receiver is read after the sender is written: they may be the same.
short_tx(t) ==
  LET sender == Account(ids[t][1])
      recver == Account(ids[t][2])
  IN  Read(Count)
      \o IF ~ BothExist(t) THEN Read(NextSegment)
         ELSE Read(sender)
              \o IF Got(t, 2) <= 0 THEN <<>>
                 ELSE Write(sender, Got(t, 2) - 1)
                      \o Read(recver) \o Write(recver, Got(t, 3) + 1)

\* One turn of check's loop is "last", then "dec".
Decrease(t) ==
  Read(Count)
  \o IF Got(t, 1) > last[t] THEN <<>> ELSE Write(Count, Got(t, 1) - 1)

Plan(t) ==
  CASE Kind(t) = "init"  -> InitTx
    [] Kind(t) = "peek"  -> Read(Account(0))
    [] Kind(t) = "long"  -> long_tx(t)
    [] Kind(t) = "alloc" -> alloc_tx(t)
    [] Kind(t) = "short" -> short_tx(t)
    [] Kind(t) = "set"   -> Write(Count, Decrements)
    [] Kind(t) = "dec"   -> Decrease(t)
    [] OTHER -> Read(Count)

\* What the closure returns, once it has made its calls.
Sum(t) == FoldSeq(+, 0, SubSeq(got[t], 2, 2 + Got(t, 1)))
Correct(t) ==
  CASE Kind(t) = "peek" -> Got(t, 1) = InitBalance
    [] Kind(t) = "long" -> ~ Overdrawn(t) /\ Sum(t) = InitBalance * Got(t, 1)
    [] Kind(t) = "seen" -> Got(t, 1) = Decrements
    [] Kind(t) = "dec"  -> Got(t, 1) <= last[t]
    [] Kind(t) = "zero" -> Got(t, 1) = 0
    [] OTHER -> TRUE

CallsMade(t) == pc[t] = "active" /\ at[t] > Len(Plan(t))

---------------------------------------------------------------------------
\* The parts are kept apart by the harness' rounds and by check's barrier.
InTurn(t) == \A u \in Tx : todo[u] # <<>> => Part(Kind(t)) <= Part(Kind(u))

\* Transaction's constructor, the first time or again in the retry loop.
Begin(t) ==
  /\ todo[t] # <<>> /\ InTurn(t)
  /\ tm_begin(t, Kind(t) \in ReadOnly)

MakeCall(t) ==
  /\ pc[t] = "active" /\ at[t] <= Len(Plan(t))
  /\ LET c == Plan(t)[at[t]]
     IN  \/ c.op = "read" /\ tm_read(t, c.word)
         \/ c.op = "write" /\ tm_write(t, c.word, Fill(c.value))

\* Transaction's destructor.
End(t) == CallsMade(t) /\ (EndWithoutWrites(t) \/ EndWithWrites(t))

Returns(t) == pc[t] \in {"checkversion", "insert", "active"} /\ pc'[t] = "active"
Commits(t) == pc[t] \in {"active", "unlock"} /\ pc'[t] = "idle"

\* What run and check do with the result: a wrong one ends the worker's part,
\* a transfer between accounts that are gone is drawn again.
AfterCommit(t) ==
  /\ todo' = [todo EXCEPT ![t] = IF ~ Correct(t) THEN <<>>
                                 ELSE IF Kind(t) = "short" /\ ~ BothExist(t) THEN @
                                 ELSE Tail(@)]
  /\ last' = [last EXCEPT ![t] = IF Kind(t) = "last" THEN Got(t, 1) ELSE 0]
  /\ ids' \in IF Kind(t) = "short" THEN {[ids EXCEPT ![t] = p] : p \in Ids[t]} ELSE {ids}

\* short_tx's closure holds its ids by reference and, as it walks on, takes a
\* segment's count off those beyond it: run again, it starts from the rest.
Beyond(t, i) == IF ids[t][i] < Got(t, 1) THEN ids[t][i] ELSE ids[t][i] - Got(t, 1)
AfterAbort(t) ==
  ids' = IF pc'[t] = "idle" /\ Kind(t) = "short"
         THEN [ids EXCEPT ![t] = <<Beyond(t, 1), Beyond(t, 2)>>] ELSE ids

\* The worker's own state follows the call.  An abort leaves todo alone: the
\* closure runs again from its start.
Follow(t) ==
  /\ at' = [at EXCEPT ![t] = IF pc'[t] = "idle" THEN 1
                             ELSE IF Returns(t) THEN @ + 1 ELSE @]
  /\ got' = [got EXCEPT ![t] =
       IF pc'[t] = "idle" THEN <<>>
       ELSE IF pc[t] = "checkversion" THEN Append(@, ValueOf(buf[t])) ELSE @]
  /\ \/ Commits(t) /\ AfterCommit(t)
     \/ ~ Commits(t) /\ UNCHANGED <<todo, last>> /\ AfterAbort(t)

Step(t) ==
  /\ Begin(t) \/ MakeCall(t) \/ End(t) \/ Advance(t)
  /\ Follow(t)

\* All workers are through.
Over == (\A t \in Tx : todo[t] = <<>> /\ pc[t] = "idle") /\ UNCHANGED bvars

BInit ==
  /\ Init
  /\ todo = Jobs
  /\ at = [t \in Tx |-> 1]
  /\ got = [t \in Tx |-> <<>>]
  /\ ids \in {f \in [Tx -> UNION {Ids[t] : t \in Tx}] : \A t \in Tx : f[t] \in Ids[t]}
  /\ last = [t \in Tx |-> 0]

BNext == Over \/ \E t \in Tx : Step(t)
BSpec == BInit /\ [][BNext]_bvars

\* The operating system keeps running every worker, in and between calls.
FairBSpec == BSpec /\ \A t \in Tx : WF_bvars(Step(t))

---------------------------------------------------------------------------
\* long_tx never returns false: "no money should ever be destroyed or created
\* out of thin air" (workload.hpp:180).  True unless an account is removed while
\* money is sent to it.
SumsAddUp ==
  \A t \in Tx : todo[t] # <<>> /\ Kind(t) = "long" /\ CallsMade(t) => Correct(t)

\* The workers "decrease a counter in a sequential manner" (workload.hpp:328):
\* nobody sees it grow, not even in a transaction that is about to abort, and
\* it is 0 when all are through.
CounterIsSequential ==
  \A t \in Tx : todo[t] # <<>> /\ Kind(t) # "long" /\ CallsMade(t) => Correct(t)

\* Once run is over, check comes to its end: a transaction on the one counter
\* is sent back only because another one went through, so the retry loops stop
\* (acquireLocks and tm_read give up without waiting or leaving locks behind,
\* transactional.hpp:606-620 tries again).
CheckEnds ==
  (\A t \in Tx : todo[t] # <<>> => Part(Kind(t)) > 2) ~> (\A t \in Tx : todo[t] = <<>>)
===========================================================================
