---------------------------- MODULE MCBankOnTL2 ---------------------------
(***************************************************************************)
(* Instances of BankOnTL2 for TLC.                                         *)
(***************************************************************************)
EXTENDS BankOnTL2

CONSTANTS t1, t2, u1

Words == 0..(2 + PerSegment)
Values == -1..4

\* The bits of a word are those of its value; only -1 has no zero byte and is
\* hashed together with what comes after it.
OwnBits(w, m) ==
  {m[v][u1] : v \in {v \in Word : v >= w /\ \A z \in w..(v - 1) : m[z] = Fill(-1)}}

AnyClient == [t \in Tx |-> [modes |-> BOOLEAN, reads |-> Word, writes |-> Word,
                            stores |-> Data]]

\* The workers transfer in opposite directions; then one sums all accounts while
\* the other removes one and creates one; then both decrease the counter twice.
WorkloadJobs ==
  [t \in Tx |-> IF t = t1
                THEN <<"init", "peek", "short", "long", "set", "seen",
                       "last", "dec", "last", "dec", "zero">>
                ELSE <<"init", "peek", "short", "alloc", "alloc", "last", "dec", "last", "dec">>]
Opposite == [t \in Tx |-> IF t = t1 THEN {<<0, 1>>} ELSE {<<1, 0>>}]

\* One worker removes the account another one sends money to.
RemovalJobs ==
  [t \in Tx |-> IF t = t1 THEN <<"init", "peek", "alloc", "long">> ELSE <<"init", "peek", "short", "long">>]
ToTheLast == [t \in Tx |-> {<<0, 2>>}]
===========================================================================
