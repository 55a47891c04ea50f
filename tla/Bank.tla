-------------------------------- MODULE Bank ------------------------------
(***************************************************************************)
(* WorkloadBank::run of grading/workload.hpp on the reference memory: each *)
(* worker runs its transactions, sums of all accounts (long_tx), creation  *)
(* or removal of an account (alloc_tx) and transfers of one unit           *)
(* (short_tx), and a last sum.  Transactions begin and end as class        *)
(* Transaction of transactional.hpp has it, an exception included.         *)
(*                                                                         *)
(* A segment is laid out as class AccountSegment does: count, next,        *)
(* parity, accounts.  A sum takes one step per segment.  The other         *)
(* transactions hold the lock alone: their search for the accounts they    *)
(* want is one step, each of their writes another.                         *)
(***************************************************************************)
EXTENDS ReferenceTM, SequencesExt

CONSTANTS
  InitBalance,   \* init_balance
  TxPerWorker    \* nbtxperwrk

Count == 0
Next == 1
Parity == 2
PerSegment == Words - 3     \* nbaccounts
AccountWord(i) == 3 + i

ASSUME BankAssumption ==
  /\ PerSegment >= 2 /\ InitBalance \in Nat \ {0} /\ TxPerWorker \in Nat

VARIABLES
  pc,      \* what each worker is doing
  togo,    \* transactions it still has to run
  known,   \* its loosely updated number of accounts
  pos, seen, sum,  \* locals of long_tx
  todo,    \* the writes its transaction has yet to make
  again    \* its transaction returned false and is to be repeated
worker == <<pc, togo, known, pos, seen, sum, todo, again>>
vars == <<reference, worker>>

PC == {"choose", "long", "alloc", "short", "write", "last", "done",
       "failed", "thrown", "destroyed"}

Ops == {"set", "add", "free"}
TypeOK ==
  /\ ReferenceTypeOK
  /\ pc \in [Thread -> PC]
  /\ togo \in [Thread -> 0..TxPerWorker]
  /\ known \in [Thread -> Nat] /\ seen \in [Thread -> Nat] /\ sum \in [Thread -> Int]
  /\ pos \in [Thread -> Link]
  /\ todo \in [Thread -> Seq([op : Ops, seg : Segment, word : Word, value : Int])]
  /\ again \in [Thread -> BOOLEAN]

\* The first segment after init().
Opening == [w \in Word |-> CASE w = Count -> PerSegment
                             [] w >= 3 -> InitBalance
                             [] OTHER -> 0]

Init ==
  /\ tm_create(Opening)
  /\ pc = [t \in Thread |-> "choose"]
  /\ togo = [t \in Thread |-> TxPerWorker]
  /\ known = [t \in Thread |-> PerSegment]
  /\ pos = [t \in Thread |-> NULL]
  /\ seen = [t \in Thread |-> 0] /\ sum = [t \in Thread |-> 0]
  /\ todo = [t \in Thread |-> <<>>]
  /\ again = [t \in Thread |-> FALSE]

---------------------------------------------------------------------------
(* The accounts, as the loops over the linked segments find them.          *)

Chain[n \in Nat] ==
  IF n = 0 THEN <<Start>>
  ELSE LET c == Chain[n - 1]
           s == tm_read(Last(c), Next)
       IN  IF s = NULL THEN c ELSE Append(c, s)
Segs == Chain[Segments - 1]

\* f[1] + ... + f[n], the way a loop accumulates it.
SumTo(f, n) ==
  LET upto[k \in 0..n] == IF k = 0 THEN 0 ELSE upto[k - 1] + f[k]
  IN  upto[n]

\* What a segment holds: the balances of its accounts, and its parity.
Balances(s) == [i \in 1..tm_read(s, Count) |-> tm_read(s, AccountWord(i - 1))]
Held(s) == tm_read(s, Parity) + SumTo(Balances(s), tm_read(s, Count))
Money == SumTo([a \in DOMAIN Segs |-> Held(Segs[a])], Len(Segs))

\* The accounts of the first k segments, and account i of them all: short_tx
\* takes the counts off the index until it falls into a segment.
CountTo(k) == SumTo([a \in DOMAIN Segs |-> tm_read(Segs[a], Count)], k)
NumAccounts == CountTo(Len(Segs))
Account(i) ==
  LET a == CHOOSE a \in DOMAIN Segs : CountTo(a - 1) < i /\ i <= CountTo(a)
  IN  [seg |-> Segs[a], word |-> AccountWord(i - CountTo(a - 1) - 1)]

---------------------------------------------------------------------------
Goto(t, l) == pc' = [pc EXCEPT ![t] = l]

Finished(t) ==
  /\ Goto(t, "choose")
  /\ togo' = [togo EXCEPT ![t] = @ - 1]

Choose_OneMore(t) ==
  /\ pc[t] = "choose"
  /\ \E kind \in IF again[t] THEN {"short"}
                 ELSE {"long", "alloc", "short"} \cup (IF togo[t] = 0 THEN {"last"} ELSE {}) :
       /\ tm_begin(t, kind \in {"long", "last"})
       /\ Goto(t, kind)
       /\ pos' = [pos EXCEPT ![t] = IF kind \in {"long", "last"} THEN Start ELSE NULL]
  /\ again' = [again EXCEPT ![t] = FALSE]
  /\ UNCHANGED <<region, togo, known, seen, sum, todo>>

\* Which transaction is next; a false short_tx is repeated, and a sum is last.
Choose(t) ==
  /\ pc[t] = "choose"
  /\ \E kind \in IF again[t] THEN {"short"}
                 ELSE IF togo[t] = 0 THEN {"last"} ELSE {"long", "alloc", "short"} :
       /\ tm_begin(t, kind \in {"long", "last"})
       /\ Goto(t, kind)
       /\ pos' = [pos EXCEPT ![t] = IF kind \in {"long", "last"} THEN Start ELSE NULL]
  /\ again' = [again EXCEPT ![t] = FALSE]
  /\ UNCHANGED <<region, togo, known, seen, sum, todo>>

(* long_tx: the sum over one segment; at the end the comparison.           *)
Overdrawn(s) == \E i \in DOMAIN Balances(s) : Balances(s)[i] < 0

VisitSegment(t) ==
  LET s == pos[t]
      n == tm_read(s, Next)
  IN  /\ pc[t] \in {"long", "last"} /\ ~ Overdrawn(s) /\ n # NULL
      /\ seen' = [seen EXCEPT ![t] = @ + tm_read(s, Count)]
      /\ sum' = [sum EXCEPT ![t] = @ + Held(s)]
      /\ pos' = [pos EXCEPT ![t] = n]
      /\ UNCHANGED <<reference, pc, togo, known, todo, again>>

LeaveSum(t, total, number) ==
  /\ IF total # InitBalance * number THEN Goto(t, "failed") /\ UNCHANGED <<togo, known>>
     ELSE IF pc[t] = "last" THEN Goto(t, "done") /\ UNCHANGED <<togo, known>>
     ELSE Finished(t) /\ known' = [known EXCEPT ![t] = number]
  /\ pos' = [pos EXCEPT ![t] = NULL]
  /\ seen' = [seen EXCEPT ![t] = 0] /\ sum' = [sum EXCEPT ![t] = 0]
  /\ tm_end(t)
  /\ UNCHANGED <<region, todo, again>>

VisitLast(t) ==
  LET s == pos[t]
  IN  /\ pc[t] \in {"long", "last"}
      /\ Overdrawn(s) \/ tm_read(s, Next) = NULL
      /\ LeaveSum(t, IF Overdrawn(s) THEN -1 ELSE sum[t] + Held(s),
                  seen[t] + tm_read(s, Count))

---------------------------------------------------------------------------
(* alloc_tx: at the last segment, remove an account or add one.            *)

Write(o, s, w, v) == [op |-> o, seg |-> s, word |-> w, value |-> v]
Plan(t, ops) ==
  /\ todo' = [todo EXCEPT ![t] = ops]
  /\ Goto(t, "write")
  /\ UNCHANGED <<reference, togo, known, pos, seen, sum, again>>

RemoveAccount_KeepEmpty(t) ==
  LET s == Last(Segs)
      n == tm_read(s, Count) - 1
      p == tm_read(s, Parity) + tm_read(s, AccountWord(n)) - InitBalance
  IN  /\ pc[t] = "alloc" /\ NumAccounts > 2
      /\ Plan(t, <<Write("set", s, Count, n), Write("set", s, Parity, p)>>)

RemoveAccount_NoParity(t) ==
  LET s == Last(Segs)
      n == tm_read(s, Count) - 1
  IN  /\ pc[t] = "alloc" /\ NumAccounts > 2
      /\ Plan(t, IF n > 0 THEN <<Write("set", s, Count, n)>>
                 ELSE <<Write("free", s, 0, 0), Write("set", Segs[Len(Segs) - 1], Next, NULL)>>)

\* Its balance goes to the parity; an empty segment goes back to the memory.
RemoveAccount(t) ==
  LET s == Last(Segs)
      n == tm_read(s, Count) - 1
      p == tm_read(s, Parity) + tm_read(s, AccountWord(n)) - InitBalance
      before == Segs[Len(Segs) - 1]
  IN  /\ pc[t] = "alloc" /\ NumAccounts > 2
      /\ Plan(t, IF n > 0
                 THEN <<Write("set", s, Count, n), Write("set", s, Parity, p)>>
                 ELSE <<Write("free", s, 0, 0), Write("set", before, Next, NULL),
                        Write("add", before, Parity, p)>>)

AddAccount(t) ==
  LET s == Last(Segs)
      n == tm_read(s, Count)
  IN  /\ pc[t] = "alloc" /\ n < PerSegment
      /\ Plan(t, <<Write("set", s, AccountWord(n), InitBalance),
                   Write("set", s, Count, n + 1)>>)

\* A new segment.  Nothing has been written when there is no memory: the
\* destructor ends the transaction, the exception ends the worker's run.
AddSegment(t) ==
  LET s == Last(Segs)
  IN  /\ pc[t] = "alloc" /\ tm_read(s, Count) = PerSegment
      /\ \/ \E n \in Segment :
              /\ tm_alloc(n)
              /\ todo' = [todo EXCEPT ![t] = <<Write("set", s, Next, n),
                    Write("set", n, Count, 1), Write("set", n, AccountWord(0), InitBalance)>>]
              /\ Goto(t, "write")
              /\ UNCHANGED <<readers, writer>>
         \/ /\ NoMemory
            /\ tm_end(t)
            /\ Goto(t, "thrown")
            /\ UNCHANGED <<region, todo>>
      /\ UNCHANGED <<togo, known, pos, seen, sum, again>>

---------------------------------------------------------------------------
(* short_tx: one unit from account i to account j, perhaps the same.       *)

Transfer(t) ==
  /\ pc[t] = "short"
  /\ \E i, j \in 1..known[t] :
       IF i <= NumAccounts /\ j <= NumAccounts
       THEN LET from == Account(i)
                to == Account(j)
                v == tm_read(from.seg, from.word)
            IN  Plan(t, IF v > 0 THEN <<Write("set", from.seg, from.word, v - 1),
                                        Write("add", to.seg, to.word, 1)>>
                        ELSE <<>>)
       ELSE /\ again' = [again EXCEPT ![t] = TRUE]
            /\ tm_end(t)
            /\ Goto(t, "choose")
            /\ UNCHANGED <<region, togo, known, pos, seen, sum, todo>>

\* The writes, one by one ...
WriteOne(t) ==
  LET o == Head(todo[t])
  IN  /\ pc[t] = "write" /\ todo[t] # <<>>
      /\ \/ o.op = "set" /\ tm_write(o.seg, o.word, o.value)
         \/ o.op = "add" /\ tm_write(o.seg, o.word, tm_read(o.seg, o.word) + o.value)
         \/ o.op = "free" /\ tm_free(o.seg)
      /\ todo' = [todo EXCEPT ![t] = Tail(@)]
      /\ UNCHANGED <<readers, writer, pc, togo, known, pos, seen, sum, again>>

\* ... and the end of the transaction, in its destructor.
Commit(t) ==
  /\ pc[t] = "write" /\ todo[t] = <<>>
  /\ tm_end(t)
  /\ Finished(t)
  /\ UNCHANGED <<region, known, pos, seen, sum, todo, again>>

\* The workload's destructor, when all workers have returned.
Destroy ==
  /\ \A t \in Thread : pc[t] \in {"done", "failed", "thrown"}
  /\ tm_destroy
  /\ pc' = [t \in Thread |-> "destroyed"]
  /\ UNCHANGED <<readers, writer, togo, known, pos, seen, sum, todo, again>>

Over == (\A t \in Thread : pc[t] = "destroyed") /\ UNCHANGED vars

Step(t) ==
  \/ Choose(t) \/ VisitSegment(t) \/ VisitLast(t)
  \/ RemoveAccount(t) \/ AddAccount(t) \/ AddSegment(t) \/ Transfer(t)
  \/ WriteOne(t) \/ Commit(t)

BankNext == Destroy \/ Over \/ \E t \in Thread : Step(t)
Spec == Init /\ [][BankNext]_vars

---------------------------------------------------------------------------
\* No worker ever finds that the sum of the accounts is wrong or that one is
\* overdrawn: run() never returns "Violated isolation or atomicity".
SumsMatch == \A t \in Thread : pc[t] # "failed"

\* Whenever no transaction is writing, balances and parities add up to what
\* was paid in for the accounts there are (workload.hpp:161-275).
MoneyConserved ==
  writer = {} /\ Start \in live => Money = InitBalance * NumAccounts

\* Whenever no transaction is writing, the linked segments are the segments in
\* use, each but the last one full, none empty: none is lost, none is gone, and
\* no sum stands on one that has been freed (alloc_tx against long_tx).
ChainIsLive ==
  writer = {} /\ Start \in live =>
    /\ \A t \in Thread : pos[t] \in live \cup {NULL}
    /\ Range(Segs) = live /\ Cardinality(live) = Len(Segs)
    /\ \A i \in DOMAIN Segs : /\ tm_read(Segs[i], Count) \in 1..PerSegment
                              /\ i < Len(Segs) => tm_read(Segs[i], Count) = PerSegment

\* At the end nothing is in use any more, also after exceptions.
DestroyFreesAll == (\E t \in Thread : pc[t] = "destroyed") => live = {}
===========================================================================
