----------------------------- MODULE BankProofs ---------------------------
(***************************************************************************)
(* Proofs about the bank workload on the reference memory: the list of     *)
(* segments, the chain the workload links them into, and its money.        *)
(*                                                                         *)
(* While no transaction writes, the segments in use are a chain c[1], ..., *)
(* c[n] that is Sound: linked, filled, and worth what was paid in.  While  *)
(* one does, the memory is what it will be once the rest of its writes     *)
(* have been made, and that is Sound.                                      *)
(***************************************************************************)
EXTENDS Bank, FiniteSetTheorems, SequenceTheorems, TLAPS

(* Sums.                                                                   *)

\* Induction over a set of numbers.
LEMMA SetInduction ==
  ASSUME NEW S, 0 \in S, \A n \in Nat : n \in S => n + 1 \in S
  PROVE  Nat \subseteq S
<1> DEFINE R == OpToRel(<, Nat)
           T == Nat \ S
<1>1. IsWellFoundedOn(R, Nat)
  BY NatLessThanWellFounded
<1>2. \A x, y \in Nat : x < y => <<x, y>> \in R
  BY DEF OpToRel
<1> HIDE DEF R
<1> SUFFICES ASSUME T # {} PROVE FALSE
  OBVIOUS
<1>3. PICK x \in T : \A y \in T : ~ (<<y, x>> \in R)
  BY <1>1, WFMin, T \subseteq Nat, Zenon
<1>4. x \in Nat /\ x # 0 /\ x - 1 \in Nat /\ x - 1 < x
  OBVIOUS
<1>5. x - 1 \in T
  <2>1. x - 1 \in S => x - 1 + 1 \in S
    BY <1>4
  <2> QED BY <1>4, <2>1
<1>6. <<x - 1, x>> \in R
  BY <1>2, <1>4
<1> DEFINE y == x - 1
<1>7. y \in T /\ <<y, x>> \in R
  BY <1>5, <1>6
<1> HIDE DEF y
<1> QED BY <1>3, <1>7, Zenon

\* g holds the sums of the first 0, 1, ..., n of the numbers f.
IsSum(f, n, g) == g = [k \in 0..n |-> IF k = 0 THEN 0 ELSE g[k - 1] + f[k]]

\* There is such a function, so that the one SumTo chooses is one.
LEMMA SumExists ==
  ASSUME NEW f, NEW n \in Nat
  PROVE  \E g : IsSum(f, n, g)
<1> DEFINE S == {m \in Nat : \E g : IsSum(f, m, g)}
<1>1. 0 \in S
  <2>1. IsSum(f, 0, [k \in 0..0 |-> 0])
    BY DEF IsSum
  <2> QED BY <2>1
<1>2. ASSUME NEW m \in Nat, m \in S
      PROVE  m + 1 \in S
  <2>1. PICK g : IsSum(f, m, g)
    BY <1>2
  <2> DEFINE h == [k \in 0..(m + 1) |-> IF k = m + 1 THEN g[m] + f[m + 1] ELSE g[k]]
  <2>2. \A k \in 0..m : g[k] = IF k = 0 THEN 0 ELSE g[k - 1] + f[k]
    BY <2>1, Zenon DEF IsSum
  <2>3. ASSUME NEW k \in 0..(m + 1)
        PROVE  h[k] = IF k = 0 THEN 0 ELSE h[k - 1] + f[k]
    <3>1. CASE k = m + 1
      <4>1. k # 0 /\ k - 1 \in 0..(m + 1) /\ k - 1 = m /\ m # m + 1
        BY <3>1
      <4> QED BY <3>1, <4>1
    <3>2. CASE k # m + 1
      <4>1. k \in 0..m /\ (k # 0 => k - 1 \in 0..(m + 1) /\ k - 1 # m + 1)
        BY <3>2
      <4> QED BY <2>2, <3>2, <4>1
    <3> QED BY <3>1, <3>2
  <2>4. IsSum(f, m + 1, h)
    <3> HIDE DEF h
    <3>1. h = [k \in 0..(m + 1) |-> h[k]]
      BY DEF h
    <3> QED BY <2>3, <3>1 DEF IsSum
  <2> QED BY <2>4
<1>3. Nat \subseteq S
  <2> HIDE DEF S
  <2> QED BY <1>1, <1>2, SetInduction
<1> QED BY <1>3

\* Two of them agree as far as both go.
LEMMA SumUnique ==
  ASSUME NEW f, NEW n \in Nat, NEW m \in Nat, NEW g, NEW h,
         IsSum(f, n, g), IsSum(f, m, h)
  PROVE  \A k \in Nat : k <= n /\ k <= m => g[k] = h[k]
<1> DEFINE S == {k \in Nat : k <= n /\ k <= m => g[k] = h[k]}
<1>0. /\ \A k \in 0..n : g[k] = IF k = 0 THEN 0 ELSE g[k - 1] + f[k]
      /\ \A k \in 0..m : h[k] = IF k = 0 THEN 0 ELSE h[k - 1] + f[k]
  BY Zenon DEF IsSum
<1>1. 0 \in S
  BY <1>0
<1>2. ASSUME NEW k \in Nat, k \in S
      PROVE  k + 1 \in S
  <2>1. CASE k + 1 <= n /\ k + 1 <= m
    <3>1. g[k] = h[k] /\ k + 1 \in 0..n /\ k + 1 \in 0..m /\ k + 1 # 0 /\ (k + 1) - 1 = k
      BY <1>2, <2>1
    <3> QED BY <1>0, <3>1
  <2>2. CASE ~ (k + 1 <= n /\ k + 1 <= m)
    BY <2>2
  <2> QED BY <2>1, <2>2
<1>3. Nat \subseteq S
  <2> HIDE DEF S
  <2> QED BY <1>1, <1>2, SetInduction
<1> QED BY <1>3

\* SumTo reads it at n.
LEMMA SumIs ==
  ASSUME NEW f, NEW n \in Nat
  PROVE  \E g : IsSum(f, n, g) /\ SumTo(f, n) = g[n]
<1> DEFINE u == CHOOSE g : IsSum(f, n, g)
<1>1. IsSum(f, n, u)
  BY SumExists, Zenon
<1>2. SumTo(f, n) = u[n]
  BY DEF SumTo, IsSum
<1> QED BY <1>1, <1>2

\* The sum of no numbers.
LEMMA SumZero ==
  ASSUME NEW f
  PROVE  SumTo(f, 0) = 0
<1>1. PICK g : IsSum(f, 0, g) /\ SumTo(f, 0) = g[0]
  BY SumIs
<1> QED BY <1>1 DEF IsSum

\* The sum of one number more.
LEMMA SumStep ==
  ASSUME NEW f, NEW n \in Nat
  PROVE  SumTo(f, n + 1) = SumTo(f, n) + f[n + 1]
<1>1. PICK g : IsSum(f, n, g) /\ SumTo(f, n) = g[n]
  BY SumIs
<1>2. PICK h : IsSum(f, n + 1, h) /\ SumTo(f, n + 1) = h[n + 1]
  BY SumIs
<1>3. h[n] = g[n]
  BY <1>1, <1>2, SumUnique
<1>4. h[n + 1] = h[n] + f[n + 1]
  <2>1. \A k \in 0..(n + 1) : h[k] = IF k = 0 THEN 0 ELSE h[k - 1] + f[k]
    BY <1>2, Zenon DEF IsSum
  <2>2. n + 1 \in 0..(n + 1) /\ n + 1 # 0 /\ (n + 1) - 1 = n
    OBVIOUS
  <2> QED BY <2>1, <2>2
<1> QED BY <1>1, <1>2, <1>3, <1>4

\* Sums of the same numbers are the same.
LEMMA SumSame ==
  ASSUME NEW n \in Nat, NEW f, NEW g, \A i \in 1..n : f[i] = g[i]
  PROVE  \A m \in 0..n : SumTo(f, m) = SumTo(g, m)
<1> DEFINE S == {k \in Nat : k <= n => SumTo(f, k) = SumTo(g, k)}
<1>1. 0 \in S
  BY SumZero
<1>2. ASSUME NEW k \in Nat, k \in S
      PROVE  k + 1 \in S
  BY <1>2, SumStep
<1>3. Nat \subseteq S
  <2> HIDE DEF S
  <2> QED BY <1>1, <1>2, SetInduction
<1> QED BY <1>3

\* Sums of integers are integers ...
LEMMA SumInt ==
  ASSUME NEW n \in Nat, NEW f, \A i \in 1..n : f[i] \in Int
  PROVE  \A m \in 0..n : SumTo(f, m) \in Int
<1> DEFINE S == {k \in Nat : k <= n => SumTo(f, k) \in Int}
<1>1. 0 \in S
  BY SumZero
<1>2. ASSUME NEW k \in Nat, k \in S
      PROVE  k + 1 \in S
  BY <1>2, SumStep
<1>3. Nat \subseteq S
  <2> HIDE DEF S
  <2> QED BY <1>1, <1>2, SetInduction
<1> QED BY <1>3

\* ... and of naturals naturals.
LEMMA SumNat ==
  ASSUME NEW n \in Nat, NEW f, \A i \in 1..n : f[i] \in Nat
  PROVE  \A m \in 0..n : SumTo(f, m) \in Nat
<1> DEFINE S == {k \in Nat : k <= n => SumTo(f, k) \in Nat}
<1>1. 0 \in S
  BY SumZero
<1>2. ASSUME NEW k \in Nat, k \in S
      PROVE  k + 1 \in S
  BY <1>2, SumStep
<1>3. Nat \subseteq S
  <2> HIDE DEF S
  <2> QED BY <1>1, <1>2, SetInduction
<1> QED BY <1>3

\* When one of the numbers changes, the sum changes by as much.
LEMMA SumPoint ==
  ASSUME NEW n \in Nat, NEW f, NEW g, NEW k \in 1..n,
         \A i \in 1..n : f[i] \in Int /\ g[i] \in Int /\ (i # k => g[i] = f[i])
  PROVE  SumTo(g, n) = SumTo(f, n) + g[k] - f[k]
<1> DEFINE S == {m \in Nat : m <= n => SumTo(g, m) = IF m < k THEN SumTo(f, m)
                                                     ELSE SumTo(f, m) + g[k] - f[k]}
<1>0. \A m \in 0..n : SumTo(f, m) \in Int
  BY SumInt
<1>1. 0 \in S
  BY SumZero
<1>2. ASSUME NEW m \in Nat, m \in S
      PROVE  m + 1 \in S
  <2> SUFFICES ASSUME m + 1 <= n
               PROVE  SumTo(g, m + 1) = IF m + 1 < k THEN SumTo(f, m + 1)
                                        ELSE SumTo(f, m + 1) + g[k] - f[k]
    OBVIOUS
  <2>1. m + 1 \in 1..n /\ m \in 0..n
    OBVIOUS
  <2>2. SumTo(g, m + 1) = SumTo(g, m) + g[m + 1] /\ SumTo(f, m + 1) = SumTo(f, m) + f[m + 1]
    BY SumStep
  <2>3. SumTo(f, m) \in Int /\ f[m + 1] \in Int /\ g[m + 1] \in Int /\ f[k] \in Int /\ g[k] \in Int
    BY <1>0, <2>1
  <2>4. SumTo(g, m) = IF m < k THEN SumTo(f, m) ELSE SumTo(f, m) + g[k] - f[k]
    BY <1>2
  <2>5. m + 1 # k => g[m + 1] = f[m + 1]
    BY <2>1
  <2> QED BY <2>2, <2>3, <2>4, <2>5
<1>3. Nat \subseteq S
  <2> HIDE DEF S
  <2> QED BY <1>1, <1>2, SetInduction
<1> QED BY <1>3

\* A place x within the sum falls among the numbers of exactly such an f[a],
\* which is how short_tx finds an account.
LEMMA SumFalls ==
  ASSUME NEW n \in Nat, NEW f, \A i \in 1..n : f[i] \in Nat,
         NEW x \in Nat \ {0}, x <= SumTo(f, n)
  PROVE  \E a \in 1..n : SumTo(f, a - 1) < x /\ x <= SumTo(f, a)
<1> DEFINE S == {m \in Nat : m <= n /\ x <= SumTo(f, m) =>
                    \E a \in 1..n : SumTo(f, a - 1) < x /\ x <= SumTo(f, a)}
<1>0. \A m \in 0..n : SumTo(f, m) \in Nat
  BY SumNat
<1>1. 0 \in S
  BY SumZero
<1>2. ASSUME NEW m \in Nat, m \in S
      PROVE  m + 1 \in S
  <2> SUFFICES ASSUME m + 1 <= n, x <= SumTo(f, m + 1)
               PROVE  \E a \in 1..n : SumTo(f, a - 1) < x /\ x <= SumTo(f, a)
    OBVIOUS
  <2>1. CASE x <= SumTo(f, m)
    BY <1>2, <2>1
  <2>2. CASE ~ (x <= SumTo(f, m))
    <3>1. m + 1 \in 1..n /\ m \in 0..n /\ (m + 1) - 1 = m
      OBVIOUS
    <3>2. SumTo(f, m) < x
      BY <1>0, <2>2, <3>1
    <3> QED BY <3>1, <3>2
  <2> QED BY <2>1, <2>2
<1>3. Nat \subseteq S
  <2> HIDE DEF S
  <2> QED BY <1>1, <1>2, SetInduction
<1> QED BY <1>3

---------------------------------------------------------------------------
(* The inductive invariant.                                                *)

\* Contents of a segment, and of the memory.
Row == [Word -> Int]
Mem == [Segment -> Row]

\* The contents of the memory and the segments in use once the writes ops,
\* at most three, have been made.
Put(m, o) ==
  CASE o.op = "set" -> [m EXCEPT ![o.seg][o.word] = o.value]
    [] o.op = "add" -> [m EXCEPT ![o.seg][o.word] = @ + o.value]
    [] OTHER -> m
MemAfter(m, ops) ==
  CASE Len(ops) = 0 -> m
    [] Len(ops) = 1 -> Put(m, ops[1])
    [] Len(ops) = 2 -> Put(Put(m, ops[1]), ops[2])
    [] OTHER -> Put(Put(Put(m, ops[1]), ops[2]), ops[3])
Freed(ops) == {ops[i].seg : i \in {i \in 1..Len(ops) : ops[i].op = "free"}}

\* c[1], ..., c[n] are the segments of l, linked in contents m.
Linked(n, c, m, l) ==
  /\ c[1] = Start
  /\ l = {c[i] : i \in 1..n}
  /\ \A i, j \in 1..n : c[i] = c[j] => i = j
  /\ \A i \in 1..n : m[c[i]][Next] = IF i = n THEN NULL ELSE c[i + 1]

\* A segment with contents r has k accounts, none of them overdrawn.
FilledTo(r, k) ==
  r[Count] = k /\ k \in 1..PerSegment /\ \A i \in 1..k : r[AccountWord(i - 1)] >= 0

\* Every segment has accounts, all but the last one as many as it can.
Filled(n, c, m) ==
  \A i \in 1..n : FilledTo(m[c[i]], m[c[i]][Count]) /\ (i < n => m[c[i]][Count] = PerSegment)

\* What a segment with contents r is worth: its accounts and its parity.
Worth(r) == r[Parity] + SumTo([i \in 1..r[Count] |-> r[AccountWord(i - 1)]], r[Count])
Values(n, c, m) == [i \in 1..n |-> Worth(m[c[i]])]
Counts(n, c, m) == [i \in 1..n |-> m[c[i]][Count]]

\* Contents m hold in the segments of l an orderly chain with the right money.
Sound(n, c, m, l) ==
  /\ Linked(n, c, m, l)
  /\ Filled(n, c, m)
  /\ SumTo(Values(n, c, m), n) = InitBalance * SumTo(Counts(n, c, m), n)
IsSound(m, l) == \E n \in 1..Segments : \E c \in [1..n -> Segment] : Sound(n, c, m, l)

\* q[1], ..., q[n] is the list of the dynamic segments.
List(n, q) ==
  /\ live \ {Start} = {q[i] : i \in 1..n}
  /\ \A i, j \in 1..n : q[i] = q[j] => i = j
  /\ allocs = IF n = 0 THEN NULL ELSE q[1]
  /\ \A i \in 1..n : /\ next[q[i]] = IF i = n THEN NULL ELSE q[i + 1]
                     /\ prev[q[i]] = IF i = 1 THEN NULL ELSE q[i - 1]

Reading(t) == pc[t] \in {"long", "last"}

\* Who holds the lock.
LockInv ==
  /\ \A t \in Thread : /\ t \in readers <=> Reading(t)
                       /\ t \in writer <=> pc[t] \in {"alloc", "short", "write"}
  /\ writer # {} => readers = {}
  /\ \A t, u \in writer : t = u

\* Who runs a counted transaction, or has to repeat one, has one to run.
TogoInv == \A t \in Thread :
  /\ again[t] => pc[t] = "choose"
  /\ again[t] \/ pc[t] \in {"long", "alloc", "short", "write"} => togo[t] # 0

\* What is left of a transaction's writes.
PlanInv == \A t \in Thread :
  /\ Len(todo[t]) <= 3
  /\ todo[t] # <<>> => pc[t] = "write"
  /\ \A i \in 1..Len(todo[t]) :
       todo[t][i].op = "free" => i = 1 /\ todo[t][i].seg \in live \ {Start}

\* The region is there until all is over.
LifeInv ==
  IF Start \in live THEN \A t \in Thread : pc[t] # "destroyed"
  ELSE live = {} /\ \A t \in Thread : pc[t] = "destroyed"

\* There is a list, and it is of the dynamic segments.
ListInv == Start \in live => \E n \in 0..Segments : \E q \in [1..n -> Segment] : List(n, q)

\* The memory is sound, or will be when the writer has made its writes.
DataInv == Start \in live =>
  /\ writer = {} => IsSound(mem, live)
  /\ \A t \in writer : IsSound(MemAfter(mem, todo[t]), live \ Freed(todo[t]))

\* A sum stands on segment k of the chain and has all before it.
ReadAt(t, n, c, k) ==
  /\ Sound(n, c, mem, live)
  /\ pos[t] = c[k]
  /\ seen[t] = SumTo(Counts(n, c, mem), k - 1)
  /\ sum[t] = SumTo(Values(n, c, mem), k - 1)
ReadOK(t) ==
  IF Reading(t)
  THEN \E n \in 1..Segments : \E c \in [1..n -> Segment] : \E k \in 1..n : ReadAt(t, n, c, k)
  ELSE pos[t] = NULL /\ seen[t] = 0 /\ sum[t] = 0
ReadInv == \A t \in Thread : ReadOK(t)

\* SumsMatch alone is not inductive: that the next sum is right needs that the
\* chain is sound, which needs to know what the transactions have yet to write,
\* and that only the holder of the lock writes.
IInv ==
  TypeOK /\ SumsMatch /\ LockInv /\ TogoInv /\ PlanInv /\ LifeInv /\ ListInv /\ DataInv /\ ReadInv

---------------------------------------------------------------------------
(* The chain of segments, as the loops find it.                            *)

\* What the assumptions on the constants say in full.
LEMMA Constants ==
  /\ Segments \in Nat /\ Segments >= 1 /\ Words \in Nat /\ Words >= 5
  /\ PerSegment \in Nat /\ PerSegment >= 2 /\ PerSegment = Words - 3
  /\ InitBalance \in Nat /\ InitBalance >= 1
  /\ Start \in Segment /\ NULL \notin Segment /\ Start # NULL
BY ReferenceAssumption, BankAssumption DEF PerSegment, Start, Segment, NULL

\* No chain is longer than there are segments.
LEMMA Pigeonhole ==
  ASSUME NEW n \in Nat, NEW c \in [1..n -> Segment], \A i, j \in 1..n : c[i] = c[j] => i = j
  PROVE  n <= Segments
<1>1. c \in Injection(1..n, Segment)
  BY DEF Injection, IsInjective
<1>2. IsFiniteSet(Segment) /\ Cardinality(Segment) = Segments
  BY FS_Interval, Constants DEF Segment
<1>3. Cardinality(1..n) = n
  BY FS_Interval
<1> QED BY <1>1, <1>2, <1>3, FS_Injection

\* Append, as a function.
LEMMA AppendIs ==
  ASSUME NEW m \in Nat, NEW s \in [1..m -> Segment], NEW x \in Segment
  PROVE  Append(s, x) = [i \in 1..(m + 1) |-> IF i = m + 1 THEN x ELSE s[i]]
<1>1. s \in Seq(Segment) /\ Len(s) = m
  OBVIOUS
<1> DEFINE a == [i \in 1..(m + 1) |-> IF i = m + 1 THEN x ELSE s[i]]
<1>2. a \in Seq(Segment) /\ Len(a) = m + 1
  <2>1. a \in [1..(m + 1) -> Segment]
    OBVIOUS
  <2> HIDE DEF a
  <2> QED BY <2>1
<1>3. Append(s, x) \in Seq(Segment) /\ Len(Append(s, x)) = m + 1
  BY <1>1
<1>4. \A i \in 1..(m + 1) : Append(s, x)[i] = a[i]
  BY <1>1
<1> HIDE DEF a
<1>5. Append(s, x) = a
  BY <1>2, <1>3, <1>4
<1> QED BY <1>5 DEF a

\* What defines Chain, and the first k segments of a chain c.
IsChain(g) ==
  g = [k \in Nat |->
        IF k = 0 THEN <<Start>>
        ELSE IF tm_read(Last(g[k - 1]), Next) = NULL THEN g[k - 1]
        ELSE Append(g[k - 1], tm_read(Last(g[k - 1]), Next))]

Prefix(n, c, k) == [i \in 1..(IF k < n THEN k ELSE n) |-> c[i]]

\* One step along the links.
LEMMA PrefixStep ==
  ASSUME NEW n \in 1..Segments, NEW c \in [1..n -> Segment], Linked(n, c, mem, live),
         NEW k \in Nat \ {0}
  PROVE  Prefix(n, c, k + 1) =
           IF tm_read(Last(Prefix(n, c, k)), Next) = NULL THEN Prefix(n, c, k)
           ELSE Append(Prefix(n, c, k), tm_read(Last(Prefix(n, c, k)), Next))
<1> DEFINE p == Prefix(n, c, k)
           m == IF k < n THEN k ELSE n
<1>0. n \in Nat /\ m \in 1..n
  BY Constants
<1>1. p \in [1..m -> Segment] /\ Len(p) = m /\ \A i \in 1..m : p[i] = c[i]
  <2>1. p = [i \in 1..m |-> c[i]]
    BY Zenon DEF Prefix
  <2> HIDE DEF p, m
  <2> QED BY <1>0, <2>1
<1>2. Last(p) = c[m]
  BY <1>0, <1>1 DEF Last
<1>3. tm_read(c[m], Next) = IF m = n THEN NULL ELSE c[m + 1]
  BY <1>0 DEF Linked, tm_read
<1>4. CASE k < n
  <2>1. m = k /\ m + 1 \in 1..n /\ m # n
    BY <1>4, <1>0
  <2>2. c[m + 1] \in Segment /\ c[m + 1] # NULL
    BY <2>1, Constants
  <2>3. Append(p, c[m + 1]) = [i \in 1..(m + 1) |-> IF i = m + 1 THEN c[m + 1] ELSE p[i]]
    BY <1>0, <1>1, <2>2, AppendIs
  <2>4. Prefix(n, c, k + 1) = [i \in 1..(m + 1) |-> c[i]]
    <3>1. (IF k + 1 < n THEN k + 1 ELSE n) = m + 1
      BY <1>4, <2>1, <1>0
    <3> QED BY <3>1, Zenon DEF Prefix
  <2>5. [i \in 1..(m + 1) |-> c[i]] = [i \in 1..(m + 1) |-> IF i = m + 1 THEN c[m + 1] ELSE p[i]]
    <3> HIDE DEF p, m
    <3> QED BY <1>0, <1>1
  <2>6. tm_read(Last(p), Next) = c[m + 1]
    BY <1>2, <1>3, <2>1
  <2> HIDE DEF p, m
  <2>7. Prefix(n, c, k + 1) = Append(p, c[m + 1])
    BY <2>3, <2>4, <2>5
  <2> QED BY <2>2, <2>6, <2>7, Zenon DEF p
<1>5. CASE ~ (k < n)
  <2>1. m = n /\ (IF k + 1 < n THEN k + 1 ELSE n) = n
    BY <1>5, <1>0
  <2>2. Prefix(n, c, k + 1) = p
    BY <2>1, Zenon DEF Prefix
  <2>3. tm_read(Last(p), Next) = NULL
    BY <1>2, <1>3, <2>1
  <2> QED BY <2>2, <2>3, Zenon
<1> QED BY <1>4, <1>5

\* The loops over the linked segments find the chain.
LEMMA SegsIs ==
  ASSUME NEW n \in 1..Segments, NEW c \in [1..n -> Segment], Linked(n, c, mem, live)
  PROVE  Segs = c
<1> DEFINE g == [k \in Nat |-> Prefix(n, c, k + 1)]
<1>0. n \in Nat /\ n >= 1
  BY Constants
<1>1. \A k \in Nat \ {0} : g[k] = IF tm_read(Last(g[k - 1]), Next) = NULL THEN g[k - 1]
                                  ELSE Append(g[k - 1], tm_read(Last(g[k - 1]), Next))
  <2> TAKE k \in Nat \ {0}
  <2>1. k - 1 \in Nat /\ (k - 1) + 1 = k
    OBVIOUS
  <2>2. g[k - 1] = Prefix(n, c, k) /\ g[k] = Prefix(n, c, k + 1)
    BY <2>1
  <2> HIDE DEF g
  <2> QED BY <2>2, PrefixStep
<1>2. g[0] = <<Start>>
  <2>1. Prefix(n, c, 1) = [i \in 1..1 |-> c[i]]
    BY <1>0 DEF Prefix
  <2>2. [i \in 1..1 |-> c[i]] = <<c[1]>>
    BY <1>0
  <2> QED BY <2>1, <2>2 DEF Linked
<1>3. IsChain(g)
  <2>1. g = [k \in Nat |-> g[k]]
    OBVIOUS
  <2> HIDE DEF g
  <2> QED BY <1>1, <1>2, <2>1 DEF IsChain
<1>4. IsChain(Chain)
  <2> DEFINE h == CHOOSE h : IsChain(h)
  <2>1. IsChain(h)
    BY <1>3, Zenon
  <2>2. Chain = h
    BY DEF Chain, IsChain
  <2> QED BY <2>1, <2>2, Zenon
<1> DEFINE S == {k \in Nat : Chain[k] = g[k]}
<1>5. \A k \in Nat : Chain[k] = IF k = 0 THEN <<Start>>
                                ELSE IF tm_read(Last(Chain[k - 1]), Next) = NULL THEN Chain[k - 1]
                                ELSE Append(Chain[k - 1], tm_read(Last(Chain[k - 1]), Next))
  BY <1>4, Zenon DEF IsChain
<1>6. 0 \in S
  BY <1>2, <1>5
<1>7. ASSUME NEW k \in Nat, k \in S
      PROVE  k + 1 \in S
  <2>1. Chain[k] = g[k]
    BY <1>7
  <2>2. k + 1 \in Nat \ {0} /\ (k + 1) - 1 = k
    OBVIOUS
  <2> HIDE DEF g
  <2> QED BY <1>1, <1>5, <2>1, <2>2
<1>8. Segments - 1 \in Nat /\ (IF Segments - 1 + 1 < n THEN Segments - 1 + 1 ELSE n) = n
  BY <1>0, Constants
<1>9. Nat \subseteq S
  <2> HIDE DEF S
  <2> QED BY <1>6, <1>7, SetInduction
<1>10. Segs = Prefix(n, c, Segments - 1 + 1)
  BY <1>8, <1>9 DEF Segs
<1>11. Prefix(n, c, Segments - 1 + 1) = [i \in 1..n |-> c[i]]
  BY <1>8, Zenon DEF Prefix
<1> QED BY <1>10, <1>11

---------------------------------------------------------------------------
(* The list of the dynamic segments.                                       *)

\* What defines Listed, and the first k segments of a list q.
Onward(T) == T \cup ({next[s] : s \in T} \ {NULL})
IsListed(g) == g = [k \in Nat |-> IF k = 0 THEN {allocs} \ {NULL} ELSE Onward(g[k - 1])]

Reached(n, q, k) == {q[i] : i \in {i \in 1..n : i <= k}}

\* One step along the list.
LEMMA ReachedStep ==
  ASSUME NEW n \in Nat, NEW q \in [1..n -> Segment], List(n, q), NEW k \in Nat \ {0}
  PROVE  Reached(n, q, k + 1) = Onward(Reached(n, q, k))
<1>1. ASSUME NEW x \in Reached(n, q, k + 1)
      PROVE  x \in Reached(n, q, k) \cup ({next[s] : s \in Reached(n, q, k)} \ {NULL})
  <2>1. PICK i \in 1..n : i <= k + 1 /\ x = q[i]
    BY <1>1 DEF Reached
  <2>2. CASE i <= k
    BY <2>1, <2>2 DEF Reached
  <2>3. CASE i = k + 1
    <3>1. i - 1 \in 1..n /\ i - 1 <= k /\ i - 1 # n /\ (i - 1) + 1 = i
      BY <2>3
    <3>2. next[q[i - 1]] = x /\ x # NULL
      BY <2>1, <3>1, Constants DEF List
    <3>3. q[i - 1] \in Reached(n, q, k)
      BY <3>1 DEF Reached
    <3> QED BY <3>2, <3>3
  <2> QED BY <2>1, <2>2, <2>3
<1>2. ASSUME NEW x \in Reached(n, q, k) \cup ({next[s] : s \in Reached(n, q, k)} \ {NULL})
      PROVE  x \in Reached(n, q, k + 1)
  <2>1. CASE x \in Reached(n, q, k)
    BY <2>1 DEF Reached
  <2>2. CASE x \in {next[s] : s \in Reached(n, q, k)} \ {NULL}
    <3>1. PICK i \in 1..n : i <= k /\ x = next[q[i]] /\ x # NULL
      BY <2>2 DEF Reached
    <3>2. i # n /\ i + 1 \in 1..n /\ x = q[i + 1]
      BY <3>1 DEF List
    <3> QED BY <3>1, <3>2 DEF Reached
  <2> QED BY <1>2, <2>1, <2>2
<1> QED BY <1>1, <1>2 DEF Onward

\* The list holds all dynamic segments.
LEMMA OnListIs ==
  ASSUME NEW n \in 0..Segments, NEW q \in [1..n -> Segment], List(n, q)
  PROVE  OnList = live \ {Start}
<1> DEFINE g == [k \in Nat |-> Reached(n, q, k + 1)]
<1>0. n \in Nat /\ Segments \in Nat
  BY Constants
<1>1. \A k \in Nat \ {0} : g[k] = Onward(g[k - 1])
  <2> TAKE k \in Nat \ {0}
  <2>1. k - 1 \in Nat /\ (k - 1) + 1 = k
    OBVIOUS
  <2>2. g[k - 1] = Reached(n, q, k) /\ g[k] = Reached(n, q, k + 1)
    BY <2>1
  <2> HIDE DEF g
  <2> QED BY <1>0, <2>2, ReachedStep
<1>2. g[0] = {allocs} \ {NULL}
  <2>1. g[0] = {q[i] : i \in {i \in 1..n : i <= 1}}
    BY DEF Reached
  <2>2. CASE n = 0
    BY <2>1, <2>2 DEF List
  <2>3. CASE n # 0
    <3>1. 1 \in 1..n /\ {i \in 1..n : i <= 1} = {1}
      BY <1>0, <2>3
    <3>2. allocs = q[1] /\ q[1] # NULL
      BY <2>3, <3>1, Constants DEF List
    <3> HIDE DEF g
    <3> QED BY <2>1, <3>1, <3>2
  <2> QED BY <2>2, <2>3
<1>3. IsListed(g)
  <2>1. g = [k \in Nat |-> g[k]]
    OBVIOUS
  <2> HIDE DEF g
  <2> QED BY <1>1, <1>2, <2>1 DEF IsListed
<1>4. IsListed(Listed)
  <2> DEFINE h == CHOOSE h : IsListed(h)
  <2>1. IsListed(h)
    BY <1>3, Zenon
  <2>2. Listed = h
    BY DEF Listed, IsListed, Onward
  <2> QED BY <2>1, <2>2, Zenon
<1> DEFINE S == {k \in Nat : Listed[k] = g[k]}
<1>5. \A k \in Nat : Listed[k] = IF k = 0 THEN {allocs} \ {NULL}
                                 ELSE Onward(Listed[k - 1])
  BY <1>4, Zenon DEF IsListed
<1>6. 0 \in S
  BY <1>2, <1>5
<1>7. ASSUME NEW k \in Nat, k \in S
      PROVE  k + 1 \in S
  <2>1. Listed[k] = g[k]
    BY <1>7
  <2>2. k + 1 \in Nat \ {0} /\ (k + 1) - 1 = k
    OBVIOUS
  <2> HIDE DEF g
  <2> QED BY <1>1, <1>5, <2>1, <2>2
<1>9. Nat \subseteq S
  <2> HIDE DEF S
  <2> QED BY <1>6, <1>7, SetInduction
<1>10. OnList = Reached(n, q, Segments + 1)
  BY <1>0, <1>9 DEF OnList
<1>11. {i \in 1..n : i <= Segments + 1} = 1..n
  BY <1>0
<1> QED BY <1>10, <1>11 DEF Reached, List

\* A list that is what List says is intact.
LEMMA ListIntactIs ==
  ASSUME NEW n \in 0..Segments, NEW q \in [1..n -> Segment], List(n, q)
  PROVE  ListIntact
<1>0. n \in Nat
  BY Constants
<1>1. OnList = live \ {Start}
  BY OnListIs
<1>2. ASSUME NEW s \in OnList
      PROVE  /\ IF s = allocs THEN prev[s] = NULL
                ELSE prev[s] \in OnList /\ next[prev[s]] = s
             /\ next[s] # NULL => prev[next[s]] = s
  <2>1. OnList = {q[i] : i \in 1..n}
    BY <1>1 DEF List
  <2>2. PICK i \in 1..n : s = q[i]
    BY <2>1, <1>2
  <2>3. n # 0 /\ allocs = q[1] /\ 1 \in 1..n
    BY <1>0 DEF List
  <2>4. CASE i = 1
    BY <2>2, <2>3, <2>4 DEF List
  <2>5. CASE i # 1
    <3>1. i - 1 \in 1..n /\ i - 1 # n /\ (i - 1) + 1 = i
      BY <2>5, <1>0
    <3>2. s # allocs /\ prev[s] = q[i - 1] /\ next[q[i - 1]] = s
      BY <2>2, <2>3, <2>5, <3>1 DEF List
    <3>3. q[i - 1] \in OnList
      BY <2>1, <3>1
    <3>4. next[s] # NULL => prev[next[s]] = s
      <4>1. CASE i = n
        BY <2>2, <4>1 DEF List
      <4>2. CASE i # n
        BY <2>2, <4>2, <1>0 DEF List
      <4> QED BY <4>1, <4>2
    <3> QED BY <3>2, <3>3, <3>4
  <2>6. i = 1 => (next[s] # NULL => prev[next[s]] = s)
    <3>1. CASE n = 1
      BY <2>2, <3>1 DEF List
    <3>2. CASE n # 1
      BY <2>2, <2>3, <3>2, <1>0 DEF List
    <3> QED BY <3>1, <3>2
  <2> QED BY <2>4, <2>5, <2>6, <2>2, <2>3 DEF List
<1> QED BY <1>1, <1>2 DEF ListIntact

\* tm_alloc puts the segment before the first one of the list ...
LEMMA AllocKeepsList ==
  ASSUME ReferenceTypeOK, Start \in live, ListInv, NEW s \in Segment, tm_alloc(s)
  PROVE  ListInv'
<1>a. PICK n \in 0..Segments : \E q \in [1..n -> Segment] : List(n, q)
  BY DEF ListInv
<1>1. PICK q \in [1..n -> Segment] : List(n, q)
  BY <1>a
<1>0. n \in Nat
  BY Constants
<1> DEFINE r == [i \in 1..(n + 1) |-> IF i = 1 THEN s ELSE q[i - 1]]
<1>2. r \in [1..(n + 1) -> Segment] /\ r[1] = s /\ \A i \in 2..(n + 1) : r[i] = q[i - 1]
  BY <1>0
<1> HIDE DEF r
<1>3. /\ s \notin live /\ s # Start /\ live' = live \cup {s} /\ allocs' = s
      /\ next' = [next EXCEPT ![s] = allocs]
      /\ prev' = [x \in Segment |-> IF x = s THEN NULL ELSE IF x = allocs THEN s ELSE prev[x]]
      /\ next \in [Segment -> Link] /\ prev \in [Segment -> Link]
  BY DEF tm_alloc, ReferenceTypeOK
<1>4. \A i \in 1..n : q[i] # s /\ q[i] \in live
  BY <1>1, <1>3 DEF List
<1>5. \A i \in 2..(n + 1) : i - 1 \in 1..n
  BY <1>0
<1>6. \A i, j \in 1..(n + 1) : r[i] = r[j] => i = j
  <2> SUFFICES ASSUME NEW i \in 1..(n + 1), NEW j \in 1..(n + 1), r[i] = r[j]
               PROVE  i = j
    OBVIOUS
  <2>1. i = 1 \/ i \in 2..(n + 1)
    BY <1>0
  <2>2. j = 1 \/ j \in 2..(n + 1)
    BY <1>0
  <2>3. CASE i \in 2..(n + 1) /\ j \in 2..(n + 1)
    BY <1>1, <1>2, <1>5, <2>3 DEF List
  <2> QED BY <1>2, <1>4, <1>5, <2>1, <2>2, <2>3
<1>7. n + 1 \in 0..Segments
  BY <1>0, <1>2, <1>6, Pigeonhole, Constants
<1>8. live' \ {Start} = {r[i] : i \in 1..(n + 1)}
  <2>1. live \ {Start} = {q[i] : i \in 1..n}
    BY <1>1 DEF List
  <2>2. \A i \in 1..n : q[i] = r[i + 1] /\ i + 1 \in 1..(n + 1)
    BY <1>2, <1>0
  <2>3. \A i \in 1..(n + 1) : i = 1 \/ (r[i] = q[i - 1] /\ i - 1 \in 1..n)
    BY <1>2, <1>5, <1>0
  <2>4. 1 \in 1..(n + 1)
    BY <1>0
  <2>5. ASSUME NEW x \in live' \ {Start}
        PROVE  x \in {r[i] : i \in 1..(n + 1)}
    <3>1. CASE x = s
      BY <1>2, <2>4, <3>1
    <3>2. CASE x # s
      <4>1. PICK i \in 1..n : x = q[i]
        BY <1>3, <2>1, <2>5, <3>2
      <4> QED BY <2>2, <4>1
    <3> QED BY <3>1, <3>2
  <2>6. ASSUME NEW i \in 1..(n + 1)
        PROVE  r[i] \in live' \ {Start}
    <3>1. CASE i = 1
      BY <1>2, <1>3, <3>1
    <3>2. CASE i # 1
      BY <1>3, <2>1, <2>3, <3>2
    <3> QED BY <3>1, <3>2
  <2> QED BY <2>5, <2>6
<1>9. ASSUME NEW i \in 1..(n + 1)
      PROVE  /\ next'[r[i]] = IF i = n + 1 THEN NULL ELSE r[i + 1]
             /\ prev'[r[i]] = IF i = 1 THEN NULL ELSE r[i - 1]
  <2>1. CASE i = 1
    <3>1. next'[r[i]] = allocs /\ prev'[r[i]] = NULL
      BY <1>2, <1>3, <2>1
    <3>2. CASE n = 0
      BY <1>1, <2>1, <3>1, <3>2 DEF List
    <3>3. CASE n # 0
      BY <1>1, <1>2, <2>1, <3>1, <3>3, <1>0 DEF List
    <3> QED BY <3>2, <3>3
  <2>2. CASE i # 1
    <3>1. i \in 2..(n + 1) /\ i - 1 \in 1..n /\ r[i] = q[i - 1] /\ q[i - 1] # s
      BY <1>0, <1>2, <1>4, <2>2
    <3>2. next'[r[i]] = IF i = n + 1 THEN NULL ELSE r[i + 1]
      <4>1. next'[r[i]] = next[q[i - 1]]
        BY <1>3, <3>1
      <4>2. next[q[i - 1]] = IF i - 1 = n THEN NULL ELSE q[i - 1 + 1]
        BY <1>1, <3>1 DEF List
      <4>3. i # n + 1 => i + 1 \in 2..(n + 1) /\ r[i + 1] = q[i - 1 + 1]
        BY <1>0, <1>2, <3>1
      <4> QED BY <4>1, <4>2, <4>3, <1>0
    <3>3. prev'[r[i]] = r[i - 1]
      <4>1. prev[q[i - 1]] = IF i - 1 = 1 THEN NULL ELSE q[i - 1 - 1]
        BY <1>1, <3>1 DEF List
      <4>2. n # 0 /\ allocs = q[1] /\ 1 \in 1..n
        BY <1>1, <1>0, <3>1 DEF List
      <4>3. CASE i = 2
        <5>1. q[i - 1] = allocs /\ r[i - 1] = s
          BY <1>2, <4>2, <4>3
        <5> QED BY <1>3, <3>1, <5>1
      <4>4. CASE i # 2
        <5>1. q[i - 1] # allocs
          BY <1>1, <3>1, <4>2, <4>4 DEF List
        <5>2. i - 1 \in 2..(n + 1) /\ r[i - 1] = q[i - 1 - 1]
          BY <1>0, <1>2, <3>1, <4>4
        <5>3. prev'[q[i - 1]] = prev[q[i - 1]]
          BY <1>3, <3>1, <5>1
        <5> QED BY <3>1, <4>1, <4>4, <5>2, <5>3
      <4> QED BY <4>3, <4>4
    <3> QED BY <2>2, <3>2, <3>3
  <2> QED BY <2>1, <2>2
<1>10. List(n + 1, r)'
  <2>1. allocs' = IF n + 1 = 0 THEN NULL ELSE r[1]
    BY <1>0, <1>2, <1>3
  <2> QED BY <1>6, <1>8, <1>9, <2>1, Zenon DEF List
<1> QED BY <1>2, <1>7, <1>10 DEF ListInv

\* ... and tm_free takes one out, at the head, at the tail or between.
LEMMA FreeKeepsList ==
  ASSUME ReferenceTypeOK, Start \in live, ListInv, NEW s \in live \ {Start}, tm_free(s)
  PROVE  ListInv'
<1>a. PICK n \in 0..Segments : \E q \in [1..n -> Segment] : List(n, q)
  BY DEF ListInv
<1>1. PICK q \in [1..n -> Segment] : List(n, q)
  BY <1>a
<1>2. PICK k \in 1..n : s = q[k]
  BY <1>1 DEF List
<1>0. n \in Nat /\ n >= 1
  BY Constants
<1> DEFINE r == [i \in 1..(n - 1) |-> IF i < k THEN q[i] ELSE q[i + 1]]
<1>3. /\ r \in [1..(n - 1) -> Segment]
      /\ \A i \in 1..(n - 1) : (i < k => r[i] = q[i]) /\ (i >= k => r[i] = q[i + 1])
  BY <1>0
<1> HIDE DEF r
<1>4. /\ live' = live \ {s}
      /\ next' = [x \in Segment |-> IF x = prev[s] THEN next[s] ELSE next[x]]
      /\ prev' = [x \in Segment |-> IF x = next[s] THEN prev[s] ELSE prev[x]]
      /\ allocs' = IF prev[s] = NULL THEN next[s] ELSE allocs
  BY DEF tm_free
<1>5. /\ next[s] = IF k = n THEN NULL ELSE q[k + 1]
      /\ prev[s] = IF k = 1 THEN NULL ELSE q[k - 1]
  BY <1>1, <1>2 DEF List
<1>6. \A i \in 1..(n - 1) : i \in 1..n /\ i + 1 \in 1..n
  BY <1>0
<1>7. \A i, j \in 1..(n - 1) : r[i] = r[j] => i = j
  BY <1>0, <1>1, <1>3, <1>6 DEF List
<1>8. live' \ {Start} = {r[i] : i \in 1..(n - 1)}
  <2>1. live \ {Start} = {q[i] : i \in 1..n}
    BY <1>1 DEF List
  <2>2. ASSUME NEW i \in 1..n, i # k
        PROVE  \E j \in 1..(n - 1) : q[i] = r[j]
    <3>1. CASE i < k
      BY <1>0, <1>3, <3>1
    <3>2. CASE i > k
      <4>1. i - 1 \in 1..(n - 1) /\ i - 1 >= k /\ i - 1 + 1 = i
        BY <1>0, <3>2
      <4> QED BY <1>3, <4>1
    <3> QED BY <2>2, <3>1, <3>2
  <2>3. \A j \in 1..(n - 1) : \E i \in 1..n : i # k /\ q[i] = r[j]
    <3> TAKE j \in 1..(n - 1)
    <3>1. CASE j < k
      BY <1>0, <1>3, <1>6, <3>1
    <3>2. CASE ~ (j < k)
      <4>1. j + 1 \in 1..n /\ j + 1 # k /\ j >= k
        BY <1>0, <3>2
      <4> QED BY <1>3, <4>1
    <3> QED BY <3>1, <3>2
  <2>4. \A i \in 1..n : i # k => q[i] # s
    BY <1>1, <1>2 DEF List
  <2>5. ASSUME NEW x \in live' \ {Start}
        PROVE  x \in {r[i] : i \in 1..(n - 1)}
    <3>1. PICK i \in 1..n : x = q[i]
      BY <1>4, <2>1, <2>5
    <3>2. i # k
      BY <1>2, <1>4, <2>5, <3>1
    <3> QED BY <2>2, <3>1, <3>2
  <2>6. ASSUME NEW j \in 1..(n - 1)
        PROVE  r[j] \in live' \ {Start}
    <3>1. PICK i \in 1..n : i # k /\ q[i] = r[j]
      BY <2>3
    <3> QED BY <1>4, <2>1, <2>4, <3>1
  <2> QED BY <2>5, <2>6
<1>9. allocs' = IF n - 1 = 0 THEN NULL ELSE r[1]
  <2>1. allocs = q[1]
    BY <1>0, <1>1 DEF List
  <2>2. CASE k = 1
    <3>1. allocs' = next[s]
      BY <1>4, <1>5, <2>2
    <3> QED BY <1>0, <1>3, <1>5, <2>2, <3>1
  <2>3. CASE k # 1
    <3>1. k - 1 \in 1..n /\ prev[s] # NULL /\ 1 \in 1..(n - 1) /\ 1 < k
      BY <1>0, <1>5, <2>3, Constants
    <3> QED BY <1>3, <1>4, <2>1, <3>1
  <2> QED BY <2>2, <2>3
<1>10. ASSUME NEW i \in 1..(n - 1)
       PROVE  /\ next'[r[i]] = IF i = n - 1 THEN NULL ELSE r[i + 1]
              /\ prev'[r[i]] = IF i = 1 THEN NULL ELSE r[i - 1]
  <2>1. \A a, b \in 1..n : q[a] = q[b] => a = b
    BY <1>1 DEF List
  <2>2. \A a \in 1..n : /\ next[q[a]] = IF a = n THEN NULL ELSE q[a + 1]
                        /\ prev[q[a]] = IF a = 1 THEN NULL ELSE q[a - 1]
                        /\ q[a] \in Segment /\ q[a] # NULL
    BY <1>1, Constants DEF List
  <2>3. \A a \in 1..n : /\ q[a] = prev[s] <=> a = k - 1
                        /\ q[a] = next[s] <=> a = k + 1
    <3> TAKE a \in 1..n
    <3>1. q[a] = prev[s] <=> a = k - 1
      <4>1. CASE k = 1
        BY <1>5, <2>2, <4>1
      <4>2. CASE k # 1
        BY <1>0, <1>5, <2>1, <4>2
      <4> QED BY <4>1, <4>2
    <3>2. q[a] = next[s] <=> a = k + 1
      <4>1. CASE k = n
        BY <1>5, <2>2, <4>1
      <4>2. CASE k # n
        BY <1>0, <1>5, <2>1, <4>2
      <4> QED BY <4>1, <4>2
    <3> QED BY <3>1, <3>2
  <2>4. \A a \in 1..n : /\ next'[q[a]] = IF a = k - 1 THEN next[s] ELSE next[q[a]]
                        /\ prev'[q[a]] = IF a = k + 1 THEN prev[s] ELSE prev[q[a]]
    BY <1>4, <2>2, <2>3
  <2>5. CASE i < k
    <3>1. r[i] = q[i] /\ i \in 1..n
      BY <1>3, <1>6, <2>5
    <3>2. next'[r[i]] = IF i = n - 1 THEN NULL ELSE r[i + 1]
      <4>1. CASE i = k - 1
        <5>1. next'[r[i]] = IF k = n THEN NULL ELSE q[k + 1]
          BY <1>5, <2>4, <3>1, <4>1
        <5>2. i # n - 1 => i + 1 \in 1..(n - 1) /\ r[i + 1] = q[k + 1]
          BY <1>0, <1>3, <4>1
        <5> QED BY <5>1, <5>2, <4>1, <1>0
      <4>2. CASE i # k - 1
        <5>1. next'[r[i]] = q[i + 1]
          BY <1>0, <2>2, <2>4, <2>5, <3>1, <4>2
        <5>2. i # n - 1 /\ i + 1 \in 1..(n - 1) /\ i + 1 < k
          BY <1>0, <2>5, <4>2
        <5> QED BY <1>3, <5>1, <5>2
      <4> QED BY <4>1, <4>2
    <3>3. prev'[r[i]] = IF i = 1 THEN NULL ELSE r[i - 1]
      <4>1. prev'[r[i]] = IF i = 1 THEN NULL ELSE q[i - 1]
        <5>1. i # k + 1 /\ prev'[q[i]] = prev[q[i]]
          BY <1>0, <2>4, <2>5, <3>1
        <5>2. prev[q[i]] = IF i = 1 THEN NULL ELSE q[i - 1]
          BY <1>1, <3>1 DEF List
        <5> QED BY <3>1, <5>1, <5>2
      <4>2. i # 1 => i - 1 \in 1..(n - 1) /\ i - 1 < k
        BY <1>0, <2>5
      <4> QED BY <1>3, <4>1, <4>2
    <3> QED BY <3>2, <3>3
  <2>6. CASE ~ (i < k)
    <3>1. r[i] = q[i + 1] /\ i + 1 \in 1..n /\ i >= k
      BY <1>0, <1>3, <1>6, <2>6
    <3>2. next'[r[i]] = IF i = n - 1 THEN NULL ELSE r[i + 1]
      <4>1. next'[r[i]] = IF i + 1 = n THEN NULL ELSE q[i + 1 + 1]
        <5>1. i + 1 # k - 1 /\ next'[q[i + 1]] = next[q[i + 1]]
          BY <1>0, <2>4, <3>1
        <5>2. next[q[i + 1]] = IF i + 1 = n THEN NULL ELSE q[i + 1 + 1]
          BY <1>1, <3>1 DEF List
        <5> QED BY <3>1, <5>1, <5>2
      <4>2. i # n - 1 => i + 1 \in 1..(n - 1) /\ r[i + 1] = q[i + 1 + 1]
        BY <1>0, <1>3, <3>1
      <4> QED BY <4>1, <4>2, <1>0
    <3>3. prev'[r[i]] = IF i = 1 THEN NULL ELSE r[i - 1]
      <4>1. CASE i = k
        <5>1. prev'[r[i]] = IF k = 1 THEN NULL ELSE q[k - 1]
          BY <1>5, <2>4, <3>1, <4>1
        <5>2. i # 1 => i - 1 \in 1..(n - 1) /\ r[i - 1] = q[k - 1]
          BY <1>0, <1>3, <4>1
        <5> QED BY <5>1, <5>2, <4>1
      <4>2. CASE i # k
        <5>1. prev'[r[i]] = q[i + 1 - 1] /\ i + 1 - 1 = i
          BY <1>0, <2>2, <2>4, <3>1, <4>2
        <5>2. i # 1 /\ i - 1 \in 1..(n - 1) /\ i - 1 >= k /\ i - 1 + 1 = i
          BY <1>0, <3>1, <4>2
        <5>3. r[i - 1] = q[i]
          BY <1>3, <5>2
        <5> QED BY <5>1, <5>2, <5>3
      <4> QED BY <4>1, <4>2
    <3> QED BY <3>2, <3>3
  <2> QED BY <2>5, <2>6
<1>11. n - 1 \in 0..Segments
  BY <1>0, Constants
<1>12. List(n - 1, r)'
  BY <1>0, <1>7, <1>8, <1>9, <1>10 DEF List
<1> QED BY <1>3, <1>11, <1>12 DEF ListInv

\* Contents d are contents m but for one word.
Changed(m, d, s, w, v) ==
  /\ d \in Mem
  /\ \A x \in Segment : x # s => d[x] = m[x]
  /\ d[s][w] = v
  /\ \A y \in Word : y # w => d[s][y] = m[s][y]

---------------------------------------------------------------------------
(* What a segment is worth.                                                *)

\* Where the words of a segment are.
LEMMA Layout ==
  /\ Count \in Word /\ Next \in Word /\ Parity \in Word
  /\ \A i \in 1..PerSegment : AccountWord(i - 1) \in Word /\ AccountWord(i - 1) >= 3
  /\ \A i, j \in 1..PerSegment : AccountWord(i - 1) = AccountWord(j - 1) => i = j
  /\ Count = 0 /\ Next = 1 /\ Parity = 2
BY Constants DEF Count, Next, Parity, Word, AccountWord

\* Accounts are not where count, next and parity are ...
LEMMA AccountWords ==
  \A i \in 1..PerSegment : /\ AccountWord(i - 1) \in Word /\ AccountWord(i - 1) # Count
                           /\ AccountWord(i - 1) # Next /\ AccountWord(i - 1) # Parity
BY Layout, Constants

\* ... and these are three words.
LEMMA HeadWords == /\ Count \in Word /\ Next \in Word /\ Parity \in Word
                   /\ Count # Next /\ Count # Parity /\ Next # Parity
BY Layout

\* Balances are integers.
LEMMA AccountsInt ==
  ASSUME NEW r \in Row, NEW k \in 0..PerSegment
  PROVE  \A i \in 1..k : r[AccountWord(i - 1)] \in Int
<1> TAKE i \in 1..k
<1>1. i \in 1..PerSegment
  BY Constants
<1>2. AccountWord(i - 1) \in Word
  BY <1>1, Layout
<1> QED BY <1>2 DEF Row

\* The sum in Worth, and that it is an integer.
LEMMA WorthIs ==
  ASSUME NEW r \in Row, NEW k \in 1..PerSegment, r[Count] = k
  PROVE  /\ Worth(r) = r[Parity] + SumTo([i \in 1..k |-> r[AccountWord(i - 1)]], k)
         /\ \A j \in 0..k : SumTo([i \in 1..k |-> r[AccountWord(i - 1)]], j) \in Int
         /\ Worth(r) \in Int
<1> DEFINE f == [i \in 1..k |-> r[AccountWord(i - 1)]]
<1>0. k \in Nat /\ PerSegment \in Nat
  BY Constants
<1>1. \A i \in 1..k : f[i] \in Int
  <2>1. k \in 0..PerSegment
    BY <1>0
  <2> QED BY <2>1, AccountsInt
<1>2. \A j \in 0..k : SumTo(f, j) \in Int
  <2> HIDE DEF f
  <2> QED BY <1>0, <1>1, SumInt
<1>3. Worth(r) = r[Parity] + SumTo(f, k)
  BY DEF Worth
<1>4. r[Parity] \in Int
  BY Layout DEF Row
<1>5. SumTo(f, k) \in Int
  <2> HIDE DEF f
  <2> QED BY <1>0, <1>2
<1> HIDE DEF f
<1>6. Worth(r) \in Int
  BY <1>3, <1>4, <1>5
<1> QED BY <1>2, <1>3, <1>6 DEF f

\* A segment's worth is an integer.
LEMMA WorthInt ==
  ASSUME NEW r \in Row, r[Count] \in 1..PerSegment
  PROVE  Worth(r) \in Int /\ r[Parity] \in Int
BY WorthIs, Layout DEF Row

\* One account x, and perhaps the parity, gets another value.
LEMMA WorthOfChange ==
  ASSUME NEW r \in Row, NEW z \in Row, NEW k \in 1..PerSegment, r[Count] = k, z[Count] = k,
         NEW x \in 1..k, \A i \in 1..k : i # x => z[AccountWord(i - 1)] = r[AccountWord(i - 1)]
  PROVE  Worth(z) = Worth(r) + (z[Parity] - r[Parity])
                             + (z[AccountWord(x - 1)] - r[AccountWord(x - 1)])
<1> DEFINE f == [i \in 1..k |-> r[AccountWord(i - 1)]]
           g == [i \in 1..k |-> z[AccountWord(i - 1)]]
<1>0. k \in Nat /\ PerSegment \in Nat /\ r[Parity] \in Int /\ z[Parity] \in Int
  BY Constants, Layout DEF Row
<1>1. \A i \in 1..k : f[i] \in Int /\ g[i] \in Int /\ (i # x => g[i] = f[i])
  <2>1. k \in 0..PerSegment
    BY <1>0
  <2> QED BY <2>1, AccountsInt
<1>2. Worth(r) = r[Parity] + SumTo(f, k) /\ Worth(z) = z[Parity] + SumTo(g, k)
  BY WorthIs
<1>3. f[x] = r[AccountWord(x - 1)] /\ g[x] = z[AccountWord(x - 1)]
  OBVIOUS
<1> HIDE DEF f, g
<1>4. SumTo(g, k) = SumTo(f, k) + g[x] - f[x]
  BY <1>0, <1>1, SumPoint
<1>5. SumTo(f, k) \in Int /\ f[x] \in Int /\ g[x] \in Int
  <2>1. \A i \in 1..k : f[i] \in Int
    BY <1>1
  <2>2. \A j \in 0..k : SumTo(f, j) \in Int
    BY <1>0, <2>1, SumInt
  <2> QED BY <1>0, <1>1, <2>2
<1> QED BY <1>0, <1>2, <1>3, <1>4, <1>5

\* Contents with the same parity and accounts are worth the same.
LEMMA WorthSame ==
  ASSUME NEW r \in Row, NEW z \in Row, NEW k \in 1..PerSegment, r[Count] = k, z[Count] = k,
         z[Parity] = r[Parity], \A i \in 1..k : z[AccountWord(i - 1)] = r[AccountWord(i - 1)]
  PROVE  Worth(z) = Worth(r)
<1>1. [i \in 1..k |-> r[AccountWord(i - 1)]] = [i \in 1..k |-> z[AccountWord(i - 1)]]
  OBVIOUS
<1> QED BY <1>1, Zenon DEF Worth

\* Row z has one account more than row r.
LEMMA WorthOfMore ==
  ASSUME NEW r \in Row, NEW z \in Row, NEW k \in 1..PerSegment, k + 1 <= PerSegment,
         r[Count] = k, z[Count] = k + 1,
         \A i \in 1..k : z[AccountWord(i - 1)] = r[AccountWord(i - 1)]
  PROVE  Worth(z) = Worth(r) + (z[Parity] - r[Parity]) + z[AccountWord(k)]
<1> DEFINE f == [i \in 1..k |-> r[AccountWord(i - 1)]]
           g == [i \in 1..(k + 1) |-> z[AccountWord(i - 1)]]
<1>0. k \in Nat /\ k + 1 \in 1..PerSegment /\ r[Parity] \in Int /\ z[Parity] \in Int
  BY Constants, Layout DEF Row
<1>1. \A i \in 1..k : g[i] = f[i]
  BY <1>0
<1>2. Worth(r) = r[Parity] + SumTo(f, k) /\ Worth(z) = z[Parity] + SumTo(g, k + 1)
  BY <1>0, WorthIs
<1>3. g[k + 1] = z[AccountWord(k)] /\ g[k + 1] \in Int
  <2>1. (k + 1) - 1 = k /\ k + 1 \in 1..(k + 1)
    BY <1>0
  <2>2. AccountWord(k + 1 - 1) \in Word
    BY <1>0, Layout
  <2> QED BY <2>1, <2>2 DEF Row
<1>4. SumTo(f, k) \in Int
  <2>1. \A j \in 0..k : SumTo(f, j) \in Int
    BY WorthIs
  <2> HIDE DEF f
  <2> QED BY <1>0, <2>1
<1> HIDE DEF f, g
<1>5. SumTo(g, k + 1) = SumTo(g, k) + g[k + 1] /\ SumTo(g, k) = SumTo(f, k)
  <2>1. \A j \in 0..k : SumTo(g, j) = SumTo(f, j)
    BY <1>0, <1>1, SumSame
  <2> QED BY <1>0, <2>1, SumStep
<1> QED BY <1>0, <1>2, <1>3, <1>4, <1>5

\* A segment with one account.
LEMMA WorthOfOne ==
  ASSUME NEW r \in Row, r[Count] = 1
  PROVE  Worth(r) = r[Parity] + r[AccountWord(0)]
<1> DEFINE f == [i \in 1..1 |-> r[AccountWord(i - 1)]]
<1>1. 1 \in 1..PerSegment
  BY Constants
<1>2. Worth(r) = r[Parity] + SumTo(f, 1)
  BY <1>1, WorthIs
<1>3. f[1] = r[AccountWord(0)] /\ f[1] \in Int /\ r[Parity] \in Int
  <2>1. AccountWord(1 - 1) = AccountWord(0) /\ 1 \in 1..1
    BY DEF AccountWord
  <2>2. AccountWord(1 - 1) \in Word
    BY <1>1, Layout
  <2> QED BY <2>1, <2>2, Layout DEF Row
<1> HIDE DEF f
<1>4. SumTo(f, 0 + 1) = SumTo(f, 0) + f[0 + 1] /\ SumTo(f, 0) = 0
  BY SumStep, SumZero
<1> QED BY <1>2, <1>3, <1>4

\* What is added up over a chain is integer.
LEMMA RowsInt ==
  ASSUME NEW n \in 1..Segments, NEW c \in [1..n -> Segment], NEW m \in Mem, Filled(n, c, m)
  PROVE  /\ \A i \in 1..n : Values(n, c, m)[i] \in Int /\ Counts(n, c, m)[i] \in Nat
         /\ \A i \in 1..n : m[c[i]] \in Row /\ m[c[i]][Count] \in 1..PerSegment
         /\ \A j \in 0..n : SumTo(Values(n, c, m), j) \in Int /\ SumTo(Counts(n, c, m), j) \in Nat
<1>0. n \in Nat /\ PerSegment \in Nat
  BY Constants
<1>1. \A i \in 1..n : m[c[i]] \in Row /\ m[c[i]][Count] \in 1..PerSegment
  BY Zenon DEF Mem, Filled, FilledTo
<1>2. \A i \in 1..n : Values(n, c, m)[i] \in Int /\ Counts(n, c, m)[i] \in Nat
  <2> TAKE i \in 1..n
  <2>1. Worth(m[c[i]]) \in Int
    BY <1>1, WorthIs
  <2> QED BY <1>0, <1>1, <2>1 DEF Values, Counts
<1>3. \A j \in 0..n : SumTo(Values(n, c, m), j) \in Int /\ SumTo(Counts(n, c, m), j) \in Nat
  BY <1>0, <1>2, SumInt, SumNat
<1> QED BY <1>1, <1>2, <1>3

---------------------------------------------------------------------------
(* A chain, when a segment of it changes.                                  *)

\* Contents z are contents m but for segment s.
SameBut(m, z, s) == \A x \in Segment : x # s => z[x] = m[x]

\* What it means for the chain that segment a got other contents.
Follows(n, c, l, m, z, a) ==
  /\ Linked(n, c, z, l) /\ Filled(n, c, z)
  /\ SumTo(Values(n, c, z), n) = SumTo(Values(n, c, m), n) + Worth(z[c[a]]) - Worth(m[c[a]])
  /\ SumTo(Counts(n, c, z), n) = SumTo(Counts(n, c, m), n) + z[c[a]][Count] - m[c[a]][Count]

\* Segment a of the chain gets other contents and keeps its successor.
LEMMA OneRow ==
  ASSUME NEW n \in 1..Segments, NEW c \in [1..n -> Segment], NEW l, NEW a \in 1..n,
         NEW m \in Mem, NEW z \in Mem, Linked(n, c, m, l), Filled(n, c, m),
         SameBut(m, z, c[a]),
         z[c[a]][Next] = m[c[a]][Next],
         FilledTo(z[c[a]], z[c[a]][Count]), a < n => z[c[a]][Count] = PerSegment
  PROVE  Follows(n, c, l, m, z, a)
<1>0. n \in Nat
  BY Constants
<1>1. \A i \in 1..n : i # a => c[i] # c[a] /\ c[i] \in Segment /\ z[c[i]] = m[c[i]]
  BY DEF Linked, SameBut
<1>2. Linked(n, c, z, l)
  <2>1. \A i \in 1..n : z[c[i]][Next] = m[c[i]][Next]
    BY <1>1
  <2> QED BY <2>1 DEF Linked
<1>3. Filled(n, c, z)
  BY <1>1, Zenon DEF Filled
<1>4. \A i \in 1..n : /\ Values(n, c, m)[i] = Worth(m[c[i]]) /\ Values(n, c, z)[i] = Worth(z[c[i]])
                      /\ Counts(n, c, m)[i] = m[c[i]][Count] /\ Counts(n, c, z)[i] = z[c[i]][Count]
  BY DEF Values, Counts
<1>5. \A i \in 1..n : i # a => /\ Values(n, c, z)[i] = Values(n, c, m)[i]
                               /\ Counts(n, c, z)[i] = Counts(n, c, m)[i]
  BY <1>1, <1>4
<1>6. \A i \in 1..n : /\ Values(n, c, m)[i] \in Int /\ Values(n, c, z)[i] \in Int
                      /\ Counts(n, c, m)[i] \in Int /\ Counts(n, c, z)[i] \in Int
  <2>1. \A i \in 1..n : Values(n, c, m)[i] \in Int /\ Counts(n, c, m)[i] \in Nat
    BY RowsInt
  <2>2. \A i \in 1..n : Values(n, c, z)[i] \in Int /\ Counts(n, c, z)[i] \in Nat
    BY <1>3, RowsInt
  <2> QED BY <2>1, <2>2
<1>7. SumTo(Values(n, c, z), n) = SumTo(Values(n, c, m), n) + Values(n, c, z)[a] - Values(n, c, m)[a]
  BY <1>0, <1>5, <1>6, SumPoint
<1>8. SumTo(Counts(n, c, z), n) = SumTo(Counts(n, c, m), n) + Counts(n, c, z)[a] - Counts(n, c, m)[a]
  BY <1>0, <1>5, <1>6, SumPoint
<1> QED BY <1>2, <1>3, <1>4, <1>7, <1>8 DEF Follows

\* What it means for the chain that its last segment was cut off.
Shrunk(n, c, l, m, z, d) ==
  /\ d \in [1..(n - 1) -> Segment] /\ d[n - 1] = c[n - 1]
  /\ Linked(n - 1, d, z, l \ {c[n]}) /\ Filled(n - 1, d, z)
  /\ SumTo(Values(n, c, m), n) = SumTo(Values(n - 1, d, z), n - 1) + Worth(m[c[n]])
  /\ SumTo(Counts(n, c, m), n) = SumTo(Counts(n - 1, d, z), n - 1) + m[c[n]][Count]

\* The last segment is cut off.
LEMMA CutLast ==
  ASSUME NEW n \in 2..Segments, NEW c \in [1..n -> Segment], NEW l,
         NEW m \in Mem, NEW z \in Mem, Linked(n, c, m, l), Filled(n, c, m),
         Changed(m, z, c[n - 1], Next, NULL),
         NEW d, d = [i \in 1..(n - 1) |-> c[i]]
  PROVE  Shrunk(n, c, l, m, z, d)
<1>0. n \in Nat /\ n - 1 \in 1..Segments /\ n - 1 \in Nat /\ n \in 1..n /\ n - 1 \in 1..n
  BY Constants
<1>1. \A i \in 1..(n - 1) : i \in 1..n /\ d[i] = c[i]
  BY <1>0
<1>2. d \in [1..(n - 1) -> Segment] /\ d[n - 1] = c[n - 1]
  BY <1>0, <1>1
<1>3. \A i, j \in 1..n : c[i] = c[j] => i = j
  BY DEF Linked
<1>4. m[c[n - 1]] \in Row
  BY <1>0 DEF Mem
<1>5. /\ z[c[n - 1]][Next] = NULL
      /\ \A w \in Word : w # Next => z[c[n - 1]][w] = m[c[n - 1]][w]
      /\ \A s \in Segment : s # c[n - 1] => z[s] = m[s]
  BY DEF Changed
<1>6. z[c[n - 1]][Next] = NULL /\ z[c[n - 1]] \in Row
  BY <1>0, <1>5 DEF Mem
<1>7. Linked(n - 1, d, z, l \ {c[n]})
  <2>1. l \ {c[n]} = {d[i] : i \in 1..(n - 1)}
    <3>1. l = {c[i] : i \in 1..n}
      BY DEF Linked
    <3>2. ASSUME NEW x \in l \ {c[n]}
          PROVE  x \in {d[i] : i \in 1..(n - 1)}
      <4>1. PICK i \in 1..n : x = c[i]
        BY <3>1, <3>2
      <4>2. i \in 1..(n - 1)
        BY <3>2, <4>1, <1>0
      <4> QED BY <1>1, <4>1, <4>2
    <3>3. ASSUME NEW i \in 1..(n - 1)
          PROVE  d[i] \in l \ {c[n]}
      <4>1. i \in 1..n /\ i # n /\ d[i] = c[i]
        BY <1>0, <1>1
      <4> QED BY <1>0, <1>3, <3>1, <4>1
    <3> QED BY <3>2, <3>3
  <2>2. d[1] = Start
    BY <1>0, <1>1 DEF Linked
  <2>3. \A i, j \in 1..(n - 1) : d[i] = d[j] => i = j
    BY <1>1, <1>3
  <2>4. ASSUME NEW i \in 1..(n - 1)
        PROVE  z[d[i]][Next] = IF i = n - 1 THEN NULL ELSE d[i + 1]
    <3>1. CASE i = n - 1
      BY <1>1, <1>6, <3>1
    <3>2. CASE i # n - 1
      <4>1. i + 1 \in 1..(n - 1) /\ i # n /\ i \in 1..n
        BY <1>0, <3>2
      <4>2. d[i] = c[i] /\ d[i + 1] = c[i + 1] /\ c[i] # c[n - 1] /\ c[i] \in Segment
        BY <1>0, <1>1, <1>3, <3>2, <4>1
      <4>3. m[c[i]][Next] = c[i + 1]
        BY <4>1 DEF Linked
      <4> QED BY <1>5, <3>2, <4>2, <4>3
    <3> QED BY <3>1, <3>2
  <2> QED BY <2>1, <2>2, <2>3, <2>4, Zenon DEF Linked
<1>8. \A i \in 1..(n - 1) : i # n - 1 => z[d[i]] = m[c[i]]
  BY <1>0, <1>1, <1>3, <1>5
<1>9. m[c[n - 1]][Count] = PerSegment /\ FilledTo(m[c[n - 1]], m[c[n - 1]][Count])
  BY <1>0 DEF Filled
<1>10. FilledTo(z[c[n - 1]], PerSegment) /\ z[c[n - 1]][Count] = PerSegment
  <2>1. z[c[n - 1]][Count] = PerSegment
    BY <1>5, <1>9, HeadWords
  <2>2. \A i \in 1..PerSegment : z[c[n - 1]][AccountWord(i - 1)] = m[c[n - 1]][AccountWord(i - 1)]
    BY <1>5, AccountWords
  <2> QED BY <1>9, <2>1, <2>2 DEF FilledTo
<1>11. Worth(z[c[n - 1]]) = Worth(m[c[n - 1]])
  <2>1. /\ \A i \in 1..PerSegment : z[c[n - 1]][AccountWord(i - 1)] = m[c[n - 1]][AccountWord(i - 1)]
        /\ z[c[n - 1]][Parity] = m[c[n - 1]][Parity]
    BY <1>5, AccountWords, HeadWords
  <2>2. PerSegment \in 1..PerSegment /\ m[c[n - 1]][Count] = PerSegment
    BY <1>9, Constants DEF FilledTo
  <2> QED BY <1>4, <1>6, <1>9, <1>10, <2>1, <2>2, WorthSame
<1>12. Filled(n - 1, d, z)
  <2> SUFFICES ASSUME NEW i \in 1..(n - 1)
               PROVE  /\ FilledTo(z[d[i]], z[d[i]][Count])
                      /\ i < n - 1 => z[d[i]][Count] = PerSegment
    BY DEF Filled
  <2>1. CASE i = n - 1
    BY <1>1, <1>10, <2>1
  <2>2. CASE i # n - 1
    <3>1. i \in 1..n /\ i < n /\ z[d[i]] = m[c[i]]
      BY <1>0, <1>1, <1>8, <2>2
    <3> QED BY <3>1 DEF Filled
  <2> QED BY <2>1, <2>2
<1>13. \A i \in 1..(n - 1) : /\ Values(n, c, m)[i] = Values(n - 1, d, z)[i]
                             /\ Counts(n, c, m)[i] = Counts(n - 1, d, z)[i]
  <2> TAKE i \in 1..(n - 1)
  <2>1. Worth(z[d[i]]) = Worth(m[c[i]]) /\ z[d[i]][Count] = m[c[i]][Count]
    <3>1. CASE i = n - 1
      BY <1>1, <1>9, <1>10, <1>11, <3>1
    <3>2. CASE i # n - 1
      BY <1>8, <3>2
    <3> QED BY <3>1, <3>2
  <2>2. i \in 1..n
    BY <1>1
  <2> QED BY <2>1, <2>2 DEF Values, Counts
<1>14. /\ SumTo(Values(n, c, m), n - 1) = SumTo(Values(n - 1, d, z), n - 1)
       /\ SumTo(Counts(n, c, m), n - 1) = SumTo(Counts(n - 1, d, z), n - 1)
  <2>1. \A j \in 0..(n - 1) : SumTo(Values(n, c, m), j) = SumTo(Values(n - 1, d, z), j)
    <3> DEFINE v == Values(n, c, m)
               w == Values(n - 1, d, z)
               h == n - 1
    <3>0. h \in Nat
      BY <1>0
    <3>1. \A i \in 1..h : v[i] = w[i]
      BY <1>13
    <3> HIDE DEF v, w, h
    <3>2. \A j \in 0..h : SumTo(v, j) = SumTo(w, j)
      BY <3>0, <3>1, SumSame
    <3> QED BY <3>2 DEF v, w, h
  <2>2. \A j \in 0..(n - 1) : SumTo(Counts(n, c, m), j) = SumTo(Counts(n - 1, d, z), j)
    <3> DEFINE v == Counts(n, c, m)
               w == Counts(n - 1, d, z)
               h == n - 1
    <3>0. h \in Nat
      BY <1>0
    <3>1. \A i \in 1..h : v[i] = w[i]
      BY <1>13
    <3> HIDE DEF v, w, h
    <3>2. \A j \in 0..h : SumTo(v, j) = SumTo(w, j)
      BY <3>0, <3>1, SumSame
    <3> QED BY <3>2 DEF v, w, h
  <2> QED BY <1>0, <2>1, <2>2
<1>15. /\ SumTo(Values(n, c, m), n) = SumTo(Values(n, c, m), n - 1) + Values(n, c, m)[n]
       /\ SumTo(Counts(n, c, m), n) = SumTo(Counts(n, c, m), n - 1) + Counts(n, c, m)[n]
  <2>1. n - 1 + 1 = n
    BY <1>0
  <2> QED BY <1>0, <2>1, SumStep
<1>16. Values(n, c, m)[n] = Worth(m[c[n]]) /\ Counts(n, c, m)[n] = m[c[n]][Count]
  BY <1>0 DEF Values, Counts
<1> QED BY <1>2, <1>7, <1>12, <1>14, <1>15, <1>16 DEF Shrunk

\* Segment x was linked after the last one; what it means for the chain.
Hung(n, c, m, z, x) ==
  /\ \A s \in Segment : s # c[n] /\ s # x => z[s] = m[s]
  /\ z[c[n]][Next] = x /\ \A w \in Word : w # Next => z[c[n]][w] = m[c[n]][w]

Grown(n, c, l, m, z, x, d) ==
  /\ n + 1 \in 1..Segments /\ d \in [1..(n + 1) -> Segment]
  /\ Linked(n + 1, d, z, l \cup {x}) /\ Filled(n + 1, d, z)
  /\ SumTo(Values(n + 1, d, z), n + 1) = SumTo(Values(n, c, m), n) + Worth(z[x])
  /\ SumTo(Counts(n + 1, d, z), n + 1) = SumTo(Counts(n, c, m), n) + z[x][Count]

\* Segment x is linked after the last one.
LEMMA AddLast ==
  ASSUME NEW n \in 1..Segments, NEW c \in [1..n -> Segment], NEW l,
         NEW m \in Mem, NEW z \in Mem, Linked(n, c, m, l), Filled(n, c, m),
         m[c[n]][Count] = PerSegment, NEW x \in Segment \ l,
         Hung(n, c, m, z, x),
         FilledTo(z[x], z[x][Count]), z[x][Next] = NULL,
         NEW d, d = [i \in 1..(n + 1) |-> IF i = n + 1 THEN x ELSE c[i]]
  PROVE  Grown(n, c, l, m, z, x, d)
<1>0. n \in Nat /\ n \in 1..n /\ n + 1 \in 1..(n + 1)
  BY Constants
<1>1. \A i \in 1..n : i \in 1..(n + 1) /\ d[i] = c[i] /\ c[i] \in l /\ c[i] # x
  BY <1>0 DEF Linked
<1>2. d \in [1..(n + 1) -> Segment] /\ d[n + 1] = x
  BY <1>0
<1>3. \A i, j \in 1..n : c[i] = c[j] => i = j
  BY DEF Linked
<1>4. \A i \in 1..(n + 1) : i \in 1..n \/ i = n + 1
  BY <1>0
<1>5. \A i, j \in 1..(n + 1) : d[i] = d[j] => i = j
  BY <1>1, <1>2, <1>3, <1>4
<1>6. n + 1 \in 1..Segments
  BY <1>0, <1>2, <1>5, Pigeonhole, Constants
<1>7. m[c[n]] \in Row /\ z[c[n]] \in Row
  BY <1>0 DEF Mem
<1>8. /\ \A w \in Word : w # Next => z[c[n]][w] = m[c[n]][w]
      /\ z[c[n]][Next] = x
      /\ \A s \in Segment : s # c[n] /\ s # x => z[s] = m[s]
  BY DEF Hung
<1>9. \A i \in 1..n : i # n => z[d[i]] = m[c[i]]
  <2> TAKE i \in 1..n
  <2>1. i # n => c[i] \in Segment /\ c[i] # c[n] /\ c[i] # x /\ d[i] = c[i]
    BY <1>0, <1>1, <1>3
  <2> QED BY <1>8, <2>1
<1>10. Linked(n + 1, d, z, l \cup {x})
  <2>1. l \cup {x} = {d[i] : i \in 1..(n + 1)}
    <3>1. l = {c[i] : i \in 1..n}
      BY DEF Linked
    <3>2. ASSUME NEW y \in l \cup {x}
          PROVE  y \in {d[i] : i \in 1..(n + 1)}
      <4>1. CASE y = x
        BY <1>0, <1>2, <4>1
      <4>2. CASE y # x
        <5>1. PICK i \in 1..n : y = c[i]
          BY <3>1, <3>2, <4>2
        <5> QED BY <1>1, <5>1
      <4> QED BY <4>1, <4>2
    <3>3. \A i \in 1..(n + 1) : d[i] \in l \cup {x}
      BY <1>1, <1>2, <1>4
    <3> QED BY <3>2, <3>3
  <2>2. d[1] = Start
    BY <1>0, <1>1 DEF Linked
  <2>3. ASSUME NEW i \in 1..(n + 1)
        PROVE  z[d[i]][Next] = IF i = n + 1 THEN NULL ELSE d[i + 1]
    <3>1. CASE i = n + 1
      BY <1>2, <3>1
    <3>2. CASE i = n
      BY <1>0, <1>1, <1>2, <1>8, <3>2
    <3>3. CASE i # n /\ i # n + 1
      <4>1. i \in 1..n /\ i + 1 \in 1..n
        BY <1>0, <3>3
      <4>2. z[d[i]] = m[c[i]] /\ d[i + 1] = c[i + 1] /\ m[c[i]][Next] = c[i + 1]
        BY <1>1, <1>9, <3>3, <4>1 DEF Linked
      <4> QED BY <3>3, <4>2
    <3> QED BY <3>1, <3>2, <3>3
  <2> QED BY <1>5, <2>1, <2>2, <2>3, Zenon DEF Linked
<1>11. FilledTo(m[c[n]], PerSegment)
  BY <1>0 DEF Filled
<1>12. FilledTo(z[c[n]], PerSegment) /\ z[c[n]][Count] = PerSegment
  <2>1. z[c[n]][Count] = PerSegment
    BY <1>8, AccountWords, HeadWords
  <2>2. \A i \in 1..PerSegment : z[c[n]][AccountWord(i - 1)] = m[c[n]][AccountWord(i - 1)]
    BY <1>8, AccountWords
  <2> QED BY <1>11, <2>1, <2>2 DEF FilledTo
<1>13. Worth(z[c[n]]) = Worth(m[c[n]])
  <2>1. /\ \A i \in 1..PerSegment : z[c[n]][AccountWord(i - 1)] = m[c[n]][AccountWord(i - 1)]
        /\ z[c[n]][Parity] = m[c[n]][Parity]
    BY <1>8, AccountWords, HeadWords
  <2>2. PerSegment \in 1..PerSegment /\ m[c[n]][Count] = PerSegment
    BY <1>11, Constants DEF FilledTo
  <2> QED BY <1>7, <1>11, <1>12, <2>1, <2>2, WorthSame
<1>14. Filled(n + 1, d, z)
  <2> SUFFICES ASSUME NEW i \in 1..(n + 1)
               PROVE  /\ FilledTo(z[d[i]], z[d[i]][Count])
                      /\ i < n + 1 => z[d[i]][Count] = PerSegment
    BY DEF Filled
  <2>1. CASE i = n + 1
    BY <1>0, <1>2, <2>1
  <2>2. CASE i = n
    BY <1>0, <1>1, <1>12, <2>2
  <2>3. CASE i # n /\ i # n + 1
    <3>1. i \in 1..n /\ i < n /\ z[d[i]] = m[c[i]]
      BY <1>0, <1>9, <2>3
    <3> QED BY <3>1 DEF Filled
  <2> QED BY <2>1, <2>2, <2>3
<1>15. \A i \in 1..n : /\ Values(n + 1, d, z)[i] = Values(n, c, m)[i]
                       /\ Counts(n + 1, d, z)[i] = Counts(n, c, m)[i]
  <2> TAKE i \in 1..n
  <2>1. Worth(z[d[i]]) = Worth(m[c[i]]) /\ z[d[i]][Count] = m[c[i]][Count]
    <3>1. CASE i = n
      BY <1>1, <1>12, <1>13, <3>1
    <3>2. CASE i # n
      BY <1>9, <3>2
    <3> QED BY <3>1, <3>2
  <2>2. i \in 1..(n + 1)
    BY <1>1
  <2> QED BY <2>1, <2>2 DEF Values, Counts
<1>16. /\ SumTo(Values(n + 1, d, z), n) = SumTo(Values(n, c, m), n)
       /\ SumTo(Counts(n + 1, d, z), n) = SumTo(Counts(n, c, m), n)
  <2>1. \A j \in 0..n : SumTo(Values(n + 1, d, z), j) = SumTo(Values(n, c, m), j)
    <3> DEFINE v == Values(n + 1, d, z)
               w == Values(n, c, m)
    <3>0. n \in Nat
      BY <1>0
    <3>1. \A i \in 1..n : v[i] = w[i]
      BY <1>15
    <3> HIDE DEF v, w
    <3>2. \A j \in 0..n : SumTo(v, j) = SumTo(w, j)
      BY <3>0, <3>1, SumSame
    <3> QED BY <3>2 DEF v, w
  <2>2. \A j \in 0..n : SumTo(Counts(n + 1, d, z), j) = SumTo(Counts(n, c, m), j)
    <3> DEFINE v == Counts(n + 1, d, z)
               w == Counts(n, c, m)
    <3>0. n \in Nat
      BY <1>0
    <3>1. \A i \in 1..n : v[i] = w[i]
      BY <1>15
    <3> HIDE DEF v, w
    <3>2. \A j \in 0..n : SumTo(v, j) = SumTo(w, j)
      BY <3>0, <3>1, SumSame
    <3> QED BY <3>2 DEF v, w
  <2> QED BY <1>0, <2>1, <2>2
<1>17. /\ SumTo(Values(n + 1, d, z), n + 1) = SumTo(Values(n + 1, d, z), n) + Values(n + 1, d, z)[n + 1]
       /\ SumTo(Counts(n + 1, d, z), n + 1) = SumTo(Counts(n + 1, d, z), n) + Counts(n + 1, d, z)[n + 1]
  BY <1>0, SumStep
<1>18. Values(n + 1, d, z)[n + 1] = Worth(z[x]) /\ Counts(n + 1, d, z)[n + 1] = z[x][Count]
  BY <1>0, <1>2 DEF Values, Counts
<1> QED BY <1>2, <1>6, <1>10, <1>14, <1>16, <1>17, <1>18 DEF Grown

---------------------------------------------------------------------------
(* What a transaction's writes leave behind.                               *)

\* The writes.
OpRec == [op : Ops, seg : Segment, word : Word, value : Int]

\* Write makes one of them.
LEMMA WriteType ==
  ASSUME NEW o \in Ops, NEW s \in Segment, NEW w \in Word, NEW v \in Int
  PROVE  /\ Write(o, s, w, v) \in OpRec
         /\ Write(o, s, w, v).op = o /\ Write(o, s, w, v).seg = s
         /\ Write(o, s, w, v).word = w /\ Write(o, s, w, v).value = v
BY DEF Write, OpRec

\* What a write leaves in the memory.
LEMMA PutIs ==
  ASSUME NEW m \in Mem, NEW o \in OpRec
  PROVE  /\ Put(m, o) \in Mem
         /\ \A s \in Segment : s # o.seg => Put(m, o)[s] = m[s]
         /\ o.op = "set" => Put(m, o)[o.seg] = [m[o.seg] EXCEPT ![o.word] = o.value]
         /\ o.op = "add" => Put(m, o)[o.seg] = [m[o.seg] EXCEPT ![o.word] = @ + o.value]
         /\ o.op = "free" => Put(m, o) = m
<1>1. /\ o.op \in {"set", "add", "free"} /\ o.seg \in Segment /\ o.word \in Word /\ o.value \in Int
  BY DEF OpRec, Ops
<1>2. m[o.seg] \in Row /\ m[o.seg][o.word] \in Int
  BY <1>1 DEF Mem, Row
<1>3. CASE o.op = "set"
  <2>1. Put(m, o) = [m EXCEPT ![o.seg] = [m[o.seg] EXCEPT ![o.word] = o.value]]
    BY <1>3 DEF Put
  <2>2. [m[o.seg] EXCEPT ![o.word] = o.value] \in Row
    BY <1>1, <1>2 DEF Row
  <2> QED BY <1>1, <1>3, <2>1, <2>2 DEF Mem
<1>4. CASE o.op = "add"
  <2>1. Put(m, o) = [m EXCEPT ![o.seg] = [m[o.seg] EXCEPT ![o.word] = @ + o.value]]
    BY <1>4 DEF Put
  <2>2. [m[o.seg] EXCEPT ![o.word] = @ + o.value] \in Row
    BY <1>1, <1>2 DEF Row
  <2> QED BY <1>1, <1>4, <2>1, <2>2 DEF Mem
<1>5. CASE o.op = "free"
  <2>1. Put(m, o) = m
    BY <1>5 DEF Put
  <2> QED BY <1>5, <2>1
<1> QED BY <1>1, <1>3, <1>4, <1>5

\* An assignment to one word ...
LEMMA ExceptIs ==
  ASSUME NEW m \in Mem, NEW s \in Segment, NEW w \in Word, NEW v \in Int
  PROVE  Changed(m, [m EXCEPT ![s][w] = v], s, w, v)
<1>1. m[s] \in Row
  BY DEF Mem
<1>2. [m[s] EXCEPT ![w] = v] \in Row
  BY <1>1 DEF Row
<1>3. [m EXCEPT ![s][w] = v] \in Mem
  BY <1>2 DEF Mem
<1>4. [m EXCEPT ![s][w] = v][s] = [m[s] EXCEPT ![w] = v]
  BY DEF Mem
<1>5. \A x \in Segment : x # s => [m EXCEPT ![s][w] = v][x] = m[x]
  BY DEF Mem
<1>6. [m[s] EXCEPT ![w] = v][w] = v
  BY <1>1 DEF Row
<1>7. \A y \in Word : y # w => [m[s] EXCEPT ![w] = v][y] = m[s][y]
  BY <1>1 DEF Row
<1> QED BY <1>3, <1>4, <1>5, <1>6, <1>7 DEF Changed

\* ... is what a write does ...
LEMMA SetIs ==
  ASSUME NEW m \in Mem, NEW s \in Segment, NEW w \in Word, NEW v \in Int,
         NEW o, o = Write("set", s, w, v)
  PROVE  o \in OpRec /\ Changed(m, Put(m, o), s, w, v)
<1>1. o \in OpRec /\ o.op = "set" /\ o.seg = s /\ o.word = w /\ o.value = v
  BY WriteType DEF Ops
<1>2. Put(m, o) = [m EXCEPT ![s][w] = v]
  BY <1>1 DEF Put
<1> QED BY <1>1, <1>2, ExceptIs

\* ... and what an addition does.
LEMMA AddIs ==
  ASSUME NEW m \in Mem, NEW s \in Segment, NEW w \in Word, NEW v \in Int,
         NEW o, o = Write("add", s, w, v)
  PROVE  o \in OpRec /\ Changed(m, Put(m, o), s, w, m[s][w] + v)
<1>1. o \in OpRec /\ o.op = "add" /\ o.seg = s /\ o.word = w /\ o.value = v
  BY WriteType DEF Ops
<1>2. Put(m, o) = [m EXCEPT ![s][w] = m[s][w] + v]
  BY <1>1 DEF Put
<1>3. m[s][w] + v \in Int
  BY DEF Mem, Row
<1> QED BY <1>1, <1>2, <1>3, ExceptIs

\* MemAfter for each number of writes ...
LEMMA MemAfterIs ==
  /\ \A m : MemAfter(m, <<>>) = m
  /\ \A m, o : MemAfter(m, <<o>>) = Put(m, o)
  /\ \A m, o, p : MemAfter(m, <<o, p>>) = Put(Put(m, o), p)
  /\ \A m, o, p, q : MemAfter(m, <<o, p, q>>) = Put(Put(Put(m, o), p), q)
<1>1. \A m : MemAfter(m, <<>>) = m
  BY DEF MemAfter
<1>2. \A m, o : MemAfter(m, <<o>>) = Put(m, o)
  BY DEF MemAfter
<1>3. \A m, o, p : MemAfter(m, <<o, p>>) = Put(Put(m, o), p)
  BY DEF MemAfter
<1>4. \A m, o, p, q : MemAfter(m, <<o, p, q>>) = Put(Put(Put(m, o), p), q)
  BY DEF MemAfter
<1> QED BY <1>1, <1>2, <1>3, <1>4

\* ... and once the first of them has been made.
LEMMA MemAfterStep ==
  ASSUME NEW m, NEW ops \in Seq(OpRec), ops # <<>>, Len(ops) <= 3
  PROVE  MemAfter(m, ops) = MemAfter(Put(m, Head(ops)), Tail(ops))
<1>1. /\ Len(ops) \in 1..3 /\ Head(ops) = ops[1] /\ Len(Tail(ops)) = Len(ops) - 1
      /\ \A i \in 1..(Len(ops) - 1) : Tail(ops)[i] = ops[i + 1]
  <2>1. Len(ops) \in Nat /\ Len(ops) # 0
    BY EmptySeq
  <2>2. Len(Tail(ops)) = Len(ops) - 1 /\ \A i \in 1..Len(Tail(ops)) : Tail(ops)[i] = ops[i + 1]
    BY HeadTailProperties
  <2>3. Head(ops) = ops[1]
    OBVIOUS
  <2> QED BY <2>1, <2>2, <2>3
<1>3. CASE Len(ops) = 1
  <2>1. Len(Tail(ops)) = 0
    BY <1>1, <1>3
  <2>2. MemAfter(m, ops) = Put(m, ops[1])
    BY <1>3 DEF MemAfter
  <2>3. MemAfter(Put(m, ops[1]), Tail(ops)) = Put(m, ops[1])
    BY <2>1 DEF MemAfter
  <2> QED BY <1>1, <2>1, <2>2, <2>3
<1>4. CASE Len(ops) = 2
  <2>1. Tail(ops)[1] = ops[2] /\ Len(Tail(ops)) = 1
    BY <1>1, <1>4
  <2>2. MemAfter(m, ops) = Put(Put(m, ops[1]), ops[2])
    BY <1>4 DEF MemAfter
  <2>3. MemAfter(Put(m, ops[1]), Tail(ops)) = Put(Put(m, ops[1]), Tail(ops)[1])
    <3> DEFINE e == Put(m, ops[1])
               T == Tail(ops)
    <3>1. Len(T) = 1
      BY <2>1
    <3> HIDE DEF e, T
    <3>2. MemAfter(e, T) = Put(e, T[1])
      BY <3>1 DEF MemAfter
    <3> QED BY <3>2 DEF e, T
  <2> QED BY <1>1, <2>1, <2>2, <2>3
<1>5. CASE Len(ops) = 3
  <2>1. Tail(ops)[1] = ops[2] /\ Tail(ops)[2] = ops[3] /\ Len(Tail(ops)) = 2
    BY <1>1, <1>5
  <2>2. MemAfter(m, ops) = Put(Put(Put(m, ops[1]), ops[2]), ops[3])
    BY <1>5 DEF MemAfter
  <2>3. MemAfter(Put(m, ops[1]), Tail(ops)) = Put(Put(Put(m, ops[1]), Tail(ops)[1]), Tail(ops)[2])
    <3> DEFINE e == Put(m, ops[1])
               T == Tail(ops)
    <3>1. Len(T) = 2
      BY <2>1
    <3> HIDE DEF e, T
    <3>2. MemAfter(e, T) = Put(Put(e, T[1]), T[2])
      BY <3>1 DEF MemAfter
    <3> QED BY <3>2 DEF e, T
  <2> QED BY <1>1, <2>1, <2>2, <2>3
<1> QED BY <1>1, <1>3, <1>4, <1>5

\* What it means for the chain that account x of segment a holds v.
Rebalanced(n, c, l, m, z, a, x, v) ==
  /\ Linked(n, c, z, l) /\ Filled(n, c, z)
  /\ SumTo(Values(n, c, z), n) = SumTo(Values(n, c, m), n) + v - m[c[a]][AccountWord(x - 1)]
  /\ SumTo(Counts(n, c, z), n) = SumTo(Counts(n, c, m), n)
  /\ \A i \in 1..n : z[c[i]][Count] = m[c[i]][Count]

\* An account of any segment of the chain gets another balance.
LEMMA OneBalance ==
  ASSUME NEW n \in 1..Segments, NEW c \in [1..n -> Segment], NEW l, NEW m \in Mem, NEW z \in Mem,
         Linked(n, c, m, l), Filled(n, c, m),
         NEW a \in 1..n, NEW x \in 1..m[c[a]][Count], NEW v \in Nat,
         Changed(m, z, c[a], AccountWord(x - 1), v)
  PROVE  Rebalanced(n, c, l, m, z, a, x, v)
<1> DEFINE k == m[c[a]][Count]
           w == AccountWord(x - 1)
<1>1. m[c[a]] \in Row /\ z[c[a]] \in Row /\ k \in 1..PerSegment /\ c[a] \in Segment
  BY RowsInt DEF Mem
<1>2. x \in 1..PerSegment /\ w \in Word /\ w # Count /\ w # Next /\ w # Parity
  <2>1. x \in 1..PerSegment
    BY <1>1, Constants
  <2> QED BY <2>1, AccountWords
<1>3. /\ z[c[a]][w] = v
      /\ \A y \in Word : y # w => z[c[a]][y] = m[c[a]][y]
      /\ \A s \in Segment : s # c[a] => z[s] = m[s]
  BY DEF Changed
<1>4. z[c[a]][Count] = k /\ z[c[a]][Next] = m[c[a]][Next] /\ z[c[a]][Parity] = m[c[a]][Parity]
  BY <1>2, <1>3, HeadWords
<1>5. \A i \in 1..k : i \in 1..PerSegment /\ (i # x => z[c[a]][AccountWord(i - 1)] = m[c[a]][AccountWord(i - 1)])
  <2> TAKE i \in 1..k
  <2>1. i \in 1..PerSegment
    BY <1>1, Constants
  <2>2. AccountWord(i - 1) \in Word /\ (i # x => AccountWord(i - 1) # w)
    BY <1>2, <2>1, Layout
  <2> QED BY <1>3, <2>1, <2>2
<1>6. FilledTo(z[c[a]], z[c[a]][Count])
  <2>1. FilledTo(m[c[a]], k)
    BY DEF Filled
  <2>2. \A i \in 1..k : z[c[a]][AccountWord(i - 1)] >= 0
    <3> TAKE i \in 1..k
    <3>1. m[c[a]][AccountWord(i - 1)] >= 0
      BY <2>1 DEF FilledTo
    <3> QED BY <1>3, <1>5, <3>1
  <2> QED BY <1>1, <1>4, <2>2, Zenon DEF FilledTo
<1>7. a < n => z[c[a]][Count] = PerSegment
  BY <1>4 DEF Filled
<1>8. Worth(z[c[a]]) = Worth(m[c[a]]) + (z[c[a]][Parity] - m[c[a]][Parity])
                                      + (z[c[a]][w] - m[c[a]][w])
  <2> DEFINE r == m[c[a]]
             q == z[c[a]]
  <2>1. r \in Row /\ q \in Row /\ r[Count] = k /\ q[Count] = k
    BY <1>1, <1>4
  <2>2. \A i \in 1..k : i # x => q[AccountWord(i - 1)] = r[AccountWord(i - 1)]
    BY <1>5
  <2>3. k \in 1..PerSegment /\ x \in 1..k
    BY <1>1
  <2> HIDE DEF r, q, k
  <2>4. Worth(q) = Worth(r) + (q[Parity] - r[Parity]) + (q[AccountWord(x - 1)] - r[AccountWord(x - 1)])
    BY <2>1, <2>2, <2>3, WorthOfChange
  <2> QED BY <2>4 DEF q, r
<1>9. /\ Worth(m[c[a]]) \in Int /\ m[c[a]][w] \in Int /\ m[c[a]][Parity] \in Int
      /\ SumTo(Values(n, c, m), n) \in Int /\ SumTo(Counts(n, c, m), n) \in Nat
  <2>1. n \in 0..n
    BY Constants
  <2> QED BY <1>1, <1>2, <2>1, WorthIs, RowsInt, Layout DEF Row
<1> HIDE DEF k, w
<1>10. /\ Linked(n, c, z, l) /\ Filled(n, c, z)
       /\ SumTo(Values(n, c, z), n) = SumTo(Values(n, c, m), n) + Worth(z[c[a]]) - Worth(m[c[a]])
       /\ SumTo(Counts(n, c, z), n) = SumTo(Counts(n, c, m), n) + z[c[a]][Count] - m[c[a]][Count]
  <2>1. z[c[a]][Next] = m[c[a]][Next] /\ \A s \in Segment : s # c[a] => z[s] = m[s]
    BY <1>3, <1>4
  <2>2. SameBut(m, z, c[a])
    BY <1>3 DEF SameBut
  <2>3. Linked(n, c, m, l) /\ Filled(n, c, m)
    OBVIOUS
  <2>4. Follows(n, c, l, m, z, a)
    BY <1>6, <1>7, <2>1, <2>2, <2>3, OneRow
  <2> QED BY <2>4 DEF Follows
<1>11. SumTo(Values(n, c, z), n) = SumTo(Values(n, c, m), n) + v - m[c[a]][w]
  BY <1>3, <1>4, <1>8, <1>9, <1>10
<1>12. SumTo(Counts(n, c, z), n) = SumTo(Counts(n, c, m), n)
  BY <1>1, <1>4, <1>9, <1>10 DEF k
<1>13. \A i \in 1..n : z[c[i]][Count] = m[c[i]][Count]
  <2> TAKE i \in 1..n
  <2>1. CASE c[i] = c[a]
    BY <1>4, <2>1 DEF k
  <2>2. CASE c[i] # c[a]
    BY <1>3, <2>2
  <2> QED BY <2>1, <2>2
<1> QED BY <1>10, <1>11, <1>12, <1>13 DEF w, Rebalanced

\* A transfer, from one account to another or to itself.
LEMMA TransferSound ==
  ASSUME NEW n \in 1..Segments, NEW c \in [1..n -> Segment], NEW l, NEW m \in Mem, Sound(n, c, m, l),
         NEW a \in 1..n, NEW x \in 1..m[c[a]][Count], NEW b \in 1..n, NEW y \in 1..m[c[b]][Count],
         NEW v, v = m[c[a]][AccountWord(x - 1)], v > 0,
         NEW o, o = Write("set", c[a], AccountWord(x - 1), v - 1),
         NEW p, p = Write("add", c[b], AccountWord(y - 1), 1)
  PROVE  o \in OpRec /\ p \in OpRec /\ Sound(n, c, Put(Put(m, o), p), l)
<1>0. Linked(n, c, m, l) /\ Filled(n, c, m)
  BY DEF Sound
<1>1. /\ x \in 1..PerSegment /\ y \in 1..PerSegment
      /\ AccountWord(x - 1) \in Word /\ AccountWord(y - 1) \in Word
  <2>1. m[c[a]][Count] \in 1..PerSegment /\ m[c[b]][Count] \in 1..PerSegment
    BY <1>0, RowsInt
  <2>2. x \in 1..PerSegment /\ y \in 1..PerSegment
    BY <2>1, Constants
  <2> QED BY <2>2, AccountWords
<1>2. v \in Int
  BY <1>1 DEF Mem, Row
<1> DEFINE d == Put(m, o)
           z == Put(d, p)
           u == d[c[b]][AccountWord(y - 1)]
<1>3. c[a] \in Segment /\ c[b] \in Segment /\ v - 1 \in Int /\ 1 \in Int
  BY <1>2
<1>5. o \in OpRec /\ Changed(m, d, c[a], AccountWord(x - 1), v - 1)
  BY <1>1, <1>3, SetIs
<1>6. p \in OpRec /\ Changed(d, z, c[b], AccountWord(y - 1), u + 1)
  <2> HIDE DEF d
  <2>1. d \in Mem
    BY <1>5 DEF Changed
  <2> QED BY <1>1, <1>3, <2>1, AddIs
<1>4. d \in Mem /\ z \in Mem
  BY <1>5, <1>6 DEF Changed
<1> HIDE DEF d, z
<1>7. /\ Linked(n, c, d, l) /\ Filled(n, c, d)
      /\ SumTo(Values(n, c, d), n) = SumTo(Values(n, c, m), n) + (v - 1) - v
      /\ SumTo(Counts(n, c, d), n) = SumTo(Counts(n, c, m), n)
      /\ \A i \in 1..n : d[c[i]][Count] = m[c[i]][Count]
  <2>1. v - 1 \in Nat
    BY <1>2
  <2>2. Rebalanced(n, c, l, m, d, a, x, v - 1)
    BY <1>0, <1>4, <1>5, <2>1, OneBalance
  <2> QED BY <2>2 DEF Rebalanced
<1>8. y \in 1..d[c[b]][Count] /\ u \in Nat
  <2>1. y \in 1..d[c[b]][Count]
    BY <1>7
  <2>2. FilledTo(d[c[b]], d[c[b]][Count])
    BY <1>7 DEF Filled
  <2>3. u >= 0
    BY <2>1, <2>2 DEF FilledTo
  <2>4. u \in Int
    BY <1>1, <1>4 DEF Mem, Row
  <2> QED BY <2>1, <2>3, <2>4
<1>9. /\ Linked(n, c, z, l) /\ Filled(n, c, z)
      /\ SumTo(Values(n, c, z), n) = SumTo(Values(n, c, d), n) + (u + 1) - u
      /\ SumTo(Counts(n, c, z), n) = SumTo(Counts(n, c, d), n)
  <2> HIDE DEF u
  <2>1. u + 1 \in Nat
    BY <1>8
  <2>2. Rebalanced(n, c, l, d, z, b, y, u + 1)
    BY <1>4, <1>6, <1>7, <1>8, <2>1, OneBalance
  <2> QED BY <2>2 DEF u, Rebalanced
<1>10. SumTo(Values(n, c, m), n) \in Int
  BY <1>0, RowsInt, Constants
<1>11. SumTo(Values(n, c, z), n) = SumTo(Values(n, c, m), n)
  <2> HIDE DEF u
  <2> QED BY <1>2, <1>7, <1>8, <1>9, <1>10
<1>12. Sound(n, c, z, l)
  BY <1>7, <1>9, <1>11 DEF Sound
<1> QED BY <1>5, <1>6, <1>12 DEF d, z

\* Multiples of InitBalance, for the prover.
LEMMA Multiples ==
  ASSUME NEW k \in Int
  PROVE  /\ InitBalance * (k + 1) = InitBalance * k + InitBalance
         /\ InitBalance * (k - 1) = InitBalance * k - InitBalance
         /\ InitBalance * k \in Int
BY Constants

\* The last segment gets an account more.
LEMMA AddSound ==
  ASSUME NEW n \in 1..Segments, NEW c \in [1..n -> Segment], NEW l, NEW m \in Mem, Sound(n, c, m, l),
         NEW k, k = m[c[n]][Count], k < PerSegment,
         NEW o, o = Write("set", c[n], AccountWord(k), InitBalance),
         NEW p, p = Write("set", c[n], Count, k + 1)
  PROVE  o \in OpRec /\ p \in OpRec /\ Sound(n, c, Put(Put(m, o), p), l)
<1>0. Linked(n, c, m, l) /\ Filled(n, c, m) /\ n \in 1..n /\ n \in 0..n /\ c[n] \in Segment
  BY Constants DEF Sound
<1>1. m[c[n]] \in Row /\ k \in 1..PerSegment /\ FilledTo(m[c[n]], k)
  BY <1>0, RowsInt DEF Filled
<1>2. /\ k + 1 \in 1..PerSegment /\ AccountWord(k + 1 - 1) = AccountWord(k)
      /\ AccountWord(k) \in Word /\ AccountWord(k) >= 3 /\ k + 1 \in Int /\ InitBalance \in Int
      /\ k \in Nat
  <2>1. k + 1 \in 1..PerSegment /\ k + 1 - 1 = k /\ k \in Nat
    BY <1>1, Constants
  <2>2. AccountWord(k + 1 - 1) \in Word /\ AccountWord(k + 1 - 1) >= 3
    BY <2>1, Layout
  <2> QED BY <2>1, <2>2, Constants
<1> DEFINE d == Put(m, o)
           z == Put(d, p)
<1>5a. o \in OpRec /\ Changed(m, d, c[n], AccountWord(k), InitBalance)
  BY <1>0, <1>2, SetIs
<1>5. /\ o \in OpRec /\ d \in Mem
      /\ \A s \in Segment : s # c[n] => d[s] = m[s]
      /\ d[c[n]][AccountWord(k)] = InitBalance
      /\ \A w \in Word : w # AccountWord(k) => d[c[n]][w] = m[c[n]][w]
  BY <1>5a DEF Changed
<1>6a. p \in OpRec /\ Changed(d, z, c[n], Count, k + 1)
  <2> HIDE DEF d
  <2> QED BY <1>0, <1>2, <1>5, HeadWords, SetIs
<1>6. /\ p \in OpRec /\ z \in Mem
      /\ \A s \in Segment : s # c[n] => z[s] = d[s]
      /\ z[c[n]][Count] = k + 1
      /\ \A w \in Word : w # Count => z[c[n]][w] = d[c[n]][w]
  BY <1>6a DEF Changed
<1>4. d \in Mem /\ z \in Mem
  BY <1>5, <1>6
<1> HIDE DEF d, z
<1>7. d[c[n]] \in Row /\ z[c[n]] \in Row
  BY <1>0, <1>4 DEF Mem
<1>8. /\ z[c[n]][Count] = k + 1
      /\ z[c[n]][AccountWord(k)] = InitBalance
      /\ \A w \in Word : w # Count /\ w # AccountWord(k) => z[c[n]][w] = m[c[n]][w]
  <2>1. AccountWord(k) # Count
    BY <1>2, AccountWords
  <2>2. z[c[n]][AccountWord(k)] = InitBalance
    BY <1>2, <1>5, <1>6, <2>1
  <2>3. \A w \in Word : w # Count /\ w # AccountWord(k) => z[c[n]][w] = m[c[n]][w]
    <3> TAKE w \in Word
    <3>1. w # Count => z[c[n]][w] = d[c[n]][w]
      BY <1>6
    <3>2. w # AccountWord(k) => d[c[n]][w] = m[c[n]][w]
      BY <1>5
    <3> QED BY <3>1, <3>2
  <2> QED BY <1>6, <2>2, <2>3
<1>9. z[c[n]][Next] = m[c[n]][Next] /\ z[c[n]][Parity] = m[c[n]][Parity]
  <2>1. AccountWord(k) # Next /\ AccountWord(k) # Parity
    BY <1>2, AccountWords
  <2> QED BY <1>8, <2>1, HeadWords
<1>10. \A i \in 1..k : z[c[n]][AccountWord(i - 1)] = m[c[n]][AccountWord(i - 1)]
  <2> TAKE i \in 1..k
  <2>1. i \in 1..PerSegment /\ i # k + 1
    BY <1>2, Constants
  <2>2. AccountWord(i - 1) \in Word /\ AccountWord(i - 1) # Count /\ AccountWord(i - 1) # AccountWord(k)
    <3>1. AccountWord(i - 1) # AccountWord(k + 1 - 1)
      BY <1>2, <2>1, Layout
    <3> QED BY <1>2, <2>1, <3>1, Layout
  <2> QED BY <1>8, <2>2
<1>11. FilledTo(z[c[n]], k + 1)
  <2>1. \A i \in 1..(k + 1) : z[c[n]][AccountWord(i - 1)] >= 0
    <3> TAKE i \in 1..(k + 1)
    <3>1. CASE i = k + 1
      BY <1>2, <1>8, <3>1, Constants
    <3>2. CASE i # k + 1
      <4>1. i \in 1..k
        BY <1>2, <3>2
      <4> QED BY <1>1, <1>10, <4>1 DEF FilledTo
    <3> QED BY <3>1, <3>2
  <2> QED BY <1>2, <1>8, <2>1, Zenon DEF FilledTo
<1>12. Worth(z[c[n]]) = Worth(m[c[n]]) + (z[c[n]][Parity] - m[c[n]][Parity]) + z[c[n]][AccountWord(k)]
  <2> DEFINE r == m[c[n]]
             q == z[c[n]]
  <2>1. r \in Row /\ q \in Row /\ r[Count] = k /\ q[Count] = k + 1
    BY <1>1, <1>7, <1>8
  <2>2. \A i \in 1..k : q[AccountWord(i - 1)] = r[AccountWord(i - 1)]
    BY <1>10
  <2>3. k \in 1..PerSegment /\ k + 1 <= PerSegment
    BY <1>1, <1>2, Constants
  <2> HIDE DEF r, q
  <2>4. Worth(q) = Worth(r) + (q[Parity] - r[Parity]) + q[AccountWord(k)]
    BY <2>1, <2>2, <2>3, WorthOfMore
  <2> QED BY <2>4 DEF q, r
<1>13. /\ Linked(n, c, z, l) /\ Filled(n, c, z)
       /\ SumTo(Values(n, c, z), n) = SumTo(Values(n, c, m), n) + Worth(z[c[n]]) - Worth(m[c[n]])
       /\ SumTo(Counts(n, c, z), n) = SumTo(Counts(n, c, m), n) + z[c[n]][Count] - m[c[n]][Count]
  <2>1. \A s \in Segment : s # c[n] => z[s] = m[s]
    BY <1>5, <1>6
  <2>2. FilledTo(z[c[n]], z[c[n]][Count])
    BY <1>8, <1>11
  <2>3. ~ (n < n) /\ SameBut(m, z, c[n])
    BY <1>0, <2>1 DEF SameBut
  <2>4. Follows(n, c, l, m, z, n)
    BY <1>0, <1>4, <1>9, <2>1, <2>2, <2>3, OneRow
  <2> QED BY <2>4 DEF Follows
<1>14. /\ Worth(m[c[n]]) \in Int /\ m[c[n]][Parity] \in Int
       /\ SumTo(Values(n, c, m), n) \in Int /\ SumTo(Counts(n, c, m), n) \in Int
  <2>1. SumTo(Values(n, c, m), n) \in Int /\ SumTo(Counts(n, c, m), n) \in Nat
    BY <1>0, RowsInt
  <2> QED BY <1>0, <1>1, <2>1, WorthInt
<1>15. SumTo(Values(n, c, z), n) = SumTo(Values(n, c, m), n) + InitBalance
  BY <1>2, <1>8, <1>9, <1>12, <1>13, <1>14
<1>16. SumTo(Counts(n, c, z), n) = SumTo(Counts(n, c, m), n) + 1
  BY <1>2, <1>8, <1>13, <1>14
<1>17. SumTo(Values(n, c, m), n) = InitBalance * SumTo(Counts(n, c, m), n)
  BY DEF Sound
<1>18. Sound(n, c, z, l)
  BY <1>13, <1>14, <1>15, <1>16, <1>17, Multiples DEF Sound
<1> QED BY <1>5, <1>6, <1>18 DEF d, z

\* The last segment loses an account and keeps others.
LEMMA RemoveSound ==
  ASSUME NEW n \in 1..Segments, NEW c \in [1..n -> Segment], NEW l, NEW m \in Mem, Sound(n, c, m, l),
         NEW k, k = m[c[n]][Count] - 1, k > 0,
         NEW v, v = m[c[n]][Parity] + m[c[n]][AccountWord(k)] - InitBalance,
         NEW o, o = Write("set", c[n], Count, k), NEW p, p = Write("set", c[n], Parity, v)
  PROVE  o \in OpRec /\ p \in OpRec /\ Sound(n, c, Put(Put(m, o), p), l)
<1>0. Linked(n, c, m, l) /\ Filled(n, c, m) /\ n \in 1..n /\ n \in 0..n /\ c[n] \in Segment
  BY Constants DEF Sound
<1>1. /\ m[c[n]] \in Row /\ m[c[n]][Count] \in 1..PerSegment
      /\ FilledTo(m[c[n]], m[c[n]][Count])
  BY <1>0, RowsInt DEF Filled
<1>2. /\ k \in 1..PerSegment /\ k + 1 = m[c[n]][Count] /\ k + 1 \in 1..PerSegment
      /\ k \in Nat /\ k \in Int /\ AccountWord(k + 1 - 1) = AccountWord(k) /\ AccountWord(k) \in Word
  <2> DEFINE r == m[c[n]][Count]
  <2>1. r \in 1..PerSegment /\ k = r - 1
    BY <1>1
  <2> HIDE DEF r
  <2>2. k \in 1..PerSegment /\ k + 1 = r /\ k + 1 - 1 = k /\ k \in Nat
    BY <2>1, Constants
  <2>3. k + 1 \in 1..PerSegment
    BY <2>1, <2>2
  <2>4. AccountWord(k + 1 - 1) \in Word
    BY <2>3, Layout
  <2> QED BY <2>2, <2>3, <2>4 DEF r
<1>3. v \in Int /\ m[c[n]][Parity] \in Int /\ m[c[n]][AccountWord(k)] \in Int
  <2>1. m[c[n]][Parity] \in Int /\ m[c[n]][AccountWord(k)] \in Int
    BY <1>1, <1>2, Layout DEF Row
  <2> QED BY <2>1, Constants
<1> DEFINE d == Put(m, o)
           z == Put(d, p)
<1>6a. o \in OpRec /\ Changed(m, d, c[n], Count, k)
  BY <1>0, <1>2, HeadWords, SetIs
<1>6. /\ o \in OpRec /\ d \in Mem
      /\ \A s \in Segment : s # c[n] => d[s] = m[s]
      /\ d[c[n]][Count] = k
      /\ \A w \in Word : w # Count => d[c[n]][w] = m[c[n]][w]
  BY <1>6a DEF Changed
<1>7a. p \in OpRec /\ Changed(d, z, c[n], Parity, v)
  <2> HIDE DEF d
  <2> QED BY <1>0, <1>3, <1>6, HeadWords, SetIs
<1>7. /\ p \in OpRec /\ z \in Mem
      /\ \A s \in Segment : s # c[n] => z[s] = d[s]
      /\ z[c[n]][Parity] = v
      /\ \A w \in Word : w # Parity => z[c[n]][w] = d[c[n]][w]
  BY <1>7a DEF Changed
<1>5. d \in Mem /\ z \in Mem
  BY <1>6, <1>7
<1> HIDE DEF d, z
<1>8. d[c[n]] \in Row /\ z[c[n]] \in Row
  BY <1>0, <1>5 DEF Mem
<1>9. /\ z[c[n]][Count] = k /\ z[c[n]][Parity] = v
      /\ \A w \in Word : w # Count /\ w # Parity => z[c[n]][w] = m[c[n]][w]
  BY <1>6, <1>7, HeadWords
<1>10. z[c[n]][Next] = m[c[n]][Next]
  BY <1>9, HeadWords
<1>11. \A i \in 1..k : /\ i \in 1..(k + 1)
                       /\ m[c[n]][AccountWord(i - 1)] = z[c[n]][AccountWord(i - 1)]
  <2> TAKE i \in 1..k
  <2>1. i \in 1..PerSegment /\ i \in 1..(k + 1)
    BY <1>2, Constants
  <2>2. AccountWord(i - 1) \in Word /\ AccountWord(i - 1) # Count /\ AccountWord(i - 1) # Parity
    BY <2>1, Layout
  <2> QED BY <1>9, <2>1, <2>2
<1>12. FilledTo(z[c[n]], k)
  <2>1. \A i \in 1..k : z[c[n]][AccountWord(i - 1)] >= 0
    BY <1>1, <1>2, <1>11 DEF FilledTo
  <2> QED BY <1>2, <1>9, <2>1, Zenon DEF FilledTo
<1>13. Worth(m[c[n]]) = Worth(z[c[n]]) + (m[c[n]][Parity] - z[c[n]][Parity]) + m[c[n]][AccountWord(k)]
  <2>1. \A i \in 1..k : m[c[n]][AccountWord(i - 1)] = z[c[n]][AccountWord(i - 1)]
    BY <1>11
  <2>2. k + 1 <= PerSegment
    BY <1>2, Constants
  <2> DEFINE r == m[c[n]]
             q == z[c[n]]
  <2>3. r \in Row /\ q \in Row /\ r[Count] = k + 1 /\ q[Count] = k
    BY <1>1, <1>2, <1>8, <1>9
  <2>4. \A i \in 1..k : r[AccountWord(i - 1)] = q[AccountWord(i - 1)]
    BY <2>1
  <2> HIDE DEF r, q
  <2>5. Worth(r) = Worth(q) + (r[Parity] - q[Parity]) + r[AccountWord(k)]
    BY <1>2, <2>2, <2>3, <2>4, WorthOfMore
  <2> QED BY <2>5 DEF q, r
<1>14. /\ Linked(n, c, z, l) /\ Filled(n, c, z)
       /\ SumTo(Values(n, c, z), n) = SumTo(Values(n, c, m), n) + Worth(z[c[n]]) - Worth(m[c[n]])
       /\ SumTo(Counts(n, c, z), n) = SumTo(Counts(n, c, m), n) + z[c[n]][Count] - m[c[n]][Count]
  <2>1. \A s \in Segment : s # c[n] => z[s] = m[s]
    BY <1>6, <1>7
  <2>2. FilledTo(z[c[n]], z[c[n]][Count])
    BY <1>9, <1>12
  <2>3. ~ (n < n) /\ SameBut(m, z, c[n])
    BY <1>0, <2>1 DEF SameBut
  <2>4. Follows(n, c, l, m, z, n)
    BY <1>0, <1>5, <1>10, <2>1, <2>2, <2>3, OneRow
  <2> QED BY <2>4 DEF Follows
<1>15. /\ Worth(m[c[n]]) \in Int /\ Worth(z[c[n]]) \in Int
       /\ SumTo(Values(n, c, m), n) \in Int /\ SumTo(Counts(n, c, m), n) \in Int
  <2>1. SumTo(Values(n, c, m), n) \in Int /\ SumTo(Counts(n, c, m), n) \in Nat
    BY <1>0, RowsInt
  <2>2. z[c[n]][Count] \in 1..PerSegment
    BY <1>2, <1>9
  <2>3. Worth(m[c[n]]) \in Int
    BY <1>1, WorthInt
  <2>4. Worth(z[c[n]]) \in Int
    BY <1>8, <2>2, WorthInt
  <2> QED BY <2>1, <2>3, <2>4
<1>16. SumTo(Values(n, c, z), n) = SumTo(Values(n, c, m), n) - InitBalance
  <2>1. z[c[n]][Parity] = m[c[n]][Parity] + m[c[n]][AccountWord(k)] - InitBalance
    BY <1>9
  <2>2. Worth(m[c[n]]) = Worth(z[c[n]]) + InitBalance
    <3> DEFINE wm == Worth(m[c[n]])
               wz == Worth(z[c[n]])
               pm == m[c[n]][Parity]
               pz == z[c[n]][Parity]
               b == m[c[n]][AccountWord(k)]
    <3>1. wm \in Int /\ wz \in Int /\ pm \in Int /\ b \in Int /\ InitBalance \in Int
      BY <1>3, <1>15, Constants
    <3>2. wm = wz + (pm - pz) + b /\ pz = pm + b - InitBalance
      BY <1>13, <2>1
    <3> HIDE DEF wm, wz, pm, pz, b
    <3>3. wm = wz + InitBalance
      BY <3>1, <3>2
    <3> QED BY <3>3 DEF wm, wz
  <2> QED BY <1>14, <1>15, <2>2, Constants
<1>17. SumTo(Counts(n, c, z), n) = SumTo(Counts(n, c, m), n) - 1
  BY <1>2, <1>9, <1>14, <1>15
<1>18. SumTo(Values(n, c, m), n) = InitBalance * SumTo(Counts(n, c, m), n)
  BY DEF Sound
<1>19. Sound(n, c, z, l)
  BY <1>14, <1>15, <1>16, <1>17, <1>18, Multiples DEF Sound
<1> QED BY <1>6, <1>7, <1>19 DEF d, z

\* The last segment loses its only account and is freed (RemoveAccount): the
\* account's balance and the segment's parity go to the segment before.
LEMMA ShrinkSound ==
  ASSUME NEW n \in 1..Segments, NEW c \in [1..n -> Segment], NEW l, NEW m \in Mem, Sound(n, c, m, l),
         m[c[n]][Count] = 1, SumTo(Counts(n, c, m), n) > 2,
         NEW v, v = m[c[n]][Parity] + m[c[n]][AccountWord(0)] - InitBalance,
         NEW o, o = Write("free", c[n], 0, 0),
         NEW p, p = Write("set", c[n - 1], Next, NULL),
         NEW q, q = Write("add", c[n - 1], Parity, v)
  PROVE  /\ o \in OpRec /\ p \in OpRec /\ q \in OpRec
         /\ c[n] \in l \ {Start}
         /\ IsSound(Put(Put(Put(m, o), p), q), l \ {c[n]})
<1>0. Linked(n, c, m, l) /\ Filled(n, c, m) /\ n \in 1..n /\ n \in 0..n /\ c[n] \in Segment
  BY Constants DEF Sound
<1>1. m[c[n]] \in Row
  BY <1>0, RowsInt
<1>2. n # 1
  <2>1. SUFFICES ASSUME n = 1
                 PROVE  FALSE
    OBVIOUS
  <2>2. SumTo(Counts(n, c, m), 0 + 1) = SumTo(Counts(n, c, m), 0) + Counts(n, c, m)[0 + 1]
    BY SumStep
  <2>3. SumTo(Counts(n, c, m), 0) = 0
    BY SumZero
  <2>4. Counts(n, c, m)[1] = 1
    BY <2>1 DEF Counts
  <2> QED BY <2>1, <2>2, <2>3, <2>4
<1>3. n \in 2..Segments /\ n - 1 \in 1..n /\ n - 1 \in 1..(n - 1) /\ n - 1 \in 0..(n - 1)
      /\ n - 1 \in 1..Segments /\ n - 1 # n
  BY <1>2, Constants
<1>4. c[n - 1] \in Segment /\ c[n] \in l \ {Start}
  <2>1. c[n - 1] \in Segment
    BY <1>3
  <2>2. c[n] \in l
    BY <1>0 DEF Linked
  <2>3. 1 \in 1..n /\ c[1] = Start
    BY <1>0, <1>3 DEF Linked
  <2>4. c[n] # c[1]
    BY <1>0, <1>2, <2>3 DEF Linked
  <2> QED BY <2>1, <2>2, <2>3, <2>4
<1>5. v \in Int /\ m[c[n]][Parity] \in Int /\ m[c[n]][AccountWord(0)] \in Int
  <2>1. AccountWord(0) \in Word
    BY Layout, Constants DEF AccountWord, Word
  <2>2. m[c[n]][Parity] \in Int /\ m[c[n]][AccountWord(0)] \in Int
    BY <1>1, <2>1, Layout DEF Row
  <2> QED BY <2>2, Constants
<1> DEFINE d == Put(m, p)
           z == Put(d, q)
<1>6. o \in OpRec /\ Put(m, o) = m
  <2>1. 0 \in Word /\ 0 \in Int
    BY Layout
  <2>2. o \in OpRec /\ o.op = "free"
    BY <1>0, <2>1, WriteType DEF Ops
  <2> QED BY <2>2 DEF Put
<1>7. p \in OpRec /\ Changed(m, d, c[n - 1], Next, NULL)
  <2>1. NULL \in Int
    BY DEF NULL
  <2> QED BY <1>4, <2>1, HeadWords, SetIs
<1>8. q \in OpRec /\ Changed(d, z, c[n - 1], Parity, d[c[n - 1]][Parity] + v)
  <2> HIDE DEF d
  <2>1. d \in Mem
    BY <1>7 DEF Changed
  <2> QED BY <1>4, <1>5, <2>1, HeadWords, AddIs
<1>9. d \in Mem /\ z \in Mem
  BY <1>7, <1>8 DEF Changed
<1> HIDE DEF d, z
<1> DEFINE e == [i \in 1..(n - 1) |-> c[i]]
<1>10. /\ e \in [1..(n - 1) -> Segment] /\ e[n - 1] = c[n - 1]
       /\ Linked(n - 1, e, d, l \ {c[n]}) /\ Filled(n - 1, e, d)
       /\ SumTo(Values(n, c, m), n) = SumTo(Values(n - 1, e, d), n - 1) + Worth(m[c[n]])
       /\ SumTo(Counts(n, c, m), n) = SumTo(Counts(n - 1, e, d), n - 1) + m[c[n]][Count]
  <2>2. e = [i \in 1..(n - 1) |-> c[i]]
    OBVIOUS
  <2> HIDE DEF e
  <2>3. Shrunk(n, c, l, m, d, e)
    BY <1>0, <1>3, <1>7, <1>9, <2>2, CutLast
  <2> QED BY <2>3 DEF Shrunk
<1> HIDE DEF e
<1> DEFINE g == d[c[n - 1]]
           h == z[c[n - 1]]
<1>11. g \in Row /\ h \in Row /\ g[Count] \in 1..PerSegment /\ g[Parity] \in Int
  <2>1. g \in Row /\ h \in Row
    BY <1>4, <1>9 DEF Mem
  <2>2. d[e[n - 1]][Count] \in 1..PerSegment
    BY <1>3, <1>9, <1>10, RowsInt
  <2>3. g[Parity] \in Int
    BY <2>1, HeadWords DEF Row
  <2> QED BY <1>10, <2>1, <2>2, <2>3
<1>12. /\ h[Parity] = g[Parity] + v
       /\ \A w \in Word : w # Parity => h[w] = g[w]
       /\ \A s \in Segment : s # c[n - 1] => z[s] = d[s]
  BY <1>8 DEF Changed
<1>13. \A i \in 1..g[Count] : i \in 1..PerSegment /\ h[AccountWord(i - 1)] = g[AccountWord(i - 1)]
  <2> HIDE DEF g, h
  <2> TAKE i \in 1..g[Count]
  <2>1. i \in 1..PerSegment
    BY <1>11, Constants
  <2> QED BY <1>12, <2>1, AccountWords
<1>14. h[Count] = g[Count] /\ h[Next] = g[Next]
  <2> HIDE DEF g, h
  <2> QED BY <1>12, HeadWords
<1>15. FilledTo(h, h[Count])
  <2>1. FilledTo(g, g[Count])
    BY <1>3, <1>10 DEF Filled
  <2> HIDE DEF g, h
  <2> QED BY <1>11, <1>13, <1>14, <2>1 DEF FilledTo
<1>16. Worth(h) = Worth(g) + v /\ Worth(g) \in Int
  <2> HIDE DEF g, h
  <2> DEFINE k == g[Count]
  <2>1. k \in 1..PerSegment /\ h[Count] = k /\ 1 \in 1..k /\ \A i \in 1..k : h[AccountWord(i - 1)] = g[AccountWord(i - 1)]
    BY <1>11, <1>13, <1>14, Constants
  <2>2. g[Count] = k
    OBVIOUS
  <2> HIDE DEF k
  <2>3. Worth(h) = Worth(g) + (h[Parity] - g[Parity]) + (h[AccountWord(1 - 1)] - g[AccountWord(1 - 1)])
    BY <1>11, <2>1, <2>2, WorthOfChange
  <2>4. h[AccountWord(1 - 1)] = g[AccountWord(1 - 1)] /\ g[AccountWord(1 - 1)] \in Int
    <3>1. 1 \in 1..PerSegment
      BY Constants
    <3>2. AccountWord(1 - 1) \in Word
      BY <3>1, AccountWords
    <3> QED BY <1>11, <2>1, <3>2 DEF Row
  <2>5. Worth(g) \in Int
    BY <1>11, WorthInt
  <2> QED BY <1>5, <1>11, <1>12, <2>3, <2>4, <2>5
<1>17. Follows(n - 1, e, l \ {c[n]}, d, z, n - 1)
  <2>1. SameBut(d, z, e[n - 1])
    BY <1>10, <1>12 DEF SameBut
  <2>2. z[e[n - 1]][Next] = d[e[n - 1]][Next] /\ FilledTo(z[e[n - 1]], z[e[n - 1]][Count])
    BY <1>10, <1>14, <1>15
  <2>3. ~ (n - 1 < n - 1)
    BY <1>3
  <2> QED BY <1>3, <1>9, <1>10, <2>1, <2>2, <2>3, OneRow
<1>18. /\ Linked(n - 1, e, z, l \ {c[n]}) /\ Filled(n - 1, e, z)
       /\ SumTo(Values(n - 1, e, z), n - 1) = SumTo(Values(n - 1, e, d), n - 1) + Worth(h) - Worth(g)
       /\ SumTo(Counts(n - 1, e, z), n - 1) = SumTo(Counts(n - 1, e, d), n - 1) + h[Count] - g[Count]
  BY <1>10, <1>17 DEF Follows
<1>19. Worth(m[c[n]]) = m[c[n]][Parity] + m[c[n]][AccountWord(0)]
  BY <1>1, WorthOfOne
<1>20. /\ SumTo(Values(n - 1, e, d), n - 1) \in Int /\ SumTo(Counts(n - 1, e, d), n - 1) \in Int
       /\ SumTo(Values(n, c, m), n) \in Int /\ SumTo(Counts(n, c, m), n) \in Int
  <2>1. SumTo(Values(n - 1, e, d), n - 1) \in Int /\ SumTo(Counts(n - 1, e, d), n - 1) \in Nat
    BY <1>3, <1>9, <1>10, RowsInt
  <2>2. SumTo(Values(n, c, m), n) \in Int /\ SumTo(Counts(n, c, m), n) \in Nat
    BY <1>0, RowsInt
  <2> QED BY <2>1, <2>2
<1> HIDE DEF g, h
<1>21. SumTo(Values(n - 1, e, z), n - 1) = SumTo(Values(n, c, m), n) - InitBalance
  <2> DEFINE A == SumTo(Values(n - 1, e, z), n - 1)
             B == SumTo(Values(n - 1, e, d), n - 1)
             C == SumTo(Values(n, c, m), n)
             wm == Worth(m[c[n]])
             wg == Worth(g)
             wh == Worth(h)
             a == m[c[n]][AccountWord(0)]
             b == m[c[n]][Parity]
  <2>1. /\ B \in Int /\ C \in Int /\ wg \in Int /\ a \in Int /\ b \in Int /\ v \in Int
        /\ InitBalance \in Int
    BY <1>5, <1>16, <1>20, Constants
  <2>2. A = B + wh - wg /\ wh = wg + v /\ C = B + wm /\ wm = b + a /\ v = b + a - InitBalance
    BY <1>10, <1>16, <1>18, <1>19
  <2> HIDE DEF A, B, C, wm, wg, wh, a, b
  <2>3. A = B + v
    BY <2>1, <2>2
  <2>4. C = B + b + a
    BY <2>1, <2>2
  <2>5. A = C - InitBalance
    <3>1. v = b + a - InitBalance
      BY <2>2
    <3>2. C - InitBalance = B + (b + a - InitBalance)
      BY <2>1, <2>4
    <3> QED BY <2>3, <3>1, <3>2
  <2> QED BY <2>5 DEF A, C
<1>22. SumTo(Counts(n - 1, e, z), n - 1) = SumTo(Counts(n, c, m), n) - 1
  BY <1>10, <1>11, <1>14, <1>18, <1>20
<1>23. SumTo(Values(n, c, m), n) = InitBalance * SumTo(Counts(n, c, m), n)
  BY DEF Sound
<1>24. Sound(n - 1, e, z, l \ {c[n]})
  BY <1>18, <1>20, <1>21, <1>22, <1>23, Multiples DEF Sound
<1>25. IsSound(z, l \ {c[n]})
  BY <1>3, <1>10, <1>24 DEF IsSound
<1> QED BY <1>4, <1>6, <1>7, <1>8, <1>25 DEF d, z

\* A new segment with one account follows the last one (AddSegment).
LEMMA GrowSound ==
  ASSUME NEW n \in 1..Segments, NEW c \in [1..n -> Segment], NEW l, NEW m \in Mem, Sound(n, c, m, l),
         m[c[n]][Count] = PerSegment, NEW x \in Segment \ l,
         NEW y, y = [m EXCEPT ![x] = Zeros],
         NEW o, o = Write("set", c[n], Next, x),
         NEW p, p = Write("set", x, Count, 1),
         NEW q, q = Write("set", x, AccountWord(0), InitBalance)
  PROVE  /\ y \in Mem /\ o \in OpRec /\ p \in OpRec /\ q \in OpRec
         /\ IsSound(Put(Put(Put(y, o), p), q), l \cup {x})
<1>0. Linked(n, c, m, l) /\ Filled(n, c, m) /\ n \in 1..n /\ n \in 0..n /\ c[n] \in Segment
  BY Constants DEF Sound
<1>1. c[n] # x
  BY <1>0 DEF Linked
<1>2. /\ y \in Mem /\ y[x] = Zeros /\ \A s \in Segment : s # x => y[s] = m[s]
  <2>1. Zeros \in Row
    BY DEF Zeros, Row
  <2> QED BY <2>1 DEF Mem
<1>3. /\ AccountWord(0) \in Word /\ AccountWord(0) # Count /\ AccountWord(0) # Next
      /\ AccountWord(0) # Parity /\ x \in Int /\ InitBalance \in Int
  <2>1. 1 \in 1..PerSegment
    BY Constants
  <2>2. AccountWord(1 - 1) = AccountWord(0)
    OBVIOUS
  <2> QED BY <2>1, <2>2, AccountWords, Constants DEF Segment
<1> DEFINE d == Put(y, o)
           e == Put(d, p)
           z == Put(e, q)
<1>4. o \in OpRec /\ Changed(y, d, c[n], Next, x)
  BY <1>0, <1>2, <1>3, HeadWords, SetIs
<1>5. p \in OpRec /\ Changed(d, e, x, Count, 1)
  <2> HIDE DEF d
  <2>1. d \in Mem
    BY <1>4 DEF Changed
  <2> QED BY <2>1, HeadWords, SetIs
<1>6. q \in OpRec /\ Changed(e, z, x, AccountWord(0), InitBalance)
  <2> HIDE DEF d, e
  <2>1. e \in Mem
    BY <1>5 DEF Changed
  <2> QED BY <1>3, <2>1, SetIs
<1> HIDE DEF d, e, z
<1>7. z \in Mem
  BY <1>6 DEF Changed
<1>8. \A s \in Segment : s # c[n] /\ s # x => z[s] = m[s]
  BY <1>2, <1>4, <1>5, <1>6 DEF Changed
<1>9. z[c[n]] = d[c[n]]
  BY <1>0, <1>1, <1>5, <1>6 DEF Changed
<1>10. z[c[n]][Next] = x /\ \A w \in Word : w # Next => z[c[n]][w] = m[c[n]][w]
  <2>1. y[c[n]] = m[c[n]]
    BY <1>0, <1>1, <1>2
  <2> QED BY <1>4, <1>9, <2>1 DEF Changed
<1>11. d[x] = Zeros
  BY <1>1, <1>2, <1>4 DEF Changed
<1>12. e[x][Count] = 1 /\ e[x][Next] = 0 /\ e[x][Parity] = 0
  BY <1>5, <1>11, HeadWords DEF Changed, Zeros
<1>13. /\ z[x][AccountWord(0)] = InitBalance
       /\ z[x][Count] = 1 /\ z[x][Next] = 0 /\ z[x][Parity] = 0
  BY <1>3, <1>6, <1>12, HeadWords DEF Changed
<1>14. FilledTo(z[x], z[x][Count]) /\ z[x][Next] = NULL
  <2>1. \A i \in 1..1 : i = 1 /\ i - 1 = 0
    OBVIOUS
  <2>2. 1 \in 1..PerSegment /\ InitBalance >= 0
    BY Constants
  <2> QED BY <1>13, <2>1, <2>2 DEF FilledTo, NULL
<1>15. Worth(z[x]) = InitBalance
  <2>1. z[x] \in Row
    BY <1>7 DEF Mem
  <2>2. Worth(z[x]) = z[x][Parity] + z[x][AccountWord(0)]
    BY <1>13, <2>1, WorthOfOne
  <2> QED BY <1>3, <1>13, <2>2
<1> DEFINE f == [i \in 1..(n + 1) |-> IF i = n + 1 THEN x ELSE c[i]]
<1>16. f = [i \in 1..(n + 1) |-> IF i = n + 1 THEN x ELSE c[i]]
  OBVIOUS
<1> HIDE DEF f
<1>17. /\ n + 1 \in 1..Segments /\ f \in [1..(n + 1) -> Segment]
       /\ Linked(n + 1, f, z, l \cup {x}) /\ Filled(n + 1, f, z)
       /\ SumTo(Values(n + 1, f, z), n + 1) = SumTo(Values(n, c, m), n) + Worth(z[x])
       /\ SumTo(Counts(n + 1, f, z), n + 1) = SumTo(Counts(n, c, m), n) + z[x][Count]
  <2>1. Hung(n, c, m, z, x)
    BY <1>8, <1>10 DEF Hung
  <2>2. Grown(n, c, l, m, z, x, f)
    BY <1>0, <1>7, <1>14, <1>16, <2>1, AddLast
  <2> QED BY <2>2 DEF Grown
<1>18. SumTo(Values(n, c, m), n) \in Int /\ SumTo(Counts(n, c, m), n) \in Int
  <2>1. SumTo(Values(n, c, m), n) \in Int /\ SumTo(Counts(n, c, m), n) \in Nat
    BY <1>0, RowsInt
  <2> QED BY <2>1
<1>19. SumTo(Values(n, c, m), n) = InitBalance * SumTo(Counts(n, c, m), n)
  BY DEF Sound
<1>20. Sound(n + 1, f, z, l \cup {x})
  BY <1>13, <1>15, <1>17, <1>18, <1>19, Multiples DEF Sound
<1>21. IsSound(z, l \cup {x})
  BY <1>17, <1>20 DEF IsSound
<1> QED BY <1>2, <1>4, <1>5, <1>6, <1>21 DEF d, e, z

---------------------------------------------------------------------------
(* What the workload computes of the chain.                                *)

\* What Bank computes of the chain is what Sound says of it.
LEMMA MoneyIs ==
  ASSUME mem \in Mem,
         NEW n \in 1..Segments, NEW c \in [1..n -> Segment], Linked(n, c, mem, live),
         Filled(n, c, mem)
  PROVE  /\ Segs = c /\ Len(Segs) = n /\ DOMAIN Segs = 1..n /\ Last(Segs) = c[n]
         /\ \A k \in 0..n : CountTo(k) = SumTo(Counts(n, c, mem), k)
         /\ NumAccounts = SumTo(Counts(n, c, mem), n)
         /\ Money = SumTo(Values(n, c, mem), n)
<1>0. n \in Nat /\ n \in 0..n
  BY Constants
<1>1. Segs = c
  BY SegsIs
<1>2. Len(c) = n /\ DOMAIN c = 1..n /\ Last(c) = c[n]
  BY <1>0 DEF Last
<1>3. [a \in DOMAIN Segs |-> tm_read(Segs[a], Count)] = Counts(n, c, mem)
  BY <1>1, <1>2 DEF Counts, tm_read
<1>4. \A k \in 0..n : CountTo(k) = SumTo(Counts(n, c, mem), k)
  BY <1>3 DEF CountTo
<1>5. [a \in DOMAIN Segs |-> Held(Segs[a])] = Values(n, c, mem)
  <2>1. \A s : Held(s) = Worth(mem[s])
    BY DEF Held, Balances, Worth, tm_read
  <2> QED BY <1>1, <1>2, <2>1 DEF Values
<1> QED BY <1>0, <1>1, <1>2, <1>4, <1>5 DEF NumAccounts, Money

\* short_tx finds an account that exists.
LEMMA AccountIs ==
  ASSUME mem \in Mem,
         NEW n \in 1..Segments, NEW c \in [1..n -> Segment], Linked(n, c, mem, live),
         Filled(n, c, mem), NEW i \in Nat \ {0}, i <= NumAccounts
  PROVE  \E a \in 1..n : \E x \in 1..mem[c[a]][Count] :
            Account(i).seg = c[a] /\ Account(i).word = AccountWord(x - 1)
<1>0. n \in Nat
  BY Constants
<1> DEFINE f == Counts(n, c, mem)
<1>1. /\ \A a \in 1..n : f[a] \in Nat /\ f[a] = mem[c[a]][Count]
      /\ \A a \in 0..n : SumTo(f, a) \in Nat
  BY RowsInt DEF Counts
<1> HIDE DEF f
<1>2. /\ DOMAIN Segs = 1..n /\ Segs = c
      /\ \A k \in 0..n : CountTo(k) = SumTo(f, k)
      /\ i <= SumTo(f, n)
  BY MoneyIs DEF f
<1>3. \E a \in DOMAIN Segs : CountTo(a - 1) < i /\ i <= CountTo(a)
  <2>1. PICK a \in 1..n : SumTo(f, a - 1) < i /\ i <= SumTo(f, a)
    BY <1>0, <1>1, <1>2, SumFalls
  <2>2. a - 1 \in 0..n /\ a \in 0..n
    BY <1>0
  <2> QED BY <1>2, <2>1, <2>2
<1> DEFINE P(a) == CountTo(a - 1) < i /\ i <= CountTo(a)
           b == CHOOSE a \in DOMAIN Segs : P(a)
<1>4. b \in 1..n /\ CountTo(b - 1) < i /\ i <= CountTo(b)
  BY <1>2, <1>3
<1>5. Account(i).seg = Segs[b] /\ Account(i).word = AccountWord(i - CountTo(b - 1) - 1)
  BY DEF Account
<1> HIDE DEF b
<1>6. b - 1 \in 0..n /\ b \in 0..n /\ b - 1 \in Nat /\ (b - 1) + 1 = b
  BY <1>0, <1>4
<1>7. SumTo(f, b) = SumTo(f, b - 1) + f[b]
  BY <1>6, SumStep
<1> DEFINE x == i - CountTo(b - 1)
<1>8. x \in 1..mem[c[b]][Count]
  <2>1. CountTo(b - 1) = SumTo(f, b - 1) /\ CountTo(b) = SumTo(f, b)
    BY <1>2, <1>6
  <2>2. SumTo(f, b - 1) \in Nat /\ SumTo(f, b) \in Nat /\ f[b] \in Nat /\ f[b] = mem[c[b]][Count]
    BY <1>1, <1>4, <1>6
  <2>3. x \in Nat \ {0} /\ x <= f[b]
    BY <1>4, <1>7, <2>1, <2>2
  <2> HIDE DEF x
  <2> QED BY <2>2, <2>3
<1>9. Account(i).seg = c[b] /\ Account(i).word = AccountWord(x - 1)
  BY <1>2, <1>5
<1> HIDE DEF x
<1> QED BY <1>4, <1>8, <1>9

\* Without a free no segment goes ...
LEMMA FreedNone ==
  ASSUME NEW ops, \A i \in 1..Len(ops) : ops[i].op # "free"
  PROVE  Freed(ops) = {}
BY DEF Freed

\* ... nor when there is nothing to do.
LEMMA FreedEmpty == Freed(<<>>) = {}
BY DEF Freed

\* Only the first write of a transaction frees a segment.
LEMMA FreedStep ==
  ASSUME NEW ops \in Seq(OpRec), ops # <<>>,
         \A i \in 1..Len(ops) : ops[i].op = "free" => i = 1
  PROVE  /\ Freed(Tail(ops)) = {}
         /\ Freed(ops) = IF Head(ops).op = "free" THEN {Head(ops).seg} ELSE {}
         /\ \A i \in 1..Len(Tail(ops)) : Tail(ops)[i].op # "free"
<1>1. Len(ops) \in Nat /\ Len(ops) # 0 /\ 1 \in 1..Len(ops) /\ Head(ops) = ops[1]
  BY EmptySeq
<1>2. Len(Tail(ops)) = Len(ops) - 1 /\ \A i \in 1..Len(Tail(ops)) : Tail(ops)[i] = ops[i + 1]
  BY HeadTailProperties
<1>3. \A i \in 1..Len(Tail(ops)) : Tail(ops)[i].op # "free"
  <2> TAKE i \in 1..Len(Tail(ops))
  <2>1. i + 1 \in 1..Len(ops) /\ i + 1 # 1
    BY <1>1, <1>2
  <2> QED BY <1>2, <2>1
<1>4. Freed(Tail(ops)) = {}
  BY <1>3, FreedNone
<1>5. Freed(ops) = IF Head(ops).op = "free" THEN {Head(ops).seg} ELSE {}
  <2>1. CASE ops[1].op = "free"
    <3>1. {i \in 1..Len(ops) : ops[i].op = "free"} = {1}
      BY <1>1, <2>1
    <3> QED BY <1>1, <2>1, <3>1 DEF Freed
  <2>2. CASE ops[1].op # "free"
    <3>1. {i \in 1..Len(ops) : ops[i].op = "free"} = {}
      BY <1>1, <2>2
    <3> QED BY <1>1, <2>2, <3>1 DEF Freed
  <2> QED BY <2>1, <2>2
<1> QED BY <1>3, <1>4, <1>5

---------------------------------------------------------------------------
(* The inductive invariant is one, action by action.                       *)

\* Who leaves the list alone keeps it.
LEMMA FrameList ==
  ASSUME ListInv, UNCHANGED <<allocs, prev, next, live>>
  PROVE  ListInv'
BY DEF ListInv, List

\* Who leaves the memory alone, and a sum's locals, keeps the sum.
LEMMA FrameRead ==
  ASSUME NEW u \in Thread, ReadOK(u), mem' = mem, live' = live, Reading(u)' <=> Reading(u),
         pos'[u] = pos[u], seen'[u] = seen[u], sum'[u] = sum[u]
  PROVE  ReadOK(u)'
<1>1. CASE Reading(u)
  <2>1. PICK n \in 1..Segments : \E c \in [1..n -> Segment] : \E k \in 1..n : ReadAt(u, n, c, k)
    BY <1>1 DEF ReadOK
  <2>2. PICK c \in [1..n -> Segment] : \E k \in 1..n : ReadAt(u, n, c, k)
    BY <2>1
  <2>3. PICK k \in 1..n : ReadAt(u, n, c, k)
    BY <2>2
  <2>4. ReadAt(u, n, c, k)'
    BY <2>3 DEF ReadAt
  <2> QED BY <1>1, <2>4 DEF ReadOK
<1>2. CASE ~ Reading(u)
  BY <1>2 DEF ReadOK
<1> QED BY <1>1, <1>2

\* At first there is one full segment, no lock is taken and nothing runs.
LEMMA InitSound == Init => IInv
<1> SUFFICES ASSUME Init
             PROVE  IInv
  OBVIOUS
<1> USE DEF Init, tm_create
<1>0. IsSound(mem, live)
  <2> DEFINE c == [i \in 1..1 |-> Start]
  <2>1. 1 \in 1..Segments /\ c \in [1..1 -> Segment] /\ \A i \in 1..1 : i = 1 /\ c[i] = Start
    BY Constants
  <2>2. /\ mem[Start] = Opening /\ Opening[Count] = PerSegment /\ Opening[Next] = NULL
        /\ Opening[Parity] = 0 /\ Opening \in Row
        /\ \A i \in 1..PerSegment : Opening[AccountWord(i - 1)] = InitBalance
    <3>1. mem[Start] = Opening
      BY Constants
    <3>2. /\ Opening[Count] = PerSegment /\ Opening[Next] = NULL /\ Opening[Parity] = 0
      BY Layout DEF Opening, NULL
    <3>3. \A i \in 1..PerSegment : Opening[AccountWord(i - 1)] = InitBalance
      BY Layout DEF Opening
    <3>4. Opening \in Row
      BY Constants DEF Opening, Row
    <3> QED BY <3>1, <3>2, <3>3, <3>4
  <2> HIDE DEF c
  <2>3. Linked(1, c, mem, live)
    BY <2>1, <2>2 DEF Linked
  <2>4. FilledTo(Opening, PerSegment) /\ PerSegment \in 1..PerSegment
    BY <2>2, Constants DEF FilledTo
  <2>5. Filled(1, c, mem)
    BY <2>1, <2>2, <2>4 DEF Filled
  <2>6. Worth(Opening) = InitBalance * PerSegment
    <3> DEFINE f == [i \in 1..PerSegment |-> Opening[AccountWord(i - 1)]]
               S == {j \in Nat : j <= PerSegment => SumTo(f, j) = InitBalance * j}
    <3>1. \A i \in 1..PerSegment : f[i] = InitBalance
      BY <2>2
    <3>2. Worth(Opening) = 0 + SumTo(f, PerSegment)
      BY <2>2 DEF Worth
    <3> HIDE DEF f
    <3>3. 0 \in S
      BY SumZero, Constants
    <3>4. ASSUME NEW j \in Nat, j \in S
          PROVE  j + 1 \in S
      <4>1. CASE j + 1 <= PerSegment
        <5>1. j <= PerSegment /\ j + 1 \in 1..PerSegment
          BY <4>1, Constants
        <5>2. SumTo(f, j + 1) = SumTo(f, j) + f[j + 1]
          BY SumStep
        <5>3. SumTo(f, j + 1) = InitBalance * j + InitBalance
          BY <3>1, <3>4, <5>1, <5>2
        <5>4. InitBalance * (j + 1) = InitBalance * j + InitBalance
          BY Multiples
        <5> QED BY <5>3, <5>4
      <4>2. CASE ~ (j + 1 <= PerSegment)
        BY <4>2
      <4> QED BY <4>1, <4>2
    <3>5. Nat \subseteq S
      <4> HIDE DEF S
      <4> QED BY <3>3, <3>4, SetInduction
    <3>6. SumTo(f, PerSegment) = InitBalance * PerSegment /\ InitBalance * PerSegment \in Int
      BY <3>5, Constants
    <3> QED BY <3>2, <3>6
  <2>7. \A f : SumTo(f, 1) = 0 + f[1]
    <3> TAKE f
    <3>1. SumTo(f, 0 + 1) = SumTo(f, 0) + f[0 + 1]
      BY SumStep
    <3>2. SumTo(f, 0) = 0
      BY SumZero
    <3> QED BY <3>1, <3>2
  <2>8. Values(1, c, mem)[1] = Worth(Opening) /\ Counts(1, c, mem)[1] = PerSegment
    BY <2>1, <2>2 DEF Values, Counts
  <2>9. SumTo(Values(1, c, mem), 1) = InitBalance * SumTo(Counts(1, c, mem), 1)
    <3>1. SumTo(Values(1, c, mem), 1) = 0 + InitBalance * PerSegment
      BY <2>6, <2>7, <2>8
    <3>2. SumTo(Counts(1, c, mem), 1) = 0 + PerSegment
      BY <2>7, <2>8
    <3>3. 0 + PerSegment = PerSegment /\ InitBalance * PerSegment \in Int
      BY Constants
    <3> QED BY <3>1, <3>2, <3>3
  <2>10. Sound(1, c, mem, live)
    BY <2>3, <2>5, <2>9 DEF Sound
  <2> QED BY <2>1, <2>10 DEF IsSound
<1>1. TypeOK
  <2>1. Opening \in Row /\ Zeros \in Row /\ PerSegment \in Nat /\ Start \in Segment
    BY Constants DEF Opening, Zeros, Row
  <2>2. ReferenceTypeOK
    BY <2>1 DEF ReferenceTypeOK, Row, Link
  <2>3. TxPerWorker \in 0..TxPerWorker
    BY BankAssumption
  <2> QED BY <2>1, <2>2, <2>3 DEF TypeOK, PC, Link
<1>2. SumsMatch
  BY DEF SumsMatch
<1>3. LockInv
  BY DEF LockInv, Reading
<1>4. TogoInv
  BY DEF TogoInv
<1>5. PlanInv
  BY DEF PlanInv
<1>6. LifeInv
  BY DEF LifeInv
<1>7. ListInv
  <2> DEFINE q == [i \in 1..0 |-> Start]
  <2>1. 0 \in 0..Segments /\ q \in [1..0 -> Segment]
    BY Constants
  <2>2. List(0, q)
    BY DEF List
  <2> QED BY <2>1, <2>2 DEF ListInv
<1>8. DataInv
  BY <1>0 DEF DataInv
<1>9. ReadInv
  BY DEF ReadInv, ReadOK, Reading
<1> QED BY <1>1, <1>2, <1>3, <1>4, <1>5, <1>6, <1>7, <1>8, <1>9 DEF IInv

\* A transaction that may write is alone.
LEMMA WriterIs ==
  ASSUME IInv, NEW t \in Thread, pc[t] \in {"alloc", "short", "write"}
  PROVE  /\ writer = {t} /\ readers = {} /\ Start \in live
         /\ \A u \in Thread : ~ Reading(u) /\ (u # t => pc[u] \notin {"alloc", "short", "write"})
         /\ mem \in Mem /\ live \subseteq Segment
         /\ togo[t] \in 1..TxPerWorker
         /\ IsSound(MemAfter(mem, todo[t]), live \ Freed(todo[t]))
<1>1. TypeOK /\ LockInv /\ TogoInv /\ LifeInv /\ DataInv
  BY DEF IInv
<1>2. t \in writer
  BY <1>1 DEF LockInv
<1>3. writer = {t} /\ readers = {}
  BY <1>1, <1>2 DEF LockInv, TypeOK, ReferenceTypeOK
<1>4. Start \in live
  BY <1>1 DEF LifeInv
<1>5. \A u \in Thread : ~ Reading(u) /\ (u # t => pc[u] \notin {"alloc", "short", "write"})
  BY <1>1, <1>3 DEF LockInv
<1>6. mem \in Mem /\ live \subseteq Segment
  BY <1>1 DEF TypeOK, ReferenceTypeOK, Mem, Row
<1>7. togo[t] \in 1..TxPerWorker
  <2>1. togo[t] \in 0..TxPerWorker /\ togo[t] # 0 /\ TxPerWorker \in Nat
    BY <1>1, BankAssumption DEF TypeOK, TogoInv
  <2> QED BY <2>1
<1> QED BY <1>1, <1>2, <1>3, <1>4, <1>5, <1>6, <1>7 DEF DataInv

\* The writes of a transaction that would leave the memory sound may begin.
LEMMA PlanKeeps ==
  ASSUME IInv, NEW t \in Thread, pc[t] \in {"alloc", "short"},
         NEW ops \in Seq(OpRec), Len(ops) <= 3,
         \A i \in 1..Len(ops) : ops[i].op = "free" => i = 1 /\ ops[i].seg \in live \ {Start},
         IsSound(MemAfter(mem, ops), live \ Freed(ops)), Plan(t, ops)
  PROVE  IInv'
<1>0. /\ TypeOK /\ SumsMatch /\ LockInv /\ TogoInv /\ PlanInv /\ LifeInv /\ ListInv /\ DataInv /\ ReadInv
      /\ writer = {t} /\ Start \in live
  BY WriterIs DEF IInv
<1>1. /\ todo' = [todo EXCEPT ![t] = ops] /\ pc' = [pc EXCEPT ![t] = "write"]
      /\ readers' = readers /\ writer' = writer
      /\ mem' = mem /\ allocs' = allocs /\ prev' = prev /\ next' = next /\ live' = live
      /\ togo' = togo /\ known' = known /\ pos' = pos /\ seen' = seen /\ sum' = sum /\ again' = again
  BY DEF Plan, Goto, reference, region
<1>2. /\ pc \in [Thread -> PC] /\ todo \in [Thread -> Seq(OpRec)]
      /\ todo'[t] = ops /\ pc'[t] = "write"
      /\ \A u \in Thread : u # t => todo'[u] = todo[u] /\ pc'[u] = pc[u]
  BY <1>0, <1>1 DEF TypeOK, OpRec
<1>3. TypeOK'
  <2>1. ReferenceTypeOK'
    BY <1>0, <1>1 DEF TypeOK, ReferenceTypeOK
  <2>2. pc' \in [Thread -> PC] /\ todo' \in [Thread -> Seq(OpRec)]
    BY <1>1, <1>2 DEF PC
  <2> QED BY <1>0, <1>1, <2>1, <2>2 DEF TypeOK, OpRec
<1>4. SumsMatch'
  BY <1>0, <1>2 DEF SumsMatch
<1>5. LockInv'
  BY <1>0, <1>1, <1>2 DEF LockInv, Reading
<1>6. TogoInv'
  BY <1>0, <1>1, <1>2 DEF TogoInv
<1>7. PlanInv'
  BY <1>0, <1>1, <1>2 DEF PlanInv
<1>8. LifeInv'
  BY <1>0, <1>1, <1>2 DEF LifeInv
<1>9. ListInv'
  BY <1>0, <1>1, FrameList
<1>10. DataInv'
  BY <1>0, <1>1, <1>2 DEF DataInv
<1>11. ReadInv'
  <2> SUFFICES ASSUME NEW u \in Thread
               PROVE  ReadOK(u)'
    BY DEF ReadInv
  <2>1. ReadOK(u) /\ (Reading(u)' <=> Reading(u))
    BY <1>0, <1>2 DEF ReadInv, Reading
  <2> QED BY <1>1, <2>1, FrameRead
<1> QED BY <1>3, <1>4, <1>5, <1>6, <1>7, <1>8, <1>9, <1>10, <1>11 DEF IInv

\* Releasing the lock when all has been written.
LEMMA FrameData ==
  ASSUME DataInv, mem' = mem, live' = live, todo' = todo, Start \in live,
         writer' \subseteq writer, \A t \in writer : todo[t] = <<>>
  PROVE  DataInv'
<1>1. writer' = {} => IsSound(mem, live)
  <2>1. CASE writer = {}
    BY <2>1 DEF DataInv
  <2>2. CASE writer # {}
    <3>1. PICK t \in writer : TRUE
      BY <2>2
    <3>2. IsSound(MemAfter(mem, <<>>), live \ Freed(<<>>))
      BY <3>1 DEF DataInv
    <3> QED BY <3>2, MemAfterIs, FreedEmpty
  <2> QED BY <2>1, <2>2
<1> QED BY <1>1 DEF DataInv

\* Choose.
LEMMA ChooseKeeps ==
  ASSUME IInv, NEW t \in Thread, Choose(t)
  PROVE  IInv'
<1>0. /\ TypeOK /\ SumsMatch /\ LockInv /\ TogoInv /\ PlanInv /\ LifeInv /\ ListInv /\ DataInv /\ ReadInv
  BY DEF IInv
<1>1. PICK kind \in {"long", "alloc", "short", "last"} :
        /\ kind \in IF again[t] THEN {"short"}
                    ELSE IF togo[t] = 0 THEN {"last"} ELSE {"long", "alloc", "short"}
        /\ tm_begin(t, kind \in {"long", "last"})
        /\ pc' = [pc EXCEPT ![t] = kind]
        /\ pos' = [pos EXCEPT ![t] = IF kind \in {"long", "last"} THEN Start ELSE NULL]
  <2>1. PICK kind \in IF again[t] THEN {"short"}
                      ELSE IF togo[t] = 0 THEN {"last"} ELSE {"long", "alloc", "short"} :
          /\ tm_begin(t, kind \in {"long", "last"})
          /\ pc' = [pc EXCEPT ![t] = kind]
          /\ pos' = [pos EXCEPT ![t] = IF kind \in {"long", "last"} THEN Start ELSE NULL]
    BY DEF Choose, Goto
  <2>2. kind \in {"long", "alloc", "short", "last"}
    BY <2>1
  <2> QED BY <2>1, <2>2
<1>2. /\ again' = [again EXCEPT ![t] = FALSE]
      /\ mem' = mem /\ allocs' = allocs /\ prev' = prev /\ next' = next /\ live' = live
      /\ togo' = togo /\ known' = known /\ seen' = seen /\ sum' = sum /\ todo' = todo
      /\ pc[t] = "choose"
  BY DEF Choose, region
<1>3. /\ pc \in [Thread -> PC] /\ pos \in [Thread -> Link] /\ again \in [Thread -> BOOLEAN]
      /\ pc'[t] = kind /\ pos'[t] = IF kind \in {"long", "last"} THEN Start ELSE NULL
      /\ ~ again'[t] /\ ~ Reading(t)
      /\ \A u \in Thread : u # t => pc'[u] = pc[u] /\ pos'[u] = pos[u] /\ again'[u] = again[u]
  BY <1>0, <1>1, <1>2 DEF TypeOK, Reading
<1>4. writer = {} /\ t \notin readers /\ Start \in live /\ todo[t] = <<>>
  BY <1>0, <1>1, <1>2 DEF tm_begin, LockInv, Reading, LifeInv, PlanInv
<1>5. ASSUME kind \in {"long", "last"}
      PROVE  /\ readers' \subseteq readers \cup {t} /\ writer' \subseteq {t}
             /\ LockInv' /\ DataInv' /\ ReadOK(t)'
  <2>1. readers' = readers \cup {t} /\ writer' = {}
    BY <1>1, <1>4, <1>5 DEF tm_begin
  <2>2. LockInv'
    BY <1>0, <1>3, <1>4, <1>5, <2>1 DEF LockInv, Reading
  <2>3. DataInv'
    BY <1>0, <1>2, <1>4, <2>1 DEF DataInv
  <2>4. ReadOK(t)'
    <3>1. PICK n \in 1..Segments : \E c \in [1..n -> Segment] : Sound(n, c, mem, live)
      BY <1>0, <1>4 DEF DataInv, IsSound
    <3>2. PICK c \in [1..n -> Segment] : Sound(n, c, mem, live)
      BY <3>1
    <3>3. 1 \in 1..n /\ c[1] = Start /\ 1 - 1 = 0
      BY <3>2, Constants DEF Sound, Linked
    <3>4. seen[t] = 0 /\ sum[t] = 0
      BY <1>0, <1>3 DEF ReadInv, ReadOK
    <3>5. SumTo(Counts(n, c, mem), 0) = 0 /\ SumTo(Values(n, c, mem), 0) = 0
      BY SumZero
    <3>6. Sound(n, c, mem', live')
      BY <1>2, <3>2
    <3>7. ReadAt(t, n, c, 1)'
      BY <1>2, <1>3, <1>5, <3>3, <3>4, <3>5, <3>6 DEF ReadAt
    <3>8. Reading(t)'
      BY <1>3, <1>5 DEF Reading
    <3> QED BY <3>3, <3>7, <3>8 DEF ReadOK
  <2> QED BY <2>1, <2>2, <2>3, <2>4
<1>6. ASSUME kind \notin {"long", "last"}
      PROVE  /\ readers' \subseteq readers \cup {t} /\ writer' \subseteq {t}
             /\ LockInv' /\ DataInv' /\ ReadOK(t)'
  <2>1. readers' = readers /\ writer' = {t} /\ readers = {}
    BY <1>1, <1>6 DEF tm_begin
  <2>2. LockInv'
    BY <1>0, <1>1, <1>3, <1>4, <1>6, <2>1 DEF LockInv, Reading
  <2>3. DataInv'
    <3>1. IsSound(MemAfter(mem, <<>>), live \ Freed(<<>>))
      BY <1>0, <1>4, MemAfterIs, FreedEmpty DEF DataInv
    <3> QED BY <1>2, <1>4, <2>1, <3>1 DEF DataInv
  <2>4. ReadOK(t)'
    BY <1>0, <1>2, <1>3, <1>6 DEF ReadInv, ReadOK, Reading
  <2> QED BY <2>1, <2>2, <2>3, <2>4
<1>7. readers' \subseteq Thread /\ writer' \subseteq Thread /\ LockInv' /\ DataInv' /\ ReadOK(t)'
  <2>1. readers \subseteq Thread /\ writer \subseteq Thread
    BY <1>0 DEF TypeOK, ReferenceTypeOK
  <2> QED BY <1>5, <1>6, <2>1
<1>8. TypeOK'
  <2>1. ReferenceTypeOK'
    BY <1>0, <1>2, <1>7 DEF TypeOK, ReferenceTypeOK
  <2>2. pc' \in [Thread -> PC]
    BY <1>1, <1>3 DEF PC
  <2>3. pos' \in [Thread -> Link]
    BY <1>1, <1>3, Constants DEF Link
  <2> QED BY <1>0, <1>2, <1>3, <2>1, <2>2, <2>3 DEF TypeOK
<1>9. SumsMatch'
  BY <1>0, <1>1, <1>3 DEF SumsMatch
<1>10. TogoInv'
  BY <1>0, <1>1, <1>2, <1>3 DEF TogoInv
<1>11. PlanInv'
  BY <1>0, <1>2, <1>3, <1>4 DEF PlanInv
<1>12. LifeInv'
  BY <1>0, <1>1, <1>2, <1>3, <1>4 DEF LifeInv
<1>13. ListInv'
  BY <1>0, <1>2, FrameList
<1>14. ReadInv'
  <2> SUFFICES ASSUME NEW u \in Thread, u # t
               PROVE  ReadOK(u)'
    BY <1>7 DEF ReadInv
  <2>1. ReadOK(u) /\ (Reading(u)' <=> Reading(u))
    BY <1>0, <1>3 DEF ReadInv, Reading
  <2> QED BY <1>2, <1>3, <2>1, FrameRead
<1> QED BY <1>7, <1>8, <1>9, <1>10, <1>11, <1>12, <1>13, <1>14 DEF IInv

\* A sum runs without writers and stands on a chain.
LEMMA ReaderIs ==
  ASSUME IInv, NEW t \in Thread, Reading(t)
  PROVE  /\ t \in readers /\ writer = {} /\ Start \in live /\ mem \in Mem
         /\ \E n \in 1..Segments : \E c \in [1..n -> Segment] : \E k \in 1..n : ReadAt(t, n, c, k)
<1>1. TypeOK /\ LockInv /\ LifeInv /\ ReadInv
  BY DEF IInv
<1>2. t \in readers /\ writer = {}
  BY <1>1 DEF LockInv
<1>3. Start \in live
  BY <1>1 DEF LifeInv, Reading
<1>4. mem \in Mem
  BY <1>1 DEF TypeOK, ReferenceTypeOK, Mem, Row
<1> QED BY <1>1, <1>2, <1>3, <1>4 DEF ReadInv, ReadOK

\* What a sum that stands on segment k of the chain finds there.
Stands(t, n, c, k) ==
  /\ pos[t] = c[k] /\ c[k] \in Segment
  /\ tm_read(c[k], Next) = IF k = n THEN NULL ELSE c[k + 1]
  /\ ~ Overdrawn(c[k])
  /\ seen[t] \in Nat /\ tm_read(c[k], Count) \in Nat
  /\ seen[t] + tm_read(c[k], Count) = SumTo(Counts(n, c, mem), k)
  /\ sum[t] \in Int /\ Held(c[k]) \in Int
  /\ sum[t] + Held(c[k]) = SumTo(Values(n, c, mem), k)

\* It does: the segment is in use, not overdrawn, and linked as it should be.
LEMMA AtIs ==
  ASSUME mem \in Mem, NEW t, NEW n \in 1..Segments, NEW c \in [1..n -> Segment], NEW k \in 1..n,
         ReadAt(t, n, c, k)
  PROVE  Stands(t, n, c, k)
<1>0. n \in Nat /\ k - 1 \in Nat /\ k - 1 \in 0..n /\ (k - 1) + 1 = k
  BY Constants
<1>1. Linked(n, c, mem, live) /\ Filled(n, c, mem) /\ pos[t] = c[k] /\ c[k] \in Segment
  BY DEF ReadAt, Sound
<1>2. tm_read(c[k], Next) = IF k = n THEN NULL ELSE c[k + 1]
  BY <1>1 DEF Linked, tm_read
<1>3. ~ Overdrawn(c[k])
  <2>1. FilledTo(mem[c[k]], mem[c[k]][Count])
    BY <1>1 DEF Filled
  <2>2. \A i \in 1..mem[c[k]][Count] : mem[c[k]][AccountWord(i - 1)] \in Int /\ mem[c[k]][AccountWord(i - 1)] >= 0
    <3>1. mem[c[k]] \in Row
      BY <1>1 DEF Mem
    <3>2. mem[c[k]][Count] \in 0..PerSegment
      BY <2>1, Constants DEF FilledTo
    <3> QED BY <2>1, <3>1, <3>2, AccountsInt DEF FilledTo
  <2>3. \A i \in 1..mem[c[k]][Count] : ~ (mem[c[k]][AccountWord(i - 1)] < 0)
    BY <2>2
  <2> QED BY <2>3 DEF Overdrawn, Balances, tm_read
<1>4. /\ Values(n, c, mem)[k] = Held(c[k]) /\ Counts(n, c, mem)[k] = tm_read(c[k], Count)
  BY DEF Values, Counts, Held, Worth, Balances, tm_read
<1>5. /\ SumTo(Values(n, c, mem), k) = SumTo(Values(n, c, mem), k - 1) + Values(n, c, mem)[k]
      /\ SumTo(Counts(n, c, mem), k) = SumTo(Counts(n, c, mem), k - 1) + Counts(n, c, mem)[k]
  BY <1>0, SumStep
<1>6. /\ SumTo(Values(n, c, mem), k - 1) \in Int /\ SumTo(Counts(n, c, mem), k - 1) \in Nat
      /\ Values(n, c, mem)[k] \in Int /\ Counts(n, c, mem)[k] \in Nat
  BY <1>0, <1>1, RowsInt
<1> QED BY <1>1, <1>2, <1>3, <1>4, <1>5, <1>6 DEF ReadAt, Stands

\* VisitSegment.
LEMMA VisitSegmentKeeps ==
  ASSUME IInv, NEW t \in Thread, VisitSegment(t)
  PROVE  IInv'
<1>0. /\ TypeOK /\ SumsMatch /\ LockInv /\ TogoInv /\ PlanInv /\ LifeInv /\ ListInv /\ DataInv /\ ReadInv
  BY DEF IInv
<1>1. /\ Reading(t) /\ tm_read(pos[t], Next) # NULL
      /\ seen' = [seen EXCEPT ![t] = @ + tm_read(pos[t], Count)]
      /\ sum' = [sum EXCEPT ![t] = @ + Held(pos[t])]
      /\ pos' = [pos EXCEPT ![t] = tm_read(pos[t], Next)]
  BY DEF VisitSegment, Reading
<1>2. /\ readers' = readers /\ writer' = writer
      /\ mem' = mem /\ allocs' = allocs /\ prev' = prev /\ next' = next /\ live' = live
      /\ pc' = pc /\ togo' = togo /\ known' = known /\ todo' = todo /\ again' = again
  BY DEF VisitSegment, reference, region
<1>3. /\ t \in readers /\ writer = {} /\ Start \in live /\ mem \in Mem
      /\ \E n \in 1..Segments : \E c \in [1..n -> Segment] : \E k \in 1..n : ReadAt(t, n, c, k)
  BY <1>1, ReaderIs
<1>4. PICK n \in 1..Segments : \E c \in [1..n -> Segment] : \E k \in 1..n : ReadAt(t, n, c, k)
  BY <1>3
<1>5. PICK c \in [1..n -> Segment] : \E k \in 1..n : ReadAt(t, n, c, k)
  BY <1>4
<1>6. PICK k \in 1..n : ReadAt(t, n, c, k)
  BY <1>5
<1>7. /\ pos[t] = c[k] /\ c[k] \in Segment
      /\ tm_read(c[k], Next) = IF k = n THEN NULL ELSE c[k + 1]
      /\ seen[t] + tm_read(c[k], Count) = SumTo(Counts(n, c, mem), k)
      /\ sum[t] + Held(c[k]) = SumTo(Values(n, c, mem), k)
      /\ seen[t] \in Nat /\ tm_read(c[k], Count) \in Nat
      /\ sum[t] \in Int /\ Held(c[k]) \in Int
  <2>1. Stands(t, n, c, k)
    BY <1>3, <1>6, AtIs
  <2> QED BY <2>1 DEF Stands
<1>8. k + 1 \in 1..n /\ tm_read(c[k], Next) = c[k + 1] /\ c[k + 1] \in Segment /\ (k + 1) - 1 = k
  <2>1. k # n
    BY <1>1, <1>7
  <2>2. k + 1 \in 1..n
    BY <2>1, Constants
  <2> QED BY <1>7, <2>1, <2>2
<1>9. /\ seen \in [Thread -> Nat] /\ sum \in [Thread -> Int] /\ pos \in [Thread -> Link]
      /\ seen'[t] = SumTo(Counts(n, c, mem), k) /\ sum'[t] = SumTo(Values(n, c, mem), k)
      /\ pos'[t] = c[k + 1]
      /\ \A u \in Thread : u # t => pos'[u] = pos[u] /\ seen'[u] = seen[u] /\ sum'[u] = sum[u]
  BY <1>0, <1>1, <1>7, <1>8 DEF TypeOK
<1>10. TypeOK'
  <2>1. ReferenceTypeOK'
    BY <1>0, <1>2 DEF TypeOK, ReferenceTypeOK
  <2>2. seen' \in [Thread -> Nat] /\ sum' \in [Thread -> Int]
    BY <1>1, <1>7, <1>9
  <2>3. pos' \in [Thread -> Link]
    BY <1>1, <1>7, <1>8, <1>9 DEF Link
  <2> QED BY <1>0, <1>2, <2>1, <2>2, <2>3 DEF TypeOK
<1>11. SumsMatch' /\ LockInv' /\ TogoInv' /\ PlanInv' /\ LifeInv'
  BY <1>0, <1>2 DEF SumsMatch, LockInv, TogoInv, PlanInv, LifeInv, Reading
<1>12. ListInv'
  BY <1>0, <1>2, FrameList
<1>13. DataInv'
  BY <1>0, <1>2, <1>3 DEF DataInv
<1>14. ReadInv'
  <2> SUFFICES ASSUME NEW u \in Thread
               PROVE  ReadOK(u)'
    BY DEF ReadInv
  <2>1. CASE u = t
    <3>1. Sound(n, c, mem', live')
      BY <1>2, <1>6 DEF ReadAt
    <3>2. ReadAt(t, n, c, k + 1)'
      BY <1>2, <1>8, <1>9, <3>1 DEF ReadAt
    <3>3. Reading(t)'
      BY <1>1, <1>2 DEF Reading
    <3> QED BY <1>8, <2>1, <3>2, <3>3 DEF ReadOK
  <2>2. CASE u # t
    <3>1. ReadOK(u) /\ (Reading(u)' <=> Reading(u))
      BY <1>0, <1>2 DEF ReadInv, Reading
    <3> QED BY <1>2, <1>9, <2>2, <3>1, FrameRead
  <2> QED BY <2>1, <2>2
<1> QED BY <1>10, <1>11, <1>12, <1>13, <1>14 DEF IInv

\* VisitLast: the sum is right.
LEMMA VisitLastKeeps ==
  ASSUME IInv, NEW t \in Thread, VisitLast(t)
  PROVE  IInv'
<1>0. /\ TypeOK /\ SumsMatch /\ LockInv /\ TogoInv /\ PlanInv /\ LifeInv /\ ListInv /\ DataInv /\ ReadInv
  BY DEF IInv
<1>1. /\ Reading(t)
      /\ Overdrawn(pos[t]) \/ tm_read(pos[t], Next) = NULL
      /\ LeaveSum(t, IF Overdrawn(pos[t]) THEN -1 ELSE sum[t] + Held(pos[t]),
                  seen[t] + tm_read(pos[t], Count))
  BY DEF VisitLast, Reading
<1>3. /\ t \in readers /\ writer = {} /\ Start \in live /\ mem \in Mem
      /\ \E n \in 1..Segments : \E c \in [1..n -> Segment] : \E k \in 1..n : ReadAt(t, n, c, k)
  BY <1>1, ReaderIs
<1>4. PICK n \in 1..Segments : \E c \in [1..n -> Segment] : \E k \in 1..n : ReadAt(t, n, c, k)
  BY <1>3
<1>5. PICK c \in [1..n -> Segment] : \E k \in 1..n : ReadAt(t, n, c, k)
  BY <1>4
<1>6. PICK k \in 1..n : ReadAt(t, n, c, k)
  BY <1>5
<1>7. /\ pos[t] = c[k] /\ c[k] \in Segment /\ ~ Overdrawn(c[k])
      /\ tm_read(c[k], Next) = IF k = n THEN NULL ELSE c[k + 1]
      /\ seen[t] + tm_read(c[k], Count) = SumTo(Counts(n, c, mem), k)
      /\ sum[t] + Held(c[k]) = SumTo(Values(n, c, mem), k)
      /\ seen[t] \in Nat /\ tm_read(c[k], Count) \in Nat
  <2>1. Stands(t, n, c, k)
    BY <1>3, <1>6, AtIs
  <2> QED BY <2>1 DEF Stands
<1>8. k = n
  <2>1. SUFFICES ASSUME k # n
                 PROVE  FALSE
    OBVIOUS
  <2>2. k + 1 \in 1..n
    BY <2>1, Constants
  <2> QED BY <1>1, <1>7, <2>1, <2>2, Constants
<1> DEFINE total == sum[t] + Held(pos[t])
           number == seen[t] + tm_read(pos[t], Count)
<1>9. total = InitBalance * number
  <2>1. SumTo(Values(n, c, mem), n) = InitBalance * SumTo(Counts(n, c, mem), n)
    BY <1>6 DEF ReadAt, Sound
  <2> QED BY <1>7, <1>8, <2>1
<1>10. number \in Nat
  BY <1>7
<1>11. LeaveSum(t, total, number)
  BY <1>1, <1>7
<1> HIDE DEF total, number
<1>12. /\ \/ pc' = [pc EXCEPT ![t] = "done"] /\ togo' = togo /\ known' = known
          \/ /\ pc' = [pc EXCEPT ![t] = "choose"] /\ togo' = [togo EXCEPT ![t] = @ - 1]
             /\ pc[t] # "last" /\ known' = [known EXCEPT ![t] = number]
       /\ pos' = [pos EXCEPT ![t] = NULL]
       /\ seen' = [seen EXCEPT ![t] = 0] /\ sum' = [sum EXCEPT ![t] = 0]
       /\ readers' = readers \ {t} /\ writer' = writer \ {t}
       /\ mem' = mem /\ allocs' = allocs /\ prev' = prev /\ next' = next /\ live' = live
       /\ todo' = todo /\ again' = again
  BY <1>9, <1>11 DEF LeaveSum, Goto, Finished, tm_end, region
<1>13. /\ pc \in [Thread -> PC] /\ pos \in [Thread -> Link] /\ togo \in [Thread -> 0..TxPerWorker]
       /\ seen \in [Thread -> Nat] /\ sum \in [Thread -> Int] /\ known \in [Thread -> Nat]
       /\ pc'[t] \in {"done", "choose"} /\ pos'[t] = NULL /\ seen'[t] = 0 /\ sum'[t] = 0
       /\ \A u \in Thread : u # t => /\ pc'[u] = pc[u] /\ pos'[u] = pos[u] /\ togo'[u] = togo[u]
                                     /\ seen'[u] = seen[u] /\ sum'[u] = sum[u]
  BY <1>0, <1>12 DEF TypeOK
<1>14. ~ again[t]
  BY <1>0, <1>1 DEF TogoInv, Reading
<1>15. TypeOK'
  <2>1. ReferenceTypeOK'
    BY <1>0, <1>12 DEF TypeOK, ReferenceTypeOK
  <2>2. pc' \in [Thread -> PC] /\ known' \in [Thread -> Nat]
    <3>1. pc' \in [Thread -> PC]
      BY <1>12, <1>13 DEF PC
    <3>2. known' \in [Thread -> Nat]
      BY <1>10, <1>12, <1>13
    <3> QED BY <3>1, <3>2
  <2>5. seen' \in [Thread -> Nat] /\ sum' \in [Thread -> Int]
    BY <1>12, <1>13
  <2>3. pos' \in [Thread -> Link]
    BY <1>12, <1>13 DEF Link
  <2>4. togo' \in [Thread -> 0..TxPerWorker]
    <3>1. pc[t] # "last" => togo[t] \in 0..TxPerWorker /\ togo[t] - 1 \in 0..TxPerWorker
      BY <1>0, <1>1, <1>13, BankAssumption DEF TogoInv, Reading
    <3> QED BY <1>12, <1>13, <3>1
  <2> QED BY <1>0, <1>12, <2>1, <2>2, <2>3, <2>4, <2>5 DEF TypeOK
<1>16. SumsMatch'
  BY <1>0, <1>13 DEF SumsMatch
<1>17. LockInv'
  BY <1>0, <1>3, <1>12, <1>13 DEF LockInv, Reading
<1>18. TogoInv'
  BY <1>0, <1>12, <1>13, <1>14 DEF TogoInv
<1>19. PlanInv'
  BY <1>0, <1>1, <1>12, <1>13 DEF PlanInv, Reading
<1>20. LifeInv'
  BY <1>0, <1>3, <1>12, <1>13 DEF LifeInv
<1>21. ListInv'
  BY <1>0, <1>12, FrameList
<1>22. DataInv'
  BY <1>0, <1>3, <1>12 DEF DataInv
<1>23. ReadInv'
  <2> SUFFICES ASSUME NEW u \in Thread
               PROVE  ReadOK(u)'
    BY DEF ReadInv
  <2>1. CASE u = t
    BY <1>13, <2>1 DEF ReadOK, Reading
  <2>2. CASE u # t
    <3>1. ReadOK(u) /\ (Reading(u)' <=> Reading(u))
      BY <1>0, <1>13, <2>2 DEF ReadInv, Reading
    <3> QED BY <1>12, <1>13, <2>2, <3>1, FrameRead
  <2> QED BY <2>1, <2>2
<1> QED BY <1>15, <1>16, <1>17, <1>18, <1>19, <1>20, <1>21, <1>22, <1>23 DEF IInv

\* When a transaction takes its decision, the memory is sound.
LEMMA WriterSound ==
  ASSUME IInv, NEW t \in Thread, pc[t] \in {"alloc", "short"}
  PROVE  todo[t] = <<>> /\ IsSound(mem, live)
<1>1. todo[t] = <<>>
  BY DEF IInv, PlanInv
<1>2. IsSound(MemAfter(mem, <<>>), live \ Freed(<<>>))
  BY <1>1, WriterIs
<1> QED BY <1>1, <1>2, MemAfterIs, FreedEmpty

\* Plans of two writes ...
LEMMA TwoWrites ==
  ASSUME NEW o \in OpRec, NEW p \in OpRec, o.op # "free", p.op # "free"
  PROVE  /\ <<o, p>> \in Seq(OpRec) /\ Len(<<o, p>>) <= 3 /\ Freed(<<o, p>>) = {}
         /\ \A i \in 1..Len(<<o, p>>) : <<o, p>>[i].op # "free"
<1>1. <<o, p>> \in Seq(OpRec) /\ Len(<<o, p>>) = 2 /\ <<o, p>>[1] = o /\ <<o, p>>[2] = p
  OBVIOUS
<1>2. \A i \in 1..Len(<<o, p>>) : <<o, p>>[i].op # "free"
  <2> TAKE i \in 1..Len(<<o, p>>)
  <2>1. i = 1 \/ i = 2
    BY <1>1
  <2> QED BY <1>1, <2>1
<1>3. Freed(<<o, p>>) = {}
  BY <1>2, FreedNone
<1> QED BY <1>1, <1>2, <1>3

\* ... and of three.
LEMMA ThreeWrites ==
  ASSUME NEW o \in OpRec, NEW p \in OpRec, NEW q \in OpRec, p.op # "free", q.op # "free"
  PROVE  /\ <<o, p, q>> \in Seq(OpRec) /\ Len(<<o, p, q>>) <= 3
         /\ Freed(<<o, p, q>>) = IF o.op = "free" THEN {o.seg} ELSE {}
         /\ \A i \in 1..Len(<<o, p, q>>) : <<o, p, q>>[i].op = "free" => i = 1
         /\ <<o, p, q>>[1] = o
<1>1. /\ <<o, p, q>> \in Seq(OpRec) /\ Len(<<o, p, q>>) = 3
      /\ <<o, p, q>>[1] = o /\ <<o, p, q>>[2] = p /\ <<o, p, q>>[3] = q
      /\ <<o, p, q>> # <<>> /\ Head(<<o, p, q>>) = o
  OBVIOUS
<1>2. \A i \in 1..Len(<<o, p, q>>) : <<o, p, q>>[i].op = "free" => i = 1
  <2> TAKE i \in 1..Len(<<o, p, q>>)
  <2>1. i = 1 \/ i = 2 \/ i = 3
    BY <1>1
  <2> QED BY <1>1, <2>1
<1>3. Freed(<<o, p, q>>) = IF o.op = "free" THEN {o.seg} ELSE {}
  <2> DEFINE ops == <<o, p, q>>
  <2>1. ops \in Seq(OpRec) /\ ops # <<>> /\ Head(ops) = o /\ \A i \in 1..Len(ops) : ops[i].op = "free" => i = 1
    BY <1>1, <1>2
  <2> HIDE DEF ops
  <2>2. Freed(ops) = IF o.op = "free" THEN {o.seg} ELSE {}
    BY <2>1, FreedStep
  <2> QED BY <2>2 DEF ops
<1> QED BY <1>1, <1>2, <1>3

\* The parts of a write.
LEMMA WriteOps ==
  ASSUME NEW op, NEW s, NEW w, NEW v
  PROVE  Write(op, s, w, v).op = op /\ Write(op, s, w, v).seg = s
BY DEF Write

\* RemoveAccount.
LEMMA RemoveAccountKeeps ==
  ASSUME IInv, NEW t \in Thread, RemoveAccount(t)
  PROVE  IInv'
<1>0. pc[t] = "alloc" /\ NumAccounts > 2
  BY DEF RemoveAccount
<1>1. mem \in Mem /\ IsSound(mem, live)
  BY <1>0, WriterIs, WriterSound
<1>2. PICK n \in 1..Segments : \E c \in [1..n -> Segment] : Sound(n, c, mem, live)
  BY <1>1 DEF IsSound
<1>3. PICK c \in [1..n -> Segment] : Sound(n, c, mem, live)
  BY <1>2
<1>4. Linked(n, c, mem, live) /\ Filled(n, c, mem)
  BY <1>3 DEF Sound
<1>5. /\ Segs = c /\ Len(Segs) = n /\ Last(Segs) = c[n]
      /\ NumAccounts = SumTo(Counts(n, c, mem), n)
  BY <1>1, <1>4, MoneyIs
<1> DEFINE k == mem[c[n]][Count] - 1
           v == mem[c[n]][Parity] + mem[c[n]][AccountWord(k)] - InitBalance
           o1 == Write("set", c[n], Count, k)
           p1 == Write("set", c[n], Parity, v)
           o2 == Write("free", c[n], 0, 0)
           p2 == Write("set", c[n - 1], Next, NULL)
           q2 == Write("add", c[n - 1], Parity, v)
<1>6. k \in Nat
  <2>1. n \in 1..n
    BY Constants
  <2>2. mem[c[n]][Count] \in 1..PerSegment
    BY <1>1, <1>4, <2>1, RowsInt
  <2> QED BY <2>2
<1>7. Plan(t, IF k > 0 THEN <<o1, p1>> ELSE <<o2, p2, q2>>)
  BY <1>5 DEF RemoveAccount, tm_read
<1>8. CASE k > 0
  <2> DEFINE ops == <<o1, p1>>
  <2>1. o1 \in OpRec /\ p1 \in OpRec /\ Sound(n, c, Put(Put(mem, o1), p1), live)
    <3> HIDE DEF k, v, o1, p1
    <3>1. k = mem[c[n]][Count] - 1
      BY DEF k
    <3>2. v = mem[c[n]][Parity] + mem[c[n]][AccountWord(k)] - InitBalance
      BY DEF v
    <3>3. o1 = Write("set", c[n], Count, k) /\ p1 = Write("set", c[n], Parity, v)
      BY DEF o1, p1
    <3> QED BY <1>1, <1>3, <1>8, <3>1, <3>2, <3>3, RemoveSound
  <2>2. o1.op # "free" /\ p1.op # "free"
    BY WriteOps
  <2> HIDE DEF o1, p1
  <2>3. /\ ops \in Seq(OpRec) /\ Len(ops) <= 3 /\ Freed(ops) = {}
        /\ \A i \in 1..Len(ops) : ops[i].op # "free"
    BY <2>1, <2>2, TwoWrites
  <2>4. MemAfter(mem, ops) = Put(Put(mem, o1), p1)
    BY MemAfterIs
  <2>5. Plan(t, ops)
    BY <1>7, <1>8
  <2> HIDE DEF ops
  <2>6. IsSound(MemAfter(mem, ops), live \ Freed(ops))
    BY <2>1, <2>3, <2>4 DEF IsSound
  <2> QED BY <1>0, <2>3, <2>5, <2>6, PlanKeeps
<1>9. CASE k = 0
  <2> DEFINE ops == <<o2, p2, q2>>
  <2>1. /\ o2 \in OpRec /\ p2 \in OpRec /\ q2 \in OpRec /\ c[n] \in live \ {Start}
        /\ IsSound(Put(Put(Put(mem, o2), p2), q2), live \ {c[n]})
    <3> HIDE DEF v, o2, p2, q2, k
    <3>1. v = mem[c[n]][Parity] + mem[c[n]][AccountWord(0)] - InitBalance
      BY <1>9 DEF v
    <3>2. /\ o2 = Write("free", c[n], 0, 0) /\ p2 = Write("set", c[n - 1], Next, NULL)
          /\ q2 = Write("add", c[n - 1], Parity, v)
      BY DEF o2, p2, q2
    <3>3. mem[c[n]][Count] = 1
      <4>1. n \in 1..n
        BY Constants
      <4>2. mem[c[n]][Count] \in 1..PerSegment
        BY <1>1, <1>4, <4>1, RowsInt
      <4> QED BY <1>9, <4>2 DEF k
    <3>4. SumTo(Counts(n, c, mem), n) > 2
      BY <1>0, <1>5
    <3> QED BY <1>1, <1>3, <3>1, <3>2, <3>3, <3>4, ShrinkSound
  <2>2. o2.op = "free" /\ o2.seg = c[n] /\ p2.op # "free" /\ q2.op # "free"
    BY WriteOps
  <2> HIDE DEF o2, p2, q2
  <2>3. /\ ops \in Seq(OpRec) /\ Len(ops) <= 3 /\ Freed(ops) = {c[n]} /\ ops[1] = o2
        /\ \A i \in 1..Len(ops) : ops[i].op = "free" => i = 1
    <3>1. /\ ops \in Seq(OpRec) /\ Len(ops) <= 3
          /\ Freed(ops) = IF o2.op = "free" THEN {o2.seg} ELSE {}
          /\ \A i \in 1..Len(ops) : ops[i].op = "free" => i = 1
          /\ ops[1] = o2
      BY <2>1, <2>2, ThreeWrites
    <3> HIDE DEF ops
    <3> QED BY <2>2, <3>1
  <2>4. MemAfter(mem, ops) = Put(Put(Put(mem, o2), p2), q2)
    BY MemAfterIs
  <2>5. Plan(t, ops)
    BY <1>7, <1>9
  <2> HIDE DEF ops
  <2>6. IsSound(MemAfter(mem, ops), live \ Freed(ops))
    BY <2>1, <2>3, <2>4
  <2>7. \A i \in 1..Len(ops) : ops[i].op = "free" => i = 1 /\ ops[i].seg \in live \ {Start}
    BY <2>1, <2>2, <2>3
  <2> QED BY <1>0, <2>3, <2>5, <2>6, <2>7, PlanKeeps
<1> HIDE DEF k
<1> QED BY <1>6, <1>8, <1>9

\* AddAccount.
LEMMA AddAccountKeeps ==
  ASSUME IInv, NEW t \in Thread, AddAccount(t)
  PROVE  IInv'
<1>0. pc[t] = "alloc"
  BY DEF AddAccount
<1>1. mem \in Mem /\ IsSound(mem, live)
  BY <1>0, WriterIs, WriterSound
<1>2. PICK n \in 1..Segments : \E c \in [1..n -> Segment] : Sound(n, c, mem, live)
  BY <1>1 DEF IsSound
<1>3. PICK c \in [1..n -> Segment] : Sound(n, c, mem, live)
  BY <1>2
<1>4. Linked(n, c, mem, live) /\ Filled(n, c, mem)
  BY <1>3 DEF Sound
<1>5. Last(Segs) = c[n]
  BY <1>1, <1>4, MoneyIs
<1> DEFINE k == mem[c[n]][Count]
           o == Write("set", c[n], AccountWord(k), InitBalance)
           p == Write("set", c[n], Count, k + 1)
           ops == <<o, p>>
<1>6. k < PerSegment /\ Plan(t, ops)
  BY <1>5 DEF AddAccount, tm_read
<1>7. o.op # "free" /\ p.op # "free"
  BY WriteOps
<1>8. k = mem[c[n]][Count]
  OBVIOUS
<1> HIDE DEF k
<1>9. o = Write("set", c[n], AccountWord(k), InitBalance) /\ p = Write("set", c[n], Count, k + 1)
  OBVIOUS
<1> HIDE DEF o, p
<1>10. o \in OpRec /\ p \in OpRec /\ Sound(n, c, Put(Put(mem, o), p), live)
  BY <1>1, <1>3, <1>6, <1>8, <1>9, AddSound
<1>11. /\ ops \in Seq(OpRec) /\ Len(ops) <= 3 /\ Freed(ops) = {}
       /\ \A i \in 1..Len(ops) : ops[i].op # "free"
  BY <1>7, <1>10, TwoWrites
<1>12. MemAfter(mem, ops) = Put(Put(mem, o), p)
  BY MemAfterIs
<1> HIDE DEF ops
<1>13. IsSound(MemAfter(mem, ops), live \ Freed(ops))
  BY <1>10, <1>11, <1>12 DEF IsSound
<1> QED BY <1>0, <1>6, <1>11, <1>13, PlanKeeps

\* Transfer, one that is repeated included.
LEMMA TransferKeeps ==
  ASSUME IInv, NEW t \in Thread, Transfer(t)
  PROVE  IInv'
<1>0. /\ TypeOK /\ SumsMatch /\ LockInv /\ TogoInv /\ PlanInv /\ LifeInv /\ ListInv /\ DataInv /\ ReadInv
  BY DEF IInv
<1>1. /\ pc[t] = "short" /\ writer = {t} /\ readers = {} /\ Start \in live /\ mem \in Mem
      /\ togo[t] # 0 /\ todo[t] = <<>> /\ IsSound(mem, live)
      /\ \A u \in Thread : ~ Reading(u) /\ (u # t => pc[u] \notin {"alloc", "short", "write"})
  <2>1. pc[t] = "short"
    BY DEF Transfer
  <2>2. togo[t] # 0
    BY <1>0, <2>1 DEF TogoInv
  <2>3. todo[t] = <<>> /\ IsSound(mem, live)
    BY <2>1, WriterSound
  <2> QED BY <2>1, <2>2, <2>3, WriterIs
<1>2. known[t] \in Nat
  BY <1>0 DEF TypeOK
<1>3. PICK i \in 1..known[t] : \E j \in 1..known[t] :
        IF i <= NumAccounts /\ j <= NumAccounts
        THEN LET from == Account(i)
                 to == Account(j)
                 v == tm_read(from.seg, from.word)
             IN  Plan(t, IF v > 0 THEN <<Write("set", from.seg, from.word, v - 1),
                                         Write("add", to.seg, to.word, 1)>>
                         ELSE <<>>)
        ELSE /\ again' = [again EXCEPT ![t] = TRUE]
             /\ tm_end(t)
             /\ Goto(t, "choose")
             /\ UNCHANGED <<region, togo, known, pos, seen, sum, todo>>
  BY DEF Transfer
<1>4. PICK j \in 1..known[t] :
        IF i <= NumAccounts /\ j <= NumAccounts
        THEN LET from == Account(i)
                 to == Account(j)
                 v == tm_read(from.seg, from.word)
             IN  Plan(t, IF v > 0 THEN <<Write("set", from.seg, from.word, v - 1),
                                         Write("add", to.seg, to.word, 1)>>
                         ELSE <<>>)
        ELSE /\ again' = [again EXCEPT ![t] = TRUE]
             /\ tm_end(t)
             /\ Goto(t, "choose")
             /\ UNCHANGED <<region, togo, known, pos, seen, sum, todo>>
  BY <1>3
<1>5. i \in Nat \ {0} /\ j \in Nat \ {0}
  BY <1>2
<1>6. CASE i <= NumAccounts /\ j <= NumAccounts
  <2>1. PICK n \in 1..Segments : \E c \in [1..n -> Segment] : Sound(n, c, mem, live)
    BY <1>1 DEF IsSound
  <2>2. PICK c \in [1..n -> Segment] : Sound(n, c, mem, live)
    BY <2>1
  <2>3. Linked(n, c, mem, live) /\ Filled(n, c, mem)
    BY <2>2 DEF Sound
  <2>4. PICK a \in 1..n : \E x \in 1..mem[c[a]][Count] :
            Account(i).seg = c[a] /\ Account(i).word = AccountWord(x - 1)
    BY <1>1, <1>5, <1>6, <2>3, AccountIs
  <2>5. PICK x \in 1..mem[c[a]][Count] :
            Account(i).seg = c[a] /\ Account(i).word = AccountWord(x - 1)
    BY <2>4
  <2>6. PICK b \in 1..n : \E y \in 1..mem[c[b]][Count] :
            Account(j).seg = c[b] /\ Account(j).word = AccountWord(y - 1)
    BY <1>1, <1>5, <1>6, <2>3, AccountIs
  <2>7. PICK y \in 1..mem[c[b]][Count] :
            Account(j).seg = c[b] /\ Account(j).word = AccountWord(y - 1)
    BY <2>6
  <2> DEFINE v == mem[c[a]][AccountWord(x - 1)]
             o == Write("set", c[a], AccountWord(x - 1), v - 1)
             p == Write("add", c[b], AccountWord(y - 1), 1)
             ops == <<o, p>>
  <2>8. Plan(t, IF v > 0 THEN ops ELSE <<>>)
    BY <1>4, <1>6, <2>5, <2>7 DEF tm_read
  <2>9. CASE v > 0
    <3>1. o.op # "free" /\ p.op # "free"
      BY WriteOps
    <3>2. Plan(t, ops)
      BY <2>8, <2>9
    <3>3. v = mem[c[a]][AccountWord(x - 1)]
      OBVIOUS
    <3> HIDE DEF v
    <3>4. o = Write("set", c[a], AccountWord(x - 1), v - 1) /\ p = Write("add", c[b], AccountWord(y - 1), 1)
      OBVIOUS
    <3> HIDE DEF o, p
    <3>5. o \in OpRec /\ p \in OpRec /\ Sound(n, c, Put(Put(mem, o), p), live)
      BY <1>1, <2>2, <2>9, <3>3, <3>4, TransferSound
    <3>6. /\ ops \in Seq(OpRec) /\ Len(ops) <= 3 /\ Freed(ops) = {}
          /\ \A w \in 1..Len(ops) : ops[w].op # "free"
      BY <3>1, <3>5, TwoWrites
    <3>7. MemAfter(mem, ops) = Put(Put(mem, o), p)
      BY MemAfterIs
    <3> HIDE DEF ops
    <3>8. IsSound(MemAfter(mem, ops), live \ Freed(ops))
      BY <3>5, <3>6, <3>7 DEF IsSound
    <3> QED BY <1>1, <3>2, <3>6, <3>8, PlanKeeps
  <2>10. CASE ~ (v > 0)
    <3> DEFINE none == <<>>
    <3>1. Plan(t, none)
      BY <2>8, <2>10
    <3>2. none \in Seq(OpRec) /\ Len(none) = 0 /\ Freed(none) = {} /\ MemAfter(mem, none) = mem
      BY FreedEmpty, MemAfterIs
    <3> HIDE DEF none
    <3>3. Len(none) <= 3 /\ \A w \in 1..Len(none) : none[w].op # "free"
      BY <3>2
    <3>4. IsSound(MemAfter(mem, none), live \ Freed(none))
      BY <1>1, <3>2
    <3> QED BY <1>1, <3>1, <3>2, <3>3, <3>4, PlanKeeps
  <2> QED BY <2>9, <2>10
<1>7. CASE ~ (i <= NumAccounts /\ j <= NumAccounts)
  <2>1. /\ again' = [again EXCEPT ![t] = TRUE] /\ pc' = [pc EXCEPT ![t] = "choose"]
        /\ readers' = readers \ {t} /\ writer' = writer \ {t}
        /\ mem' = mem /\ allocs' = allocs /\ prev' = prev /\ next' = next /\ live' = live
        /\ togo' = togo /\ known' = known /\ pos' = pos /\ seen' = seen /\ sum' = sum /\ todo' = todo
    BY <1>4, <1>7 DEF Goto, tm_end, region
  <2>2. /\ pc \in [Thread -> PC] /\ again \in [Thread -> BOOLEAN]
        /\ pc'[t] = "choose" /\ \A u \in Thread : u # t => pc'[u] = pc[u] /\ again'[u] = again[u]
    BY <1>0, <2>1 DEF TypeOK
  <2>3. TypeOK'
    <3>1. ReferenceTypeOK'
      BY <1>0, <2>1 DEF TypeOK, ReferenceTypeOK
    <3>2. pc' \in [Thread -> PC] /\ again' \in [Thread -> BOOLEAN]
      BY <2>1, <2>2 DEF PC
    <3> QED BY <1>0, <2>1, <3>1, <3>2 DEF TypeOK
  <2>4. SumsMatch'
    BY <1>0, <2>2 DEF SumsMatch
  <2>5. LockInv'
    BY <1>0, <1>1, <2>1, <2>2 DEF LockInv, Reading
  <2>6. TogoInv'
    BY <1>0, <1>1, <2>1, <2>2 DEF TogoInv
  <2>7. PlanInv'
    BY <1>0, <1>1, <2>1, <2>2 DEF PlanInv
  <2>8. LifeInv'
    BY <1>0, <1>1, <2>1, <2>2 DEF LifeInv
  <2>9. ListInv'
    BY <1>0, <2>1, FrameList
  <2>10. DataInv'
    BY <1>0, <1>1, <2>1, FrameData
  <2>11. ReadInv'
    <3> SUFFICES ASSUME NEW u \in Thread
                 PROVE  ReadOK(u)'
      BY DEF ReadInv
    <3>1. ReadOK(u) /\ (Reading(u)' <=> Reading(u))
      BY <1>0, <1>1, <2>2 DEF ReadInv, Reading
    <3> QED BY <2>1, <3>1, FrameRead
  <2> QED BY <2>3, <2>4, <2>5, <2>6, <2>7, <2>8, <2>9, <2>10, <2>11 DEF IInv
<1> QED BY <1>6, <1>7

\* Commit.
LEMMA CommitKeeps ==
  ASSUME IInv, NEW t \in Thread, Commit(t)
  PROVE  IInv'
<1>0. /\ TypeOK /\ SumsMatch /\ LockInv /\ TogoInv /\ PlanInv /\ LifeInv /\ ListInv /\ DataInv /\ ReadInv
  BY DEF IInv
<1>1. /\ pc[t] = "write" /\ todo[t] = <<>> /\ writer = {t} /\ readers = {} /\ Start \in live
      /\ togo[t] \in 1..TxPerWorker
      /\ \A u \in Thread : ~ Reading(u) /\ (u # t => pc[u] \notin {"alloc", "short", "write"})
  <2>1. pc[t] = "write" /\ todo[t] = <<>>
    BY DEF Commit
  <2> QED BY <2>1, WriterIs
<1>2. /\ pc' = [pc EXCEPT ![t] = "choose"] /\ togo' = [togo EXCEPT ![t] = @ - 1]
      /\ readers' = readers \ {t} /\ writer' = writer \ {t}
      /\ mem' = mem /\ allocs' = allocs /\ prev' = prev /\ next' = next /\ live' = live
      /\ known' = known /\ pos' = pos /\ seen' = seen /\ sum' = sum /\ todo' = todo /\ again' = again
  BY DEF Commit, Finished, Goto, tm_end, region
<1>3. /\ pc \in [Thread -> PC] /\ togo \in [Thread -> 0..TxPerWorker]
      /\ pc'[t] = "choose" /\ \A u \in Thread : u # t => pc'[u] = pc[u] /\ togo'[u] = togo[u]
  BY <1>0, <1>2 DEF TypeOK
<1>4. TypeOK'
  <2>1. ReferenceTypeOK'
    BY <1>0, <1>2 DEF TypeOK, ReferenceTypeOK
  <2>2. pc' \in [Thread -> PC]
    BY <1>2, <1>3 DEF PC
  <2>3. togo' \in [Thread -> 0..TxPerWorker]
    <3>1. togo[t] - 1 \in 0..TxPerWorker
      BY <1>1, BankAssumption
    <3> QED BY <1>2, <1>3, <3>1
  <2> QED BY <1>0, <1>2, <2>1, <2>2, <2>3 DEF TypeOK
<1>5. SumsMatch'
  BY <1>0, <1>3 DEF SumsMatch
<1>6. LockInv'
  BY <1>0, <1>1, <1>2, <1>3 DEF LockInv, Reading
<1>7. TogoInv'
  <2>1. ~ again[t]
    BY <1>0, <1>1 DEF TogoInv
  <2> QED BY <1>0, <1>2, <1>3, <2>1 DEF TogoInv
<1>8. PlanInv'
  BY <1>0, <1>1, <1>2, <1>3 DEF PlanInv
<1>9. LifeInv'
  BY <1>0, <1>1, <1>2, <1>3 DEF LifeInv
<1>10. ListInv'
  BY <1>0, <1>2, FrameList
<1>11. DataInv'
  BY <1>0, <1>1, <1>2, FrameData
<1>12. ReadInv'
  <2> SUFFICES ASSUME NEW u \in Thread
               PROVE  ReadOK(u)'
    BY DEF ReadInv
  <2>1. ReadOK(u) /\ (Reading(u)' <=> Reading(u))
    BY <1>0, <1>1, <1>3 DEF ReadInv, Reading
  <2> QED BY <1>2, <2>1, FrameRead
<1> QED BY <1>4, <1>5, <1>6, <1>7, <1>8, <1>9, <1>10, <1>11, <1>12 DEF IInv

\* AddSegment, with memory and without.
LEMMA AddSegmentKeeps ==
  ASSUME IInv, NEW t \in Thread, AddSegment(t)
  PROVE  IInv'
<1>0. /\ TypeOK /\ SumsMatch /\ LockInv /\ TogoInv /\ PlanInv /\ LifeInv /\ ListInv /\ DataInv /\ ReadInv
      /\ ReferenceTypeOK
  BY DEF IInv, TypeOK
<1>1. /\ pc[t] = "alloc" /\ writer = {t} /\ readers = {} /\ Start \in live /\ mem \in Mem
      /\ todo[t] = <<>> /\ IsSound(mem, live) /\ live \subseteq Segment
      /\ \A u \in Thread : ~ Reading(u) /\ (u # t => pc[u] \notin {"alloc", "short", "write"})
  <2>1. pc[t] = "alloc"
    BY DEF AddSegment
  <2>3. todo[t] = <<>> /\ IsSound(mem, live)
    BY <2>1, WriterSound
  <2> QED BY <2>1, <2>3, WriterIs
<1>2. PICK n \in 1..Segments : \E c \in [1..n -> Segment] : Sound(n, c, mem, live)
  BY <1>1 DEF IsSound
<1>3. PICK c \in [1..n -> Segment] : Sound(n, c, mem, live)
  BY <1>2
<1>4. Linked(n, c, mem, live) /\ Filled(n, c, mem)
  BY <1>3 DEF Sound
<1>5. Last(Segs) = c[n]
  BY <1>1, <1>4, MoneyIs
<1>6. /\ mem[c[n]][Count] = PerSegment
      /\ togo' = togo /\ known' = known /\ pos' = pos /\ seen' = seen /\ sum' = sum /\ again' = again
  BY <1>5 DEF AddSegment, tm_read
<1>7. ASSUME NEW x \in Segment, tm_alloc(x), readers' = readers, writer' = writer,
             todo' = [todo EXCEPT ![t] = <<Write("set", c[n], Next, x),
                        Write("set", x, Count, 1), Write("set", x, AccountWord(0), InitBalance)>>],
             pc' = [pc EXCEPT ![t] = "write"]
      PROVE  IInv'
  <2> DEFINE y == [mem EXCEPT ![x] = Zeros]
             o == Write("set", c[n], Next, x)
             p == Write("set", x, Count, 1)
             q == Write("set", x, AccountWord(0), InitBalance)
             ops == <<o, p, q>>
  <2>1. o.op # "free" /\ p.op # "free" /\ q.op # "free"
    BY WriteOps
  <2>2. /\ x \in Segment \ live /\ live' = live \cup {x} /\ mem' = y /\ allocs' = x
        /\ prev' = [s \in Segment |-> IF s = x THEN NULL ELSE IF s = allocs THEN x ELSE prev[s]]
        /\ next' = [next EXCEPT ![x] = allocs]
        /\ todo' = [todo EXCEPT ![t] = ops]
    BY <1>7 DEF tm_alloc
  <2>3. /\ y = [mem EXCEPT ![x] = Zeros] /\ o = Write("set", c[n], Next, x)
        /\ p = Write("set", x, Count, 1) /\ q = Write("set", x, AccountWord(0), InitBalance)
    OBVIOUS
  <2> HIDE DEF y, o, p, q
  <2>4. /\ y \in Mem /\ o \in OpRec /\ p \in OpRec /\ q \in OpRec
        /\ IsSound(Put(Put(Put(y, o), p), q), live \cup {x})
    BY <1>1, <1>3, <1>6, <2>2, <2>3, GrowSound
  <2>5. MemAfter(y, ops) = Put(Put(Put(y, o), p), q)
    BY MemAfterIs
  <2>6. /\ ops \in Seq(OpRec) /\ Len(ops) <= 3 /\ Freed(ops) = {}
        /\ \A i \in 1..Len(ops) : ops[i].op # "free"
    <3>1. /\ ops \in Seq(OpRec) /\ Len(ops) = 3 /\ ops[1] = o /\ ops[2] = p /\ ops[3] = q
      BY <2>4
    <3>2. \A i \in 1..Len(ops) : ops[i].op # "free"
      <4> TAKE i \in 1..Len(ops)
      <4>1. i = 1 \/ i = 2 \/ i = 3
        BY <3>1
      <4> HIDE DEF ops
      <4> QED BY <2>1, <3>1, <4>1
    <3> HIDE DEF ops
    <3> QED BY <3>1, <3>2, FreedNone
  <2> HIDE DEF ops
  <2>7. IsSound(MemAfter(mem', ops), live' \ Freed(ops))
    BY <2>2, <2>4, <2>5, <2>6
  <2>8. /\ pc \in [Thread -> PC] /\ todo \in [Thread -> Seq(OpRec)]
        /\ todo'[t] = ops /\ pc'[t] = "write"
        /\ \A u \in Thread : u # t => todo'[u] = todo[u] /\ pc'[u] = pc[u]
    BY <1>0, <1>7, <2>2 DEF TypeOK, OpRec
  <2>9. TypeOK'
    <3>1. mem' \in [Segment -> [Word -> Int]] /\ live' \subseteq Segment
      BY <1>1, <2>2, <2>4 DEF Mem, Row
    <3>2. /\ allocs' \in Link /\ prev' \in [Segment -> Link] /\ next' \in [Segment -> Link]
      BY <1>0, <2>2 DEF ReferenceTypeOK, Link
    <3>3. ReferenceTypeOK'
      BY <1>0, <1>7, <3>1, <3>2 DEF ReferenceTypeOK
    <3>4. pc' \in [Thread -> PC] /\ todo' \in [Thread -> Seq(OpRec)]
      BY <1>7, <2>2, <2>6, <2>8 DEF PC
    <3> QED BY <1>0, <1>6, <3>3, <3>4 DEF TypeOK, OpRec
  <2>10. SumsMatch'
    BY <1>0, <2>8 DEF SumsMatch
  <2>11. LockInv'
    BY <1>0, <1>1, <1>7, <2>8 DEF LockInv, Reading
  <2>12. TogoInv'
    BY <1>0, <1>1, <1>6, <2>8 DEF TogoInv
  <2>13. PlanInv'
    BY <1>0, <2>2, <2>6, <2>8 DEF PlanInv
  <2>14. LifeInv'
    BY <1>0, <1>1, <2>2, <2>8 DEF LifeInv
  <2>15. ListInv'
    BY <1>0, <1>1, <1>7, AllocKeepsList
  <2>16. DataInv'
    BY <1>1, <1>7, <2>7, <2>8 DEF DataInv
  <2>17. ReadInv'
    BY <1>0, <1>1, <1>6, <2>8 DEF ReadInv, ReadOK, Reading
  <2> QED BY <2>9, <2>10, <2>11, <2>12, <2>13, <2>14, <2>15, <2>16, <2>17 DEF IInv
<1>8. ASSUME tm_end(t), pc' = [pc EXCEPT ![t] = "thrown"], UNCHANGED region, todo' = todo
      PROVE  IInv'
  <2>1. /\ readers' = readers \ {t} /\ writer' = writer \ {t}
        /\ mem' = mem /\ allocs' = allocs /\ prev' = prev /\ next' = next /\ live' = live
    BY <1>8 DEF tm_end, region
  <2>2. /\ pc \in [Thread -> PC]
        /\ pc'[t] = "thrown" /\ \A u \in Thread : u # t => pc'[u] = pc[u]
    BY <1>0, <1>8 DEF TypeOK
  <2>3. TypeOK'
    <3>1. ReferenceTypeOK'
      BY <1>0, <2>1 DEF ReferenceTypeOK
    <3>2. pc' \in [Thread -> PC]
      BY <1>8, <2>2 DEF PC
    <3> QED BY <1>0, <1>6, <1>8, <3>1, <3>2 DEF TypeOK
  <2>4. SumsMatch'
    BY <1>0, <2>2 DEF SumsMatch
  <2>5. LockInv'
    BY <1>0, <1>1, <2>1, <2>2 DEF LockInv, Reading
  <2>6. TogoInv'
    BY <1>0, <1>1, <1>6, <2>2 DEF TogoInv
  <2>7. PlanInv'
    BY <1>0, <1>1, <1>8, <2>1, <2>2 DEF PlanInv
  <2>8. LifeInv'
    BY <1>0, <1>1, <2>1, <2>2 DEF LifeInv
  <2>9. ListInv'
    BY <1>0, <2>1, FrameList
  <2>10. DataInv'
    BY <1>0, <1>1, <1>8, <2>1, FrameData
  <2>11. ReadInv'
    <3> SUFFICES ASSUME NEW u \in Thread
                 PROVE  ReadOK(u)'
      BY DEF ReadInv
    <3>1. ReadOK(u) /\ (Reading(u)' <=> Reading(u))
      BY <1>0, <1>1, <2>2 DEF ReadInv, Reading
    <3> QED BY <1>6, <2>1, <3>1, FrameRead
  <2> QED BY <2>3, <2>4, <2>5, <2>6, <2>7, <2>8, <2>9, <2>10, <2>11 DEF IInv
<1>9. \/ \E x \in Segment :
           /\ tm_alloc(x)
           /\ todo' = [todo EXCEPT ![t] = <<Write("set", c[n], Next, x),
                Write("set", x, Count, 1), Write("set", x, AccountWord(0), InitBalance)>>]
           /\ pc' = [pc EXCEPT ![t] = "write"]
           /\ readers' = readers /\ writer' = writer
      \/ tm_end(t) /\ pc' = [pc EXCEPT ![t] = "thrown"] /\ UNCHANGED region /\ todo' = todo
  BY <1>5 DEF AddSegment, Goto
<1> QED BY <1>7, <1>8, <1>9

\* WriteOne.
LEMMA WriteOneKeeps ==
  ASSUME IInv, NEW t \in Thread, WriteOne(t)
  PROVE  IInv'
<1>0. /\ TypeOK /\ SumsMatch /\ LockInv /\ TogoInv /\ PlanInv /\ LifeInv /\ ListInv /\ DataInv /\ ReadInv
      /\ ReferenceTypeOK
  BY DEF IInv, TypeOK
<1>1. /\ pc[t] = "write" /\ writer = {t} /\ readers = {} /\ Start \in live /\ mem \in Mem
      /\ todo[t] # <<>> /\ live \subseteq Segment
      /\ IsSound(MemAfter(mem, todo[t]), live \ Freed(todo[t]))
      /\ \A u \in Thread : ~ Reading(u) /\ (u # t => pc[u] \notin {"alloc", "short", "write"})
  <2>1. pc[t] = "write" /\ todo[t] # <<>>
    BY DEF WriteOne
  <2> QED BY <2>1, WriterIs
<1> DEFINE ops == todo[t]
           o == Head(ops)
<1>2. /\ \/ o.op = "set" /\ tm_write(o.seg, o.word, o.value)
         \/ o.op = "add" /\ tm_write(o.seg, o.word, tm_read(o.seg, o.word) + o.value)
         \/ o.op = "free" /\ tm_free(o.seg)
      /\ todo' = [todo EXCEPT ![t] = Tail(@)]
      /\ readers' = readers /\ writer' = writer /\ pc' = pc /\ togo' = togo /\ known' = known
      /\ pos' = pos /\ seen' = seen /\ sum' = sum /\ again' = again
  BY DEF WriteOne
<1>3. /\ todo \in [Thread -> Seq(OpRec)] /\ ops \in Seq(OpRec) /\ ops # <<>> /\ Len(ops) <= 3
      /\ \A i \in 1..Len(ops) : ops[i].op = "free" => i = 1 /\ ops[i].seg \in live \ {Start}
  BY <1>0, <1>1 DEF TypeOK, OpRec, PlanInv
<1>4. /\ todo'[t] = Tail(ops) /\ \A u \in Thread : u # t => todo'[u] = todo[u]
  BY <1>2, <1>3
<1> HIDE DEF ops
<1>5. /\ o \in OpRec /\ o = ops[1] /\ 1 \in 1..Len(ops)
      /\ Tail(ops) \in Seq(OpRec) /\ Len(Tail(ops)) = Len(ops) - 1 /\ Len(ops) \in Nat
  <2>1. Len(ops) \in Nat /\ Len(ops) # 0
    BY <1>3, EmptySeq
  <2>2. Len(Tail(ops)) = Len(ops) - 1 /\ Tail(ops) \in Seq(OpRec)
    BY <1>3, HeadTailProperties
  <2> QED BY <1>3, <2>1, <2>2
<1>6. /\ Freed(Tail(ops)) = {}
      /\ Freed(ops) = IF o.op = "free" THEN {o.seg} ELSE {}
      /\ \A i \in 1..Len(Tail(ops)) : Tail(ops)[i].op # "free"
  BY <1>3, FreedStep
<1>7. MemAfter(mem, ops) = MemAfter(Put(mem, o), Tail(ops))
  BY <1>3, MemAfterStep
<1>8. IsSound(MemAfter(mem, ops), live \ Freed(ops))
  BY <1>1 DEF ops
<1> HIDE DEF o
<1>9. /\ o.op \in {"set", "add", "free"} /\ o.seg \in Segment /\ o.word \in Word /\ o.value \in Int
      /\ o.op = "free" => o.seg \in live \ {Start}
  BY <1>3, <1>5 DEF OpRec, Ops
<1>10. /\ mem' = Put(mem, o)
       /\ live' = live \ (IF o.op = "free" THEN {o.seg} ELSE {})
       /\ o.op # "free" => allocs' = allocs /\ prev' = prev /\ next' = next /\ live' = live
       /\ o.op = "free" => tm_free(o.seg)
  <2>1. CASE o.op = "set"
    BY <1>2, <2>1 DEF tm_write, Put
  <2>2. CASE o.op = "add"
    <3>1. mem' = [mem EXCEPT ![o.seg][o.word] = mem[o.seg][o.word] + o.value] /\ UNCHANGED <<allocs, prev, next, live>>
      BY <1>2, <2>2 DEF tm_write, tm_read
    <3>2. Put(mem, o) = [mem EXCEPT ![o.seg][o.word] = mem[o.seg][o.word] + o.value]
      BY <2>2 DEF Put
    <3> QED BY <2>2, <3>1, <3>2
  <2>3. CASE o.op = "free"
    BY <1>2, <2>3 DEF tm_free, Put
  <2> QED BY <1>9, <2>1, <2>2, <2>3
<1>11. mem' \in Mem /\ Start \in live' /\ live' \subseteq live
  BY <1>1, <1>5, <1>9, <1>10, PutIs
<1>12. TypeOK'
  <2>1. allocs' \in Link /\ prev' \in [Segment -> Link] /\ next' \in [Segment -> Link]
    <3>1. CASE o.op = "free"
      <4>1. /\ next' = [s \in Segment |-> IF s = prev[o.seg] THEN next[o.seg] ELSE next[s]]
            /\ prev' = [s \in Segment |-> IF s = next[o.seg] THEN prev[o.seg] ELSE prev[s]]
            /\ allocs' = IF prev[o.seg] = NULL THEN next[o.seg] ELSE allocs
        BY <1>10, <3>1 DEF tm_free
      <4> QED BY <1>0, <1>9, <4>1 DEF ReferenceTypeOK
    <3>2. CASE o.op # "free"
      BY <1>0, <1>10, <3>2 DEF ReferenceTypeOK
    <3> QED BY <3>1, <3>2
  <2>2. ReferenceTypeOK'
    BY <1>0, <1>1, <1>2, <1>11, <2>1 DEF ReferenceTypeOK, Mem, Row
  <2>3. todo' \in [Thread -> Seq(OpRec)]
    BY <1>2, <1>3, <1>4, <1>5
  <2> QED BY <1>0, <1>2, <2>2, <2>3 DEF TypeOK, OpRec
<1>13. SumsMatch'
  BY <1>0, <1>2 DEF SumsMatch
<1>14. LockInv'
  BY <1>0, <1>2 DEF LockInv, Reading
<1>15. TogoInv'
  BY <1>0, <1>2 DEF TogoInv
<1>16. PlanInv'
  <2> SUFFICES ASSUME NEW u \in Thread
               PROVE  /\ Len(todo'[u]) <= 3
                      /\ todo'[u] # <<>> => pc'[u] = "write"
                      /\ \A i \in 1..Len(todo'[u]) :
                           todo'[u][i].op = "free" => i = 1 /\ todo'[u][i].seg \in live' \ {Start}
    BY DEF PlanInv
  <2>1. CASE u = t
    <3> DEFINE tl == Tail(ops)
    <3>1. todo'[u] = tl /\ Len(tl) <= 3 /\ \A i \in 1..Len(tl) : tl[i].op # "free"
      BY <1>3, <1>4, <1>5, <1>6, <2>1
    <3>2. pc'[u] = "write"
      BY <1>1, <1>2, <2>1
    <3> HIDE DEF tl
    <3> QED BY <3>1, <3>2
  <2>2. CASE u # t
    <3>1. todo[u] = <<>>
      BY <1>0, <1>1, <2>2 DEF PlanInv
    <3> QED BY <1>4, <2>2, <3>1
  <2> QED BY <2>1, <2>2
<1>17. LifeInv'
  BY <1>0, <1>1, <1>2, <1>11 DEF LifeInv
<1>18. ListInv'
  <2>1. CASE o.op = "free"
    BY <1>0, <1>1, <1>9, <1>10, <2>1, FreeKeepsList
  <2>2. CASE o.op # "free"
    BY <1>0, <1>10, <2>2, FrameList
  <2> QED BY <2>1, <2>2
<1>19. DataInv'
  <2>1. live' \ Freed(Tail(ops)) = live \ Freed(ops)
    BY <1>6, <1>10
  <2>2. IsSound(MemAfter(mem', Tail(ops)), live' \ Freed(Tail(ops)))
    BY <1>7, <1>8, <1>10, <2>1
  <2> QED BY <1>1, <1>2, <1>4, <2>2 DEF DataInv
<1>20. ReadInv'
  BY <1>0, <1>1, <1>2 DEF ReadInv, ReadOK, Reading
<1> QED BY <1>12, <1>13, <1>14, <1>15, <1>16, <1>17, <1>18, <1>19, <1>20 DEF IInv

\* Destroy: tm_destroy finds all segments.
LEMMA DestroyKeeps ==
  ASSUME IInv, Destroy
  PROVE  IInv'
<1>0. /\ TypeOK /\ SumsMatch /\ LockInv /\ TogoInv /\ PlanInv /\ LifeInv /\ ListInv /\ DataInv /\ ReadInv
      /\ ReferenceTypeOK
  BY DEF IInv, TypeOK
<1>1. /\ \A t \in Thread : pc[t] \in {"done", "failed", "thrown"}
      /\ live' = live \ (OnList \cup {Start}) /\ allocs' = NULL
      /\ mem' = mem /\ prev' = prev /\ next' = next
      /\ pc' = [t \in Thread |-> "destroyed"]
      /\ readers' = readers /\ writer' = writer /\ togo' = togo /\ known' = known /\ pos' = pos
      /\ seen' = seen /\ sum' = sum /\ todo' = todo /\ again' = again
  BY DEF Destroy, tm_destroy
<1>2. live' = {}
  <2>1. CASE Start \in live
    <3>1. PICK n \in 0..Segments : \E q \in [1..n -> Segment] : List(n, q)
      BY <1>0, <2>1 DEF ListInv
    <3>2. PICK q \in [1..n -> Segment] : List(n, q)
      BY <3>1
    <3>3. OnList = live \ {Start}
      BY <3>2, OnListIs
    <3> QED BY <1>1, <3>3
  <2>2. CASE Start \notin live
    BY <1>0, <1>1, <2>2 DEF LifeInv
  <2> QED BY <2>1, <2>2
<1>3. TypeOK'
  <2>1. ReferenceTypeOK'
    BY <1>0, <1>1, <1>2 DEF ReferenceTypeOK, Link
  <2>2. pc' \in [Thread -> PC]
    BY <1>1 DEF PC
  <2> QED BY <1>0, <1>1, <2>1, <2>2 DEF TypeOK
<1>4. SumsMatch'
  BY <1>1 DEF SumsMatch
<1>5. LockInv'
  BY <1>0, <1>1 DEF LockInv, Reading
<1>6. TogoInv'
  BY <1>0, <1>1 DEF TogoInv
<1>7. PlanInv'
  <2>1. \A t \in Thread : todo[t] = <<>>
    BY <1>0, <1>1 DEF PlanInv
  <2> QED BY <1>1, <2>1 DEF PlanInv
<1>8. LifeInv'
  BY <1>1, <1>2 DEF LifeInv
<1>9. ListInv' /\ DataInv'
  BY <1>2 DEF ListInv, DataInv
<1>10. ReadInv'
  BY <1>0, <1>1 DEF ReadInv, ReadOK, Reading
<1> QED BY <1>3, <1>4, <1>5, <1>6, <1>7, <1>8, <1>9, <1>10 DEF IInv

\* Nothing happens.
LEMMA StutterKeeps ==
  ASSUME IInv, UNCHANGED vars
  PROVE  IInv'
<1>0. /\ TypeOK /\ SumsMatch /\ LockInv /\ TogoInv /\ PlanInv /\ LifeInv /\ ListInv /\ DataInv /\ ReadInv
  BY DEF IInv
<1>1. /\ readers' = readers /\ writer' = writer
      /\ mem' = mem /\ allocs' = allocs /\ prev' = prev /\ next' = next /\ live' = live
      /\ pc' = pc /\ togo' = togo /\ known' = known /\ pos' = pos
      /\ seen' = seen /\ sum' = sum /\ todo' = todo /\ again' = again
  BY DEF vars, worker, reference, region
<1>2. TypeOK'
  BY <1>0, <1>1 DEF TypeOK, ReferenceTypeOK
<1>3. SumsMatch' /\ LockInv' /\ TogoInv' /\ PlanInv' /\ LifeInv'
  BY <1>0, <1>1 DEF SumsMatch, LockInv, TogoInv, PlanInv, LifeInv, Reading
<1>4. ListInv'
  BY <1>0, <1>1, FrameList
<1>5. DataInv'
  BY <1>0, <1>1 DEF DataInv
<1>6. ReadInv'
  <2> SUFFICES ASSUME NEW u \in Thread
               PROVE  ReadOK(u)'
    BY DEF ReadInv
  <2>1. ReadOK(u) /\ (Reading(u)' <=> Reading(u))
    BY <1>0, <1>1 DEF ReadInv, Reading
  <2> QED BY <1>1, <2>1, FrameRead
<1> QED BY <1>2, <1>3, <1>4, <1>5, <1>6 DEF IInv

\* IInv is inductive.
LEMMA StepKeeps == IInv /\ [BankNext]_vars => IInv'
<1> SUFFICES ASSUME IInv, [BankNext]_vars
             PROVE  IInv'
  OBVIOUS
<1>1. CASE Destroy
  BY <1>1, DestroyKeeps
<1>2. CASE Over
  BY <1>2, StutterKeeps DEF Over
<1>3. CASE UNCHANGED vars
  BY <1>3, StutterKeeps
<1>4. ASSUME NEW t \in Thread, Step(t)
      PROVE  IInv'
  <2>1. CASE Choose(t)
    BY <2>1, ChooseKeeps
  <2>2. CASE VisitSegment(t)
    BY <2>2, VisitSegmentKeeps
  <2>3. CASE VisitLast(t)
    BY <2>3, VisitLastKeeps
  <2>4. CASE RemoveAccount(t)
    BY <2>4, RemoveAccountKeeps
  <2>5. CASE AddAccount(t)
    BY <2>5, AddAccountKeeps
  <2>6. CASE AddSegment(t)
    BY <2>6, AddSegmentKeeps
  <2>7. CASE Transfer(t)
    BY <2>7, TransferKeeps
  <2>8. CASE WriteOne(t)
    BY <2>8, WriteOneKeeps
  <2>9. CASE Commit(t)
    BY <2>9, CommitKeeps
  <2> QED BY <1>4, <2>1, <2>2, <2>3, <2>4, <2>5, <2>6, <2>7, <2>8, <2>9 DEF Step
<1> QED BY <1>1, <1>2, <1>3, <1>4 DEF BankNext

\* IInv holds in every state, whatever the number of workers, segments, words,
\* the initial balance and the number of transactions (workload.hpp:112-335).
THEOREM BankInvariant == Spec => []IInv
BY InitSound, StepKeeps, PTL DEF Spec

---------------------------------------------------------------------------
(* What follows.                                                           *)

\* What follows from IInv: the list, ...
LEMMA ListFollows == IInv => ListIntact
<1> SUFFICES ASSUME IInv, Start \in live
             PROVE  ListIntact
  BY DEF ListIntact
<1>1. PICK n \in 0..Segments : \E q \in [1..n -> Segment] : List(n, q)
  BY DEF IInv, ListInv
<1>2. PICK q \in [1..n -> Segment] : List(n, q)
  BY <1>1
<1> QED BY <1>2, ListIntactIs

\* ... a sound chain while no one writes, ...
LEMMA QuietIs ==
  ASSUME IInv, writer = {}, Start \in live
  PROVE  /\ mem \in Mem
         /\ \E n \in 1..Segments : \E c \in [1..n -> Segment] : Sound(n, c, mem, live)
BY DEF IInv, DataInv, IsSound, TypeOK, ReferenceTypeOK, Mem, Row

\* ... the money, ...
LEMMA MoneyFollows == IInv => MoneyConserved
<1> SUFFICES ASSUME IInv, writer = {}, Start \in live
             PROVE  Money = InitBalance * NumAccounts
  BY DEF MoneyConserved
<1>1. PICK n \in 1..Segments : \E c \in [1..n -> Segment] : Sound(n, c, mem, live)
  BY QuietIs
<1>2. PICK c \in [1..n -> Segment] : Sound(n, c, mem, live)
  BY <1>1
<1>3. Linked(n, c, mem, live) /\ Filled(n, c, mem)
  BY <1>2 DEF Sound
<1>4. /\ NumAccounts = SumTo(Counts(n, c, mem), n)
      /\ Money = SumTo(Values(n, c, mem), n)
  BY <1>3, QuietIs, MoneyIs
<1> QED BY <1>2, <1>4 DEF Sound

\* ... the segments, ...
LEMMA ChainFollows == IInv => ChainIsLive
<1> SUFFICES ASSUME IInv, writer = {}, Start \in live
             PROVE  /\ \A t \in Thread : pos[t] \in live \cup {NULL}
                    /\ Range(Segs) = live /\ Cardinality(live) = Len(Segs)
                    /\ \A i \in DOMAIN Segs :
                         /\ tm_read(Segs[i], Count) \in 1..PerSegment
                         /\ i < Len(Segs) => tm_read(Segs[i], Count) = PerSegment
  BY DEF ChainIsLive
<1>1. PICK n \in 1..Segments : \E c \in [1..n -> Segment] : Sound(n, c, mem, live)
  BY QuietIs
<1>2. PICK c \in [1..n -> Segment] : Sound(n, c, mem, live)
  BY <1>1
<1>3. Linked(n, c, mem, live) /\ Filled(n, c, mem)
  BY <1>2 DEF Sound
<1>4. Segs = c /\ Len(Segs) = n /\ DOMAIN Segs = 1..n
  BY <1>3, QuietIs, MoneyIs
<1>5. Range(Segs) = live
  BY <1>3, <1>4 DEF Linked, Range
<1>6. Cardinality(live) = n
  <2>1. IsFiniteSet(1..n) /\ Cardinality(1..n) = n
    BY FS_Interval, Constants
  <2>2. c \in Bijection(1..n, live)
    BY <1>3 DEF Linked, Bijection, Injection, Surjection, IsInjective
  <2>3. Cardinality(1..n) = Cardinality(live)
    BY <2>1, <2>2, FS_Bijection DEF ExistsBijection
  <2> QED BY <2>1, <2>3
<1>7. \A i \in 1..n : /\ mem[c[i]][Count] \in 1..PerSegment
                      /\ i < n => mem[c[i]][Count] = PerSegment
  BY <1>3 DEF Filled, FilledTo
<1>8. ASSUME NEW t \in Thread
      PROVE  pos[t] \in live \cup {NULL}
  <2>1. CASE Reading(t)
    <3>1. PICK m \in 1..Segments : \E d \in [1..m -> Segment] : \E k \in 1..m : ReadAt(t, m, d, k)
      BY <2>1, ReaderIs
    <3>2. PICK d \in [1..m -> Segment] : \E k \in 1..m : ReadAt(t, m, d, k)
      BY <3>1
    <3>3. PICK k \in 1..m : ReadAt(t, m, d, k)
      BY <3>2
    <3> QED BY <3>3 DEF ReadAt, Sound, Linked
  <2>2. CASE ~ Reading(t)
    BY <2>2 DEF IInv, ReadInv, ReadOK
  <2> QED BY <2>1, <2>2
<1> QED BY <1>4, <1>5, <1>6, <1>7, <1>8 DEF tm_read

\* ... and the end.
LEMMA DestroyFollows == IInv => DestroyFreesAll
BY DEF IInv, LifeInv, DestroyFreesAll

\* Every variable keeps its type: no worker runs a transaction too many, and
\* only words of segments are written (workload.hpp:112-335).
THEOREM TypeCorrect == Spec => []TypeOK
<1>1. IInv => TypeOK
  BY DEF IInv
<1> QED BY <1>1, BankInvariant, PTL

\* tm_alloc and tm_free never break the list of dynamic segments, so that it
\* holds all of them and tm_destroy can find them (reference/tm.c:87-92, 160-198).
THEOREM ListStaysIntact == Spec => []ListIntact
BY ListFollows, BankInvariant, PTL

\* No sum is ever wrong and no account is ever seen overdrawn: the workload
\* never reports a violated isolation (workload.hpp:161-184).
THEOREM SumsAlwaysMatch == Spec => []SumsMatch
<1>1. IInv => SumsMatch
  BY DEF IInv
<1> QED BY <1>1, BankInvariant, PTL

\* Transfers, new and removed accounts and segments neither make nor lose money
\* (workload.hpp:161-275).
THEOREM MoneyIsConserved == Spec => []MoneyConserved
BY MoneyFollows, BankInvariant, PTL

\* The linked segments are the segments in use, all but the last one full, and
\* no sum stands on a segment that has been freed (workload.hpp:186-233).
THEOREM ChainStaysLive == Spec => []ChainIsLive
BY ChainFollows, BankInvariant, PTL

\* When the workload is over nothing is in use, also after exceptions
\* (reference/tm.c:87-99).
THEOREM NothingLeaks == Spec => []DestroyFreesAll
BY DestroyFollows, BankInvariant, PTL
===========================================================================
