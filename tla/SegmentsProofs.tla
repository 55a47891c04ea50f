-------------------------- MODULE SegmentsProofs --------------------------
(***************************************************************************)
(* Proofs about Segments: the table of segments serves every address it    *)
(* gave out, and a tm_destroy that returns leaves nothing behind.          *)
(***************************************************************************)
EXTENDS Segments, TLAPS

Inside(t)  == pc[t] \in {"grow", "move", "store"}   \* holds allocation_lock
Pending(t) == pc[t] = "lock" \/ Inside(t)           \* has a segment to store

\* Between its lock and its unlock tm_alloc is alone, with the next free entry.
Locked ==
  \A t \in Thread : Inside(t) => owner = {t} /\ sno[t] = num /\ list # NULL

\* Every segment is in the table or on its way there, unless realloc failed:
\* that return keeps the lock and the table.
Table ==
  /\ num \in Nat /\ num >= 2 /\ DOMAIN slots = 1..(num - 1)
  /\ \A s \in 1..(num - 1) : slots[s] \in heap
  /\ \A t \in Thread : Pending(t) => node[t] \in heap
  /\ list = NULL => owner # {}
  /\ list \in {NULL, live} \/ \E t \in Thread : pc[t] = "move"
  /\ list # NULL => \A n \in heap :
       \/ \E s \in 1..(num - 1) : slots[s] = n
       \/ \E t \in Thread : Pending(t) /\ node[t] = n

\* The addresses given out are those of entries of the table.
Given ==
  \A h \in handed : \E s \in 1..(num - 1) : h.addr = Address(s) /\ slots[s] = h.seg

\* What holds before tm_create and after tm_destroy.
Quiescent == region \notin {"live", "crashed"} => \A t \in Thread : pc[t] = "idle"
Untouched == region = "none" =>
  num = 1 /\ handed = {} /\ owner = {} /\ list = NULL /\ heap = {}

SegInv ==
  /\ TypeOK /\ Locked /\ Quiescent /\ Untouched /\ DestroyFreesAll
  /\ region = "live" => Table /\ Given /\ live # NULL

LEMMA AddressType == \A s \in Nat : Address(s) \in Nat
BY SegmentsAssumption DEF Address

LEMMA SegInit == Init => SegInv
BY SegmentsAssumption
   DEF Init, SegInv, TypeOK, PC, NULL, Locked, Inside, Quiescent, Untouched, DestroyFreesAll

LEMMA SegCreate == SegInv /\ tm_create => SegInv'
<1> SUFFICES ASSUME SegInv, tm_create PROVE SegInv'
  OBVIOUS
<1>1. /\ TypeOK /\ region = "none" /\ num = 1 /\ heap = {} /\ owner = {} /\ list = NULL
      /\ \A t \in Thread : pc[t] = "idle"
      /\ UNCHANGED <<max, owner, pc, node, sno, table, addr>>
  BY DEF SegInv, Untouched, Quiescent, tm_create, locals
<1>2. PICK n \in Segment \cup {NULL} :
        /\ initNode(n)
        /\ \/ /\ n # NULL
              /\ region' = "live"
              /\ list' = 1 /\ live' = 1
              /\ slots' = [s \in {num} |-> n]
              /\ num' = num + 1
              /\ handed' = {[addr |-> StartAddress, seg |-> n]}
           \/ /\ region' = "invalid"
              /\ UNCHANGED <<num, list, live, slots, handed>>
  BY DEF tm_create
<1>3. made' \in Nat /\ heap' \subseteq Segment /\ (n # NULL => heap' = {n})
  BY <1>1, <1>2 DEF initNode, TypeOK, NULL, Segment
<1>4. CASE region' = "live"
  <2>1. /\ n \in Segment /\ heap' = {n} /\ list' = 1 /\ live' = 1 /\ num' = 2
        /\ slots' = [s \in {1} |-> n] /\ handed' = {[addr |-> StartAddress, seg |-> n]}
    BY <1>1, <1>2, <1>3, <1>4
  <2>2. TypeOK'
    BY <1>1, <1>3, <1>4, <2>1, AddressType DEF TypeOK, StartAddress
  <2>3. Table'
    BY <1>1, <2>1 DEF Table, Pending, Inside, NULL
  <2>4. Given'
    BY <2>1 DEF Given, StartAddress, Address
  <2> QED BY <1>1, <1>4, <2>1, <2>2, <2>3, <2>4
          DEF SegInv, Locked, Inside, Quiescent, Untouched, DestroyFreesAll, NULL
<1>5. CASE region' = "invalid"
  BY <1>1, <1>2, <1>3, <1>5
     DEF SegInv, TypeOK, Locked, Inside, Quiescent, Untouched, DestroyFreesAll
<1> QED BY <1>2, <1>4, <1>5

LEMMA SegAlloc == ASSUME SegInv, NEW t \in Thread, tm_alloc(t) PROVE SegInv'
<1>1. /\ TypeOK /\ Locked /\ Table /\ Given /\ live # NULL /\ region = "live" /\ pc[t] = "idle"
      /\ UNCHANGED <<region, num, max, list, live, slots, owner, sno, table, addr, handed>>
  BY DEF SegInv, tm_alloc
<1>2. PICK n \in Segment \cup {NULL} :
        /\ initNode(n)
        /\ node' = [node EXCEPT ![t] = n]
        /\ Goto(t, IF n = NULL THEN "idle" ELSE "lock")
  BY DEF tm_alloc
<1>3. /\ made' \in Nat /\ heap' \subseteq Segment /\ heap \subseteq heap'
      /\ IF n = NULL THEN heap' = heap ELSE heap' = heap \cup {n}
  <2>1. made \in Nat /\ heap \subseteq Segment /\ MaxSegments \in Nat
    BY <1>1, SegmentsAssumption DEF TypeOK
  <2>2. CASE made' = n /\ n = made + 1 /\ heap' = heap \cup {n}
    BY <1>2, <2>1, <2>2 DEF NULL, Segment
  <2>3. CASE n = NULL /\ UNCHANGED <<made, heap>>
    BY <2>1, <2>3
  <2> QED BY <1>2, <2>2, <2>3 DEF initNode
<1>4. /\ node'[t] = n /\ pc'[t] = IF n = NULL THEN "idle" ELSE "lock"
      /\ \A u \in Thread \ {t} : pc'[u] = pc[u] /\ node'[u] = node[u]
  BY <1>1, <1>2 DEF Goto, TypeOK
<1>5. TypeOK'
  BY <1>1, <1>2, <1>3 DEF TypeOK, Goto, PC
<1>6. Locked'
  BY <1>1, <1>4 DEF Locked, Inside
<1>7. Table'
  <2>1. \A u \in Thread : Pending(u)' => node'[u] \in heap'
    BY <1>1, <1>3, <1>4 DEF Table, Pending, Inside
  <2>2. \A u \in Thread : Pending(u) => Pending(u)' /\ node'[u] = node[u]
    BY <1>1, <1>4 DEF Pending, Inside
  <2>3. ASSUME n # NULL PROVE Pending(t)' /\ node'[t] = n
    BY <1>4, <2>3 DEF Pending
  <2>4. \A u \in Thread : pc[u] = "move" => pc'[u] = "move"
    BY <1>1, <1>4
  <2> QED BY <1>1, <1>3, <2>1, <2>2, <2>3, <2>4 DEF Table
<1>8. Given'
  BY <1>1 DEF Given, Address
<1> QED BY <1>1, <1>5, <1>6, <1>7, <1>8 DEF SegInv, Quiescent, Untouched, DestroyFreesAll

LEMMA SegAllocStep == ASSUME SegInv, NEW t \in Thread, AllocStep(t) PROVE SegInv'
<1>1. /\ TypeOK /\ Locked /\ Table /\ Given /\ live # NULL /\ region = "live"
      /\ region' = region /\ heap' = heap
  BY DEF SegInv, Quiescent, AllocStep, AllocLock, AllocGrow, AllocMove, AllocStore
<1> USE DEF Goto, locals
<1>2. CASE AllocLock(t)
  <2>1. /\ pc[t] = "lock" /\ pc'[t] \in {"grow", "store"} /\ owner = {} /\ owner' = {t}
        /\ sno'[t] = num /\ list # NULL
        /\ UNCHANGED <<num, list, live, slots, node, handed>>
        /\ \A u \in Thread \ {t} : pc'[u] = pc[u] /\ sno'[u] = sno[u]
    BY <1>1, <1>2 DEF AllocLock, TypeOK, Table
  <2>2. TypeOK'
    BY <1>1, <1>2 DEF AllocLock, TypeOK, PC
  <2>3. Locked'
    BY <1>1, <2>1 DEF Locked, Inside
  <2>4. \A u \in Thread : Pending(u)' = Pending(u)
    BY <1>1, <2>1 DEF Pending, Inside
  <2>5. Table' /\ Given'
    BY <1>1, <2>1, <2>4 DEF Table, Given, Address
  <2> QED BY <1>1, <2>1, <2>2, <2>3, <2>5 DEF SegInv, Quiescent, Untouched, DestroyFreesAll
<1>3. CASE AllocGrow(t)
  <2>1. /\ pc[t] = "grow" /\ owner = {t} /\ sno[t] = num
        /\ UNCHANGED <<num, slots, node, sno, owner, handed>>
        /\ \A u \in Thread \ {t} : pc'[u] = pc[u]
        /\ \/ pc'[t] = "move" /\ live' = live + 1 /\ list' = list
           \/ pc'[t] = "idle" /\ live' = live /\ list' = NULL
    BY <1>1, <1>3 DEF AllocGrow, TypeOK, Locked, Inside
  <2>2. TypeOK'
    BY <1>1, <1>3 DEF AllocGrow, TypeOK, PC, NULL
  <2>3. Locked'
    BY <1>1, <2>1 DEF Locked, Inside
  <2>4. \A u \in Thread : Pending(u)' => Pending(u)
    BY <1>1, <2>1 DEF Pending, Inside
  <2>5. list' # NULL => \A u \in Thread : Pending(u)' = Pending(u)
    BY <1>1, <2>1 DEF Pending, Inside
  <2>6. Table' /\ Given'
    BY <1>1, <2>1, <2>4, <2>5 DEF Table, Given, Address
  <2> QED BY <1>1, <2>1, <2>2, <2>3, <2>6
          DEF SegInv, Quiescent, Untouched, DestroyFreesAll, TypeOK, NULL
<1>4. CASE AllocMove(t)
  <2>1. /\ pc[t] = "move" /\ pc'[t] = "store" /\ list' = live
        /\ UNCHANGED <<num, slots, node, sno, owner, handed, live>>
        /\ \A u \in Thread \ {t} : pc'[u] = pc[u]
    BY <1>1, <1>4 DEF AllocMove, TypeOK
  <2>2. TypeOK'
    BY <1>1, <1>4 DEF AllocMove, TypeOK, PC
  <2>3. Locked'
    BY <1>1, <2>1 DEF Locked, Inside
  <2>4. \A u \in Thread : Pending(u)' = Pending(u)
    BY <1>1, <2>1 DEF Pending, Inside
  <2>5. Table' /\ Given'
    BY <1>1, <2>1, <2>4 DEF Table, Given, Address, Locked, Inside
  <2> QED BY <1>1, <2>1, <2>2, <2>3, <2>5 DEF SegInv, Quiescent, Untouched, DestroyFreesAll
<1>5. CASE AllocStore(t)
  <2>1. /\ pc[t] = "store" /\ pc'[t] = "idle" /\ owner = {t} /\ sno[t] = num /\ list # NULL
        /\ UNCHANGED <<node, sno, list, live>> /\ num' = num + 1 /\ owner' = {}
        /\ \A u \in Thread \ {t} : pc'[u] = pc[u] /\ ~ Inside(u)
        /\ node[t] \in heap /\ num \in Nat /\ num >= 2 /\ DOMAIN slots = 1..(num - 1)
    BY <1>1, <1>5 DEF AllocStore, TypeOK, Locked, Table, Pending, Inside
  <2>2. /\ slots' = [s \in 1..num |-> IF s = num THEN node[t] ELSE slots[s]]
        /\ handed' = handed \cup {[addr |-> Address(num), seg |-> node[t]]}
    <3>1. DOMAIN slots \cup {num} = 1..num
      BY <2>1
    <3> QED BY <1>5, <2>1, <3>1 DEF AllocStore
  <2>3. node[t] \in Segment /\ Address(num) \in Nat
    BY <1>1, <2>1, AddressType DEF TypeOK
  <2>4. TypeOK'
    <3>1. \A s \in DOMAIN slots' : slots'[s] \in Segment
      <4>1. \A s \in 1..num : s = num \/ s \in DOMAIN slots
        BY <2>1
      <4>2. \A s \in DOMAIN slots : slots[s] \in Segment
        BY <1>1 DEF TypeOK
      <4> QED BY <2>2, <2>3, <4>1, <4>2
    <3>2. handed' \subseteq [addr : Nat, seg : Segment]
      BY <1>1, <2>2, <2>3 DEF TypeOK
    <3> HIDE DEF locals
    <3> QED BY <1>1, <1>5, <2>1, <3>1, <3>2 DEF AllocStore, TypeOK, PC, locals
  <2>5. Locked'
    BY <2>1 DEF Locked, Inside
  <2>6. /\ num' - 1 = num /\ slots'[num] = node[t]
        /\ \A s \in 1..(num - 1) : s \in 1..num /\ slots'[s] = slots[s]
        /\ \A s \in 1..num : s = num \/ s \in 1..(num - 1)
    BY <2>1, <2>2
  <2>7. Table'
    <3>1. \A u \in Thread : Pending(u)' => Pending(u)
      BY <2>1 DEF Pending, Inside
    <3>2. \A u \in Thread : Pending(u) => u = t \/ Pending(u)'
      BY <2>1 DEF Pending, Inside
    <3>3. num' \in Nat /\ num' >= 2 /\ DOMAIN slots' = 1..(num' - 1)
      BY <2>1, <2>2, <2>6
    <3>4. \A s \in 1..(num' - 1) : slots'[s] \in heap'
      BY <1>1, <2>1, <2>6 DEF Table
    <3>5. \A n \in heap' : \/ \E s \in 1..(num' - 1) : slots'[s] = n
                           \/ \E u \in Thread : Pending(u)' /\ node'[u] = n
      <4> SUFFICES ASSUME NEW n \in heap, ~ \E s \in 1..num : slots'[s] = n
                   PROVE  \E u \in Thread : Pending(u)' /\ node'[u] = n
        BY <1>1, <2>6
      <4>1. n # node[t] /\ ~ \E s \in 1..(num - 1) : slots[s] = n
        BY <2>1, <2>6
      <4>2. PICK u \in Thread : Pending(u) /\ node[u] = n
        BY <1>1, <2>1, <4>1 DEF Table
      <4> QED BY <2>1, <3>2, <4>1, <4>2
    <3> QED BY <1>1, <2>1, <3>1, <3>3, <3>4, <3>5 DEF Table
  <2>8. Given'
    BY <1>1, <2>1, <2>2, <2>6 DEF Given, Address
  <2> QED BY <1>1, <2>1, <2>4, <2>5, <2>7, <2>8
          DEF SegInv, Quiescent, Untouched, DestroyFreesAll
<1> QED BY <1>2, <1>3, <1>4, <1>5 DEF AllocStep

LEMMA SegLookup ==
  ASSUME SegInv, NEW t \in Thread, LookupTable(t) \/ LookupEntry(t)
  PROVE  SegInv'
<1>1. /\ UNCHANGED <<num, max, list, live, slots, heap, made, owner, node, sno, handed>>
      /\ TypeOK /\ region = "live" /\ region' \in {"live", "crashed"}
      /\ pc[t] \in {"idle", "deref"}
      /\ pc'[t] \in {"idle", "deref"} /\ \A u \in Thread \ {t} : pc'[u] = pc[u]
  BY DEF LookupTable, LookupEntry, Goto, SegInv, TypeOK, locals
<1>2. TypeOK'
  <2>1. CASE LookupTable(t)
    BY <1>1, <2>1 DEF LookupTable, Goto, TypeOK, PC
  <2>2. CASE LookupEntry(t)
    BY <1>1, <2>2 DEF LookupEntry, Goto, TypeOK, PC, locals
  <2> QED BY <2>1, <2>2
<1>3. /\ \A u \in Thread : Inside(u)' = Inside(u) /\ Pending(u)' = Pending(u)
      /\ \A u \in Thread : pc[u] = "move" => pc'[u] = "move"
  BY <1>1 DEF Inside, Pending
<1>4. Table /\ Given /\ live # NULL
  BY <1>1 DEF SegInv
<1>5. Table' /\ Given'
  BY <1>1, <1>3, <1>4 DEF Table, Given, Address
<1> QED BY <1>1, <1>2, <1>3, <1>4, <1>5
        DEF SegInv, Locked, Quiescent, Untouched, DestroyFreesAll

LEMMA SegDestroy == SegInv /\ tm_destroy => SegInv'
<1> SUFFICES ASSUME SegInv, tm_destroy PROVE SegInv'
  OBVIOUS
<1>1. /\ TypeOK /\ Table /\ \A t \in Thread : pc[t] = "idle"
      /\ UNCHANGED <<num, max, list, slots, made, owner, pc, node, sno, table, addr, handed>>
  BY DEF SegInv, tm_destroy, locals
<1>2. Locked'
  BY <1>1 DEF Locked, Inside
<1>3. CASE list # NULL
  <2>1. /\ region' = "destroyed"
        /\ heap' = heap \ {slots[s] : s \in 1..(num - 1)}
        /\ live' = IF list = live THEN NULL ELSE live
    BY <1>3 DEF tm_destroy, cleanSegments, FreeList
  <2>2. heap' = {} /\ live' = NULL
    BY <1>1, <1>3, <2>1 DEF Table, Pending, Inside
  <2>3. TypeOK'
    BY <1>1, <2>1, <2>2 DEF TypeOK, NULL
  <2> QED BY <1>1, <1>2, <2>1, <2>2, <2>3 DEF SegInv, Quiescent, Untouched, DestroyFreesAll
<1>4. CASE list = NULL
  <2>1. region' = "crashed" /\ UNCHANGED <<live, heap>>
    BY <1>4 DEF tm_destroy
  <2>2. TypeOK'
    BY <1>1, <2>1 DEF TypeOK
  <2> QED BY <1>1, <1>2, <2>1, <2>2 DEF SegInv, Quiescent, Untouched, DestroyFreesAll
<1> QED BY <1>3, <1>4

LEMMA SegStutter == SegInv /\ UNCHANGED vars => SegInv'
<1> SUFFICES ASSUME SegInv, UNCHANGED vars PROVE SegInv'
  OBVIOUS
<1> USE DEF vars, locals, SegInv
<1>1. TypeOK'
  BY DEF TypeOK
<1>2. Locked' /\ Quiescent' /\ Untouched' /\ DestroyFreesAll'
  BY DEF Locked, Inside, Quiescent, Untouched, DestroyFreesAll
<1>3. region' = "live" => Table' /\ Given' /\ live' # NULL
  BY DEF Table, Pending, Inside, Given, Address
<1> QED BY <1>1, <1>2, <1>3

LEMMA SegNext == SegInv /\ [Next]_vars => SegInv'
BY SegCreate, SegDestroy, SegStutter, SegAlloc, SegAllocStep, SegLookup DEF Next, Over

---------------------------------------------------------------------------
\* The fields of struct Region and the locals of tm_alloc and of a lookup keep
\* their types; in particular no entry of the table is ever NULL, though
\* initNode may return it (tm.c:52-55, tm.c:401-403).
THEOREM TypeCorrect == Spec => []TypeOK
<1>1. SegInv => TypeOK
  BY DEF SegInv
<1> QED BY <1>1, SegInit, SegNext, PTL DEF Spec

\* A tm_destroy that returns has freed the table and every segment, however many
\* threads were allocating while the table grew: each took an entry of its own
\* (tm.c:414-427), and segments_list names the table in use.  After a failed
\* realloc it does not return.
THEOREM DestroyLeavesNothing == Spec => []DestroyFreesAll
<1>1. SegInv => DestroyFreesAll
  BY DEF SegInv
<1> QED BY <1>1, SegInit, SegNext, PTL DEF Spec

\* A failed realloc is the only reason for which tm_destroy ends the program: when
\* none may fail, it returns (helper_functions.h:73-86, tm.c:419).
THEOREM DestroyNeedsTheTable == ASSUME ~ ReallocMayFail PROVE Spec => DestroyReturns
<1> DEFINE Kept == region = "live" => list # NULL
<1>1. Init => Kept
  BY DEF Init
<1>2. SegInv /\ Kept /\ [Next]_vars => Kept'
  <2> SUFFICES ASSUME SegInv, Kept, [Next]_vars, region' = "live" PROVE list' # NULL
    OBVIOUS
  <2>1. CASE tm_create
    BY <2>1 DEF tm_create, NULL
  <2>2. CASE \E t \in Thread : AllocGrow(t) \/ AllocMove(t)
    BY <2>2 DEF AllocGrow, AllocMove, SegInv, Quiescent
  <2>3. CASE UNCHANGED <<region, list>>
    BY <2>3
  <2>4. CASE \E t \in Thread : AllocStep(t) \/ tm_alloc(t) \/ LookupTable(t) \/ LookupEntry(t)
    BY <2>2, <2>4 DEF AllocStep, AllocLock, AllocStore, tm_alloc, LookupTable, LookupEntry
  <2> QED BY <2>1, <2>2, <2>3, <2>4 DEF Next, tm_destroy, Over, vars
<1>3. Kept /\ [Next]_vars => [tm_destroy => region' = "destroyed"]_vars
  BY DEF tm_destroy
<1> QED BY <1>1, <1>2, <1>3, SegInit, SegNext, PTL DEF Spec, DestroyReturns

\* Until the region has made as many segments as 16 bits can number, and while no
\* realloc has failed, an address leads to the segment it was given out for
\* (tm.c:229-231, tm.c:425-427).
THEOREM AddressesStayValid == Spec => [](num <= AddressModulus => AddressesResolve)
<1>1. ASSUME SegInv, num <= AddressModulus PROVE AddressesResolve
  <2> SUFFICES ASSUME region = "live", NEW h \in handed
               PROVE  h.addr \in DOMAIN slots /\ slots[h.addr] = h.seg /\ h.seg \in heap
    BY DEF AddressesResolve
  <2>1. Table /\ Given
    BY <1>1 DEF SegInv
  <2>2. PICK s \in 1..(num - 1) : h.addr = Address(s) /\ slots[s] = h.seg
    BY <2>1 DEF Given
  <2>3. Address(s) = s
    BY <1>1, <2>1, SegmentsAssumption DEF Address, Table
  <2> QED BY <2>1, <2>2, <2>3 DEF Table
<1>2. SegInv => (num <= AddressModulus => AddressesResolve)
  BY <1>1
<1> QED BY <1>2, SegInit, SegNext, PTL DEF Spec
===========================================================================
