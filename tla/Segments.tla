------------------------------ MODULE Segments ----------------------------
(***************************************************************************)
(* The life of a shared region in src/353055: tm_create, tm_alloc, the     *)
(* translation of a shared address to its segment at the top of tm_read    *)
(* and tm_write, and tm_destroy.                                           *)
(*                                                                         *)
(* Only tm_alloc takes allocation_lock, so between its lock and its unlock *)
(* the steps are those a lookup can tell apart: the old table is gone when *)
(* realloc returns, and segments_list names the new one a step later.      *)
(* A load through a table that is NULL or freed is undefined: it may end   *)
(* the program, which is the region "crashed", or return anything.         *)
(***************************************************************************)
EXTENDS Naturals

CONSTANTS
  Thread,          \* threads of the user
  Lookups,         \* those that read and write words
  FirstMaxSize,    \* the initial max_size: 1000
  AddressModulus,  \* 2^16: the segment number is the address's top 16 bits
  MaxSegments,     \* bound: how many segments the model ever makes
  MallocMayFail, ReallocMayFail

ASSUME SegmentsAssumption ==
  /\ Lookups \subseteq Thread
  /\ FirstMaxSize \in Nat /\ FirstMaxSize >= 2
  /\ AddressModulus \in Nat /\ AddressModulus >= 2
  /\ MaxSegments \in Nat \ {0}
  /\ MallocMayFail \in BOOLEAN /\ ReallocMayFail \in BOOLEAN

NULL == 0
Segment == 1..MaxSegments

VARIABLES
  region,   \* "none", "live", "invalid" (tm_create failed), "destroyed" or "crashed"
  num, max, \* num_allocs and max_size
  list,     \* segments_list: which table it points to, NULL when none
  live,     \* the table the allocator considers in use
  slots,    \* contents of the table in use
  heap,     \* segments allocated and not freed
  made,     \* how many segments have been made; the next is made + 1
  owner,    \* the thread that holds allocation_lock, if any
  pc, node, sno, table, addr,   \* locals of tm_alloc and of a lookup
  handed    \* the addresses given out, with the segment each was given for

locals == <<node, sno, table, addr>>
vars == <<region, num, max, list, live, slots, heap, made, owner, pc, locals, handed>>

PC == {"idle", "lock", "grow", "move", "store", "deref"}

TypeOK ==
  /\ region \in {"none", "live", "invalid", "destroyed", "crashed"}
  /\ num \in Nat /\ max \in Nat /\ list \in Nat /\ live \in Nat /\ made \in Nat
  /\ \A s \in DOMAIN slots : slots[s] \in Segment
  /\ heap \subseteq Segment
  /\ owner \subseteq Thread
  /\ pc \in [Thread -> PC]
  /\ node \in [Thread -> Segment \cup {NULL}]
  /\ sno \in [Thread -> Nat] /\ table \in [Thread -> Nat] /\ addr \in [Thread -> Nat]
  /\ handed \subseteq [addr : Nat, seg : Segment]

Init ==
  /\ region = "none"
  /\ num = 1 /\ max = FirstMaxSize
  /\ list = NULL /\ live = NULL /\ slots = <<>>
  /\ heap = {} /\ made = 0
  /\ owner = {}
  /\ pc = [t \in Thread |-> "idle"]
  /\ node = [t \in Thread |-> NULL] /\ sno = [t \in Thread |-> 0]
  /\ table = [t \in Thread |-> NULL] /\ addr = [t \in Thread |-> 0]
  /\ handed = {}

---------------------------------------------------------------------------
\* The shared address of a segment: its number in the top 16 of 64 bits.
Address(s) == s % AddressModulus
StartAddress == Address(1)
Goto(t, l) == pc' = [pc EXCEPT ![t] = l]

\* initNode: a segment of zeros; when any of its mallocs fails it frees the
\* others and returns NULL.
initNode(n) ==
  \/ /\ made < MaxSegments
     /\ n = made + 1
     /\ made' = n
     /\ heap' = heap \cup {n}
  \/ MallocMayFail /\ n = NULL /\ UNCHANGED <<made, heap>>

tm_create_NoNullCheck ==
  /\ region = "none"
  /\ \E n \in Segment \cup {NULL} : initNode(n) /\ slots' = [s \in {num} |-> n]
  /\ region' = "live"
  /\ list' = 1 /\ live' = 1
  /\ num' = num + 1
  /\ UNCHANGED <<max, owner, pc, locals, handed>>

\* tm_create.  A failed malloc of the table leaves the first segment behind.
tm_create ==
  /\ region = "none"
  /\ \E n \in Segment \cup {NULL} :
       /\ initNode(n)
       /\ \/ /\ n # NULL
             /\ region' = "live"
             /\ list' = 1 /\ live' = 1
             /\ slots' = [s \in {num} |-> n]
             /\ num' = num + 1
             /\ handed' = {[addr |-> StartAddress, seg |-> n]}
          \/ /\ n = NULL \/ MallocMayFail
             /\ region' = "invalid"
             /\ UNCHANGED <<num, list, live, slots, handed>>
  /\ UNCHANGED <<max, owner, pc, locals>>

---------------------------------------------------------------------------
\* tm_alloc: first the segment, outside the lock; NULL is nomem_alloc.
tm_alloc(t) ==
  /\ region = "live" /\ pc[t] = "idle"
  /\ \E n \in Segment \cup {NULL} :
       /\ initNode(n)
       /\ node' = [node EXCEPT ![t] = n]
       /\ Goto(t, IF n = NULL THEN "idle" ELSE "lock")
  /\ UNCHANGED <<region, num, max, list, live, slots, owner, sno, table, addr, handed>>

\* The test that decides whether the table is full.
Full == max = num

AllocLock_Unlocked(t) ==
  /\ pc[t] = "lock"
  /\ owner' = {t}
  /\ sno' = [sno EXCEPT ![t] = num]
  /\ \/ max = num /\ max' = 2 * max /\ Goto(t, "grow")
     \/ max # num /\ UNCHANGED max /\ Goto(t, "store")
  /\ UNCHANGED <<region, num, list, live, slots, heap, made, node, table, addr, handed>>

AllocLock(t) ==
  /\ pc[t] = "lock" /\ owner = {}
  /\ owner' = {t}
  /\ sno' = [sno EXCEPT ![t] = num]
  /\ \/ Full /\ max' = 2 * max /\ Goto(t, "grow")
     \/ ~ Full /\ UNCHANGED max /\ Goto(t, "store")
  /\ UNCHANGED <<region, num, list, live, slots, heap, made, node, table, addr, handed>>

\* realloc moves the table and frees the old one, or returns NULL: that
\* return leaves the lock taken and segments_list NULL.
AllocGrow(t) ==
  /\ pc[t] = "grow"
  /\ \/ live' = live + 1 /\ Goto(t, "move") /\ UNCHANGED list
     \/ ReallocMayFail /\ list' = NULL /\ Goto(t, "idle") /\ UNCHANGED live
  /\ UNCHANGED <<region, num, max, slots, heap, made, owner, locals, handed>>

\* ... and segments_list follows.
AllocMove(t) ==
  /\ pc[t] = "move"
  /\ list' = live
  /\ Goto(t, "store")
  /\ UNCHANGED <<region, num, max, live, slots, heap, made, owner, locals, handed>>

AllocStore_KeepLock(t) ==
  /\ pc[t] = "store"
  /\ slots' = [s \in DOMAIN slots \cup {sno[t]} |->
                 IF s = sno[t] THEN node[t] ELSE slots[s]]
  /\ num' = num + 1
  /\ handed' = handed \cup {[addr |-> Address(sno[t]), seg |-> node[t]]}
  /\ Goto(t, "idle")
  /\ UNCHANGED <<region, max, list, live, heap, made, owner, locals>>

AllocStore(t) ==
  /\ pc[t] = "store"
  /\ slots' = [s \in DOMAIN slots \cup {sno[t]} |->
                 IF s = sno[t] THEN node[t] ELSE slots[s]]
  /\ num' = num + 1
  /\ handed' = handed \cup {[addr |-> Address(sno[t]), seg |-> node[t]]}
  /\ owner' = {}
  /\ Goto(t, "idle")
  /\ UNCHANGED <<region, max, list, live, heap, made, locals>>

---------------------------------------------------------------------------
\* tm_read and tm_write: load the pointer to the table, then its entry.  The
\* address is one that was handed out.
LookupTable(t) ==
  /\ region = "live" /\ pc[t] = "idle" /\ t \in Lookups
  /\ \E h \in handed : addr' = [addr EXCEPT ![t] = h.addr]
  /\ table' = [table EXCEPT ![t] = list]
  /\ Goto(t, "deref")
  /\ UNCHANGED <<region, num, max, list, live, slots, heap, made, owner, node, sno,
                 handed>>

\* The entry of the table in use, or of one that is not: a NULL table always
\* ends the program, a freed one may.
LookupEntry(t) ==
  /\ region = "live" /\ pc[t] = "deref"
  /\ Goto(t, "idle")
  /\ \/ table[t] # NULL /\ UNCHANGED region
     \/ table[t] # live /\ region' = "crashed"
  /\ UNCHANGED <<num, max, list, live, slots, heap, made, owner, locals, handed>>

\* cleanSegments: the segments of entries 1 to num_allocs - 1, then the table
\* that segments_list names.
FreeList == live' = IF list = live THEN NULL ELSE live
cleanSegments_FromTwo == heap' = heap \ {slots[s] : s \in 2..(num - 1)} /\ FreeList
cleanSegments == heap' = heap \ {slots[s] : s \in 1..(num - 1)} /\ FreeList

\* tm_destroy; the caller sees to it that no transaction runs.  The loop reads
\* entry 1 of segments_list without a test, which ends the program when a
\* failed realloc has made it NULL.
tm_destroy ==
  /\ region = "live" /\ \A t \in Thread : pc[t] = "idle"
  /\ \/ list # NULL /\ region' = "destroyed" /\ cleanSegments
     \/ list = NULL /\ region' = "crashed" /\ UNCHANGED <<live, heap>>
  /\ UNCHANGED <<num, max, list, slots, made, owner, pc, locals, handed>>

AllocStep(t) ==
  /\ region = "live"
  /\ AllocLock(t) \/ AllocGrow(t) \/ AllocMove(t) \/ AllocStore(t)

\* The region is gone, or a failed realloc has kept allocation_lock: there the
\* threads may really all wait for ever.
Over ==
  /\ \/ region \in {"invalid", "destroyed", "crashed"}
     \/ region = "live" /\ list = NULL
  /\ UNCHANGED vars

Next ==
  \/ tm_create \/ tm_destroy \/ Over
  \/ \E t \in Thread : \/ tm_alloc(t) \/ AllocStep(t)
                       \/ LookupTable(t) \/ LookupEntry(t)

Spec == Init /\ [][Next]_vars

\* Threads inside a call keep running.  Weak fairness is enough for the mutex:
\* the other threads take it a bounded number of times.
FairSpec == Spec /\ \A t \in Thread : WF_vars(AllocStep(t)) /\ WF_vars(LookupEntry(t))

---------------------------------------------------------------------------
\* An address leads to the segment it was given out for, for as long as the
\* region lives and no realloc has failed: no two allocations share an entry,
\* and growing the table keeps the entries (tm.c:414-427, tm.c:229-231).
AddressesResolve ==
  region = "live" /\ list # NULL => \A h \in handed :
    h.addr \in DOMAIN slots /\ slots[h.addr] = h.seg /\ h.seg \in heap

\* A lookup never loads from a table that realloc has freed, nor from NULL:
\* tm_read, tm_write and tm_alloc are all documented as thread-safe (tm.c:209,
\* tm.c:304, tm.c:398).
LookupsFindTable ==
  \A t \in Thread : pc[t] = "deref" => table[t] # NULL /\ table[t] = live

\* When tm_destroy returns, the table is freed and so is every segment that was
\* ever made, those of aborted transactions and those passed to tm_free included
\* (helper_functions.h:73-86).
DestroyFreesAll == region = "destroyed" => heap = {} /\ live = NULL

\* tm_alloc returns, with a segment or with nomem_alloc, "Memory allocation
\* failed but TX was not aborted" (include/tm.h:47).
AllocReturns == \A t \in Thread : pc[t] = "lock" ~> pc[t] = "idle"

\* tm_alloc returns but for two cases: some realloc of the table has failed,
\* which leaves allocation_lock taken (tm.c:419-421), or a lookup has ended
\* the program.  A failed malloc of a segment is none of them.
AllocReturnsButForRealloc ==
  \A t \in Thread : pc[t] = "lock" ~> \/ pc[t] = "idle"
                                      \/ list = NULL \/ region = "crashed"

\* tm_destroy cleans up and frees the region: it does not end the program
\* (tm.c:77, "Destroy (i.e. clean-up + free) a given shared memory region").
DestroyReturns == [][tm_destroy => region' = "destroyed"]_vars
===========================================================================
