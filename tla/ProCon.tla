------------------------------- MODULE ProCon -----------------------------
(***************************************************************************)
(* procon1.c to procon4.c: a producer and a consumer on a circular buffer. *)
(* procon1 does not synchronize at all, procon2 spins on a lock, procon3   *)
(* on two atomic counters, procon4 sleeps on a condition variable.         *)
(*                                                                         *)
(* struct data is copied in pieces (Unit), in any order.  The atomic       *)
(* operations order the copies as they do on the machine: a store with     *)
(* release order comes after the copies before it, a load whose result is  *)
(* branched on before the stores that follow the branch.                   *)
(***************************************************************************)
EXTENDS SyncLock, Sequences

CONSTANTS BUFFER_SIZE, Unit, Text, Zero
ASSUME ProConAssumption ==
  BUFFER_SIZE \in Nat \ {0} /\ Unit # {} /\ Zero \in Text

Producer == 1
Consumer == 2
Data == [Unit -> Text]
Empty == [u \in Unit |-> Zero]
Slot(r) == r % BUFFER_SIZE

VARIABLES buffer, produced_until, consumed_until, produced, consumed,
          left   \* the units each thread has still to copy
procon == <<buffer, produced_until, consumed_until, produced, consumed, left>>

ProConInit ==
  /\ buffer = [s \in 0..(BUFFER_SIZE - 1) |-> Empty]
  /\ produced_until = 0 /\ consumed_until = 0
  /\ produced = [r \in 0..(RUNS - 1) |-> Empty]
  /\ consumed = [r \in 0..(RUNS - 1) |-> Empty]
  /\ left = [t \in {Producer, Consumer} |-> {}]

---------------------------------------------------------------------------
\* Is there room for the producer's round; is there data for the consumer's?
Room == consumed_until + BUFFER_SIZE > round[Producer]
Available == produced_until > round[Consumer]

\* Random data, and the copy into the buffer ahead.
Produce(from, to) ==
  /\ Step(Producer, from, to)
  /\ \E d \in Data : produced' = [produced EXCEPT ![round[Producer]] = d]
  /\ left' = [left EXCEPT ![Producer] = Unit]
  /\ UNCHANGED <<buffer, produced_until, consumed_until, consumed, lock>>

Consume(from, to) ==
  /\ Step(Consumer, from, to)
  /\ left' = [left EXCEPT ![Consumer] = Unit]
  /\ UNCHANGED <<buffer, produced_until, consumed_until, produced, consumed, lock>>

\* One unit; the last one leads on.
Piece(t, u, from, to) ==
  /\ u \in left[t]
  /\ left' = [left EXCEPT ![t] = @ \ {u}]
  /\ Step(t, from, IF left[t] = {u} THEN to ELSE from)
  /\ UNCHANGED <<produced_until, consumed_until, produced, lock>>

Fill(from, to) ==
  LET r == round[Producer]
  IN  \E u \in Unit : /\ Piece(Producer, u, from, to)
                      /\ buffer' = [buffer EXCEPT ![Slot(r)][u] = produced[r][u]]
                      /\ UNCHANGED consumed

Drain(from, to) ==
  LET r == round[Consumer]
  IN  \E u \in Unit : /\ Piece(Consumer, u, from, to)
                      /\ consumed' = [consumed EXCEPT ![r][u] = buffer[Slot(r)][u]]
                      /\ UNCHANGED buffer

Produced(from, to) ==
  /\ Step(Producer, from, to)
  /\ produced_until' = produced_until + 1
  /\ UNCHANGED <<buffer, consumed_until, produced, consumed, left, lock>>

Consumed(from, to) ==
  /\ Step(Consumer, from, to)
  /\ consumed_until' = consumed_until + 1
  /\ UNCHANGED <<buffer, produced_until, produced, consumed, left, lock>>

---------------------------------------------------------------------------
\* procon1: nobody waits for anybody.
produce1 == Produce("round", "copy") \/ Fill("copy", "next")
consume1 == Consume("round", "copy") \/ Drain("copy", "next")

\* procon2: look under the lock, again and again.
Spin(t, ready) ==
  /\ \/ Step(t, "round", "look") /\ lock_acquire(t)
     \/ Step(t, "look", IF ready THEN "begin" ELSE "unlock") /\ UNCHANGED lock
     \/ Step(t, "unlock", "round") /\ lock_release(t)
  /\ UNCHANGED procon

Release(t, from, to) == Step(t, from, to) /\ lock_release(t) /\ UNCHANGED procon

produce2 ==
  \/ Spin(Producer, Room)
  \/ Produce("begin", "copy") \/ Fill("copy", "count") \/ Produced("count", "done")
  \/ Release(Producer, "done", "next")

consume2 ==
  \/ Spin(Consumer, Available)
  \/ Consume("begin", "copy") \/ Drain("copy", "count") \/ Consumed("count", "done")
  \/ Release(Consumer, "done", "next")

\* procon3: the counters themselves are atomic; a load that finds nothing to do
\* changes nothing.
produce3_CountFirst ==
  \/ Room /\ Produce("round", "count")
  \/ Produced("count", "copy") \/ Fill("copy", "next")

produce3 ==
  \/ Room /\ Produce("round", "copy")
  \/ Fill("copy", "count") \/ Produced("count", "next")

consume3 ==
  \/ Available /\ Consume("round", "copy")
  \/ Drain("copy", "count") \/ Consumed("count", "next")

\* procon4: sleep until there is something to do, wake the other when done.
Sleep(t, ready) ==
  /\ \/ Step(t, "round", "look") /\ lock_acquire(t)
     \/ ready /\ Step(t, "look", "begin") /\ UNCHANGED lock
     \/ ~ ready /\ Step(t, "look", "asleep") /\ lock_wait(t)
     \/ Step(t, "asleep", "look") /\ lock_awake(t)
  /\ UNCHANGED procon

WakeUp(t, from, to) == Step(t, from, to) /\ lock_wake_up /\ UNCHANGED procon

produce4 ==
  \/ Sleep(Producer, Room)
  \/ Produce("begin", "copy") \/ Fill("copy", "count") \/ Produced("count", "done")
  \/ Release(Producer, "done", "wake") \/ WakeUp(Producer, "wake", "next")

\* A consumer that does not tell the producer; and the one of the program.
consume4_Silent ==
  \/ Sleep(Consumer, Available)
  \/ Consume("begin", "copy") \/ Drain("copy", "count") \/ Consumed("count", "done")
  \/ Release(Consumer, "done", "next")

consume4 ==
  \/ Sleep(Consumer, Available)
  \/ Consume("begin", "copy") \/ Drain("copy", "count") \/ Consumed("count", "done")
  \/ Release(Consumer, "done", "wake") \/ WakeUp(Consumer, "wake", "next")

---------------------------------------------------------------------------
are_same == \A r \in DOMAIN produced : produced[r] = consumed[r]
Pair == Run(2, are_same) /\ UNCHANGED procon

procon1(p) == CASE p = Main -> Pair [] p = Producer -> produce1 [] p = Consumer -> consume1 [] OTHER -> FALSE
procon2(p) == CASE p = Main -> Pair [] p = Producer -> produce2 [] p = Consumer -> consume2 [] OTHER -> FALSE
procon3(p) == CASE p = Main -> Pair [] p = Producer -> produce3 [] p = Consumer -> consume3 [] OTHER -> FALSE
procon4(p) == CASE p = Main -> Pair [] p = Producer -> produce4 [] p = Consumer -> consume4 [] OTHER -> FALSE

ProConPrograms == {"procon1", "procon2", "procon3", "procon4"}

ProConStep(p) ==
  \/ program = "procon1" /\ procon1(p)
  \/ program = "procon2" /\ procon2(p)
  \/ program = "procon3" /\ procon3(p)
  \/ program = "procon4" /\ procon4(p)

---------------------------------------------------------------------------
\* The programs called correct, seen as a channel: what has been counted as
\* produced has been sent, what has been counted as consumed received.  procon1
\* counts neither: it makes no promise to check.
Synchronized == program \in ProConPrograms \ {"procon1"}
Sent == [i \in 1..(IF Synchronized THEN produced_until ELSE 0) |-> produced[i - 1]]
Received == [i \in 1..(IF Synchronized THEN consumed_until ELSE 0) |-> consumed[i - 1]]
===========================================================================
