------------------------------- MODULE Channel ----------------------------
(***************************************************************************)
(* What the producer/consumer programs promise: a bounded channel.  Data   *)
(* arrive complete, in the order in which they were sent, each once.       *)
(***************************************************************************)
EXTENDS Naturals, Sequences

CONSTANTS Item, Capacity
VARIABLES sent, received

Init == sent = <<>> /\ received = <<>>

Send ==
  /\ Len(sent) < Len(received) + Capacity
  /\ \E d \in Item : sent' = Append(sent, d)
  /\ UNCHANGED received

Receive ==
  /\ Len(received) < Len(sent)
  /\ received' = Append(received, sent[Len(received) + 1])
  /\ UNCHANGED sent

Spec == Init /\ [][Send \/ Receive]_<<sent, received>>
===========================================================================
