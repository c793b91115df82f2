----------------------------- MODULE BoundedFifo -----------------------------
(***************************************************************************)
(* What a bounded work queue promises: the items its producers hold enter  *)
(* a queue of at most Capacity items, one at a time, and leave it in the   *)
(* same order, each into the hands of one consumer.                        *)
(***************************************************************************)
EXTENDS Integers, Sequences

CONSTANTS Producers, Consumers, Capacity, Items, NoItem
VARIABLES
  queue,      (* the items in the queue, the oldest first                  *)
  hand        (* the item that a thread holds                              *)

Init ==
  /\ queue = <<>>
  /\ hand = [t \in Producers \cup Consumers |-> NoItem]

Offer(p, item) ==
  /\ hand[p] = NoItem
  /\ hand' = [hand EXCEPT ![p] = item]
  /\ UNCHANGED queue

Put(p) ==
  /\ hand[p] # NoItem /\ Len(queue) < Capacity
  /\ queue' = Append(queue, hand[p])
  /\ hand' = [hand EXCEPT ![p] = NoItem]

Get(c) ==
  /\ hand[c] = NoItem /\ queue # <<>>
  /\ queue' = Tail(queue)
  /\ hand' = [hand EXCEPT ![c] = Head(queue)]

Consume(c) ==
  /\ hand' = [hand EXCEPT ![c] = NoItem]
  /\ UNCHANGED queue

Next ==
  \/ \E p \in Producers : Put(p) \/ \E item \in Items : Offer(p, item)
  \/ \E c \in Consumers : Get(c) \/ Consume(c)

Spec == Init /\ [][Next]_<<queue, hand>>
=============================================================================
