------------------------------ MODULE WorkQueue ------------------------------
(***************************************************************************)
(* The work queue of the frame receiver (axidma.c: init_work_queue,        *)
(* enqueue_work, dequeue_work): a circular array under a mutex, with a     *)
(* condition variable for producers and one for consumers.  A thread calls *)
(* enqueue_work or dequeue_work again and again; a thread in               *)
(* pthread_cond_wait may wake without a signal, as POSIX allows.           *)
(***************************************************************************)
EXTENDS Integers, FiniteSets

CONSTANTS
  Producers, Consumers,   (* the threads that call enqueue, dequeue_work   *)
  Capacity,               (* queue->capacity                               *)
  Items,                  (* the work items: a frame's buffer and number   *)
  NoItem, NoThread

ASSUME WorkQueueAssumption ==
  /\ Capacity \in Nat \ {0}
  /\ IsFiniteSet(Producers) /\ IsFiniteSet(Consumers)
  /\ Producers \cap Consumers = {}
  /\ NoItem \notin Items
  /\ NoThread \notin Producers \cup Consumers

Threads == Producers \cup Consumers

VARIABLES
  items, head, tail, count,
  mutex,      (* the thread that holds the mutex                           *)
  pc,         (* out of the queue's functions, at pthread_mutex_lock,      *)
              (* in the critical section, in pthread_cond_wait             *)
  hand        (* the item a producer brings or a consumer has got          *)

array == <<items, head, tail, count>>
queueVars == <<array, mutex, pc, hand>>

(* The threads of a set that wait; producers wait on not_full, consumers   *)
(* on not_empty.                                                           *)
Waiting(threads) == {t \in threads : pc[t] = "wait"}

(* A definition that differs from the one after it by a bug is a mutant:   *)
(* it tests the properties.                                                *)
NextSlot(i) == (i + 1) % Capacity

Full == count = Capacity

EmptyUnchecked == FALSE
Empty == count = 0

(* init_work_queue *)
QueueInit ==
  /\ items = [i \in 0 .. Capacity - 1 |-> NoItem]
  /\ head = 0 /\ tail = 0 /\ count = 0
  /\ mutex = NoThread
  /\ pc = [t \in Threads |-> "out"]
  /\ hand = [t \in Threads |-> NoItem]

(* A call of enqueue_work with this item, and of dequeue_work, whose       *)
(* caller is done with the item it has got before.                         *)
CallEnqueue(p, item) ==
  /\ pc[p] = "out"
  /\ pc' = [pc EXCEPT ![p] = "lock"]
  /\ hand' = [hand EXCEPT ![p] = item]
  /\ UNCHANGED <<array, mutex>>

CallDequeue(c) ==
  /\ pc[c] = "out"
  /\ pc' = [pc EXCEPT ![c] = "lock"]
  /\ hand' = [hand EXCEPT ![c] = NoItem]
  /\ UNCHANGED <<array, mutex>>

Lock(t) ==
  /\ pc[t] = "lock" /\ mutex = NoThread
  /\ mutex' = t
  /\ pc' = [pc EXCEPT ![t] = "in"]
  /\ UNCHANGED <<array, hand>>

(* pthread_cond_wait releases the mutex. *)
Wait(t) ==
  /\ mutex' = NoThread
  /\ pc' = [pc EXCEPT ![t] = "wait"]
  /\ UNCHANGED <<array, hand>>

(* pthread_cond_wait returns by taking the mutex again. *)
WakeUp(t) ==
  /\ pc[t] = "wait"
  /\ pc' = [pc EXCEPT ![t] = "lock"]
  /\ UNCHANGED <<array, mutex, hand>>

(* t wakes one of the waiting threads, if there is one, unlocks, returns.  *)
NoSignal(t, threads) ==
  /\ mutex' = NoThread
  /\ pc' = [pc EXCEPT ![t] = "out"]

SignalWhenNeeded(t, threads) ==
  /\ mutex' = NoThread
  /\ IF Waiting(threads) # {} /\ (Empty \/ Full)
     THEN \E w \in Waiting(threads) : pc' = [pc EXCEPT ![t] = "out", ![w] = "lock"]
     ELSE pc' = [pc EXCEPT ![t] = "out"]

SignalAndReturn(t, threads) ==
  /\ mutex' = NoThread
  /\ IF Waiting(threads) = {}
     THEN pc' = [pc EXCEPT ![t] = "out"]
     ELSE \E w \in Waiting(threads) : pc' = [pc EXCEPT ![t] = "out", ![w] = "lock"]

EnqueueWait(p) == pc[p] = "in" /\ Full /\ Wait(p)

Put(p) ==
  /\ pc[p] = "in" /\ ~Full
  /\ items' = [items EXCEPT ![tail] = hand[p]]
  /\ tail' = NextSlot(tail)
  /\ count' = count + 1
  /\ hand' = [hand EXCEPT ![p] = NoItem]
  /\ SignalAndReturn(p, Consumers)
  /\ UNCHANGED head

DequeueWait(c) == pc[c] = "in" /\ Empty /\ Wait(c)

Get(c) ==
  /\ pc[c] = "in" /\ ~Empty
  /\ hand' = [hand EXCEPT ![c] = items[head]]
  /\ head' = NextSlot(head)
  /\ count' = count - 1
  /\ SignalAndReturn(c, Producers)
  /\ UNCHANGED <<items, tail>>

(* What a thread does by itself once it has called. *)
EnqueueStep(p) == Lock(p) \/ EnqueueWait(p) \/ Put(p)
DequeueStep(c) == Lock(c) \/ DequeueWait(c) \/ Get(c)

QueueNext ==
  \/ \E p \in Producers : EnqueueStep(p) \/ \E item \in Items : CallEnqueue(p, item)
  \/ \E c \in Consumers : DequeueStep(c) \/ CallDequeue(c)
  \/ \E t \in Threads : WakeUp(t)

QueueSpec == QueueInit /\ [][QueueNext]_queueVars
-----------------------------------------------------------------------------
QueueTypeOK ==
  /\ items \in [0 .. Capacity - 1 -> Items \cup {NoItem}]
  /\ head \in 0 .. Capacity - 1 /\ tail \in 0 .. Capacity - 1
  /\ count \in 0 .. Capacity
  /\ mutex \in Threads \cup {NoThread}
  /\ pc \in [Threads -> {"out", "lock", "in", "wait"}]
  /\ hand \in [Threads -> Items \cup {NoItem}]

(* The i-th oldest item of the queue is in the slot i places after head. *)
Slot(i) == IF head + i < Capacity THEN head + i ELSE head + i - Capacity

(* The counter agrees with the two indices, which alone cannot tell a full *)
(* queue from an empty one, and every slot between them holds an item.     *)
QueueLayout ==
  /\ tail = Slot(count)
  /\ \A i \in 0 .. count - 1 : items[Slot(i)] \in Items

(* No wakeup is lost although each call signals one thread only, and does  *)
(* so whether or not one waits: while consumers wait, the queue holds no   *)
(* more items than there are consumers on their way to take one, and while *)
(* producers wait, it has no more room than producers on their way.        *)
Coming(threads) == {t \in threads : pc[t] \in {"lock", "in"}}

NoLostWakeup ==
  /\ Waiting(Consumers) # {} => count <= Cardinality(Coming(Consumers))
  /\ Waiting(Producers) # {} => Capacity - count <= Cardinality(Coming(Producers))

(* The queue is a first-in first-out queue of at most Capacity items. *)
Fifo == INSTANCE BoundedFifo WITH
  queue <- [i \in 1 .. count |-> items[Slot(i - 1)]]

RefinesFifo == Fifo!Spec
=============================================================================
