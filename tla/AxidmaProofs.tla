---------------------------- MODULE AxidmaProofs ----------------------------
(***************************************************************************)
(* Proofs about two parts of driver/axidma.c that share no state.          *)
(* The work queue, for every capacity and any finite sets of producers and *)
(* consumers: its types and layout, that no wakeup is lost, and that it    *)
(* implements the first-in first-out queue of BoundedFifo.                 *)
(* The file sender, for every number of packets and descriptors, at any    *)
(* pace and with failing transfers: what it counts has gone out, and it    *)
(* stops the engine only after that.                                       *)
(***************************************************************************)
EXTENDS WorkQueue, Mm2sSender, Sequences, FiniteSetTheorems, TLAPS

(* The thread with the mutex, and no other, is in the critical section. *)
MutexOwner == \A t \in Threads : pc[t] = "in" <=> mutex = t

(* A producer has an item in hand during its call, a consumer after it. *)
Hands ==
  /\ \A p \in Producers : hand[p] = NoItem <=> pc[p] = "out"
  /\ \A c \in Consumers : pc[c] # "out" => hand[c] = NoItem

QueueInv == QueueTypeOK /\ QueueLayout /\ MutexOwner /\ Hands

LEMMA NextSlotWraps ==
  ASSUME NEW i \in 0 .. Capacity - 1
  PROVE  NextSlot(i) = IF i + 1 < Capacity THEN i + 1 ELSE 0
BY WorkQueueAssumption DEF NextSlot

(* What a signal does to the control state: the caller is out of the       *)
(* critical section and at most one thread, a waiting one, has woken.      *)
LEMMA SignalSteps ==
  ASSUME QueueTypeOK, NEW t \in Threads, NEW threads \in SUBSET Threads,
         SignalAndReturn(t, threads)
  PROVE  /\ mutex' = NoThread
         /\ pc' \in [Threads -> {"out", "lock", "in", "wait"}]
         /\ \/ Waiting(threads) = {} /\ pc' = [pc EXCEPT ![t] = "out"]
            \/ \E w \in Waiting(threads) : pc' = [pc EXCEPT ![t] = "out", ![w] = "lock"]
BY DEF SignalAndReturn, QueueTypeOK, Waiting

LEMMA PutKeepsInv ==
  ASSUME QueueInv, NEW p \in Producers, Put(p)
  PROVE  QueueInv' /\ hand[p] \in Items
<1> USE DEF QueueInv
<1>0. hand[p] \in Items
  BY DEF Put, Hands, QueueTypeOK, Threads
<1>1. SignalAndReturn(p, Consumers) /\ p \in Threads /\ Consumers \subseteq Threads
  BY DEF Put, Threads
<1>2. /\ mutex' = NoThread
      /\ pc' \in [Threads -> {"out", "lock", "in", "wait"}]
      /\ \A u \in Threads : pc'[u] = "in" => pc[u] = "in" /\ u # p
      /\ pc'[p] = "out" /\ \A u \in Threads \ {p} : pc'[u] = "out" <=> pc[u] = "out"
  BY <1>1, SignalSteps DEF QueueTypeOK, Waiting
<1>3. MutexOwner'
  BY <1>2, WorkQueueAssumption DEF MutexOwner, Put, Threads
<1>4. count < Capacity
  BY WorkQueueAssumption DEF Put, Full, QueueTypeOK
<1>5. tail' \in 0 .. Capacity - 1 /\ tail' = Slot(count)'
  BY <1>4, NextSlotWraps, WorkQueueAssumption DEF Put, QueueTypeOK, QueueLayout, Slot
<1>6. items' \in [0 .. Capacity - 1 -> Items \cup {NoItem}] /\ hand' \in [Threads -> Items \cup {NoItem}]
  BY <1>0, <1>1 DEF Put, QueueTypeOK
<1>7. QueueTypeOK'
  BY <1>2, <1>4, <1>5, <1>6, WorkQueueAssumption DEF Put, QueueTypeOK
<1>8. \A i \in 0 .. count' - 1 : items'[Slot(i)'] \in Items
  <2> SUFFICES ASSUME NEW i \in 0 .. count' - 1
               PROVE  items'[Slot(i)'] \in Items
    OBVIOUS
  <2>1. Slot(i)' = Slot(i) /\ Slot(i) \in 0 .. Capacity - 1
    BY <1>4, WorkQueueAssumption DEF Put, Slot, QueueTypeOK
  <2>2. CASE i = count
    BY <1>0, <2>1, <2>2 DEF Put, QueueTypeOK, QueueLayout
  <2>3. CASE i < count
    <3>1. Slot(i) # tail
      BY <1>4, <2>3, WorkQueueAssumption DEF QueueLayout, QueueTypeOK, Slot
    <3> QED  BY <2>1, <2>3, <3>1 DEF Put, QueueTypeOK, QueueLayout
  <2> QED  BY <2>2, <2>3 DEF Put, QueueTypeOK
<1>9. Hands'
  BY <1>2, WorkQueueAssumption DEF Hands, Put, QueueTypeOK, Threads
<1> QED  BY <1>0, <1>3, <1>5, <1>7, <1>8, <1>9 DEF QueueLayout

LEMMA GetKeepsInv ==
  ASSUME QueueInv, NEW c \in Consumers, Get(c)
  PROVE  QueueInv' /\ hand' = [hand EXCEPT ![c] = items[Slot(0)]]
<1> USE DEF QueueInv
<1>1. SignalAndReturn(c, Producers) /\ c \in Threads /\ Producers \subseteq Threads
  BY DEF Get, Threads
<1>2. /\ mutex' = NoThread
      /\ pc' \in [Threads -> {"out", "lock", "in", "wait"}]
      /\ \A u \in Threads : pc'[u] = "in" => pc[u] = "in" /\ u # c
      /\ pc'[c] = "out" /\ \A u \in Threads \ {c} : pc'[u] = "out" <=> pc[u] = "out"
  BY <1>1, SignalSteps DEF QueueTypeOK, Waiting
<1>3. MutexOwner'
  BY <1>2, WorkQueueAssumption DEF MutexOwner, Get, Threads
<1>4. count > 0 /\ head = Slot(0)
  BY WorkQueueAssumption DEF Get, Empty, QueueTypeOK, Slot
<1>5. head' = (IF head + 1 < Capacity THEN head + 1 ELSE 0)
  BY NextSlotWraps DEF Get, QueueTypeOK
<1>6. \A i \in 0 .. count - 1 : Slot(i)' = Slot(i + 1)
  BY <1>5, WorkQueueAssumption DEF Slot, QueueTypeOK
<1>7. hand' \in [Threads -> Items \cup {NoItem}]
  BY <1>4 DEF Get, QueueTypeOK
<1>8. QueueTypeOK'
  BY <1>2, <1>4, <1>5, <1>7, WorkQueueAssumption DEF Get, QueueTypeOK
<1>9. QueueLayout'
  <2>1. tail' = Slot(count)'
    BY <1>4, <1>5, WorkQueueAssumption DEF Get, QueueLayout, QueueTypeOK, Slot
  <2>2. \A i \in 0 .. count' - 1 : items'[Slot(i)'] \in Items
    BY <1>4, <1>6 DEF Get, QueueLayout, QueueTypeOK
  <2> QED  BY <2>1, <2>2 DEF QueueLayout
<1>10. Hands'
  BY <1>2, WorkQueueAssumption DEF Hands, Get, QueueTypeOK, Threads
<1> QED  BY <1>3, <1>4, <1>8, <1>9, <1>10 DEF Get

(* The steps that leave the array alone. *)
LEMMA OtherStepsKeepInv ==
  ASSUME QueueInv,
         \/ \E p \in Producers, item \in Items : CallEnqueue(p, item)
         \/ \E c \in Consumers : CallDequeue(c)
         \/ \E t \in Threads : Lock(t) \/ WakeUp(t)
         \/ \E p \in Producers : EnqueueWait(p)
         \/ \E c \in Consumers : DequeueWait(c)
         \/ UNCHANGED queueVars
  PROVE  QueueInv'
<1> USE DEF QueueInv
<1>1. UNCHANGED array
  BY DEF CallEnqueue, CallDequeue, Lock, WakeUp, EnqueueWait, DequeueWait, Wait, queueVars
<1>2. QueueLayout'
  BY <1>1 DEF QueueLayout, array, Slot
<1>3. QueueTypeOK' /\ MutexOwner' /\ Hands'
  <2>1. CASE \E p \in Producers, item \in Items : CallEnqueue(p, item)
    BY <1>1, <2>1, WorkQueueAssumption
    DEF CallEnqueue, QueueTypeOK, MutexOwner, Hands, Threads, array
  <2>2. CASE \E c \in Consumers : CallDequeue(c)
    BY <1>1, <2>2, WorkQueueAssumption
    DEF CallDequeue, QueueTypeOK, MutexOwner, Hands, Threads, array
  <2>3. CASE \E t \in Threads : Lock(t)
    BY <1>1, <2>3, WorkQueueAssumption
    DEF Lock, QueueTypeOK, MutexOwner, Hands, Threads, array
  <2>4. CASE \E t \in Threads : WakeUp(t)
    BY <1>1, <2>4, WorkQueueAssumption
    DEF WakeUp, QueueTypeOK, MutexOwner, Hands, Threads, array
  <2>5. CASE \E t \in Threads : pc[t] = "in" /\ Wait(t)
    BY <1>1, <2>5, WorkQueueAssumption
    DEF Wait, QueueTypeOK, MutexOwner, Hands, Threads, array
  <2>6. CASE UNCHANGED queueVars
    BY <1>1, <2>6 DEF queueVars, QueueTypeOK, MutexOwner, Hands, array
  <2> QED  BY <2>1, <2>2, <2>3, <2>4, <2>5, <2>6 DEF EnqueueWait, DequeueWait, Threads
<1> QED  BY <1>2, <1>3

LEMMA InitInv == QueueInit => QueueInv
BY WorkQueueAssumption
DEF QueueInit, QueueInv, QueueTypeOK, QueueLayout, MutexOwner, Hands, Slot, Threads

LEMMA NextKeepsInv == QueueInv /\ [QueueNext]_queueVars => QueueInv'
BY PutKeepsInv, GetKeepsInv, OtherStepsKeepInv
DEF QueueNext, EnqueueStep, DequeueStep, Threads

(* The indices stay in the array, the counter within the capacity, and     *)
(* each thread where the code can be.                                      *)
THEOREM QueueTypeCorrect == QueueSpec => []QueueTypeOK
BY InitInv, NextKeepsInv, PTL DEF QueueSpec, QueueInv

(* Counter and indices agree, and an item is in every slot between them:   *)
(* dequeue_work never reads a slot that enqueue_work has not written.      *)
THEOREM QueueLayoutCorrect == QueueSpec => []QueueLayout
BY InitInv, NextKeepsInv, PTL DEF QueueSpec, QueueInv
-----------------------------------------------------------------------------
LEMMA ComingFinite ==
  ASSUME NEW threads \in {Producers, Consumers}
  PROVE  IsFiniteSet(Coming(threads)) /\ Cardinality(Coming(threads)) \in Nat
BY WorkQueueAssumption, FS_Subset, FS_CardinalityType DEF Coming

(* One thread more, or one less, that is on its way. *)
LEMMA ComingGrows ==
  ASSUME NEW threads \in {Producers, Consumers}, NEW t \in threads,
         t \notin Coming(threads), Coming(threads)' = Coming(threads) \cup {t}
  PROVE  Cardinality(Coming(threads)') = Cardinality(Coming(threads)) + 1
BY ComingFinite, FS_AddElement

LEMMA ComingShrinks ==
  ASSUME NEW threads \in {Producers, Consumers}, NEW t \in threads,
         t \in Coming(threads), Coming(threads)' = Coming(threads) \ {t}
  PROVE  Cardinality(Coming(threads)') = Cardinality(Coming(threads)) - 1
BY ComingFinite, FS_RemoveElement

(* A call that puts or takes an item: the caller leaves its side's threads *)
(* on their way and a waiting thread of the other side joins its own.      *)
LEMMA SignalMoves ==
  ASSUME QueueInv, NEW t \in Threads,
         NEW own \in {Producers, Consumers}, NEW other \in {Producers, Consumers},
         own # other, t \in own, pc[t] = "in", SignalAndReturn(t, other)
  PROVE  /\ Waiting(own)' = Waiting(own)
         /\ Cardinality(Coming(own)') = Cardinality(Coming(own)) - 1
         /\ Waiting(other)' # {} =>
               /\ Waiting(other) # {}
               /\ Cardinality(Coming(other)') = Cardinality(Coming(other)) + 1
<1>1. own \subseteq Threads /\ other \subseteq Threads /\ own \cap other = {}
  BY WorkQueueAssumption DEF Threads
<1>2. /\ pc \in [Threads -> {"out", "lock", "in", "wait"}]
      /\ \/ Waiting(other) = {} /\ pc' = [pc EXCEPT ![t] = "out"]
         \/ \E w \in Waiting(other) : pc' = [pc EXCEPT ![t] = "out", ![w] = "lock"]
  BY <1>1, SignalSteps DEF QueueInv, QueueTypeOK
<1>3. \A u \in own \ {t} : pc'[u] = pc[u]
  BY <1>1, <1>2 DEF Waiting
<1>4. pc'[t] = "out"
  BY <1>1, <1>2 DEF Waiting
<1>5. Waiting(own)' = Waiting(own) /\ Coming(own)' = Coming(own) \ {t} /\ t \in Coming(own)
  BY <1>3, <1>4 DEF Waiting, Coming
<1>6. ASSUME Waiting(other)' # {}
      PROVE  /\ Waiting(other) # {}
             /\ Cardinality(Coming(other)') = Cardinality(Coming(other)) + 1
  <2>1. Waiting(other) # {}
    BY <1>1, <1>2, <1>6 DEF Waiting
  <2>2. PICK w \in Waiting(other) : pc' = [pc EXCEPT ![t] = "out", ![w] = "lock"]
    BY <1>2, <2>1
  <2>3. w \in other /\ w \notin Coming(other)
    BY DEF Waiting, Coming
  <2>4. Coming(other)' = Coming(other) \cup {w}
    BY <1>1, <1>2, <2>2, <2>3 DEF Coming
  <2> QED  BY <2>1, <2>3, <2>4, ComingGrows
<1> QED  BY <1>5, <1>6, ComingShrinks

(* A step after which no thread has begun to wait and none has left its    *)
(* way keeps the bound; a thread begins to wait when there is nothing for  *)
(* its side to do.                                                         *)
LEMMA CallKeepsComing ==
  ASSUME QueueInv, NEW t \in Threads, NEW threads \in {Producers, Consumers},
         NEW from \in {"out", "wait"}, pc[t] = from, pc' = [pc EXCEPT ![t] = "lock"]
  PROVE  /\ Waiting(threads)' \subseteq Waiting(threads)
         /\ Cardinality(Coming(threads)') >= Cardinality(Coming(threads))
<1>1. threads \subseteq Threads /\ pc \in [Threads -> {"out", "lock", "in", "wait"}]
  BY DEF QueueInv, QueueTypeOK, Threads
<1>2. Waiting(threads)' \subseteq Waiting(threads)
  BY <1>1 DEF Waiting
<1>3. CASE t \in threads
  <2>1. Coming(threads)' = Coming(threads) \cup {t} /\ t \notin Coming(threads)
    BY <1>1, <1>3 DEF Coming
  <2>2. Cardinality(Coming(threads)') = Cardinality(Coming(threads)) + 1
    BY <1>3, <2>1, ComingGrows
  <2>3. Cardinality(Coming(threads)) \in Nat
    BY ComingFinite
  <2> QED  BY <1>2, <2>2, <2>3
<1>4. CASE t \notin threads
  <2>1. Coming(threads)' = Coming(threads)
    BY <1>1, <1>4 DEF Coming
  <2> QED  BY <1>2, <2>1, ComingFinite
<1> QED  BY <1>3, <1>4

LEMMA WaitKeepsOther ==
  ASSUME QueueInv, NEW t \in Threads, NEW other \in {Producers, Consumers},
         t \notin other, Wait(t)
  PROVE  Waiting(other)' = Waiting(other) /\ Coming(other)' = Coming(other)
BY DEF QueueInv, QueueTypeOK, Threads, Wait, Waiting, Coming

LEMMA NextKeepsWakeups ==
  ASSUME QueueInv, NoLostWakeup, [QueueNext]_queueVars
  PROVE  NoLostWakeup'
<1> USE WorkQueueAssumption DEF NoLostWakeup
<1>1. ASSUME NEW p \in Producers, Put(p)  PROVE NoLostWakeup'
  <2>1. count' = count + 1 /\ count \in Nat /\ p \in Threads
    BY <1>1 DEF Put, QueueInv, QueueTypeOK, Threads
  <2>2. /\ Waiting(Producers)' = Waiting(Producers)
        /\ Cardinality(Coming(Producers)') = Cardinality(Coming(Producers)) - 1
        /\ Waiting(Consumers)' # {} =>
              /\ Waiting(Consumers) # {}
              /\ Cardinality(Coming(Consumers)') = Cardinality(Coming(Consumers)) + 1
    BY <1>1, <2>1, SignalMoves DEF Put
  <2> QED  BY <2>1, <2>2, ComingFinite
<1>2. ASSUME NEW c \in Consumers, Get(c)  PROVE NoLostWakeup'
  <2>1. count' = count - 1 /\ count \in Nat /\ c \in Threads
    BY <1>2 DEF Get, QueueInv, QueueTypeOK, Threads
  <2>2. /\ Waiting(Consumers)' = Waiting(Consumers)
        /\ Cardinality(Coming(Consumers)') = Cardinality(Coming(Consumers)) - 1
        /\ Waiting(Producers)' # {} =>
              /\ Waiting(Producers) # {}
              /\ Cardinality(Coming(Producers)') = Cardinality(Coming(Producers)) + 1
    BY <1>2, <2>1, SignalMoves DEF Get
  <2> QED  BY <2>1, <2>2, ComingFinite
<1>3. ASSUME NEW p \in Producers, EnqueueWait(p)  PROVE NoLostWakeup'
  <2>1. count' = Capacity /\ UNCHANGED count
    BY <1>3 DEF EnqueueWait, Full, Wait, array
  <2>2. Waiting(Consumers)' = Waiting(Consumers) /\ Coming(Consumers)' = Coming(Consumers)
    BY <1>3, WaitKeepsOther DEF EnqueueWait, Threads
  <2>3. Cardinality(Coming(Producers)') \in Nat
    BY FS_Subset, FS_CardinalityType DEF Coming
  <2> QED  BY <2>1, <2>2, <2>3
<1>4. ASSUME NEW c \in Consumers, DequeueWait(c)  PROVE NoLostWakeup'
  <2>1. count' = 0 /\ UNCHANGED count
    BY <1>4 DEF DequeueWait, Empty, Wait, array
  <2>2. Waiting(Producers)' = Waiting(Producers) /\ Coming(Producers)' = Coming(Producers)
    BY <1>4, WaitKeepsOther DEF DequeueWait, Threads
  <2>3. Cardinality(Coming(Consumers)') \in Nat
    BY FS_Subset, FS_CardinalityType DEF Coming
  <2> QED  BY <2>1, <2>2, <2>3
<1>5. ASSUME NEW t \in Threads, NEW from \in {"out", "wait"},
             pc[t] = from, pc' = [pc EXCEPT ![t] = "lock"], UNCHANGED count
      PROVE  NoLostWakeup'
  <2>1. /\ Waiting(Producers)' \subseteq Waiting(Producers)
        /\ Cardinality(Coming(Producers)') >= Cardinality(Coming(Producers))
        /\ Waiting(Consumers)' \subseteq Waiting(Consumers)
        /\ Cardinality(Coming(Consumers)') >= Cardinality(Coming(Consumers))
    BY <1>5, CallKeepsComing
  <2>2. /\ Cardinality(Coming(Producers)') \in Nat /\ Cardinality(Coming(Consumers)') \in Nat
        /\ Cardinality(Coming(Producers)) \in Nat /\ Cardinality(Coming(Consumers)) \in Nat
    BY FS_Subset, FS_CardinalityType DEF Coming
  <2>3. count \in Nat
    BY DEF QueueInv, QueueTypeOK
  <2> QED  BY <1>5, <2>1, <2>2, <2>3
<1>6. ASSUME NEW t \in Threads, Lock(t)  PROVE NoLostWakeup'
  <2>1. Coming(Producers)' = Coming(Producers) /\ Coming(Consumers)' = Coming(Consumers)
    BY <1>6 DEF Lock, Coming, QueueInv, QueueTypeOK, Threads
  <2>2. Waiting(Producers)' = Waiting(Producers) /\ Waiting(Consumers)' = Waiting(Consumers)
    BY <1>6 DEF Lock, Waiting, QueueInv, QueueTypeOK, Threads
  <2> QED  BY <1>6, <2>1, <2>2 DEF Lock, array
<1>7. CASE UNCHANGED queueVars
  BY <1>7 DEF queueVars, array, Waiting, Coming
<1>8. CASE QueueNext
  <2>1. CASE \E p \in Producers, item \in Items : CallEnqueue(p, item)
    BY <1>5, <2>1 DEF CallEnqueue, array, Threads
  <2>2. CASE \E c \in Consumers : CallDequeue(c)
    BY <1>5, <2>2 DEF CallDequeue, array, Threads
  <2>3. CASE \E t \in Threads : WakeUp(t)
    BY <1>5, <2>3 DEF WakeUp, array
  <2> QED  BY <1>1, <1>2, <1>3, <1>4, <1>6, <1>8, <2>1, <2>2, <2>3
           DEF QueueNext, EnqueueStep, DequeueStep, Threads
<1> QED  BY <1>7, <1>8

LEMMA InitWakeups == QueueInit => NoLostWakeup
BY DEF QueueInit, NoLostWakeup, Waiting, Threads

(* One pthread_cond_signal per call is enough, for any number of threads:  *)
(* while consumers wait, no item lies in the queue that has no consumer    *)
(* coming for it, and likewise for producers and room.                     *)
THEOREM NoWakeupIsLost == QueueSpec => []NoLostWakeup
<1>1. QueueInit => QueueInv /\ NoLostWakeup
  BY InitInv, InitWakeups
<1>2. QueueInv /\ NoLostWakeup /\ [QueueNext]_queueVars => (QueueInv /\ NoLostWakeup)'
  BY NextKeepsInv, NextKeepsWakeups
<1> QED  BY <1>1, <1>2, PTL DEF QueueSpec
-----------------------------------------------------------------------------
(* The queue that the array stands for. *)
Content == [i \in 1 .. count |-> items[Slot(i - 1)]]

LEMMA ContentType ==
  ASSUME QueueInv
  PROVE  /\ Content \in Seq(Items) /\ Len(Content) = count /\ DOMAIN Content = 1 .. count
         /\ \A i \in 1 .. count : Content[i] = items[Slot(i - 1)]
<1>1. count \in Nat /\ \A i \in 1 .. count : items[Slot(i - 1)] \in Items
  BY DEF QueueInv, QueueTypeOK, QueueLayout
<1> QED  BY <1>1 DEF Content

LEMMA PutAppends ==
  ASSUME QueueInv, NEW p \in Producers, Put(p)
  PROVE  Content' = Append(Content, hand[p])
<1>0. QueueInv' /\ hand[p] \in Items
  BY PutKeepsInv
<1>1. QueueInv' /\ hand[p] \in Items /\ count < Capacity
  BY <1>0, WorkQueueAssumption DEF QueueInv, QueueTypeOK, Put, Full
<1>2. /\ count' = count + 1 /\ head' = head /\ tail = Slot(count)
      /\ items' = [items EXCEPT ![tail] = hand[p]]
      /\ count \in Nat /\ head \in 0 .. Capacity - 1 /\ tail \in 0 .. Capacity - 1
      /\ items \in [0 .. Capacity - 1 -> Items \cup {NoItem}]
  BY DEF Put, QueueInv, QueueTypeOK, QueueLayout
<1>3. \A i \in 1 .. count + 1 : Slot(i - 1)' = Slot(i - 1) /\ Slot(i - 1) \in 0 .. Capacity - 1
  BY <1>1, <1>2, WorkQueueAssumption DEF Slot
<1>4. \A i \in 1 .. count : Slot(i - 1) # tail
  BY <1>1, <1>2, WorkQueueAssumption DEF Slot
<1>5. \A i \in 1 .. count + 1 :
        Content'[i] = IF i <= count THEN Content[i] ELSE hand[p]
  <2> SUFFICES ASSUME NEW i \in 1 .. count + 1
               PROVE  Content'[i] = IF i <= count THEN Content[i] ELSE hand[p]
    OBVIOUS
  <2>1. Content'[i] = items'[Slot(i - 1)]
    BY <1>2, <1>3 DEF Content
  <2>2. CASE i <= count
    BY <1>2, <1>3, <1>4, <2>1, <2>2 DEF Content
  <2>3. CASE i = count + 1
    BY <1>2, <1>3, <2>1, <2>3
  <2> QED  BY <1>2, <2>2, <2>3
<1>6. Content' \in Seq(Items) /\ Len(Content') = count + 1
  <2>1. QueueTypeOK' /\ QueueLayout'
    BY <1>1 DEF QueueInv
  <2>3. \A j \in 0 .. count' - 1 : items'[Slot(j)'] \in Items
    BY <2>1 DEF QueueLayout
  <2>4. ASSUME NEW i \in 1 .. count + 1  PROVE items'[Slot(i - 1)'] \in Items
    BY <1>2, <2>3
  <2>5. Content' = [i \in 1 .. count' |-> items'[Slot(i - 1)']]
    BY DEF Content, Slot
  <2> QED  BY <1>2, <2>4, <2>5 DEF Slot
<1>7. Append(Content, hand[p]) \in Seq(Items) /\ Len(Append(Content, hand[p])) = count + 1
  BY <1>1, ContentType
<1>8. \A i \in 1 .. count + 1 :
        Append(Content, hand[p])[i] = IF i <= count THEN Content[i] ELSE hand[p]
  BY <1>1, <1>2, ContentType
<1> QED  BY <1>5, <1>6, <1>7, <1>8

LEMMA GetTakesHead ==
  ASSUME QueueInv, NEW c \in Consumers, Get(c)
  PROVE  /\ Content # <<>> /\ Content' = Tail(Content)
         /\ hand' = [hand EXCEPT ![c] = Head(Content)]
<1>1. QueueInv' /\ hand' = [hand EXCEPT ![c] = items[Slot(0)]]
  BY GetKeepsInv
<1>2. /\ count' = count - 1 /\ items' = items /\ count \in Nat \ {0} /\ count <= Capacity
      /\ head' = (IF head + 1 < Capacity THEN head + 1 ELSE 0)
      /\ head \in 0 .. Capacity - 1
  BY NextSlotWraps DEF Get, Empty, QueueInv, QueueTypeOK
<1>3. \A i \in 1 .. count - 1 : Slot(i - 1)' = Slot(i)
  BY <1>2, WorkQueueAssumption DEF Slot
<1>4. Content \in Seq(Items) /\ Len(Content) = count /\ Head(Content) = items[Slot(0)]
  BY <1>2, ContentType
<1>5. \A i \in 1 .. count - 1 : Content'[i] = Content[i + 1]
  BY <1>2, <1>3 DEF Content
<1>6. Content' \in Seq(Items) /\ Len(Content') = count - 1
  <2>1. QueueTypeOK' /\ QueueLayout'
    BY <1>1 DEF QueueInv
  <2>3. \A j \in 0 .. count' - 1 : items'[Slot(j)'] \in Items
    BY <2>1 DEF QueueLayout
  <2>4. ASSUME NEW i \in 1 .. count - 1  PROVE items'[Slot(i - 1)'] \in Items
    BY <1>2, <2>3
  <2>5. Content' = [i \in 1 .. count' |-> items'[Slot(i - 1)']]
    BY DEF Content, Slot
  <2> QED  BY <1>2, <2>4, <2>5 DEF Slot
<1>7. /\ Tail(Content) \in Seq(Items) /\ Len(Tail(Content)) = count - 1
      /\ \A i \in 1 .. count - 1 : Tail(Content)[i] = Content[i + 1]
  BY <1>2, <1>4
<1>8. Content' = Tail(Content)
  BY <1>5, <1>6, <1>7
<1> QED  BY <1>1, <1>2, <1>4, <1>8

LEMMA StepImplementsFifo ==
  ASSUME QueueInv, [QueueNext]_queueVars
  PROVE  [Fifo!Next]_<<Content, hand>>
<1>1. ASSUME NEW p \in Producers, Put(p)  PROVE Fifo!Next
  <2>0. hand[p] \in Items /\ Len(Content) = count
    BY <1>1, PutKeepsInv, ContentType
  <2>1. hand[p] # NoItem /\ Len(Content) < Capacity
    BY <1>1, <2>0, WorkQueueAssumption DEF Put, Full, QueueInv, QueueTypeOK
  <2>2. Fifo!Put(p)
    BY <1>1, <2>1, PutAppends DEF Fifo!Put, Put, Content
  <2> QED  BY <2>2 DEF Fifo!Next
<1>2. ASSUME NEW c \in Consumers, Get(c)  PROVE Fifo!Next
  <2>1. hand[c] = NoItem
    BY <1>2 DEF Get, QueueInv, Hands
  <2>2. Fifo!Get(c)
    BY <1>2, <2>1, GetTakesHead DEF Fifo!Get, Content
  <2> QED  BY <2>2 DEF Fifo!Next
<1>3. ASSUME NEW p \in Producers, NEW item \in Items, CallEnqueue(p, item)  PROVE Fifo!Next
  <2>1. Content' = Content
    BY <1>3 DEF CallEnqueue, array, Content, Slot
  <2>2. hand[p] = NoItem
    BY <1>3 DEF CallEnqueue, QueueInv, Hands
  <2>3. Fifo!Offer(p, item)
    BY <1>3, <2>1, <2>2 DEF Fifo!Offer, CallEnqueue, Content
  <2> QED  BY <2>3 DEF Fifo!Next
<1>4. ASSUME NEW c \in Consumers, CallDequeue(c)  PROVE Fifo!Next
  <2>1. Content' = Content
    BY <1>4 DEF CallDequeue, array, Content, Slot
  <2>2. Fifo!Consume(c)
    BY <1>4, <2>1 DEF Fifo!Consume, CallDequeue, Content
  <2> QED  BY <2>2 DEF Fifo!Next
<1>5. ASSUME UNCHANGED <<array, hand>>  PROVE UNCHANGED <<Content, hand>>
  BY <1>5 DEF array, Content, Slot
<1>6. CASE \/ \E t \in Threads : Lock(t) \/ WakeUp(t)
           \/ \E p \in Producers : EnqueueWait(p)
           \/ \E c \in Consumers : DequeueWait(c)
           \/ UNCHANGED queueVars
  BY <1>5, <1>6 DEF Lock, WakeUp, EnqueueWait, DequeueWait, Wait, queueVars
<1> QED  BY <1>1, <1>2, <1>3, <1>4, <1>6 DEF QueueNext, EnqueueStep, DequeueStep, Threads

(* Whatever the capacity and the number of threads, enqueue_work and       *)
(* dequeue_work make a first-in first-out queue: no item is lost, taken    *)
(* twice or overtaken, and never more than capacity are in it.             *)
THEOREM QueueIsFifo == QueueSpec => RefinesFifo
<1>1. QueueInit => Fifo!Init
  <2>1. QueueInit => [i \in 1 .. count |-> items[Slot(i - 1)]] = <<>>
    BY DEF QueueInit
  <2> QED  BY <2>1 DEF QueueInit, Fifo!Init, Threads
<1>2. QueueInv /\ [QueueNext]_queueVars => [Fifo!Next]_<<Content, hand>>
  BY StepImplementsFifo
<1>3. QueueInit => QueueInv
  BY InitInv
<1>4. QueueInv /\ [QueueNext]_queueVars => QueueInv'
  BY NextKeepsInv
<1> QED  BY <1>1, <1>2, <1>3, <1>4, PTL DEF QueueSpec, RefinesFifo, Fifo!Spec, Content
-----------------------------------------------------------------------------
(* The file sender.                                                        *)
(* The engine runs once through the ring: it is idle until main writes     *)
(* TAILDESC, and while it runs it is at the packet after those sent.       *)
OnePass ==
  /\ main \in {"create", "reset", "curdesc", "dmacr", "tail"} =>
       ~active /\ ~busy /\ cur = 0 /\ sent = 0
  /\ active \/ busy => cur = sent

SenderTypeInv == SenderTypeOK /\ OnePass

(* The packets that the thread will count for what it has seen of IOC, and *)
(* for what is still to be seen.                                           *)
Owed == (IF ioc \/ thread = "clearIoc" THEN 1 ELSE 0) + (IF thread = "count" THEN 1 ELSE 0)

CountInv == bytesSent + Owed <= sent

(* Why the thread stops the engine and ends: all has been sent, or DMASR   *)
(* had the error bit.  Until then running is set.                          *)
StopInv ==
  /\ thread = "clearErr" => dmasr.err
  /\ thread \in {"stop", "stopFlag", "exited"} => sent = FilePackets \/ dmasr.err
  /\ thread # "exited" => running
  /\ main = "create" => thread = "none"
  /\ main = "done" => thread = "exited"
-----------------------------------------------------------------------------
LEMMA InitTypeInv == SenderInit => SenderTypeInv
<1> SUFFICES ASSUME SenderInit PROVE SenderTypeInv
  OBVIOUS
<1> USE SgChannelAssumption, Mm2sSenderAssumption DEF SenderInit, SgInit
<1>1. done \in [Desc -> BOOLEAN]
  OBVIOUS
<1>2. cur \in Desc
  BY DEF Desc
<1>3. Leftover \in BOOLEAN
  OBVIOUS
<1>4. {rs, cyclic, irqEn, active, busy, ioc, err, event} \subseteq BOOLEAN
  BY <1>3, ZenonT(30)
<1>5. dmasr \in [ioc : BOOLEAN, err : BOOLEAN]
  OBVIOUS
<1> QED  BY <1>1, <1>2, <1>4, <1>5 DEF SenderTypeInv, SenderTypeOK, SgTypeOK, OnePass

LEMMA MainKeepsTypes == SenderTypeInv /\ MainStep => SenderTypeInv'
<1> SUFFICES ASSUME SenderTypeInv, MainStep PROVE SenderTypeInv'
  OBVIOUS
<1> USE SgChannelAssumption, Mm2sSenderAssumption DEF SenderTypeInv, SenderTypeOK, SgTypeOK, OnePass,
        Main, threadVars, sgVars, sgControl, Desc
<1>1. CASE CreateThread
  BY <1>1 DEF CreateThread
<1>2. CASE ResetDma
  BY <1>2 DEF ResetDma, SgReset
<1>3. CASE SetCurDesc
  BY <1>3 DEF SetCurDesc, WriteCurDesc, Halted
<1>4. CASE RunDma
  BY <1>4 DEF RunDma, WriteDmacr, Notice, Line, IsCyclic
<1>5. CASE StartTail
  BY <1>5 DEF StartTail, WriteTailDesc
<1>6. CASE SetRunning
  BY <1>6 DEF SetRunning
<1>7. CASE Join
  BY <1>7 DEF Join
<1> QED  BY <1>1, <1>2, <1>3, <1>4, <1>5, <1>6, <1>7 DEF MainStep

LEMMA ThreadKeepsTypes == SenderTypeInv /\ ThreadStep => SenderTypeInv'
<1> SUFFICES ASSUME SenderTypeInv, ThreadStep PROVE SenderTypeInv'
  OBVIOUS
<1> USE SgChannelAssumption, Mm2sSenderAssumption DEF SenderTypeInv, SenderTypeOK, SgTypeOK, OnePass,
        Thread, sgVars, sgControl, Desc
<1>1. CASE TestRunning
  BY <1>1 DEF TestRunning
<1>2. CASE PollEvent
  BY <1>2 DEF PollEvent, TakeEvent
<1>3. CASE PollTimeout
  BY <1>3 DEF PollTimeout
<1>4. CASE ReadStatus
  BY <1>4 DEF ReadStatus
<1>5. CASE ClearIoc
  BY <1>5 DEF ClearIoc, ClearIrq
<1>6. CASE CountPacket
  BY <1>6 DEF CountPacket, Counted
<1>7. CASE ClearError
  BY <1>7 DEF ClearError, ClearIrq
<1>8. CASE StopDma
  BY <1>8 DEF StopDma, WriteDmacr, Notice, Line
<1>9. CASE StopFlag
  BY <1>9 DEF StopFlag
<1> QED  BY <1>1, <1>2, <1>3, <1>4, <1>5, <1>6, <1>7, <1>8, <1>9 DEF ThreadStep

(* The descriptor after this one, round the ring. *)
LEMMA NextInRing ==
  ASSUME NEW d \in Desc
  PROVE  (d + 1) % Descs = IF d = Last THEN 0 ELSE d + 1
BY SgChannelAssumption DEF Desc, Last

LEMMA EngineKeepsTypes == SenderTypeInv /\ EngineStep => SenderTypeInv'
<1> SUFFICES ASSUME SenderTypeInv, EngineStep PROVE SenderTypeInv'
  OBVIOUS
<1> USE SgChannelAssumption, Mm2sSenderAssumption DEF SenderTypeInv, SenderTypeOK, SgTypeOK, OnePass,
        threadVars, sgControl, Desc
<1>1. CASE SendBegin
  BY <1>1 DEF SendBegin, Begin
<1>2. CASE SendEnd
  <2>1. cur' = IF cur = Last THEN 0 ELSE cur + 1
    BY <1>2, NextInRing DEF SendEnd, Finish
  <2>2. /\ {rs', cyclic', irqEn', active', busy', ioc', err', event'} \subseteq BOOLEAN
        /\ done' \in [Desc -> BOOLEAN]
    BY <1>2 DEF SendEnd, Finish, Notice, Line
  <2>3. cur = sent /\ sent' = sent + 1 /\ busy' = FALSE /\ (active' => cur # Last)
    BY <1>2 DEF SendEnd, Finish
  <2>4. main' = main /\ main \notin {"create", "reset", "curdesc", "dmacr", "tail"}
    BY <1>2 DEF SendEnd, Finish
  <2>5. cur' \in Desc /\ sent' \in 0 .. Descs /\ (active' => cur' = sent')
    BY <2>1, <2>3 DEF Last
  <2> QED  BY <1>2, <2>2, <2>3, <2>4, <2>5 DEF SendEnd
<1>3. CASE SendError
  BY <1>3 DEF SendError, Notice, Line
<1> QED  BY <1>1, <1>2, <1>3 DEF EngineStep

LEMMA NextKeepsTypes == SenderTypeInv /\ [SenderNext]_senderVars => SenderTypeInv'
<1>1. SenderTypeInv /\ UNCHANGED senderVars => SenderTypeInv'
  BY DEF senderVars, sgVars, threadVars, SenderTypeInv, SenderTypeOK, SgTypeOK, OnePass
<1> QED  BY <1>1, MainKeepsTypes, ThreadKeepsTypes, EngineKeepsTypes DEF SenderNext

(* Types, and that neither the engine nor the count ever passes the end of *)
(* the file.                                                               *)
THEOREM SenderTypeCorrect == SenderSpec => []SenderTypeOK
BY InitTypeInv, NextKeepsTypes, PTL DEF SenderSpec, SenderTypeInv
-----------------------------------------------------------------------------
LEMMA NextKeepsCount ==
  ASSUME SenderTypeInv, CountInv, [SenderNext]_senderVars
  PROVE  CountInv'
<1> USE DEF SenderTypeInv, SenderTypeOK, SgTypeOK, CountInv, Owed
<1>1. CASE MainStep
  BY <1>1
  DEF MainStep, CreateThread, ResetDma, SetCurDesc, RunDma, StartTail, SetRunning, Join, Main,
      SgReset, WriteCurDesc, WriteDmacr, WriteTailDesc, threadVars, sgVars
<1>2. CASE ThreadStep
  <2> USE DEF Thread, sgVars
  <2>1. CASE CountPacket
    BY <1>2, <2>1, Mm2sSenderAssumption DEF CountPacket, Counted
  <2>2. CASE TestRunning \/ PollEvent \/ PollTimeout
    BY <2>2 DEF TestRunning, PollEvent, PollTimeout, TakeEvent
  <2>3. CASE ReadStatus
    BY <2>3 DEF ReadStatus
  <2>4. CASE ClearIoc
    <3>1. ~ioc' /\ thread = "clearIoc" /\ thread' = "count"
      BY <2>4 DEF ClearIoc, ClearIrq
    <3> QED  BY <2>4, <3>1 DEF ClearIoc
  <2>5. CASE ClearError
    BY <2>5 DEF ClearError, ClearIrq
  <2>6. CASE StopDma \/ StopFlag
    BY <2>6 DEF StopDma, StopFlag, WriteDmacr
  <2> QED  BY <1>2, <2>1, <2>2, <2>3, <2>4, <2>5, <2>6 DEF ThreadStep
<1>3. CASE EngineStep
  BY <1>3, SgChannelAssumption
  DEF EngineStep, SendBegin, SendEnd, SendError, Begin, Finish, threadVars
<1>4. CASE UNCHANGED senderVars
  BY <1>4 DEF senderVars, sgVars, threadVars
<1> QED  BY <1>1, <1>2, <1>3, <1>4 DEF SenderNext

LEMMA NextKeepsStop ==
  ASSUME SenderTypeInv, CountInv, StopInv, [SenderNext]_senderVars
  PROVE  StopInv'
<1> USE DEF SenderTypeInv, SenderTypeOK, StopInv
<1>1. CASE MainStep
  BY <1>1
  DEF MainStep, CreateThread, ResetDma, SetCurDesc, RunDma, StartTail, SetRunning, Join, Main,
      threadVars
<1>2. CASE ThreadStep
  <2> USE DEF Thread
  <2>1. CASE CountPacket
    <3>1. AllCounted => sent = FilePackets
      BY <2>1, Mm2sSenderAssumption, SgChannelAssumption
      DEF CountPacket, AllCounted, Counted, CountInv, Owed
    <3> QED  BY <2>1, <3>1 DEF CountPacket
  <2>2. CASE TestRunning \/ PollEvent \/ PollTimeout
    BY <2>2 DEF TestRunning, PollEvent, PollTimeout
  <2>3. CASE ReadStatus
    BY <2>3 DEF ReadStatus
  <2>4. CASE ClearIoc \/ ClearError
    BY <2>4 DEF ClearIoc, ClearError
  <2>5. CASE StopDma \/ StopFlag
    BY <2>5 DEF StopDma, StopFlag
  <2> QED  BY <1>2, <2>1, <2>2, <2>3, <2>4, <2>5 DEF ThreadStep
<1>3. CASE EngineStep
  <2>1. SendEnd => sent < FilePackets
    BY SgChannelAssumption, Mm2sSenderAssumption DEF SendEnd, Finish, OnePass, SgTypeOK, Desc
  <2> QED  BY <1>3, <2>1 DEF EngineStep, SendBegin, SendEnd, SendError, threadVars
<1>4. CASE UNCHANGED senderVars
  BY <1>4 DEF senderVars, threadVars
<1> QED  BY <1>1, <1>2, <1>3, <1>4 DEF SenderNext

LEMMA InitCountStop ==
  ASSUME ~Leftover, SenderInit
  PROVE  CountInv /\ StopInv
<1>1. Leftover = FALSE
  BY Mm2sSenderAssumption
<1>2. ioc = FALSE
  BY <1>1 DEF SenderInit, SgInit
<1> QED  BY <1>2 DEF SenderInit, CountInv, Owed, StopInv

(* Without an interrupt of an earlier run, the thread never counts a       *)
(* packet that has not gone out: merged interrupts, the gap between the    *)
(* read and the clearing of DMASR and failing transfers only lose counts.  *)
THEOREM CountIsSafe ==
  ASSUME ~Leftover
  PROVE  SenderSpec => []NeverCountsAhead
<1>1. SenderInit => SenderTypeInv /\ CountInv
  BY InitTypeInv, InitCountStop
<1>2. SenderTypeInv /\ CountInv /\ [SenderNext]_senderVars => (SenderTypeInv /\ CountInv)'
  BY NextKeepsTypes, NextKeepsCount
<1>3. SenderTypeInv /\ CountInv => NeverCountsAhead
  BY DEF SenderTypeInv, SenderTypeOK, CountInv, Owed, NeverCountsAhead
<1> QED  BY <1>1, <1>2, <1>3, PTL DEF SenderSpec

(* Nor does it then stop the engine before the whole file has gone out,    *)
(* unless DMASR has told it that a transfer failed.                        *)
THEOREM StopIsSafe ==
  ASSUME ~Leftover
  PROVE  SenderSpec => []StopsAfterAll
<1> DEFINE SenderInv == SenderTypeInv /\ CountInv /\ StopInv
<1>1. SenderInit => SenderInv
  BY InitTypeInv, InitCountStop
<1>2. SenderInv /\ [SenderNext]_senderVars => SenderInv'
  BY NextKeepsTypes, NextKeepsCount, NextKeepsStop
<1>3. SenderInv => StopsAfterAll
  BY DEF StopInv, StopsAfterAll
<1> QED  BY <1>1, <1>2, <1>3, PTL DEF SenderSpec
=============================================================================
