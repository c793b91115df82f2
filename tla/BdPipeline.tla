----------------------------- MODULE BdPipeline -----------------------------
(***************************************************************************)
(* What the BD ring promises to the application, as xaxidma.h (BD Ring     *)
(* Management) draws it: every BD is in one of four queues, free,          *)
(* pre-work, work and post-work, and moves from the head of one to the     *)
(* tail of the next.  The engine completes the BDs of the work queue from  *)
(* its head; only completed ones leave it.  BdRing implements this.        *)
(***************************************************************************)
EXTENDS Integers, Sequences

CONSTANT N
VARIABLES free, preWork, work, done, postWork

queues == <<free, preWork, work, done, postWork>>

First(q, n) == SubSeq(q, 1, n)
Rest(q, n) == SubSeq(q, n + 1, Len(q))

AllFree ==
  /\ free = [i \in 1 .. N |-> i - 1]
  /\ preWork = <<>> /\ work = <<>> /\ done = 0 /\ postWork = <<>>

Create == AllFree'

Alloc(n) ==
  /\ n <= Len(free)
  /\ free' = Rest(free, n) /\ preWork' = preWork \o First(free, n)
  /\ UNCHANGED <<work, done, postWork>>

UnAlloc(n) ==
  /\ n <= Len(preWork)
  /\ LET kept == Len(preWork) - n
     IN preWork' = First(preWork, kept) /\ free' = Rest(preWork, kept) \o free
  /\ UNCHANGED <<work, done, postWork>>

ToHw(n) ==
  /\ n <= Len(preWork)
  /\ preWork' = Rest(preWork, n) /\ work' = work \o First(preWork, n)
  /\ UNCHANGED <<free, done, postWork>>

Complete ==
  /\ done < Len(work)
  /\ done' = done + 1
  /\ UNCHANGED <<free, preWork, work, postWork>>

FromHw(n) ==
  /\ n <= done
  /\ work' = Rest(work, n) /\ postWork' = postWork \o First(work, n)
  /\ done' = done - n
  /\ UNCHANGED <<free, preWork>>

Free(n) ==
  /\ n <= Len(postWork)
  /\ postWork' = Rest(postWork, n) /\ free' = free \o First(postWork, n)
  /\ UNCHANGED <<preWork, work, done>>

Next ==
  \/ Create
  \/ Complete
  \/ \E n \in 1 .. N : Alloc(n) \/ UnAlloc(n) \/ ToHw(n) \/ FromHw(n) \/ Free(n)

Spec == AllFree /\ [][Next]_queues
=============================================================================
