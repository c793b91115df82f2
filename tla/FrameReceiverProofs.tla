------------------------- MODULE FrameReceiverProofs -------------------------
(***************************************************************************)
(* Proofs about the frame receiver for every ring, stream and queue: when  *)
(* no read of a buffer fails, no segment gets into two frames; and when,   *)
(* besides, no segment completes in the middle of a scan, each frame is a  *)
(* frame of the stream, whole, and the frames have the stream's order.     *)
(***************************************************************************)
EXTENDS FrameReceiver, TLAPS

Frames == [index : Nat, segs : SUBSET Desc]
Clean == "read" \notin world.faults
Paced == world.pace # "free"

(* The frames that have been assembled and not been lost since.            *)
Underway == IF pc[EventThread] = "out" THEN {} ELSE {hand[EventThread]}
Made == {files[k] : k \in DOMAIN files} \cup InHand \cup Queued \cup Underway

(* The queue holds frames; its own layout is as AxidmaProofs has it.       *)
QueueShape ==
  /\ items \in [0 .. Capacity - 1 -> Frames \cup {NoItem}]
  /\ head \in 0 .. Capacity - 1 /\ tail \in 0 .. Capacity - 1
  /\ count \in 0 .. Capacity /\ tail = Slot(count)
  /\ pc \in [Threads -> {"out", "lock", "in", "wait"}]
  /\ hand \in [Threads -> Frames \cup {NoItem}]
  /\ pc[EventThread] = "out" => hand[EventThread] = NoItem

ScanShape ==
  /\ eofs \subseteq Desc
  /\ at \in Desc /\ sof \in Desc \cup {None} /\ eof \in Desc \cup {None}
  /\ lastChecked \in Desc
  /\ bytes \in [Desc -> BOOLEAN] /\ processed \in [Desc -> BOOLEAN]
  /\ frameCount \in Nat /\ files \in Seq(Frames)

(* The engine completes the descriptors in their order. *)
InSequence ==
  /\ cur \in Desc /\ done \in [Desc -> BOOLEAN]
  /\ \A d \in Desc : d < cur => done[d]
  /\ \A d, e \in Desc : done[d] /\ e < d => done[e]

(* Frames of the stream are marked as a whole. *)
MarkedTogether ==
  /\ \A d \in Desc : processed[d] => done[d]
  /\ \A d, e \in Desc : e = d + 1 /\ d \notin eofs => processed[d] = processed[e]

(* From the start of a frame that a scan remembers to where it is nothing  *)
(* is marked, unless it has come back to the first descriptor: then all    *)
(* that it has seen since is marked.                                       *)
Behind ==
  /\ sof < at
  /\ \A d \in sof .. at - 1 : ~processed[d]
  /\ \A d \in sof .. at - 1 : d \in eofs => \A e \in Desc : d <= e => ~processed[e]
Wrapped == at <= sof /\ \A d \in 0 .. at - 1 : processed[d]

ScanKnows ==
  thread = "scan" /\ sof # None =>
    IsSof(sof) /\ done[sof] /\ ~processed[sof] /\ (Behind \/ Wrapped)

ReadyToAssemble ==
  thread = "assemble" =>
    /\ sof \in Desc /\ IsSof(sof)
    /\ eof \in eofs /\ sof <= eof /\ done[eof]
    /\ \A d \in sof .. eof : ~processed[d]

MadeApart ==
  /\ \A f \in Made :
       f \in Frames /\ f.index \in 1 .. frameCount /\ \A d \in f.segs : processed[d]
  /\ \A f, g \in Made : f # g => f.index # g.index /\ f.segs \cap g.segs = {}

(* No thread runs before main has created it.                              *)
Created == main = "create" => thread = "none"

CleanInv ==
  /\ Created /\ QueueShape /\ ScanShape /\ InSequence
  /\ MarkedTogether /\ ScanKnows /\ ReadyToAssemble /\ MadeApart

(* Between scans the first p descriptors are marked, and a frame starts    *)
(* at p: a scan finds it there or finds none.                              *)
MarkedUpTo(p) ==
  /\ \A d \in Desc : processed[d] <=> d < p
  /\ p = 0 \/ p - 1 \in eofs
  /\ IF thread = "assemble" THEN lastChecked \in {0, eof + 1} ELSE lastChecked \in {0, p}

ScanFinds(p) ==
  thread = "scan" =>
    IF sof = None THEN p = Descs \/ at <= p \/ ~done[p]
    ELSE sof = p /\ \A d \in p .. at - 1 : done[d] => bytes[d] /\ d \notin eofs

FrameFound(p) ==
  thread = "assemble" =>
    sof = p /\ bytes[eof] /\ \A d \in p .. eof - 1 : bytes[d] /\ d \notin eofs

MadeWhole ==
  \A f \in Made :
    /\ \E d \in Desc : f.segs = FrameOf(d)
    /\ \A g \in Made : f.index < g.index => \A d \in f.segs : \A e \in g.segs : d < e

PacedInv ==
  /\ \E p \in 0 .. Descs : MarkedUpTo(p) /\ ScanFinds(p) /\ FrameFound(p)
  /\ MadeWhole

FrameInv == Clean => CleanInv /\ (Paced => PacedInv)
-----------------------------------------------------------------------------
(* The queue, whose steps bring no frame that was not there.               *)
LEMMA TwoThreads ==
  /\ EventThread # WorkerThread /\ Threads = {EventThread, WorkerThread}
  /\ Producers = {EventThread} /\ Consumers = {WorkerThread}
  /\ Capacity \in Nat \ {0} /\ Descs \in Nat \ {0}
BY WorkQueueAssumption, FrameReceiverAssumption, SgChannelAssumption DEF Threads

LEMMA SlotInArray ==
  ASSUME QueueShape, NEW k \in 0 .. count - 1
  PROVE  Slot(k) \in 0 .. Capacity - 1 /\ (count < Capacity => Slot(k) # tail)
BY TwoThreads DEF QueueShape, Slot

(* A step that leaves array and hands alone. *)
LEMMA HandsKept ==
  ASSUME UNCHANGED <<array, hand, files>>,
         pc'[EventThread] = "out" => pc[EventThread] = "out",
         pc[EventThread] = "out" => pc'[EventThread] = "out",
         InHand' \subseteq InHand
  PROVE  Made' \subseteq Made
<1>1. Queued' = Queued
  BY DEF Queued, Slot, array
<1>2. Underway' = Underway
  BY DEF Underway
<1> QED  BY <1>1, <1>2 DEF Made

LEMMA PutKeepsMade ==
  ASSUME QueueShape, Put(EventThread), UNCHANGED <<worker, files>>
  PROVE  QueueShape' /\ Made' \subseteq Made
<1> USE TwoThreads DEF QueueShape
<1>1. /\ count < Capacity /\ head' = head /\ count' = count + 1
      /\ items' = [items EXCEPT ![tail] = hand[EventThread]]
      /\ hand' = [hand EXCEPT ![EventThread] = NoItem]
      /\ tail' = (IF tail + 1 < Capacity THEN tail + 1 ELSE 0)
      /\ pc[EventThread] = "in"
  <2>1. NextSlot(tail) = IF tail + 1 < Capacity THEN tail + 1 ELSE 0
    BY DEF NextSlot
  <2> QED  BY <2>1 DEF Put, Full
<1>2. pc' \in [Threads -> {"out", "lock", "in", "wait"}] /\ pc'[EventThread] = "out"
  BY DEF Put, SignalAndReturn, Waiting
<1>3. QueueShape'
  <2>1. tail' \in 0 .. Capacity - 1 /\ tail' = Slot(count)'
    BY <1>1 DEF Slot
  <2>2. items' \in [0 .. Capacity - 1 -> Frames \cup {NoItem}]
    BY <1>1 DEF Frames
  <2> QED  BY <1>1, <1>2, <2>1, <2>2 DEF Frames
<1>4. InHand' = InHand
  BY <1>1 DEF InHand
<1>5. Queued' \subseteq Queued \cup {hand[EventThread]}
  <2>1. \A k \in 0 .. count - 1 : items'[Slot(k)] \in Queued
    BY <1>1, SlotInArray DEF Queued
  <2>2. items'[Slot(count)] = hand[EventThread]
    BY <1>1
  <2>3. Queued' = {items'[Slot(k)] : k \in 0 .. count}
    BY <1>1 DEF Queued, Slot
  <2> QED  BY <1>1, <2>1, <2>2, <2>3
<1>6. Underway = {hand[EventThread]} /\ Underway' = {}
  BY <1>1, <1>2 DEF Underway
<1> QED  BY <1>3, <1>4, <1>5, <1>6 DEF Made

LEMMA GetKeepsMade ==
  ASSUME QueueShape, Get(WorkerThread), UNCHANGED files
  PROVE  QueueShape' /\ Made' \subseteq Made
<1> USE TwoThreads DEF QueueShape
<1>1. /\ count > 0 /\ items' = items /\ tail' = tail /\ count' = count - 1
      /\ hand' = [hand EXCEPT ![WorkerThread] = items[head]]
      /\ head' = (IF head + 1 < Capacity THEN head + 1 ELSE 0)
      /\ head = Slot(0)
  <2>1. NextSlot(head) = IF head + 1 < Capacity THEN head + 1 ELSE 0
    BY DEF NextSlot
  <2> QED  BY <2>1 DEF Get, Empty, Slot
<1>2. /\ pc' \in [Threads -> {"out", "lock", "in", "wait"}]
      /\ pc'[EventThread] = "out" => pc[EventThread] = "out"
      /\ pc[EventThread] = "out" => pc'[EventThread] = "out"
  BY DEF Get, SignalAndReturn, Waiting
<1>3. QueueShape'
  <2>1. tail' = Slot(count)'
    BY <1>1 DEF Slot
  <2>2. hand' \in [Threads -> Frames \cup {NoItem}]
    BY <1>1 DEF Frames
  <2> QED  BY <1>1, <1>2, <2>1, <2>2 DEF Frames
<1>4. InHand' \subseteq Queued
  BY <1>1 DEF InHand, Queued
<1>5. Queued' \subseteq Queued
  <2>1. \A k \in 0 .. count - 2 : Slot(k)' = Slot(k + 1)
    BY <1>1 DEF Slot
  <2> QED  BY <1>1, <2>1 DEF Queued
<1>6. Underway' = Underway
  BY <1>1, <1>2 DEF Underway
<1> QED  BY <1>3, <1>4, <1>5, <1>6 DEF Made

LEMMA EnqueueKeepsMade ==
  ASSUME QueueShape, Enqueue
  PROVE  QueueShape' /\ Made' \subseteq Made
<1> USE TwoThreads
<1>0. UNCHANGED <<worker, files>>
  BY DEF Enqueue, workerVars
<1>1. CASE Put(EventThread)
  BY <1>0, <1>1, PutKeepsMade
<1>2. CASE Lock(EventThread) \/ EnqueueWait(EventThread)
  <2>1. /\ UNCHANGED <<array, hand>> /\ pc' \in [Threads -> {"out", "lock", "in", "wait"}]
        /\ pc[EventThread] # "out" /\ pc'[EventThread] # "out"
    BY <1>2 DEF Lock, EnqueueWait, Wait, QueueShape
  <2>2. InHand' = InHand
    BY <1>0, <2>1 DEF InHand
  <2> QED  BY <1>0, <2>1, <2>2, HandsKept DEF QueueShape, array, Slot
<1> QED  BY <1>1, <1>2 DEF Enqueue, EnqueueStep

LEMMA WorkerKeepsMade ==
  ASSUME QueueShape, files \in Seq(Frames), WorkerStep,
         \A f \in Made : f \in Frames
  PROVE  QueueShape' /\ files' \in Seq(Frames) /\ Made' \subseteq Made
<1> USE TwoThreads
<1>1. CASE WorkerTest
  <2>1. files' = files /\ worker # "save" /\ worker' # "save"
    BY <1>1 DEF WorkerTest, Worker
  <2>2. InHand' = {}
    BY <2>1 DEF InHand
  <2>3. CASE UNCHANGED queueVars
    BY <2>1, <2>2, <2>3, HandsKept DEF QueueShape, queueVars, array, Slot
  <2>4. CASE CallDequeue(WorkerThread)
    <3>1. /\ UNCHANGED array /\ pc' = [pc EXCEPT ![WorkerThread] = "lock"]
          /\ hand' = [hand EXCEPT ![WorkerThread] = NoItem]
      BY <2>4 DEF CallDequeue
    <3>2. Queued' = Queued /\ Underway' = Underway
      BY <3>1 DEF Queued, Slot, array, Underway, QueueShape
    <3>3. hand' \in [Threads -> Frames \cup {NoItem}]
      BY <3>1 DEF QueueShape
    <3> QED  BY <2>1, <2>2, <3>1, <3>2, <3>3 DEF Made, QueueShape, array, Slot
  <2> QED  BY <1>1, <2>3, <2>4 DEF WorkerTest
<1>2. CASE Dequeue
  <2>0. files' = files /\ worker = "dequeue"
    BY <1>2 DEF Dequeue
  <2>1. CASE Get(WorkerThread)
    BY <2>0, <2>1, GetKeepsMade
  <2>2. CASE Lock(WorkerThread) \/ DequeueWait(WorkerThread)
    <3>1. /\ UNCHANGED <<array, hand>> /\ pc' \in [Threads -> {"out", "lock", "in", "wait"}]
          /\ pc'[WorkerThread] # "out" /\ pc'[EventThread] = pc[EventThread]
      BY <2>2 DEF Lock, DequeueWait, Wait, QueueShape
    <3>2. InHand' = {}
      BY <1>2, <3>1 DEF Dequeue, InHand
    <3> QED  BY <2>0, <3>1, <3>2, HandsKept DEF QueueShape, array, Slot
  <2> QED  BY <1>2, <2>1, <2>2 DEF Dequeue, DequeueStep
<1>3. CASE SaveFrame
  <2>1. /\ UNCHANGED queueVars /\ files' = Append(files, hand[WorkerThread])
        /\ worker = "save" /\ worker' = "test"
    BY <1>3 DEF SaveFrame, Worker
  <2>2. hand[WorkerThread] \in Made
    BY <2>1 DEF Made, InHand
  <2>3. files' \in Seq(Frames)
    BY <2>1, <2>2
  <2>4. \A k \in DOMAIN files' : files'[k] \in Made
    BY <2>1, <2>2 DEF Made
  <2>5. InHand' = {} /\ Queued' = Queued /\ Underway' = Underway
    BY <2>1 DEF InHand, Queued, Underway, Slot, queueVars, array
  <2>6. QueueShape'
    BY <2>1 DEF QueueShape, queueVars, array, Slot
  <2>7. Made' \subseteq Made
    BY <2>4, <2>5 DEF Made
  <2> QED  BY <2>3, <2>6, <2>7
<1>4. CASE SaveFails
  <2>1. UNCHANGED <<queueVars, files>> /\ worker' = "test"
    BY <1>4 DEF SaveFails, Worker
  <2>2. InHand' = {}
    BY <2>1 DEF InHand
  <2> QED  BY <2>1, <2>2, HandsKept DEF QueueShape, queueVars, array, Slot
<1> QED  BY <1>1, <1>2, <1>3, <1>4 DEF WorkerStep

(* Assemble's frame; when its start is not behind its end, those between.  *)
Assembled == IF InOnePiece THEN FirstOf(sof, Span(sof, eof)) ELSE {}
NewFrame == Frame(frameCount + 1, {d \in Assembled : bytes[d]})

LEMMA AssembledIsSpan ==
  ASSUME sof \in Desc, eof \in Desc, sof <= eof
  PROVE  Assembled = sof .. eof
<1> USE TwoThreads DEF Desc
<1>1. Span(sof, eof) = (eof - sof) + 1
  <2>1. ((eof - sof) + Descs) % Descs = eof - sof
    OBVIOUS
  <2> QED  BY <2>1 DEF Span
<1>2. \A k \in 0 .. eof - sof : (sof + k) % Descs = sof + k
  OBVIOUS
<1>3. FirstOf(sof, Span(sof, eof)) = {sof + k : k \in 0 .. eof - sof}
  <2>1. 0 .. Span(sof, eof) - 1 = 0 .. eof - sof
    BY <1>1
  <2>2. FirstOf(sof, Span(sof, eof)) = {(sof + k) % Descs : k \in 0 .. eof - sof}
    BY <2>1, Zenon DEF FirstOf
  <2> QED  BY <1>2, <2>2
<1>4. \A d \in sof .. eof : d - sof \in 0 .. eof - sof /\ d = sof + (d - sof)
  OBVIOUS
<1> QED  BY <1>3, <1>4 DEF Assembled, InOnePiece

LEMMA AssembleMakes ==
  ASSUME QueueShape, Assemble, NewFrame \in Frames
  PROVE  QueueShape' /\ Made' \subseteq Made \cup {NewFrame}
<1> USE TwoThreads
<1>1. CallEnqueue(EventThread, NewFrame) /\ UNCHANGED <<worker, files>>
  BY DEF Assemble, NewFrame, Assembled, workerVars
<1>2. /\ UNCHANGED array /\ pc' = [pc EXCEPT ![EventThread] = "lock"]
      /\ hand' = [hand EXCEPT ![EventThread] = NewFrame]
  BY <1>1 DEF CallEnqueue
<1>3. InHand' = InHand /\ Queued' = Queued /\ Underway' \subseteq {NewFrame}
  BY <1>1, <1>2 DEF InHand, Queued, Slot, array, Underway, QueueShape
<1>4. hand' \in [Threads -> Frames \cup {NoItem}]
  BY <1>2 DEF QueueShape
<1> QED  BY <1>1, <1>2, <1>3, <1>4 DEF Made, QueueShape, array, Slot

LEMMA WakeUpKeepsMade ==
  ASSUME QueueShape, SpuriousWakeUp
  PROVE  QueueShape' /\ Made' \subseteq Made
<1> USE TwoThreads
<1>1. PICK t \in Threads : WakeUp(t)
  BY DEF SpuriousWakeUp
<1>2. /\ UNCHANGED <<array, hand>> /\ pc' = [pc EXCEPT ![t] = "lock"] /\ pc[t] = "wait"
      /\ UNCHANGED <<worker, files>>
  BY <1>1 DEF WakeUp, SpuriousWakeUp, workerVars
<1>3. InHand' = InHand
  BY <1>2 DEF InHand
<1> QED  BY <1>2, <1>3, HandsKept DEF QueueShape, array, Slot
-----------------------------------------------------------------------------
(* The engine. *)
LEMMA EngineKeepsSequence ==
  ASSUME InSequence, [FrameNext]_frameVars
  PROVE  InSequence' /\ \A d \in Desc : done[d] => done'[d]
<1> USE TwoThreads DEF InSequence, Desc
<1>1. CASE StoreEnd
  <2>1. done' = [done EXCEPT ![cur] = TRUE] /\ cur' = (cur + 1) % Descs
    BY <1>1 DEF StoreEnd, Finish
  <2>2. cur' = IF cur = Descs - 1 THEN 0 ELSE cur + 1
    BY <2>1
  <2> QED  BY <2>1, <2>2
<1>2. CASE StartCurDesc
  BY <1>2 DEF StartCurDesc, WriteCurDesc, sgControl
<1>3. CASE UNCHANGED <<cur, done>>
  BY <1>3
<1>4. CASE StoreBegin \/ StoreError
  BY <1>3, <1>4 DEF StoreBegin, StoreError, Begin
<1>5. CASE EventStep
  <2>1. CASE PollEvent \/ ClearIoc \/ AfterScan
    BY <1>3, <2>1 DEF PollEvent, ClearIoc, AfterScan, TakeEvent, ClearIrq
  <2>2. CASE UNCHANGED sgVars
    BY <1>3, <2>2 DEF sgVars
  <2> QED  BY <1>5, <2>1, <2>2 DEF EventStep, TestRunning, PollTimeout, PollFails,
              ReadStatus, ScanDesc, Assemble, AssembleFails, Enqueue
<1>6. CASE MainStep
  <2>1. CASE StartReset \/ StartRun \/ StartTail \/ StopDmacr
    BY <1>3, <2>1 DEF StartReset, StartRun, StartTail, StopDmacr, SgReset, WriteDmacr,
                      WriteTailDesc
  <2>2. CASE UNCHANGED sgVars
    BY <1>3, <2>2 DEF sgVars
  <2> QED  BY <1>2, <1>6, <2>1, <2>2 DEF MainStep, CreateThreads, StartRunning, JoinEvent,
              JoinWorker
<1>7. CASE UNCHANGED sgVars
  BY <1>3, <1>7 DEF sgVars
<1>8. CASE StopRunning \/ WorkerStep \/ SpuriousWakeUp \/ UNCHANGED frameVars
  BY <1>7, <1>8 DEF StopRunning, WorkerStep, WorkerTest, Dequeue, SaveFrame, SaveFails,
                    SpuriousWakeUp, frameVars
<1> QED  BY <1>1, <1>4, <1>5, <1>6, <1>8 DEF FrameNext
-----------------------------------------------------------------------------
(* Steps that leave the scan's knowledge alone, and at most end the scan.  *)
Aside ==
  /\ UNCHANGED <<world, eofs, scanVars, frameCount>>
  /\ thread' = thread \/ {thread, thread'} \subseteq {"none", "test", "poll", "status",
                                                     "clearIoc", "enqueue", "error", "exited"}

LEMMA AsideSteps ==
  ASSUME Created, FrameNext, ~ClearIoc, ~ScanDesc, ~Assemble, ~AssembleFails, ~AfterScan
  PROVE  Aside
<1> USE DEF Aside, eventVars
<1>1. CASE MainStep
  <2>1. CASE CreateThreads
    BY <2>1 DEF CreateThreads, Main, Created
  <2> QED  BY <1>1, <2>1 DEF MainStep, StartReset, StartCurDesc, StartRun, StartTail,
              StartRunning, StopDmacr, JoinEvent, JoinWorker
<1>2. CASE EventStep
  <2>1. CASE TestRunning
    BY <2>1 DEF TestRunning, Thread
  <2>2. CASE PollEvent \/ PollTimeout \/ PollFails
    BY <2>2 DEF PollEvent, PollTimeout, PollFails, Thread
  <2>3. CASE ReadStatus
    BY <2>3 DEF ReadStatus, Thread
  <2>4. CASE Enqueue
    BY <2>4 DEF Enqueue
  <2> QED  BY <1>2, <2>1, <2>2, <2>3, <2>4 DEF EventStep
<1>3. CASE WorkerStep
  BY <1>3 DEF WorkerStep, WorkerTest, Dequeue, SaveFrame, SaveFails
<1>4. CASE StopRunning \/ SpuriousWakeUp \/ StoreBegin \/ StoreEnd \/ StoreError
  BY <1>4 DEF StopRunning, SpuriousWakeUp, StoreBegin, StoreEnd, StoreError
<1> QED  BY <1>1, <1>2, <1>3, <1>4 DEF FrameNext

LEMMA NextKeepsCreated ==
  ASSUME Created, [FrameNext]_frameVars
  PROVE  Created'
<1> SUFFICES ASSUME main' = "create"  PROVE thread' = "none"
  BY DEF Created
<1>1. CASE MainStep
  BY <1>1 DEF MainStep, CreateThreads, StartReset, StartCurDesc, StartRun, StartTail,
     StartRunning, StopDmacr, JoinEvent, JoinWorker, Main
<1>2. CASE EventStep
  BY <1>2 DEF Created, EventStep, TestRunning, PollEvent, PollTimeout, PollFails, ReadStatus,
     ClearIoc, ScanDesc, Assemble, AssembleFails, Enqueue, AfterScan, Thread
<1>3. CASE StopRunning
  BY <1>3 DEF StopRunning, Main
<1>4. CASE WorkerStep \/ SpuriousWakeUp \/ StoreBegin \/ StoreEnd \/ StoreError
  BY <1>4 DEF Created, WorkerStep, WorkerTest, Dequeue, SaveFrame, SaveFails,
     SpuriousWakeUp, StoreBegin, StoreEnd, StoreError, eventVars
<1>5. CASE UNCHANGED frameVars
  BY <1>5 DEF Created, frameVars, eventVars
<1> QED  BY <1>1, <1>2, <1>3, <1>4, <1>5 DEF FrameNext

(* What a scan's step does: it sees a frame's end, or goes on. *)
LEMMA ScanSteps ==
  ASSUME ScanShape, ScanDesc
  PROVE  /\ UNCHANGED <<queueVars, sgVars, world, eofs, processed, frameCount, worker, files>>
         /\ bytes' = IF Fresh(at) THEN [bytes EXCEPT ![at] = TRUE] ELSE bytes
         /\ sof' = IF Fresh(at) THEN SofSeen ELSE sof
         /\ thread = "scan"
         /\ \/ /\ Fresh(at) /\ IsEof(at) /\ SofSeen # None
               /\ thread' = "assemble" /\ eof' = at
               /\ lastChecked' = IF at = Last THEN 0 ELSE at + 1
            \/ /\ ~(Fresh(at) /\ IsEof(at) /\ SofSeen # None)
               /\ eof' = eof /\ at' = IF at = Last THEN 0 ELSE at + 1
               /\ \/ thread' = "scan" /\ UNCHANGED lastChecked
                  \/ thread' = "error" /\ lastChecked' = 0
<1>1. (at + 1) % Descs = IF at = Last THEN 0 ELSE at + 1
  <2>1. Descs \in Nat \ {0} /\ at \in 0 .. Descs - 1
    BY TwoThreads DEF ScanShape, Desc
  <2>2. ((Descs - 1) + 1) % Descs = 0
    BY <2>1
  <2>3. at # Descs - 1 => (at + 1) % Descs = at + 1
    BY <2>1
  <2> QED  BY <2>1, <2>2, <2>3 DEF Last
<1>2. UNCHANGED <<queueVars, sgVars, world, eofs, processed, frameCount, worker, files>>
  BY DEF ScanDesc, workerVars
<1>3. CASE Fresh(at) /\ IsEof(at) /\ SofSeen # None
  BY <1>1, <1>2, <1>3 DEF ScanDesc
<1>4. CASE ~(Fresh(at) /\ IsEof(at) /\ SofSeen # None)
  BY <1>1, <1>2, <1>4 DEF ScanDesc
<1> QED  BY <1>3, <1>4

LEMMA ScanKeepsShape ==
  ASSUME ScanShape, ScanDesc
  PROVE  ScanShape' /\ UNCHANGED <<queueVars, done, InHand, Made>>
<1> USE TwoThreads
<1>1. UNCHANGED <<queueVars, sgVars, world, eofs, processed, frameCount, worker, files>>
  BY ScanSteps
<1>2. bytes' \in [Desc -> BOOLEAN] /\ sof' \in Desc \cup {None}
  BY ScanSteps DEF ScanShape, SofSeen
<1>3. eof' \in Desc \cup {None} /\ lastChecked' \in Desc
  BY ScanSteps DEF ScanShape, Desc, Last
<1>4. at' \in Desc
  <2>1. (at + 1) % Descs \in Desc
    BY DEF ScanShape, Desc
  <2> QED  BY <2>1 DEF ScanDesc, ScanShape
<1>5. InHand' = InHand /\ Queued' = Queued /\ Underway' = Underway
  BY <1>1 DEF InHand, Queued, Slot, Underway, queueVars, array
<1> QED  BY <1>1, <1>2, <1>3, <1>4, <1>5 DEF ScanShape, Made, sgVars

(* The start that a scan sees is a completed, unmarked start of a frame.   *)
LEMMA ScanSeesStart ==
  ASSUME ScanShape, InSequence, MarkedTogether, ScanKnows, ScanDesc, Fresh(at), SofSeen # None
  PROVE  /\ SofSeen \in 0 .. at /\ IsSof(SofSeen) /\ done[SofSeen]
         /\ \A d \in SofSeen .. at : ~processed[d]
         /\ SofSeen # at => Behind /\ SofSeen = sof
<1> USE TwoThreads DEF ScanShape, Desc, Fresh
<1>1. CASE IsSof(at)
  BY <1>1 DEF SofSeen
<1>2. CASE ~IsSof(at)
  <2>1. SofSeen = sof /\ sof # None /\ thread = "scan"
    BY <1>2 DEF SofSeen, ScanDesc
  <2>2. IsSof(sof) /\ done[sof] /\ ~processed[sof]
    BY <2>1 DEF ScanKnows
  <2>3. CASE Behind
    BY <2>1, <2>2, <2>3 DEF Behind
  <2>4. CASE Wrapped
    <3>1. at \in 0 .. sof /\ at # 0 /\ at - 1 \in Desc /\ processed[at - 1] /\ at - 1 \notin eofs
      BY <1>2, <2>1, <2>4 DEF Wrapped, IsSof
    <3>2. processed[at]
      BY <3>1 DEF MarkedTogether
    <3> QED  BY <3>2
  <2> QED  BY <2>1, <2>2, <2>3, <2>4 DEF ScanKnows
<1> QED  BY <1>1, <1>2

LEMMA ScanKeepsKnowledge ==
  ASSUME ScanShape, InSequence, MarkedTogether, ScanKnows, ScanDesc
  PROVE  ScanKnows' /\ ReadyToAssemble'
<1> USE TwoThreads DEF Desc
<1>1. UNCHANGED <<done, eofs, processed>> /\ ScanShape'
  BY ScanKeepsShape, ScanSteps DEF sgVars
<1>2. CASE Fresh(at) /\ IsEof(at) /\ SofSeen # None
  <2>1. thread' = "assemble" /\ eof' = at /\ sof' = SofSeen
    BY <1>2, ScanSteps
  <2>2. ReadyToAssemble'
    BY <1>1, <1>2, <2>1, ScanSeesStart DEF ReadyToAssemble, IsEof, IsSof, Fresh, ScanShape
  <2> QED  BY <2>1, <2>2 DEF ScanKnows
<1>3. CASE ~(Fresh(at) /\ IsEof(at) /\ SofSeen # None)
  <2>1. thread' # "assemble" /\ at' = IF at = Last THEN 0 ELSE at + 1
    BY <1>3, ScanSteps
  <2>2. SUFFICES ASSUME sof' # None
                 PROVE  /\ IsSof(sof') /\ done[sof'] /\ ~processed[sof']
                        /\ Behind' \/ Wrapped'
    BY <1>1, <2>1 DEF ScanKnows, ReadyToAssemble, IsSof
  <2>3. CASE Fresh(at)
    <3>1. sof' = SofSeen /\ SofSeen # None /\ at \notin eofs
      BY <1>3, <2>2, <2>3, ScanSteps DEF IsEof
    <3>2. /\ sof' \in 0 .. at /\ IsSof(sof') /\ done[sof']
          /\ \A d \in sof' .. at : ~processed[d]
          /\ sof' # at => Behind /\ sof' = sof
      BY <2>3, <3>1, ScanSeesStart
    <3>3. \A d \in sof' .. at : d \in eofs => \A e \in Desc : d <= e => ~processed[e]
      BY <3>1, <3>2 DEF Behind, ScanShape
    <3>4. Behind' \/ Wrapped'
      <4>1. CASE at = Last
        BY <1>1, <2>1, <3>2, <4>1 DEF Wrapped, ScanShape
      <4>2. CASE at # Last
        BY <1>1, <2>1, <3>2, <3>3, <4>2 DEF Behind, ScanShape, Last
      <4> QED  BY <4>1, <4>2
    <3> QED  BY <3>2, <3>4 DEF ScanShape
  <2>4. CASE ~Fresh(at)
    <3>1. sof' = sof /\ sof \in Desc /\ thread = "scan"
      BY <2>2, <2>4, ScanSteps DEF ScanShape
    <3>2. IsSof(sof) /\ done[sof] /\ ~processed[sof] /\ (Behind \/ Wrapped)
      BY <2>2, <3>1 DEF ScanKnows
    <3>3. CASE Behind
      <4>1. ~processed[at]
        <5>1. at - 1 \in Desc /\ at - 1 \in sof .. at - 1
          BY <3>1, <3>3 DEF Behind, ScanShape
        <5>2. CASE at - 1 \in eofs
          BY <3>3, <5>1, <5>2 DEF Behind, ScanShape
        <5>3. CASE at - 1 \notin eofs
          <6>1. ~processed[at - 1]
            BY <3>3, <5>1 DEF Behind
          <6> QED  BY <5>1, <5>3, <6>1 DEF MarkedTogether, ScanShape
        <5> QED  BY <5>2, <5>3
      <4>2. at \in eofs => \A e \in Desc : at <= e => ~processed[e]
        BY <2>4, <4>1 DEF Fresh, InSequence, MarkedTogether, ScanShape
      <4>3. CASE at = Last
        <5>1. Wrapped'
          BY <1>1, <2>1, <3>1, <4>3 DEF Wrapped, ScanShape
        <5> QED  BY <3>1, <3>2, <5>1
      <4>4. CASE at # Last
        <5>1. at' = at + 1 /\ sof < at /\ at \in Desc
          BY <2>1, <3>3, <4>4 DEF Behind, ScanShape
        <5>2. \A d \in sof .. at : ~processed[d]
          BY <3>1, <3>3, <4>1, <5>1 DEF Behind
        <5>3. \A d \in sof .. at : d \in eofs => \A e \in Desc : d <= e => ~processed[e]
          BY <3>1, <3>3, <4>2, <5>1 DEF Behind
        <5>4. Behind'
          BY <1>1, <3>1, <5>1, <5>2, <5>3 DEF Behind
        <5> QED  BY <3>1, <3>2, <5>4
      <4> QED  BY <3>1, <3>2, <4>3, <4>4
    <3>4. CASE Wrapped
      <4>1. processed[at] /\ at # sof /\ at < sof
        BY <2>4, <3>1, <3>2, <3>4 DEF Wrapped, Fresh, InSequence, ScanShape
      <4>2. Wrapped'
        BY <1>1, <2>1, <3>1, <3>4, <4>1 DEF Wrapped, ScanShape, Last
      <4> QED  BY <3>1, <3>2, <4>2
    <3> QED  BY <3>2, <3>3, <3>4
  <2> QED  BY <2>3, <2>4
<1> QED  BY <1>2, <1>3
-----------------------------------------------------------------------------
LEMMA MadeStaysApart ==
  ASSUME MadeApart, Made' \subseteq Made, UNCHANGED <<processed, frameCount>>
  PROVE  MadeApart'
BY DEF MadeApart

(* A frame that is assembled is new: nothing of it was marked. *)
LEMMA AssembleKeepsClean ==
  ASSUME CleanInv, [FrameNext]_frameVars, Assemble
  PROVE  /\ CleanInv' /\ NewFrame \in Frames /\ Made' \subseteq Made \cup {NewFrame}
         /\ Assembled = sof .. eof /\ sof \in Desc /\ eof \in Desc
         /\ processed' = [d \in Desc |-> processed[d] \/ d \in sof .. eof]
<1> USE TwoThreads DEF CleanInv
<1>1. /\ thread = "assemble" /\ thread' = "enqueue" /\ frameCount' = frameCount + 1
      /\ UNCHANGED <<world, eofs, at, checked, sof, eof, lastChecked, bytes, worker, files>>
      /\ UNCHANGED sgVars
      /\ processed' = [d \in Desc |-> processed[d] \/ d \in Assembled]
  BY DEF Assemble, Thread, Assembled, workerVars
<1>2. /\ sof \in Desc /\ eof \in Desc /\ IsSof(sof) /\ eof \in eofs /\ sof <= eof
      /\ done[eof] /\ \A d \in sof .. eof : ~processed[d]
  BY <1>1 DEF ReadyToAssemble, ScanShape
<1>3. Assembled = sof .. eof
  BY <1>2, AssembledIsSpan
<1>4. Assembled \subseteq Desc
  BY <1>2, <1>3 DEF Desc
<1>5. NewFrame \in Frames /\ NewFrame.index = frameCount + 1 /\ NewFrame.segs \subseteq Assembled
  BY <1>4 DEF NewFrame, Frame, Frames, ScanShape
<1>6. QueueShape' /\ Made' \subseteq Made \cup {NewFrame}
  BY <1>5, AssembleMakes
<1>7. processed' \in [Desc -> BOOLEAN] /\ UNCHANGED <<cur, done>>
  BY <1>1 DEF sgVars
<1>8. ScanShape' /\ InSequence'
  BY <1>1, <1>7 DEF ScanShape, InSequence
<1>9. \A d \in Desc : processed'[d] => done'[d]
  <2>1. \A d \in sof .. eof : d \in Desc /\ done[d]
    BY <1>2 DEF InSequence, Desc
  <2> QED  BY <1>1, <1>3, <1>7, <2>1 DEF MarkedTogether
<1>10. \A d, e \in Desc : e = d + 1 /\ d \notin eofs' => processed'[d] = processed'[e]
  <2> SUFFICES ASSUME NEW d \in Desc, d + 1 \in Desc, d \notin eofs
               PROVE  processed'[d] = processed'[d + 1]
    BY <1>1
  <2>1. processed[d] = processed[d + 1]
    BY DEF MarkedTogether
  <2>2. d \in sof .. eof <=> d + 1 \in sof .. eof
    BY <1>2 DEF IsSof, Desc
  <2> QED  BY <1>1, <1>3, <2>1, <2>2
<1>11. MadeApart'
  <2>1. \A f \in Made : /\ f \in Frames /\ f.index \in 1 .. frameCount
                        /\ \A d \in f.segs : d \in Desc /\ processed[d]
    BY DEF MadeApart, Frames
  <2>2. \A d \in NewFrame.segs : d \in Desc /\ ~processed[d] /\ processed'[d]
    BY <1>1, <1>2, <1>3, <1>4, <1>5
  <2>3. \A f \in Made' : /\ f \in Frames /\ f.index \in 1 .. frameCount'
                         /\ \A d \in f.segs : processed'[d]
    <3>1. \A f \in Made : /\ f \in Frames /\ f.index \in 1 .. frameCount'
                          /\ \A d \in f.segs : processed'[d]
      BY <1>1, <2>1 DEF ScanShape
    <3>2. NewFrame.index \in 1 .. frameCount'
      BY <1>1, <1>5 DEF ScanShape
    <3> HIDE DEF Frames
    <3> QED  BY <1>5, <1>6, <2>2, <3>1, <3>2
  <2>4. \A f \in Made : f.index # NewFrame.index /\ f.segs \cap NewFrame.segs = {}
    BY <1>5, <2>1, <2>2 DEF ScanShape
  <2>5. \A f, g \in Made : f # g => f.index # g.index /\ f.segs \cap g.segs = {}
    BY DEF MadeApart
  <2> QED  BY <1>6, <2>3, <2>4, <2>5 DEF MadeApart
<1> QED  BY <1>1, <1>2, <1>3, <1>5, <1>6, <1>8, <1>9, <1>10, <1>11, NextKeepsCreated
         DEF ScanKnows, ReadyToAssemble, MarkedTogether

LEMMA AsideKeepsClean ==
  ASSUME CleanInv, Aside, [FrameNext]_frameVars, QueueShape', Made' \subseteq Made,
         files' \in Seq(Frames)
  PROVE  CleanInv'
<1> USE DEF CleanInv
<1>1. InSequence' /\ \A d \in Desc : done[d] => done'[d]
  BY EngineKeepsSequence
<1>2. /\ UNCHANGED <<eofs, at, checked, sof, eof, lastChecked, bytes, processed, frameCount>>
      /\ thread' = thread \/ {thread, thread'} \cap {"scan", "assemble"} = {}
  BY DEF Aside, scanVars
<1>3. ScanShape'
  BY <1>2 DEF ScanShape
<1>4. MarkedTogether'
  BY <1>1, <1>2 DEF MarkedTogether
<1>5. ScanKnows'
  <2>1. Behind' = Behind /\ Wrapped' = Wrapped
    BY <1>2 DEF Behind, Wrapped
  <2> QED  BY <1>1, <1>2, <2>1 DEF ScanKnows, ScanShape, IsSof
<1>6. ReadyToAssemble'
  BY <1>1, <1>2 DEF ReadyToAssemble, ScanShape, IsSof
<1> QED  BY <1>1, <1>2, <1>3, <1>4, <1>5, <1>6, MadeStaysApart, NextKeepsCreated

(* The steps that start and end a look at the descriptors. *)
LEMMA LooksKeepClean ==
  ASSUME CleanInv, [FrameNext]_frameVars, ClearIoc \/ AfterScan
  PROVE  /\ CleanInv' /\ Made' = Made
         /\ UNCHANGED <<world, eofs, lastChecked, bytes, processed, frameCount, done>>
<1> USE TwoThreads DEF CleanInv
<1>1. /\ UNCHANGED <<queueVars, worker, files>>
      /\ UNCHANGED <<world, eofs, lastChecked, bytes, processed, frameCount>>
  BY DEF ClearIoc, AfterScan, workerVars
<1>2. UNCHANGED <<cur, done>>
  BY DEF ClearIoc, AfterScan, ClearIrq
<1>3. at' \in Desc /\ sof' = None /\ eof' = None /\ thread' # "assemble"
  BY DEF ClearIoc, AfterScan, Thread, ScanShape, Desc
<1>4. InHand' = InHand /\ Queued' = Queued /\ Underway' = Underway
  BY <1>1 DEF InHand, Queued, Slot, Underway, queueVars, array
<1>5. QueueShape' /\ Made' = Made
  BY <1>1, <1>4 DEF QueueShape, Slot, queueVars, array, Made
<1>6. ScanShape' /\ InSequence' /\ MarkedTogether'
  BY <1>1, <1>2, <1>3 DEF ScanShape, InSequence, MarkedTogether
<1> QED  BY <1>1, <1>2, <1>3, <1>5, <1>6, MadeStaysApart, NextKeepsCreated
         DEF ScanKnows, ReadyToAssemble

LEMMA ScanKeepsClean ==
  ASSUME CleanInv, [FrameNext]_frameVars, ScanDesc
  PROVE  CleanInv' /\ Made' = Made
<1> USE DEF CleanInv
<1>1. ScanShape' /\ UNCHANGED <<queueVars, done, InHand, Made>> /\ ScanKnows' /\ ReadyToAssemble'
  BY ScanKeepsShape, ScanKeepsKnowledge
<1>2. UNCHANGED <<sgVars, eofs, processed, frameCount>>
  BY ScanSteps
<1>3. QueueShape'
  BY <1>1 DEF QueueShape, Slot, queueVars, array
<1>4. InSequence' /\ MarkedTogether'
  BY <1>2 DEF InSequence, MarkedTogether, sgVars
<1> QED  BY <1>1, <1>2, <1>3, <1>4, MadeStaysApart, NextKeepsCreated

(* Nothing else makes a frame. *)
LEMMA AsideMakesNone ==
  ASSUME CleanInv, [FrameNext]_frameVars,
         ~ClearIoc, ~ScanDesc, ~Assemble, ~AssembleFails, ~AfterScan
  PROVE  /\ Aside
         /\ QueueShape' /\ Made' \subseteq Made /\ files' \in Seq(Frames)
<1> USE TwoThreads DEF CleanInv
<1>1. Aside
  <2>1. CASE UNCHANGED frameVars
    BY <2>1 DEF Aside, frameVars, eventVars
  <2> QED  BY <2>1, AsideSteps
<1>2. CASE Enqueue
  BY <1>1, <1>2, EnqueueKeepsMade DEF Enqueue, workerVars, ScanShape
<1>3. CASE WorkerStep
  BY <1>1, <1>3, WorkerKeepsMade DEF MadeApart, ScanShape
<1>4. CASE SpuriousWakeUp
  BY <1>1, <1>4, WakeUpKeepsMade DEF SpuriousWakeUp, workerVars, ScanShape
<1>5. ASSUME UNCHANGED <<queueVars, files>>, InHand' \subseteq InHand
      PROVE  QueueShape' /\ Made' \subseteq Made /\ files' \in Seq(Frames)
  BY <1>5, HandsKept DEF QueueShape, Slot, queueVars, array, ScanShape
<1>6. CASE CreateThreads
  <2>1. InHand' = {} /\ UNCHANGED <<queueVars, files>>
    BY <1>6 DEF CreateThreads, InHand
  <2> QED  BY <1>1, <1>5, <2>1
<1>7. ASSUME UNCHANGED <<queueVars, worker, files>>
      PROVE  QueueShape' /\ Made' \subseteq Made /\ files' \in Seq(Frames)
  BY <1>5, <1>7 DEF InHand, queueVars
<1>8. CASE MainStep
  <2>1. CASE ~CreateThreads
    <3>1. UNCHANGED <<queueVars, worker, files>>
      BY <1>8, <2>1 DEF MainStep, StartReset, StartCurDesc, StartRun, StartTail,
         StartRunning, StopDmacr, JoinEvent, JoinWorker, workerVars
    <3> QED  BY <1>1, <1>7, <3>1
  <2> QED  BY <1>6, <2>1
<1>9. CASE EventStep
  <2>1. CASE ~Enqueue
    <3>1. UNCHANGED <<queueVars, worker, files>>
      BY <1>9, <2>1 DEF EventStep, TestRunning, PollEvent, PollTimeout, PollFails,
         ReadStatus, workerVars
    <3> QED  BY <1>1, <1>7, <3>1
  <2> QED  BY <1>2, <2>1
<1>10. CASE StopRunning \/ StoreBegin \/ StoreEnd \/ StoreError \/ UNCHANGED frameVars
  <2>1. UNCHANGED <<queueVars, worker, files>>
    BY <1>10 DEF StopRunning, StoreBegin, StoreEnd, StoreError, frameVars, workerVars
  <2> QED  BY <1>1, <1>7, <2>1
<1> QED  BY <1>3, <1>4, <1>8, <1>9, <1>10 DEF FrameNext

LEMMA NextKeepsClean ==
  ASSUME Clean, CleanInv, [FrameNext]_frameVars
  PROVE  CleanInv'
<1>1. ~AssembleFails
  BY DEF Clean, AssembleFails
<1>2. CASE ClearIoc \/ AfterScan
  BY <1>2, LooksKeepClean
<1>3. CASE ScanDesc
  BY <1>3, ScanKeepsClean
<1>4. CASE Assemble
  BY <1>4, AssembleKeepsClean
<1>5. CASE ~ClearIoc /\ ~AfterScan /\ ~ScanDesc /\ ~Assemble
  BY <1>1, <1>5, AsideMakesNone, AsideKeepsClean
<1> QED  BY <1>2, <1>3, <1>4, <1>5
-----------------------------------------------------------------------------
(* From a frame's start to the first end after it: that is one frame.      *)
LEMMA FrameOfEnd ==
  ASSUME eofs \subseteq Desc, NEW a \in Desc, NEW b \in Desc, a <= b, IsSof(a), b \in eofs,
         \A d \in a .. b - 1 : d \notin eofs
  PROVE  FrameOf(b) = a .. b
<1> USE TwoThreads DEF Desc, IsSof
<1>1. ASSUME NEW e \in a .. b
      PROVE  e \in Desc /\ {x \in eofs : x < b} = {x \in eofs : x < e}
  <2>1. \A x \in eofs : x < b <=> x < e
    BY <1>1
  <2>2. {x \in eofs : x < b} = {x \in eofs : x < e}
    BY <2>1, Zenon
  <2> QED  BY <1>1, <2>2
<1>2. ASSUME NEW e \in Desc, {x \in eofs : x < b} = {x \in eofs : x < e}
      PROVE  e \in a .. b
  <2>1. \A x \in eofs : x < b <=> x < e
    BY <1>2
  <2>2. b <= b /\ ~(b < e)
    BY <2>1
  <2>3. a <= e
    <3>1. CASE a = 0
      BY <3>1
    <3>2. CASE a - 1 \in eofs
      BY <2>1, <3>2
    <3> QED  BY <3>1, <3>2
  <2> QED  BY <2>2, <2>3
<1> QED  BY <1>1, <1>2 DEF FrameOf

LEMMA MadeStaysWhole ==
  ASSUME MadeWhole, Made' \subseteq Made, UNCHANGED eofs
  PROVE  MadeWhole'
BY DEF MadeWhole, FrameOf

LEMMA AsideKeepsPaced ==
  ASSUME Paced, CleanInv, PacedInv, Aside, [FrameNext]_frameVars, Made' \subseteq Made
  PROVE  PacedInv'
<1>1. PICK p \in 0 .. Descs : MarkedUpTo(p) /\ ScanFinds(p) /\ FrameFound(p)
  BY DEF PacedInv
<1>2. /\ UNCHANGED <<world, eofs, at, checked, sof, eof, lastChecked, bytes, processed>>
      /\ thread' = thread \/ {thread, thread'} \cap {"scan", "assemble"} = {}
  BY DEF Aside, scanVars
<1>3. thread' = "scan" => done' = done
  <2>1. CASE StoreEnd
    BY <1>2, <2>1 DEF StoreEnd, PaceAllows, Paced
  <2>2. CASE MainStep
    BY <2>2 DEF MainStep, CreateThreads, StartReset, StartCurDesc, StartRun, StartTail,
       StartRunning, StopDmacr, JoinEvent, JoinWorker, sgVars, SgReset, WriteCurDesc,
       WriteDmacr, WriteTailDesc
  <2>3. CASE EventStep
    BY <2>3 DEF EventStep, TestRunning, PollEvent, PollTimeout, PollFails, ReadStatus,
       ClearIoc, ScanDesc, Assemble, AssembleFails, Enqueue, AfterScan, sgVars, TakeEvent,
       ClearIrq
  <2>4. CASE WorkerStep
    BY <2>4 DEF WorkerStep, WorkerTest, Dequeue, SaveFrame, SaveFails, sgVars
  <2>5. CASE StopRunning \/ SpuriousWakeUp \/ StoreBegin \/ StoreError \/ UNCHANGED frameVars
    BY <2>5 DEF StopRunning, SpuriousWakeUp, StoreBegin, StoreError, frameVars, sgVars, Begin
  <2> QED  BY <2>1, <2>2, <2>3, <2>4, <2>5 DEF FrameNext
<1>4. MarkedUpTo(p)' /\ ScanFinds(p)' /\ FrameFound(p)'
  <2>1. MarkedUpTo(p)'
    BY <1>1, <1>2 DEF MarkedUpTo, Aside
  <2>2. ScanFinds(p)'
    BY <1>1, <1>2, <1>3 DEF ScanFinds
  <2>3. FrameFound(p)'
    BY <1>1, <1>2 DEF FrameFound
  <2> QED  BY <2>1, <2>2, <2>3
<1> QED  BY <1>2, <1>4, MadeStaysWhole DEF PacedInv

LEMMA LooksKeepPaced ==
  ASSUME CleanInv, PacedInv, [FrameNext]_frameVars, ClearIoc \/ AfterScan
  PROVE  PacedInv'
<1>1. PICK p \in 0 .. Descs : MarkedUpTo(p) /\ ScanFinds(p) /\ FrameFound(p)
  BY DEF PacedInv
<1>2. Made' = Made /\ UNCHANGED <<eofs, lastChecked, bytes, processed, done>>
  BY LooksKeepClean
<1>3. /\ thread # "assemble" /\ thread' # "assemble" /\ sof' = None
      /\ thread' = "scan" => at' = lastChecked
  BY DEF ClearIoc, AfterScan, Thread
<1>4. MarkedUpTo(p)' /\ ScanFinds(p)' /\ FrameFound(p)'
  BY <1>1, <1>2, <1>3 DEF MarkedUpTo, ScanFinds, FrameFound
<1> QED  BY <1>2, <1>4, MadeStaysWhole DEF PacedInv

(* A scan does not pass the first frame that is not marked.                *)
LEMMA ScanKeepsPaced ==
  ASSUME CleanInv, PacedInv, [FrameNext]_frameVars, ScanDesc
  PROVE  PacedInv'
<1> USE TwoThreads DEF Desc
<1>1. PICK p \in 0 .. Descs : MarkedUpTo(p) /\ ScanFinds(p) /\ FrameFound(p)
  BY DEF PacedInv
<1>2. CleanInv' /\ Made' = Made /\ UNCHANGED <<eofs, processed, done>> /\ thread = "scan"
  BY ScanKeepsClean, ScanSteps DEF CleanInv, sgVars
<1>3. ScanShape /\ ScanShape' /\ InSequence /\ MarkedTogether
  BY <1>2 DEF CleanInv
<1>4. /\ \A d \in Desc : processed[d] <=> d < p
      /\ p = 0 \/ p - 1 \in eofs
      /\ lastChecked \in {0, p}
  BY <1>1, <1>2 DEF MarkedUpTo
<1>5. ASSUME Fresh(at)
      PROVE  /\ p <= at /\ SofSeen = p
             /\ \A d \in p .. at - 1 : bytes[d] /\ d \notin eofs
  <2>0. at \in Nat /\ p \in Nat
    BY <1>3 DEF ScanShape
  <2>1. p <= at /\ done[at]
    BY <1>3, <1>4, <1>5 DEF Fresh, ScanShape
  <2>2. \A d \in p .. at : d \in Desc /\ done[d]
    BY <1>3, <2>1 DEF InSequence, ScanShape
  <2>3. CASE at = p
    <3>1. IsSof(at)
      BY <1>4, <2>3 DEF IsSof
    <3> QED  BY <2>0, <2>3, <3>1 DEF SofSeen
  <2>4. CASE p < at
    <3>1. sof = p /\ \A d \in p .. at - 1 : bytes[d] /\ d \notin eofs
      BY <1>1, <1>2, <1>3, <2>2, <2>4 DEF ScanFinds, ScanShape
    <3>2. ~IsSof(at)
      BY <1>3, <2>4, <3>1 DEF IsSof, ScanShape
    <3> QED  BY <2>0, <2>4, <3>1, <3>2 DEF SofSeen
  <2> QED  BY <2>0, <2>1, <2>3, <2>4
<1>6. CASE Fresh(at) /\ IsEof(at) /\ SofSeen # None
  <2>1. /\ thread' = "assemble" /\ eof' = at /\ sof' = p
        /\ lastChecked' = (IF at = Last THEN 0 ELSE at + 1)
        /\ bytes' = [bytes EXCEPT ![at] = TRUE]
    BY <1>3, <1>5, <1>6, ScanSteps
  <2>2. MarkedUpTo(p)' /\ ScanFinds(p)'
    BY <1>2, <1>4, <2>1 DEF MarkedUpTo, ScanFinds
  <2>3. FrameFound(p)'
    BY <1>2, <1>3, <1>5, <1>6, <2>1 DEF FrameFound, ScanShape
  <2> QED  BY <1>2, <2>2, <2>3, MadeStaysWhole DEF PacedInv
<1>7. CASE ~(Fresh(at) /\ IsEof(at) /\ SofSeen # None)
  <2>1. /\ thread' # "assemble" /\ lastChecked' \in {0, lastChecked}
        /\ at' = (IF at = Last THEN 0 ELSE at + 1)
        /\ bytes' = (IF Fresh(at) THEN [bytes EXCEPT ![at] = TRUE] ELSE bytes)
        /\ sof' = (IF Fresh(at) THEN SofSeen ELSE sof)
    BY <1>3, <1>7, ScanSteps
  <2>2. MarkedUpTo(p)' /\ FrameFound(p)'
    BY <1>2, <1>4, <2>1 DEF MarkedUpTo, FrameFound
  <2>3. CASE Fresh(at)
    <3>1. sof' = p /\ p # None /\ at \notin eofs
      BY <1>5, <1>7, <2>1, <2>3 DEF IsEof, None
    <3>2. \A d \in p .. at' - 1 : bytes'[d] /\ d \notin eofs
      BY <1>3, <1>5, <2>1, <2>3, <3>1 DEF ScanShape
    <3> QED  BY <1>2, <2>2, <3>1, <3>2, MadeStaysWhole DEF PacedInv, ScanFinds
  <2>4. CASE ~Fresh(at)
    <3>1. UNCHANGED <<sof, bytes>>
      BY <2>1, <2>4
    <3>2. p <= at => ~done[at]
      BY <1>3, <1>4, <2>4 DEF Fresh, ScanShape
    <3>3. ScanFinds(p)'
      BY <1>1, <1>2, <1>3, <2>1, <3>1, <3>2 DEF ScanFinds, ScanShape, Last
    <3> QED  BY <1>2, <2>2, <3>3, MadeStaysWhole DEF PacedInv
  <2> QED  BY <2>3, <2>4
<1> QED  BY <1>6, <1>7

LEMMA AssembleKeepsPaced ==
  ASSUME CleanInv, PacedInv, [FrameNext]_frameVars, Assemble
  PROVE  PacedInv'
<1> USE TwoThreads DEF Desc
<1>1. PICK p \in 0 .. Descs : MarkedUpTo(p) /\ ScanFinds(p) /\ FrameFound(p)
  BY DEF PacedInv
<1>2. /\ Assembled = sof .. eof /\ NewFrame \in Frames /\ Made' \subseteq Made \cup {NewFrame}
      /\ processed' = [d \in Desc |-> processed[d] \/ d \in sof .. eof]
  BY AssembleKeepsClean
<1>3. /\ thread = "assemble" /\ thread' = "enqueue"
      /\ UNCHANGED <<eofs, lastChecked>>
  BY DEF Assemble, Thread
<1>4. /\ eofs \subseteq Desc /\ sof \in Desc /\ eof \in eofs /\ IsSof(sof) /\ sof <= eof
  BY <1>3 DEF CleanInv, ScanShape, ReadyToAssemble
<1>5. /\ sof = p /\ bytes[eof] /\ \A d \in p .. eof - 1 : bytes[d] /\ d \notin eofs
      /\ \A d \in Desc : processed[d] <=> d < p
      /\ lastChecked \in {0, eof + 1}
  BY <1>1, <1>3 DEF FrameFound, MarkedUpTo
<1>6. PICK q \in 0 .. Descs : q = eof + 1
  BY <1>4
<1>7. MarkedUpTo(q)' /\ ScanFinds(q)' /\ FrameFound(q)'
  <2>1. ASSUME NEW d \in Desc  PROVE processed'[d] <=> d < q
    <3>1. processed'[d] <=> processed[d] \/ d \in p .. eof
      BY <1>2, <1>5
    <3>2. d < q <=> d < p \/ d \in p .. eof
      BY <1>4, <1>5, <1>6
    <3> QED  BY <1>5, <3>1, <3>2
  <2>2. q - 1 \in eofs /\ lastChecked \in {0, q}
    BY <1>4, <1>5, <1>6
  <2> QED  BY <1>3, <2>1, <2>2 DEF MarkedUpTo, ScanFinds, FrameFound
<1>8. NewFrame.segs = sof .. eof /\ NewFrame.index = frameCount + 1
  <2>1. \A d \in sof .. eof : bytes[d]
    BY <1>4, <1>5
  <2> QED  BY <1>2, <2>1 DEF NewFrame, Frame
<1>9. FrameOf(eof) = sof .. eof
  BY <1>4, <1>5, FrameOfEnd
<1>10. MadeWhole'
  <2>1. \A f \in Made : /\ f.index < frameCount + 1 /\ f.index \in Nat
                        /\ \A d \in f.segs : d \in Desc /\ d < p
    BY <1>5 DEF CleanInv, MadeApart, ScanShape, Frames
  <2>2. \A f \in Made' : \E d \in Desc : f.segs = FrameOf(d)'
    <3>1. \A d : FrameOf(d)' = FrameOf(d)
      BY <1>3 DEF FrameOf
    <3>2. \A f \in Made : \E d \in Desc : f.segs = FrameOf(d)
      BY DEF PacedInv, MadeWhole
    <3> QED  BY <1>2, <1>4, <1>8, <1>9, <3>1, <3>2
  <2>3. ASSUME NEW f \in Made', NEW g \in Made', f.index < g.index
        PROVE  \A d \in f.segs : \A e \in g.segs : d < e
    <3>1. CASE f \in Made /\ g \in Made
      BY <2>3, <3>1 DEF PacedInv, MadeWhole
    <3>2. CASE f \in Made /\ g = NewFrame
      BY <1>4, <1>5, <1>8, <2>1, <3>2
    <3>3. CASE f = NewFrame
      <4>1. frameCount + 1 < g.index /\ frameCount \in Nat
        BY <1>8, <2>3, <3>3 DEF CleanInv, ScanShape
      <4>2. g \in Made
        BY <1>2, <1>8, <4>1
      <4> QED  BY <2>1, <4>1, <4>2
    <3> QED  BY <1>2, <3>1, <3>2, <3>3
  <2> QED  BY <2>2, <2>3 DEF MadeWhole
<1> QED  BY <1>7, <1>10 DEF PacedInv
-----------------------------------------------------------------------------
LEMMA FrameInitInv == FrameInit => FrameInv
<1> SUFFICES ASSUME FrameInit  PROVE CleanInv /\ PacedInv
  BY DEF FrameInv
<1> USE TwoThreads DEF FrameInit, QueueInit, SgInit, Desc
<1>1. Made = {}
  BY DEF Made, InHand, Queued, Underway
<1>2. QueueShape
  BY DEF QueueShape, Slot
<1>3. ScanShape /\ InSequence /\ MarkedTogether
  BY DEF ScanShape, InSequence, MarkedTogether
<1>4. MarkedUpTo(0) /\ ScanFinds(0) /\ FrameFound(0) /\ 0 \in 0 .. Descs
  BY DEF MarkedUpTo, ScanFinds, FrameFound
<1> QED  BY <1>1, <1>2, <1>3, <1>4
         DEF CleanInv, Created, ScanKnows, ReadyToAssemble, MadeApart, PacedInv, MadeWhole

LEMMA FrameNextInv == FrameInv /\ [FrameNext]_frameVars => FrameInv'
<1> SUFFICES ASSUME FrameInv, [FrameNext]_frameVars, Clean'
             PROVE  CleanInv' /\ (Paced' => PacedInv')
  BY DEF FrameInv
<1>1. world' = world
  <2>1. CASE MainStep \/ StopRunning \/ SpuriousWakeUp \/ StoreBegin \/ StoreEnd \/ StoreError
    BY <2>1 DEF MainStep, CreateThreads, StartReset, StartCurDesc, StartRun, StartTail,
       StartRunning, StopDmacr, JoinEvent, JoinWorker, StopRunning, SpuriousWakeUp,
       StoreBegin, StoreEnd, StoreError
  <2>2. CASE EventStep
    BY <2>2 DEF EventStep, TestRunning, PollEvent, PollTimeout, PollFails, ReadStatus,
       ClearIoc, ScanDesc, Assemble, AssembleFails, Enqueue, AfterScan
  <2>3. CASE WorkerStep
    BY <2>3 DEF WorkerStep, WorkerTest, Dequeue, SaveFrame, SaveFails
  <2> QED  BY <2>1, <2>2, <2>3 DEF FrameNext, frameVars
<1>2. Clean /\ CleanInv /\ (Paced => PacedInv) /\ (Paced' => Paced)
  BY <1>1 DEF FrameInv, Clean, Paced
<1>3. CleanInv'
  BY <1>2, NextKeepsClean
<1>4. ASSUME Paced  PROVE PacedInv'
  <2>1. ~AssembleFails /\ PacedInv
    BY <1>2, <1>4 DEF Clean, AssembleFails
  <2>2. CASE ClearIoc \/ AfterScan
    BY <1>2, <2>1, <2>2, LooksKeepPaced
  <2>3. CASE ScanDesc
    BY <1>2, <2>1, <2>3, ScanKeepsPaced
  <2>4. CASE Assemble
    BY <1>2, <2>1, <2>4, AssembleKeepsPaced
  <2>5. CASE ~ClearIoc /\ ~AfterScan /\ ~ScanDesc /\ ~Assemble
    BY <1>2, <1>4, <2>1, <2>5, AsideMakesNone, AsideKeepsPaced
  <2> QED  BY <2>2, <2>3, <2>4, <2>5
<1> QED  BY <1>2, <1>3, <1>4

(* What a worker has got, what is queued and what is on its way has been   *)
(* made.                                                                   *)
LEMMA DeliveredIsMade ==
  ASSUME QueueShape
  PROVE  Delivered \subseteq Made
<1>1. OnItsWay \subseteq Underway
  BY DEF OnItsWay, Underway, QueueShape
<1> QED  BY <1>1 DEF Delivered, Made

(* For every number of descriptors, every stream and every capacity of the *)
(* queue: as long as no read of a buffer fails, process_descriptors never  *)
(* puts a segment into two frames, nor two frames under one number, even   *)
(* if the engine completes descriptors in the middle of its scans.         *)
THEOREM SegmentsOnce == FrameSpec => []EachSegmentOnce
<1>1. FrameInv => EachSegmentOnce
  BY DeliveredIsMade DEF FrameInv, EachSegmentOnce, CleanInv, MadeApart, Clean
<1> QED  BY <1>1, FrameInitInv, FrameNextInv, PTL DEF FrameSpec

(* If the engine completes none in the middle of a scan either, a frame is *)
(* a whole frame of the stream, and a later frame has later segments.      *)
THEOREM FramesWhole == FrameSpec => []FramesAreWhole
<1>1. FrameInv => FramesAreWhole
  BY DeliveredIsMade DEF FrameInv, FramesAreWhole, CleanInv, PacedInv, MadeWhole, Clean, Paced
<1> QED  BY <1>1, FrameInitInv, FrameNextInv, PTL DEF FrameSpec
=============================================================================
