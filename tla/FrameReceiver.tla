---------------------------- MODULE FrameReceiver ----------------------------
(***************************************************************************)
(* The frame receiver of driver/axidma.c: the engine fills a ring of       *)
(* buffers with the segments of frames, an event thread assembles a frame  *)
(* of completed descriptors and enqueues it, a worker dequeues frames and  *)
(* writes one file for each.  main's calls of it are commented out in this *)
(* commit (axidma.c:970-1012, 1076-1090); main is modelled by those lines.    *)
(* Nothing but main writes TAILDESC, so the engine goes round once and     *)
(* descriptor d holds segment d of the stream.                             *)
(***************************************************************************)
EXTENDS WorkQueue, SgChannel, Sequences

CONSTANTS
  EventThread, WorkerThread,
  Worlds      (* the conditions of a run: [pace, faults]                   *)

ASSUME FrameReceiverAssumption ==
  /\ Producers = {EventThread} /\ Consumers = {WorkerThread}
  /\ Worlds \subseteq [pace : {"free", "betweenScans", "onePerScan"},
                       faults : SUBSET {"read", "save", "event", "engine"}]

VARIABLES
  world,      (* the pace of the stream and what may fail                  *)
  eofs,       (* the segments that end a frame                             *)
  running,    (* dma->running                                              *)
  main,       (* where main is                                             *)
  thread,     (* where s2mm_event_handler_thread is                        *)
  dmasr,      (* what it has read of DMASR                                 *)
  at, checked, sof, eof,  (* process_descriptors' locals                   *)
  lastChecked,(* its static variable                                       *)
  bytes,      (* desc_status[].bytes_received is not 0                     *)
  processed,  (* desc_status[].processed                                   *)
  frameCount, (* dma->frame_count                                          *)
  worker,     (* where worker_thread is                                    *)
  files       (* the files it has written                                  *)

scanVars == <<at, checked, sof, eof, lastChecked, bytes, processed>>
eventVars == <<thread, dmasr, scanVars, frameCount>>
workerVars == <<worker, files>>
frameVars == <<queueVars, sgVars, world, eofs, running, main, eventVars, workerVars>>

None == -1
NoStatus == [ioc |-> FALSE, err |-> FALSE]
IsEof(d) == d \in eofs
IsSof(d) == d = 0 \/ d - 1 \in eofs

(* The descriptors from a to b around the ring, the first n of them.  (A   *)
(* definition that differs from the one after it by a bug is a mutant.)    *)
SpanToEnd(a, b) == ((b - a) + Descs) % Descs
Span(a, b) == (((b - a) + Descs) % Descs) + 1
FirstOf(a, n) == {(a + k) % Descs : k \in 0 .. n - 1}
Frame(index, segs) == [index |-> index, segs |-> segs]

FrameInit ==
  /\ QueueInit /\ SgInit(FALSE)
  /\ world \in Worlds /\ eofs \in SUBSET Desc
  /\ running = TRUE /\ main = "create"
  /\ thread = "none" /\ dmasr = NoStatus
  /\ at = 0 /\ checked = 0 /\ sof = None /\ eof = None /\ lastChecked = 0
  /\ bytes = [d \in Desc |-> FALSE] /\ processed = [d \in Desc |-> FALSE]
  /\ frameCount = 0
  /\ worker = "none" /\ files = <<>>
-----------------------------------------------------------------------------
(* main: the threads, start_s2mm_dma, and some time later the stop.        *)
Main(from, to) == main = from /\ main' = to

CreateThreads ==
  /\ Main("create", "reset")
  /\ thread' = "test" /\ worker' = "test"
  /\ UNCHANGED <<queueVars, sgVars, world, eofs, running, dmasr, scanVars, frameCount, files>>

StartReset ==
  /\ Main("reset", "curdesc")
  /\ SgReset
  /\ UNCHANGED <<queueVars, world, eofs, running, eventVars, workerVars>>

StartCurDesc ==
  /\ Main("curdesc", "dmacr")
  /\ WriteCurDesc
  /\ UNCHANGED <<queueVars, world, eofs, running, eventVars, workerVars>>

StartRun ==
  /\ Main("dmacr", "tail")
  /\ WriteDmacr(TRUE, TRUE, TRUE)
  /\ UNCHANGED <<queueVars, world, eofs, running, eventVars, workerVars>>

StartTail ==
  /\ Main("tail", "running")
  /\ WriteTailDesc
  /\ UNCHANGED <<queueVars, world, eofs, running, eventVars, workerVars>>

StartRunning ==
  /\ Main("running", "started")
  /\ running' = TRUE
  /\ UNCHANGED <<queueVars, sgVars, world, eofs, eventVars, workerVars>>

StopRunning ==
  /\ Main("started", "stop")
  /\ running' = FALSE
  /\ UNCHANGED <<queueVars, sgVars, world, eofs, eventVars, workerVars>>

StopDmacr ==
  /\ Main("stop", "joinEvent")
  /\ WriteDmacr(FALSE, cyclic, irqEn)
  /\ UNCHANGED <<queueVars, world, eofs, running, eventVars, workerVars>>

JoinEvent ==
  /\ thread = "exited"
  /\ Main("joinEvent", "joinWorker")
  /\ UNCHANGED <<queueVars, sgVars, world, eofs, running, eventVars, workerVars>>

(* cleanup_s2mm_dma follows and frees everything.                          *)
JoinWorker ==
  /\ worker = "exited"
  /\ Main("joinWorker", "cleanedUp")
  /\ UNCHANGED <<queueVars, sgVars, world, eofs, running, eventVars, workerVars>>

MainStep ==
  \/ CreateThreads \/ StartReset \/ StartCurDesc \/ StartRun \/ StartTail \/ StartRunning
  \/ StopDmacr \/ JoinEvent \/ JoinWorker
-----------------------------------------------------------------------------
(* s2mm_event_handler_thread.                                              *)
Thread(from, to) == thread = from /\ thread' = to

TestRunning ==
  /\ Thread("test", IF running THEN "poll" ELSE "exited")
  /\ UNCHANGED <<queueVars, sgVars, world, eofs, running, main, dmasr, scanVars, frameCount, workerVars>>

PollEvent ==
  /\ Thread("poll", "status")
  /\ TakeEvent
  /\ UNCHANGED <<queueVars, world, eofs, running, main, dmasr, scanVars, frameCount, workerVars>>

PollTimeout ==
  /\ Thread("poll", "test")
  /\ UNCHANGED <<queueVars, sgVars, world, eofs, running, main, dmasr, scanVars, frameCount, workerVars>>

PollFails ==
  /\ "event" \in world.faults
  /\ Thread("poll", "exited")
  /\ UNCHANGED <<queueVars, sgVars, world, eofs, running, main, dmasr, scanVars, frameCount, workerVars>>

ReadStatus ==
  /\ Thread("status", IF ioc THEN "clearIoc" ELSE "error")
  /\ dmasr' = [ioc |-> ioc, err |-> err]
  /\ UNCHANGED <<queueVars, sgVars, world, eofs, running, main, scanVars, frameCount, workerVars>>

(* The bit is cleared before the descriptors are looked at: one completed  *)
(* later raises the line again.                                            *)
ClearIoc ==
  /\ Thread("clearIoc", "scan")
  /\ ClearIrq(TRUE, FALSE)
  /\ at' = lastChecked /\ checked' = 0 /\ sof' = None /\ eof' = None
  /\ UNCHANGED <<queueVars, world, eofs, running, main, dmasr, lastChecked, bytes, processed,
                 frameCount, workerVars>>

(* process_descriptors looks at one descriptor. A completed one that has   *)
(* not been processed gives its status; the scan ends at the end of a      *)
(* frame whose start it has seen, or after a round, which sends the next   *)
(* scan back to the first descriptor.                                      *)
Fresh(d) == done[d] /\ ~processed[d]
SofSeen == IF IsSof(at) THEN at ELSE sof

ScanDesc ==
  /\ thread = "scan"
  /\ bytes' = IF Fresh(at) THEN [bytes EXCEPT ![at] = TRUE] ELSE bytes
  /\ sof' = IF Fresh(at) THEN SofSeen ELSE sof
  /\ IF Fresh(at) /\ IsEof(at) /\ SofSeen # None
     THEN /\ eof' = at /\ lastChecked' = (at + 1) % Descs
          /\ thread' = "assemble"
          /\ UNCHANGED <<at, checked>>
     ELSE /\ at' = (at + 1) % Descs /\ checked' = checked + 1
          /\ IF checked + 1 = Descs
             THEN thread' = "error" /\ lastChecked' = 0
             ELSE UNCHANGED <<thread, lastChecked>>
          /\ UNCHANGED eof
  /\ UNCHANGED <<queueVars, sgVars, world, eofs, running, main, dmasr, processed, frameCount,
                 workerVars>>

(* The buffers of the frame are read and their descriptors marked; then    *)
(* the frame gets its number and is enqueued.  A start right after the end *)
(* makes an empty frame.                                                   *)
InOnePiece == sof <= eof \/ sof > lastChecked

(* No descriptor is marked. *)
AssembleUnmarked ==
  /\ Thread("assemble", "enqueue")
  /\ frameCount' = frameCount + 1
  /\ CallEnqueue(EventThread,
       Frame(frameCount + 1, {d \in FirstOf(sof, Span(sof, eof)) : bytes[d]}))
  /\ UNCHANGED <<sgVars, world, eofs, running, main, dmasr, scanVars, workerVars>>

Assemble ==
  /\ Thread("assemble", "enqueue")
  /\ LET frame == IF InOnePiece THEN FirstOf(sof, Span(sof, eof)) ELSE {}
     IN  /\ processed' = [d \in Desc |-> processed[d] \/ d \in frame]
         /\ frameCount' = frameCount + 1
         /\ CallEnqueue(EventThread, Frame(frameCount + 1, {d \in frame : bytes[d]}))
  /\ UNCHANGED <<sgVars, world, eofs, running, main, dmasr, at, checked, sof, eof, lastChecked, bytes,
                 workerVars>>

(* lseek or read fails after n descriptors: the frame is dropped, they     *)
(* stay marked, and the next scan starts after it.                         *)
AssembleFails ==
  /\ "read" \in world.faults /\ InOnePiece
  /\ Thread("assemble", "error")
  /\ \E n \in 0 .. Span(sof, eof) - 1 :
       processed' = [d \in Desc |-> processed[d] \/ d \in FirstOf(sof, n)]
  /\ UNCHANGED <<queueVars, sgVars, world, eofs, running, main, dmasr, at, checked, sof, eof,
                 lastChecked, bytes, frameCount, workerVars>>

Enqueue ==
  /\ thread = "enqueue"
  /\ EnqueueStep(EventThread)
  /\ thread' = IF pc'[EventThread] = "out" THEN "error" ELSE "enqueue"
  /\ UNCHANGED <<sgVars, world, eofs, running, main, dmasr, scanVars, frameCount, workerVars>>

(* The error bit is cleared, and no more; the locals are gone.             *)
AfterScan ==
  /\ Thread("error", "test")
  /\ ClearIrq(FALSE, dmasr.err)
  /\ dmasr' = NoStatus
  /\ at' = 0 /\ checked' = 0 /\ sof' = None /\ eof' = None
  /\ UNCHANGED <<queueVars, world, eofs, running, main, lastChecked, bytes, processed, frameCount,
                 workerVars>>

EventStep ==
  \/ TestRunning \/ PollEvent \/ PollTimeout \/ PollFails \/ ReadStatus \/ ClearIoc
  \/ ScanDesc \/ Assemble \/ AssembleFails \/ Enqueue \/ AfterScan
-----------------------------------------------------------------------------
(* worker_thread: while running it dequeues; then it dequeues what is      *)
(* left, by a count that it reads without the mutex.                       *)
Worker(from, to) == worker = from /\ worker' = to

WorkerTestNoDrain ==
  /\ Worker("test", IF running THEN "dequeue" ELSE "exited")
  /\ IF worker' = "dequeue" THEN CallDequeue(WorkerThread) ELSE UNCHANGED queueVars
  /\ UNCHANGED <<sgVars, world, eofs, running, main, eventVars, files>>

WorkerTest ==
  /\ Worker("test", IF running \/ count > 0 THEN "dequeue" ELSE "exited")
  /\ IF worker' = "dequeue" THEN CallDequeue(WorkerThread) ELSE UNCHANGED queueVars
  /\ UNCHANGED <<sgVars, world, eofs, running, main, eventVars, files>>

Dequeue ==
  /\ worker = "dequeue"
  /\ DequeueStep(WorkerThread)
  /\ worker' = IF pc'[WorkerThread] = "out" THEN "save" ELSE "dequeue"
  /\ UNCHANGED <<sgVars, world, eofs, running, main, eventVars, files>>

(* save_frame_to_file: the file has the frame's number.                    *)
SaveFrame ==
  /\ Worker("save", "test")
  /\ files' = Append(files, hand[WorkerThread])
  /\ UNCHANGED <<queueVars, sgVars, world, eofs, running, main, eventVars>>

SaveFails ==
  /\ "save" \in world.faults
  /\ Worker("save", "test")
  /\ UNCHANGED <<queueVars, sgVars, world, eofs, running, main, eventVars, files>>

WorkerStep == WorkerTest \/ Dequeue \/ SaveFrame \/ SaveFails

(* pthread_cond_wait may return without a signal.                          *)
SpuriousWakeUp ==
  /\ \E t \in Threads : WakeUp(t)
  /\ UNCHANGED <<sgVars, world, eofs, running, main, eventVars, workerVars>>
-----------------------------------------------------------------------------
(* The engine stores the stream. At the slower paces no segment ends while *)
(* the descriptors are looked at, and at the slowest none before the event *)
(* of the one before it has been dealt with.                               *)
PaceAllows ==
  /\ world.pace # "free" => thread # "scan"
  /\ world.pace = "onePerScan" => thread \in {"test", "poll"} /\ ~event

StoreBegin ==
  /\ Begin
  /\ UNCHANGED <<queueVars, world, eofs, running, main, eventVars, workerVars>>

StoreEnd ==
  /\ PaceAllows
  /\ Finish
  /\ UNCHANGED <<queueVars, world, eofs, running, main, eventVars, workerVars>>

StoreError ==
  /\ "engine" \in world.faults
  /\ rs /\ busy
  /\ rs' = FALSE /\ active' = FALSE /\ busy' = FALSE /\ err' = TRUE
  /\ UNCHANGED <<cyclic, irqEn, cur, done, ioc>>
  /\ Notice
  /\ UNCHANGED <<queueVars, world, eofs, running, main, eventVars, workerVars>>

FrameNext ==
  MainStep \/ StopRunning \/ EventStep \/ WorkerStep \/ SpuriousWakeUp
  \/ StoreBegin \/ StoreEnd \/ StoreError

FrameSpec == FrameInit /\ [][FrameNext]_frameVars

(* The threads run, a thread that asks for the mutex again and again gets  *)
(* it, an event that waits is seen, and a transfer that has begun ends.    *)
FairFrameSpec ==
  /\ FrameSpec
  /\ WF_frameVars(MainStep)
  /\ WF_frameVars(EventStep) /\ SF_frameVars(PollEvent) /\ SF_frameVars(Enqueue)
  /\ WF_frameVars(WorkerStep) /\ SF_frameVars(Dequeue)
  /\ WF_frameVars(StoreBegin) /\ SF_frameVars(StoreEnd)
-----------------------------------------------------------------------------
InHand == IF worker = "save" THEN {hand[WorkerThread]} ELSE {}
Queued == {items[Slot(k)] : k \in 0 .. count - 1}
OnItsWay == IF hand[EventThread] = NoItem THEN {} ELSE {hand[EventThread]}
Delivered == {files[k] : k \in DOMAIN files} \cup InHand \cup Queued \cup OnItsWay

(* No segment is in two frames, wherever the scans stop and start and      *)
(* whatever they meet half completed, and no two frames have one number.   *)
(* (A read that fails half way marks a part of a frame; then it may be.)   *)
EachSegmentOnce ==
  "read" \notin world.faults =>
    \A f, g \in Delivered : f # g => f.index # g.index /\ f.segs \cap g.segs = {}

(* Unless a segment completes in the middle of a scan, a frame in a file   *)
(* is a frame of the stream, whole, and the files have the stream's order. *)
FrameOf(d) == {e \in Desc : {x \in eofs : x < d} = {x \in eofs : x < e}}
FramesAreWhole ==
  world.pace # "free" /\ "read" \notin world.faults =>
    \A f \in Delivered :
      /\ \E d \in Desc : f.segs = FrameOf(d)
      /\ \A g \in Delivered : f.index < g.index =>
           \A d \in f.segs : \A e \in g.segs : d < e

(* A receiver that is told to stop gets its event thread back: the thread  *)
(* is not left waiting for room in a queue that no one empties.            *)
EventThreadStops == main = "joinEvent" ~> main # "joinEvent"

(* If segments come one for each scan and nothing fails, every frame gets  *)
(* into a file while the receiver runs.                                    *)
InFile(d) == \E k \in DOMAIN files : d \in files[k].segs
Unsaved == {d \in Desc : done[d] /\ IsEof(d) /\ ~InFile(d)}
EachFrameSaved ==
  (world.pace = "onePerScan" /\ world.faults = {} /\ Unsaved # {})
    ~> (Unsaved = {} \/ main # "started")

(* "Wait for the threads to end" (axidma.c:1085): the stop comes to its     *)
(* end.  The worker waits for a frame that no one enqueues any more.       *)
StopEnds == main = "joinWorker" ~> main = "cleanedUp"

(* "Process the remaining work items of the queue" (axidma.c:734).         *)
NoneLeftAtTheEnd == main = "cleanedUp" => count = 0
=============================================================================
