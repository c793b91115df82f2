---------------------------- MODULE S2mmReceiver ----------------------------
(***************************************************************************)
(* The stream receiver library driver_s2mm (axidma_s2mm.c): a ring of      *)
(* buffers that the engine fills with the segments of a stream, a thread   *)
(* that appends filled buffers to the output file, and a client that       *)
(* starts, stops and frees the receiver.                                   *)
(***************************************************************************)
EXTENDS SgChannel, Sequences

CONSTANTS
  MaxSegments,  (* the length of the stream                                *)
  MaxStarts,    (* how often the client starts the receiver                *)
  MaxBehind     (* how many segments the thread may fall behind            *)

ASSUME S2mmReceiverAssumption ==
  MaxSegments \in Nat /\ MaxStarts \in Nat \ {0} /\ MaxBehind \in Nat

VARIABLES
  setting,    (* "bursts": segments come while the thread is fewer than    *)
              (* MaxBehind behind; one start, and no call fails.           *)
              (* "paced": a segment comes when the one before it has been  *)
              (* saved; saving and reading events may fail, and the client *)
              (* starts up to MaxStarts times.                             *)
  received,   (* segments that have begun to arrive                        *)
  memory,     (* what each buffer holds                                    *)
  file,       (* the output file                                           *)
  client,     (* where the client is in its calls                          *)
  starts,
  running,    (* handle->thread_running                                    *)
  thread,     (* where the thread is                                       *)
  i,          (* the descriptor it looks at                                *)
  copy        (* what it reads of that descriptor's buffer                 *)

clientVars == <<client, starts>>
threadVars == <<thread, i, copy>>
recvVars == <<setting, sgVars, received, memory, file, clientVars, running, threadVars>>

(* What is read of a buffer while the engine writes to it. *)
Torn == 0
Segment == 1 .. MaxSegments

Pace == IF setting = "bursts" THEN MaxBehind ELSE 1
Starts == IF setting = "bursts" THEN 1 ELSE MaxStarts
Faults == setting = "paced"

RecvInit ==
  /\ setting \in {"bursts", "paced"}
  /\ SgInit(TRUE)
  /\ received = 0
  /\ memory = [d \in Desc |-> Torn]
  /\ file = <<>>
  /\ client = "idle" /\ starts = 0
  /\ running = FALSE
  /\ thread = "none" /\ i = 0 /\ copy = Torn
-----------------------------------------------------------------------------
(* axidma_s2mm_start: the descriptors, DMACR and its effect, CURDESC and   *)
(* the thread, DMACR again, TAILDESC.                                      *)
Client(from, to) == client = from /\ client' = to

Start ==
  /\ client \in {"idle", "stopped"} /\ starts < Starts
  /\ client' = "configured"
  /\ starts' = starts + 1
  /\ SetDone([d \in Desc |-> FALSE])
  /\ UNCHANGED <<setting, received, memory, file, running, threadVars>>

StartStop ==
  /\ Client("configured", "check")
  /\ WriteDmacr(FALSE, FALSE, FALSE)
  /\ UNCHANGED <<setting, received, memory, file, starts, running, threadVars>>

StartNotHalted ==
  /\ ~Halted
  /\ Client("check", "stopped")
  /\ UNCHANGED <<setting, sgVars, received, memory, file, starts, running, threadVars>>

StartThread ==
  /\ Halted
  /\ Client("check", "thread")
  /\ WriteCurDesc
  /\ running' = TRUE
  /\ thread' = "test"
  /\ UNCHANGED <<setting, received, memory, file, starts, i, copy>>

StartRun ==
  /\ Client("thread", "run")
  /\ WriteDmacr(TRUE, TRUE, TRUE)
  /\ UNCHANGED <<setting, received, memory, file, starts, running, threadVars>>

StartTail ==
  /\ Client("run", "started")
  /\ WriteTailDesc
  /\ UNCHANGED <<setting, received, memory, file, starts, running, threadVars>>

(* axidma_s2mm_stop, also called by axidma_s2mm_free, which a client calls *)
(* last.                                                                   *)
StopDmacr ==
  /\ \/ Client("started", "stopFlag")
     \/ Client("stopped", "freeFlag")
  /\ WriteDmacr(FALSE, FALSE, FALSE)
  /\ UNCHANGED <<setting, received, memory, file, starts, running, threadVars>>

StopFlag ==
  /\ \/ Client("stopFlag", IF running THEN "join" ELSE "stopped")
     \/ Client("freeFlag", IF running THEN "freeJoin" ELSE "freed")
  /\ running' = FALSE
  /\ UNCHANGED <<setting, sgVars, received, memory, file, starts, threadVars>>

StopNoJoin ==
  /\ \/ Client("join", "stopped")
     \/ Client("freeJoin", "freed")
  /\ UNCHANGED <<setting, sgVars, received, memory, file, starts, running, threadVars>>

StopJoin ==
  /\ thread = "exited"
  /\ \/ Client("join", "stopped")
     \/ Client("freeJoin", "freed")
  /\ UNCHANGED <<setting, sgVars, received, memory, file, starts, running, threadVars>>

ClientStep ==
  \/ Start \/ StartStop \/ StartNotHalted \/ StartThread \/ StartRun \/ StartTail
  \/ StopDmacr \/ StopFlag \/ StopJoin
-----------------------------------------------------------------------------
(* intr_handler_thread.                                                    *)
Thread(from, to) == thread = from /\ thread' = to

TestRunning ==
  /\ Thread("test", IF running THEN "read" ELSE "exited")
  /\ UNCHANGED <<setting, sgVars, received, memory, file, clientVars, running, i, copy>>

ReadEvent ==
  /\ Thread("read", "dmacr")
  /\ TakeEvent
  /\ UNCHANGED <<setting, received, memory, file, clientVars, running, i, copy>>

ReadFails ==
  /\ Faults
  /\ Thread("read", "exited")
  /\ UNCHANGED <<setting, sgVars, received, memory, file, clientVars, running, i, copy>>

RestartRun ==
  /\ Thread("dmacr", "tail")
  /\ WriteDmacr(TRUE, TRUE, TRUE)
  /\ UNCHANGED <<setting, received, memory, file, clientVars, running, i, copy>>

RestartTail ==
  /\ Thread("tail", "status")
  /\ WriteTailDesc
  /\ UNCHANGED <<setting, received, memory, file, clientVars, running, i, copy>>

(* DMASR is read and its IOC bit written back; a descriptor completed in   *)
(* between finds the bit set.  (A definition that differs from the one     *)
(* after it by a bug is a mutant: it tests the properties.)                *)
ClearIocNot ==
  /\ Thread("status", "poll")
  /\ i' = 0
  /\ UNCHANGED <<setting, sgVars, received, memory, file, clientVars, running, copy>>

ClearIoc ==
  /\ Thread("status", "poll")
  /\ ClearIrq(TRUE, FALSE)
  /\ i' = 0
  /\ UNCHANGED <<setting, received, memory, file, clientVars, running, copy>>

(* The descriptors are polled by index, in whatever order they completed.  *)
NextDesc(d) == IF d = Last THEN "test" ELSE "poll"

NextIndex(d) == (d + 1) % Descs

PollPending ==
  /\ ~done[i]
  /\ Thread("poll", NextDesc(i))
  /\ i' = NextIndex(i)
  /\ UNCHANGED <<setting, sgVars, received, memory, file, clientVars, running, copy>>

(* process_completed_buffer: the buffer is read, which takes a while, and  *)
(* appended to the file, or one of the calls fails.                        *)
PollAny ==
  /\ Thread("poll", "append")
  /\ copy' = memory[i]
  /\ UNCHANGED <<setting, sgVars, received, memory, file, clientVars, running, i>>

PollCompleted ==
  /\ done[i]
  /\ Thread("poll", "append")
  /\ copy' = memory[i]
  /\ UNCHANGED <<setting, sgVars, received, memory, file, clientVars, running, i>>

AppendBuffer ==
  /\ Thread("append", "clear")
  /\ file' = Append(file, IF memory[i] = copy THEN copy ELSE Torn)
  /\ UNCHANGED <<setting, sgVars, received, memory, clientVars, running, i, copy>>

AppendFails ==
  /\ Faults
  /\ Thread("append", "clear")
  /\ UNCHANGED <<setting, sgVars, received, memory, file, clientVars, running, i, copy>>

ClearNone ==
  /\ Thread("clear", NextDesc(i))
  /\ i' = NextIndex(i)
  /\ copy' = Torn
  /\ UNCHANGED <<setting, sgVars, received, memory, file, clientVars, running>>

ClearCompleted ==
  /\ Thread("clear", NextDesc(i))
  /\ SetDone([done EXCEPT ![i] = FALSE])
  /\ i' = NextIndex(i)
  /\ copy' = Torn
  /\ UNCHANGED <<setting, received, memory, file, clientVars, running>>

ThreadStep ==
  \/ TestRunning \/ ReadEvent \/ ReadFails \/ RestartRun \/ RestartTail \/ ClearIoc
  \/ PollPending \/ PollCompleted \/ AppendBuffer \/ AppendFails \/ ClearCompleted
-----------------------------------------------------------------------------
(* The engine stores the stream in the buffers, at the stream's pace.      *)
(* Behind is how many segments the thread is behind, from the oldest one   *)
(* that waits in a buffer.                                                 *)
Waiting == {memory[d] : d \in {e \in Desc : done[e]}}

Behind(n) == \E s \in Waiting : received - s + 1 >= n

StoreBegin ==
  /\ received < MaxSegments
  /\ ~Behind(Pace)
  /\ Begin
  /\ received' = received + 1
  /\ memory' = [memory EXCEPT ![cur] = Torn]
  /\ UNCHANGED <<setting, file, clientVars, running, threadVars>>

StoreEnd ==
  /\ Finish
  /\ memory' = [memory EXCEPT ![cur] = received]
  /\ UNCHANGED <<setting, received, file, clientVars, running, threadVars>>

EngineStep == StoreBegin \/ StoreEnd

RecvNext == ClientStep \/ ThreadStep \/ EngineStep

RecvSpec == RecvInit /\ [][RecvNext]_recvVars

(* The threads run, a call of the client goes on to its end, and a         *)
(* transfer that has begun ends; the stream may dry up, and the client     *)
(* need not stop.                                                          *)
FairRecvSpec ==
  /\ RecvSpec
  /\ WF_recvVars(ThreadStep)
  /\ WF_recvVars(client \notin {"idle", "started", "stopped"} /\ ClientStep)
  /\ WF_recvVars(StoreEnd)
-----------------------------------------------------------------------------
RecvTypeOK ==
  /\ setting \in {"bursts", "paced"}
  /\ SgTypeOK
  /\ received \in 0 .. MaxSegments
  /\ memory \in [Desc -> Segment \cup {Torn}]
  /\ file \in Seq(Segment \cup {Torn})
  /\ client \in {"idle", "configured", "check", "thread", "run", "started", "stopFlag",
                 "join", "stopped", "freeFlag", "freeJoin", "freed"}
  /\ starts \in 0 .. MaxStarts /\ running \in BOOLEAN
  /\ thread \in {"none", "test", "read", "dmacr", "tail", "status", "poll", "append",
                 "clear", "exited"}
  /\ i \in Desc /\ copy \in Segment \cup {Torn}

InFile(s) == \E k \in DOMAIN file : file[k] = s

(* No buffer is saved while the engine writes to it, and none twice. *)
SavedWholeOnce ==
  \A k \in DOMAIN file : file[k] # Torn /\ \A j \in 1 .. k - 1 : file[j] # file[k]

(* The file of a paced stream holds the segments in the order in which     *)
(* they came, whatever fails and however often the client starts anew.     *)
SavedInOrder ==
  setting = "paced" => \A k \in DOMAIN file : \A j \in 1 .. k - 1 : file[j] < file[k]

(* When the receiver is freed, its thread no longer uses it. *)
FreedAfterThread == client = "freed" => thread \in {"none", "exited"}

(* axidma_s2mm_stop leaves the engine stopped. *)
StoppedStaysStopped == client = "stopped" => ~rs

(* A call of axidma_s2mm_stop returns. *)
StopEnds == client = "join" ~> client = "stopped"

(* While the receiver is started, every segment gets into the file. *)
EverySegmentSaved ==
  \A s \in Segment : (setting = "bursts" /\ received = s /\ client = "started")
                     ~> (InFile(s) \/ client # "started")
=============================================================================
