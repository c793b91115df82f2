-------------------------- MODULE S2mmReceiverProofs --------------------------
(***************************************************************************)
(* Proofs about the stream receiver for every number of buffers, segments  *)
(* and starts, at any pace of the stream and with failing calls: its       *)
(* types, that the thread is gone when the receiver is freed, and that     *)
(* what it saves are whole segments, each once and of a paced stream in    *)
(* order.                                                                  *)
(***************************************************************************)
EXTENDS S2mmReceiver, TLAPS

(* Before a driver starts the channel is in range. *)
LEMMA SgInitType ==
  ASSUME NEW left \in BOOLEAN, SgInit(left)
  PROVE  SgTypeOK
<1> USE DEF SgInit
<1>1. done \in [Desc -> BOOLEAN]
  OBVIOUS
<1>2. cur \in Desc
  BY SgChannelAssumption DEF Desc
<1>3. ioc \in BOOLEAN /\ event \in BOOLEAN
  OBVIOUS
<1>4. {rs, cyclic, irqEn, active, busy, err} \subseteq BOOLEAN
  OBVIOUS
<1> QED  BY <1>1, <1>2, <1>3, <1>4 DEF SgTypeOK

(* The ring closes: a driver's or the engine's next descriptor is one.     *)
LEMMA NextInRing ==
  ASSUME NEW d \in Desc
  PROVE  (d + 1) % Descs \in Desc
BY SgChannelAssumption DEF Desc

(* A driver's accesses to the registers. *)
LEMMA DmacrType ==
  ASSUME SgTypeOK, NEW run \in BOOLEAN, NEW cyc \in BOOLEAN, NEW irq \in BOOLEAN,
         WriteDmacr(run, cyc, irq)
  PROVE  SgTypeOK'
BY DEF SgTypeOK, WriteDmacr, Notice, Line, Desc

LEMMA CurDescType == SgTypeOK /\ WriteCurDesc => SgTypeOK'
BY SgChannelAssumption DEF SgTypeOK, WriteCurDesc, sgControl, Desc

LEMMA TailDescType == SgTypeOK /\ WriteTailDesc => SgTypeOK'
BY DEF SgTypeOK, WriteTailDesc, Desc

LEMMA ClearIrqType ==
  ASSUME SgTypeOK, NEW clearIoc \in BOOLEAN, NEW clearErr \in BOOLEAN,
         ClearIrq(clearIoc, clearErr)
  PROVE  SgTypeOK'
BY DEF SgTypeOK, ClearIrq, sgControl, Desc

LEMMA TakeEventType == SgTypeOK /\ TakeEvent => SgTypeOK'
BY DEF SgTypeOK, TakeEvent, sgControl, Desc

(* A driver's writes to the completed bits. *)
LEMMA SetDoneType ==
  ASSUME SgTypeOK, NEW bits \in [Desc -> BOOLEAN], SetDone(bits)
  PROVE  SgTypeOK'
BY DEF SgTypeOK, SetDone, sgControl

(* The engine's steps. *)
LEMMA BeginType == SgTypeOK /\ Begin => SgTypeOK'
BY DEF SgTypeOK, Begin, sgControl

LEMMA FinishType == SgTypeOK /\ Finish => SgTypeOK'
<1> SUFFICES ASSUME SgTypeOK, Finish PROVE SgTypeOK'
  OBVIOUS
<1>1. cur' \in Desc /\ done' \in [Desc -> BOOLEAN]
  BY NextInRing DEF SgTypeOK, Finish, Desc
<1> QED  BY <1>1 DEF SgTypeOK, Finish, Notice, Line

(* Nothing of the channel changes. *)
LEMMA SgUnchangedType == SgTypeOK /\ UNCHANGED sgVars => SgTypeOK'
BY DEF SgTypeOK, sgVars
-----------------------------------------------------------------------------

(* The types by the part of the state. *)
ClientType ==
  /\ client \in {"idle", "configured", "check", "thread", "run", "started", "stopFlag",
                 "join", "stopped", "freeFlag", "freeJoin", "freed"}
  /\ starts \in 0 .. MaxStarts

ThreadType ==
  /\ running \in BOOLEAN
  /\ thread \in {"none", "test", "read", "dmacr", "tail", "status", "poll", "append",
                 "clear", "exited"}
  /\ i \in Desc /\ copy \in Segment \cup {Torn}

DataType ==
  /\ received \in 0 .. MaxSegments
  /\ memory \in [Desc -> Segment \cup {Torn}]
  /\ file \in Seq(Segment \cup {Torn})

LEMMA TypeParts ==
  RecvTypeOK <=> setting \in {"bursts", "paced"} /\ SgTypeOK /\ ClientType /\ ThreadType /\ DataType
BY DEF RecvTypeOK, ClientType, ThreadType, DataType

LEMMA InitType == RecvInit => RecvTypeOK
<1> SUFFICES ASSUME RecvInit PROVE RecvTypeOK
  OBVIOUS
<1> USE DEF RecvInit
<1>1. SgTypeOK /\ setting \in {"bursts", "paced"}
  BY SgInitType
<1>2. ClientType /\ ThreadType
  BY SgChannelAssumption, S2mmReceiverAssumption DEF ClientType, ThreadType, Desc
<1>3. DataType
  BY S2mmReceiverAssumption DEF DataType
<1> QED  BY <1>1, <1>2, <1>3, TypeParts
-----------------------------------------------------------------------------
LEMMA ClientKeepsTypes == RecvTypeOK /\ ClientStep /\ UNCHANGED setting => RecvTypeOK'
<1> SUFFICES ASSUME SgTypeOK, ClientType, ThreadType, DataType, ClientStep,
                    setting \in {"bursts", "paced"}
             PROVE  SgTypeOK' /\ ClientType' /\ ThreadType' /\ DataType'
  BY DEF RecvTypeOK, ClientType, ThreadType, DataType
<1> USE DEF Client, threadVars, clientVars
<1>1. CASE Start
  <2>1. SgTypeOK'
    BY <1>1, SetDoneType, [d \in Desc |-> FALSE] \in [Desc -> BOOLEAN] DEF Start
  <2> QED  BY <1>1, <2>1, S2mmReceiverAssumption DEF Start, Starts, ClientType, ThreadType, DataType
<1>2. CASE StartStop \/ StopDmacr
  BY <1>2, DmacrType DEF StartStop, StopDmacr, ClientType, ThreadType, DataType
<1>3. CASE StartThread
  <2>1. SgTypeOK'
    BY <1>3, CurDescType DEF StartThread
  <2> QED  BY <1>3, <2>1 DEF StartThread, ClientType, ThreadType, DataType
<1>4. CASE StartRun
  BY <1>4, DmacrType DEF StartRun, ClientType, ThreadType, DataType
<1>5. CASE StartTail
  BY <1>5, TailDescType DEF StartTail, ClientType, ThreadType, DataType
<1>6. CASE StartNotHalted \/ StopFlag \/ StopJoin
  BY <1>6, SgUnchangedType
  DEF StartNotHalted, StopFlag, StopJoin, ClientType, ThreadType, DataType
<1> QED  BY <1>1, <1>2, <1>3, <1>4, <1>5, <1>6 DEF ClientStep

LEMMA ThreadKeepsTypes == RecvTypeOK /\ ThreadStep /\ UNCHANGED setting => RecvTypeOK'
<1> SUFFICES ASSUME SgTypeOK, ClientType, ThreadType, DataType, ThreadStep,
                    setting \in {"bursts", "paced"}
             PROVE  SgTypeOK' /\ ClientType' /\ ThreadType' /\ DataType'
  BY DEF RecvTypeOK, ClientType, ThreadType, DataType
<1> USE DEF Thread, clientVars
<1>0. NextIndex(i) \in Desc /\ 0 \in Desc
  BY NextInRing, SgChannelAssumption DEF NextIndex, ThreadType, Desc
<1>1. CASE TestRunning \/ ReadFails
  BY <1>1, SgUnchangedType DEF TestRunning, ReadFails, ClientType, ThreadType, DataType
<1>2. CASE ReadEvent
  BY <1>2, TakeEventType DEF ReadEvent, ClientType, ThreadType, DataType
<1>3. CASE RestartRun
  BY <1>3, DmacrType DEF RestartRun, ClientType, ThreadType, DataType
<1>4. CASE RestartTail
  BY <1>4, TailDescType DEF RestartTail, ClientType, ThreadType, DataType
<1>5. CASE ClearIoc
  <2>1. SgTypeOK'
    BY <1>5, ClearIrqType DEF ClearIoc
  <2> QED  BY <1>0, <1>5, <2>1 DEF ClearIoc, ClientType, ThreadType, DataType
<1>6. CASE PollPending
  BY <1>0, <1>6, SgUnchangedType DEF PollPending, NextDesc, ClientType, ThreadType, DataType
<1>7. CASE PollCompleted
  BY <1>7, SgUnchangedType DEF PollCompleted, ClientType, ThreadType, DataType
<1>8. CASE AppendBuffer \/ AppendFails
  <2>1. file' \in Seq(Segment \cup {Torn})
    BY <1>8 DEF AppendBuffer, AppendFails, ThreadType, DataType
  <2>2. SgTypeOK'
    BY <1>8, SgUnchangedType DEF AppendBuffer, AppendFails
  <2> QED  BY <1>8, <2>1, <2>2 DEF AppendBuffer, AppendFails, ClientType, ThreadType, DataType
<1>9. CASE ClearCompleted
  <2>1. SgTypeOK'
    BY <1>9, SetDoneType, [done EXCEPT ![i] = FALSE] \in [Desc -> BOOLEAN]
    DEF ClearCompleted, SgTypeOK
  <2> QED  BY <1>0, <1>9, <2>1 DEF ClearCompleted, NextDesc, ClientType, ThreadType, DataType
<1> QED  BY <1>1, <1>2, <1>3, <1>4, <1>5, <1>6, <1>7, <1>8, <1>9 DEF ThreadStep

LEMMA EngineKeepsTypes == RecvTypeOK /\ EngineStep /\ UNCHANGED setting => RecvTypeOK'
<1> SUFFICES ASSUME SgTypeOK, ClientType, ThreadType, DataType, EngineStep,
                    setting \in {"bursts", "paced"}
             PROVE  SgTypeOK' /\ ClientType' /\ ThreadType' /\ DataType'
  BY DEF RecvTypeOK, ClientType, ThreadType, DataType
<1> USE DEF threadVars, clientVars
<1>1. CASE StoreBegin
  <2>1. SgTypeOK'
    BY <1>1, BeginType DEF StoreBegin
  <2>2. DataType'
    BY <1>1, S2mmReceiverAssumption DEF StoreBegin, DataType, SgTypeOK, Segment
  <2> QED  BY <1>1, <2>1, <2>2 DEF StoreBegin, ClientType, ThreadType
<1>2. CASE StoreEnd
  <2>1. DataType'
    BY <1>2, S2mmReceiverAssumption DEF StoreEnd, DataType, SgTypeOK, Segment, Torn
  <2> QED  BY <1>2, <2>1, FinishType DEF StoreEnd, ClientType, ThreadType
<1> QED  BY <1>1, <1>2 DEF EngineStep

LEMMA NextKeepsTypes == RecvTypeOK /\ [RecvNext]_recvVars => RecvTypeOK'
<1>1. RecvTypeOK /\ UNCHANGED recvVars => RecvTypeOK'
  BY DEF recvVars, sgVars, clientVars, threadVars, RecvTypeOK, SgTypeOK
<1>2. ClientStep => UNCHANGED setting
  BY DEF ClientStep, Start, StartStop, StartNotHalted, StartThread, StartRun, StartTail,
         StopDmacr, StopFlag, StopJoin
<1>3. ThreadStep => UNCHANGED setting
  BY DEF ThreadStep, TestRunning, ReadEvent, ReadFails, RestartRun, RestartTail, ClearIoc,
         PollPending, PollCompleted, AppendBuffer, AppendFails, ClearCompleted
<1>4. EngineStep => UNCHANGED setting
  BY DEF EngineStep, StoreBegin, StoreEnd
<1> QED  BY <1>1, <1>2, <1>3, <1>4, ClientKeepsTypes, ThreadKeepsTypes, EngineKeepsTypes
         DEF RecvNext

(* The registers, the descriptors and the thread's index stay in range:    *)
(* the poll never leaves the ring of descriptors.                          *)
THEOREM RecvTypeCorrect == RecvSpec => []RecvTypeOK
BY InitType, NextKeepsTypes, PTL DEF RecvSpec
-----------------------------------------------------------------------------
(* Between two runs no thread is left and the flag is down. *)
NoThreadLeft ==
  client \in {"idle", "configured", "check", "stopped", "freeFlag", "freed"} =>
    ~running /\ thread \in {"none", "exited"}

(* thread_running is up from the start of the thread until a stop lowers   *)
(* it, before the join: a read that fails ends the thread and leaves the   *)
(* flag up, so that a stop finds a thread to join whenever there was one.  *)
FlagFollows ==
  /\ client \in {"join", "freeJoin"} => ~running
  /\ client \in {"thread", "run", "started", "stopFlag"} => running

LEMMA NextKeepsNoThread ==
  ASSUME RecvTypeOK, NoThreadLeft, FlagFollows, [RecvNext]_recvVars
  PROVE  (NoThreadLeft /\ FlagFollows)'
<1> USE DEF NoThreadLeft, FlagFollows
<1>1. CASE ClientStep
  <2> USE DEF Client, threadVars
  <2>1. CASE Start
    BY <2>1 DEF Start
  <2>2. CASE StartStop
    BY <2>2 DEF StartStop
  <2>3. CASE StartNotHalted
    BY <2>3 DEF StartNotHalted
  <2>4. CASE StartThread \/ StartRun \/ StartTail
    BY <2>4 DEF StartThread, StartRun, StartTail
  <2>5. CASE StopDmacr
    BY <2>5 DEF StopDmacr
  <2>6. CASE StopFlag
    BY <2>6 DEF StopFlag
  <2>7. CASE StopJoin
    BY <2>7 DEF StopJoin
  <2> QED  BY <1>1, <2>1, <2>2, <2>3, <2>4, <2>5, <2>6, <2>7 DEF ClientStep
<1>2. CASE ThreadStep
  <2>1. UNCHANGED <<client, running>> /\ thread \notin {"none", "exited"}
    BY <1>2
    DEF ThreadStep, TestRunning, ReadEvent, ReadFails, RestartRun, RestartTail, ClearIoc,
        PollPending, PollCompleted, AppendBuffer, AppendFails, ClearCompleted, Thread, clientVars
  <2> QED  BY <2>1
<1>3. CASE EngineStep
  BY <1>3 DEF EngineStep, StoreBegin, StoreEnd, clientVars, threadVars
<1>4. CASE UNCHANGED recvVars
  BY <1>4 DEF recvVars, clientVars, threadVars
<1> QED  BY <1>1, <1>2, <1>3, <1>4 DEF RecvNext

(* Whenever the client frees the receiver, after any number of starts and  *)
(* stops and after failed reads, its thread has come to its end.           *)
THEOREM FreeIsSafe == RecvSpec => []FreedAfterThread
<1>1. RecvInit => RecvTypeOK /\ NoThreadLeft /\ FlagFollows
  BY InitType DEF RecvInit, NoThreadLeft, FlagFollows
<1>2. RecvTypeOK /\ NoThreadLeft /\ FlagFollows /\ [RecvNext]_recvVars
        => (RecvTypeOK /\ NoThreadLeft /\ FlagFollows)'
  BY NextKeepsTypes, NextKeepsNoThread
<1>3. NoThreadLeft => FreedAfterThread
  BY DEF NoThreadLeft, FreedAfterThread
<1> QED  BY <1>1, <1>2, <1>3, PTL DEF RecvSpec
-----------------------------------------------------------------------------
(* The thread is never more than the ring behind: a paced stream waits for *)
(* it, a burst is at most as long as the ring.                             *)
Room == setting = "paced" \/ MaxBehind <= Descs

(* No two buffers hold the same segment, and none holds the one that is on *)
(* its way.                                                                *)
MemoryHolds ==
  /\ \A d \in Desc : memory[d] \in 0 .. received /\ (busy => memory[d] # received)
  /\ \A d, e \in Desc : memory[d] = memory[e] /\ memory[d] # Torn => d = e

(* The file holds segments that have come, each once. *)
FileHolds ==
  \A k \in DOMAIN file : /\ file[k] \in 1 .. received /\ (busy => file[k] # received)
                         /\ \A j \in 1 .. k - 1 : file[j] # file[k]

(* A completed descriptor's buffer holds a segment that is not in the file *)
(* unless the thread has just put it there, and the engine is elsewhere.   *)
CompletedHolds ==
  /\ \A d \in Desc : done[d] =>
       /\ memory[d] # Torn
       /\ ~(thread = "clear" /\ i = d) => \A k \in DOMAIN file : file[k] # memory[d]
  /\ busy => ~done[cur]

(* What the thread reads stays in the buffer until it clears the           *)
(* descriptor.                                                             *)
ThreadReads ==
  /\ thread \in {"append", "clear"} => done[i]
  /\ thread = "append" => copy = memory[i]

(* In a paced stream no segment comes while one waits. *)
PacedWaits ==
  setting = "paced" =>
    /\ \A d \in Desc : done[d] => ~busy /\ memory[d] = received
    /\ \A k \in DOMAIN file : \A j \in 1 .. k - 1 : file[j] < file[k]

(* How many segments the engine has stored since it was at d, and how many *)
(* it has stored at all.                                                   *)
Since(d) == IF d < cur THEN cur - 1 - d ELSE cur - 1 - d + Descs
Stored == IF busy THEN received - 1 ELSE received

(* The bursts fill the ring from its first descriptor on, in the order of  *)
(* the segments.                                                           *)
BurstsFill ==
  setting = "bursts" =>
    /\ client # "idle" => starts >= 1
    /\ client \in {"idle", "configured", "check"} => ~rs /\ ~busy /\ \A d \in Desc : ~done[d]
    /\ \A d \in Desc : done[d] => memory[d] = Stored - Since(d)

RingInv ==
  Room => /\ MemoryHolds /\ FileHolds /\ CompletedHolds
          /\ ThreadReads /\ PacedWaits /\ BurstsFill
-----------------------------------------------------------------------------
(* Before the first start nothing has come. *)
LEMMA InitRing == RecvInit => RingInv
<1> SUFFICES ASSUME RecvInit PROVE RingInv
  OBVIOUS
<1> USE DEF RecvInit, SgInit
<1>1. \A d \in Desc : memory[d] = Torn /\ ~done[d]
  OBVIOUS
<1>2. received = 0 /\ ~busy /\ ~rs /\ file = <<>> /\ client = "idle" /\ thread = "none"
  OBVIOUS
<1>3. DOMAIN file = {}
  BY <1>2
<1>4. MemoryHolds /\ FileHolds
  BY <1>1, <1>2, <1>3 DEF MemoryHolds, FileHolds, Torn
<1>5. CompletedHolds /\ ThreadReads
  BY <1>1, <1>2 DEF CompletedHolds, ThreadReads
<1>6. PacedWaits
  BY <1>1, <1>3 DEF PacedWaits
<1>7. BurstsFill
  BY <1>1, <1>2 DEF BurstsFill
<1> QED  BY <1>4, <1>5, <1>6, <1>7 DEF RingInv

(* A start clears the descriptors and sets the engine back to the first    *)
(* one, before a thread is there.                                          *)
LEMMA StartKeepsRing ==
  ASSUME RecvTypeOK, NoThreadLeft, RingInv, Room, Start
  PROVE  RingInv'
<1> USE DEF Start, SetDone
<1>1. UNCHANGED <<setting, received, memory, file, i, copy, busy, cur, rs, thread>>
  BY DEF sgControl, threadVars
<1>2. \A d \in Desc : ~done'[d]
  OBVIOUS
<1>3. thread \notin {"append", "clear"}
  BY DEF NoThreadLeft
<1>4. cur \in Desc
  BY DEF RecvTypeOK, SgTypeOK
<1>5. MemoryHolds' /\ FileHolds'
  BY <1>1 DEF RingInv, MemoryHolds, FileHolds
<1>6. CompletedHolds' /\ ThreadReads'
  BY <1>1, <1>2, <1>3, <1>4 DEF CompletedHolds, ThreadReads
<1>7. PacedWaits'
  BY <1>1, <1>2 DEF RingInv, PacedWaits
<1>8. BurstsFill'
  <2> SUFFICES ASSUME setting = "bursts" PROVE BurstsFill'
    BY <1>1 DEF BurstsFill
  <2>1. starts \in Nat /\ starts < 1
    BY DEF Starts, RecvTypeOK
  <2>2. client = "idle" /\ client' = "configured" /\ starts' = starts + 1
    BY <2>1 DEF RingInv, BurstsFill
  <2>3. ~rs /\ ~busy
    BY <2>2 DEF RingInv, BurstsFill
  <2> QED  BY <1>1, <1>2, <2>1, <2>2, <2>3 DEF BurstsFill
<1> QED  BY <1>5, <1>6, <1>7, <1>8 DEF RingInv

LEMMA StartThreadKeepsRing ==
  ASSUME RecvTypeOK, NoThreadLeft, RingInv, Room, StartThread
  PROVE  RingInv'
<1> USE DEF StartThread, WriteCurDesc, Client
<1>1. UNCHANGED <<setting, received, memory, file, i, copy, busy, done, rs, starts>>
  BY DEF sgControl
<1>2. ~busy /\ thread' = "test" /\ client = "check" /\ client' = "thread"
  BY DEF Halted
<1>3. thread \notin {"append", "clear"}
  BY <1>2 DEF NoThreadLeft
<1>4. MemoryHolds' /\ FileHolds'
  BY <1>1 DEF RingInv, MemoryHolds, FileHolds
<1>5. CompletedHolds' /\ ThreadReads'
  BY <1>1, <1>2, <1>3 DEF RingInv, CompletedHolds, ThreadReads
<1>6. PacedWaits'
  BY <1>1 DEF RingInv, PacedWaits
<1>7. BurstsFill'
  BY <1>1, <1>2 DEF RingInv, BurstsFill
<1> QED  BY <1>4, <1>5, <1>6, <1>7 DEF RingInv

(* The other calls leave the descriptors alone. *)
LEMMA ClientMovesOn ==
  ASSUME RingInv, Room, UNCHANGED <<setting, received, memory, file, i, copy, thread>>,
         UNCHANGED <<busy, cur, done, starts>>,
         client = "idle" => client' = "idle",
         client' \in {"idle", "configured", "check"} =>
           client \in {"idle", "configured", "check"} /\ (rs' => rs)
  PROVE  RingInv'
<1>1. MemoryHolds' /\ FileHolds'
  BY DEF RingInv, MemoryHolds, FileHolds
<1>2. CompletedHolds' /\ ThreadReads'
  BY DEF RingInv, CompletedHolds, ThreadReads
<1>3. PacedWaits'
  BY DEF RingInv, PacedWaits
<1>4. BurstsFill'
  BY DEF RingInv, BurstsFill, Stored, Since
<1> QED  BY <1>1, <1>2, <1>3, <1>4 DEF RingInv

LEMMA ClientKeepsRing ==
  ASSUME RecvTypeOK, NoThreadLeft, RingInv, Room, ClientStep
  PROVE  RingInv'
<1> USE DEF Client, threadVars, sgVars, sgControl
<1>1. CASE StartStop \/ StopDmacr
  BY <1>1, ClientMovesOn DEF StartStop, StopDmacr, WriteDmacr
<1>2. CASE StartRun
  BY <1>2, ClientMovesOn DEF StartRun, WriteDmacr
<1>3. CASE StartTail
  BY <1>3, ClientMovesOn DEF StartTail, WriteTailDesc
<1>4. CASE StartNotHalted
  BY <1>4, ClientMovesOn DEF StartNotHalted
<1>5. CASE StopFlag
  BY <1>5, ClientMovesOn DEF StopFlag
<1>6. CASE StopJoin
  BY <1>6, ClientMovesOn DEF StopJoin
<1> QED  BY <1>1, <1>2, <1>3, <1>4, <1>5, <1>6, StartKeepsRing, StartThreadKeepsRing
         DEF ClientStep
-----------------------------------------------------------------------------
(* The thread's steps that touch neither descriptors nor the file. *)
LEMMA ThreadMovesOn ==
  ASSUME NoThreadLeft, RingInv, Room,
         UNCHANGED <<setting, received, memory, file, busy, cur, done, client, starts>>,
         thread \notin {"none", "exited"}, thread # "clear",
         thread' \notin {"append", "clear"}
  PROVE  RingInv'
<1>1. MemoryHolds' /\ FileHolds'
  BY DEF RingInv, MemoryHolds, FileHolds
<1>2. CompletedHolds' /\ ThreadReads'
  BY DEF RingInv, CompletedHolds, ThreadReads
<1>3. PacedWaits'
  BY DEF RingInv, PacedWaits
<1>4. client \notin {"idle", "configured", "check"}
  BY DEF NoThreadLeft
<1>5. BurstsFill'
  BY <1>4 DEF RingInv, BurstsFill, Stored, Since
<1> QED  BY <1>1, <1>2, <1>3, <1>5 DEF RingInv

(* The thread reads the buffer of a completed descriptor. *)
LEMMA PollKeepsRing ==
  ASSUME RingInv, Room, PollCompleted
  PROVE  RingInv'
<1> USE DEF PollCompleted, Thread
<1>1. UNCHANGED <<setting, received, memory, file, busy, cur, done, rs, client, starts, i>>
  BY DEF sgVars, clientVars
<1>2. thread = "poll" /\ thread' = "append" /\ done[i] /\ copy' = memory[i]
  OBVIOUS
<1>3. MemoryHolds' /\ FileHolds'
  BY <1>1 DEF RingInv, MemoryHolds, FileHolds
<1>4. CompletedHolds' /\ ThreadReads'
  BY <1>1, <1>2 DEF RingInv, CompletedHolds, ThreadReads
<1>5. PacedWaits'
  BY <1>1 DEF RingInv, PacedWaits
<1>6. BurstsFill'
  BY <1>1 DEF RingInv, BurstsFill, Stored, Since
<1> QED  BY <1>3, <1>4, <1>5, <1>6 DEF RingInv

(* The segment that is appended is new to the file, and of a paced stream  *)
(* the last one that has come.                                             *)
LEMMA AppendKeepsRing ==
  ASSUME RecvTypeOK, RingInv, Room, AppendBuffer
  PROVE  RingInv'
<1> USE DEF AppendBuffer, Thread
<1>1. UNCHANGED <<setting, received, memory, busy, cur, done, rs, client, starts, i>>
  BY DEF sgVars, clientVars
<1>2. thread = "append" /\ thread' = "clear" /\ done[i] /\ copy = memory[i] /\ i \in Desc
  BY DEF RingInv, ThreadReads, RecvTypeOK
<1>3. file' = Append(file, memory[i]) /\ file \in Seq(Segment \cup {Torn})
  BY <1>2 DEF RecvTypeOK
<1> DEFINE n == Len(file)
<1>4. /\ n \in Nat /\ DOMAIN file = 1 .. n /\ DOMAIN file' = 1 .. n + 1
      /\ file'[n + 1] = memory[i] /\ \A k \in 1 .. n : file'[k] = file[k]
  <2>1. memory[i] \in Segment \cup {Torn}
    BY <1>2 DEF RecvTypeOK
  <2> QED  BY <1>3, <2>1
<1>5. /\ memory[i] # Torn /\ memory[i] \in 1 .. received /\ (busy => memory[i] # received)
      /\ \A k \in DOMAIN file : file[k] # memory[i]
  BY <1>2 DEF RingInv, CompletedHolds, MemoryHolds, Torn
<1> HIDE DEF n
<1>6. MemoryHolds'
  BY <1>1 DEF RingInv, MemoryHolds
<1>7. FileHolds'
  <2> SUFFICES ASSUME NEW k \in 1 .. n + 1
               PROVE  /\ file'[k] \in 1 .. received /\ (busy => file'[k] # received)
                      /\ \A j \in 1 .. k - 1 : file'[j] # file'[k]
    BY <1>1, <1>4 DEF FileHolds
  <2>1. CASE k = n + 1
    BY <1>4, <1>5, <2>1
  <2>2. CASE k \in 1 .. n
    <3>1. \A j \in 1 .. k - 1 : j \in 1 .. n
      BY <1>4, <2>2
    <3>2. /\ file[k] \in 1 .. received /\ (busy => file[k] # received)
          /\ \A j \in 1 .. k - 1 : file[j] # file[k]
      BY <1>4, <2>2 DEF RingInv, FileHolds
    <3> QED  BY <1>4, <2>2, <3>1, <3>2
  <2> QED  BY <1>4, <2>1, <2>2
<1>8. CompletedHolds'
  <2>1. \A d \in Desc : done[d] /\ d # i => memory[d] # memory[i]
    BY <1>2, <1>5 DEF RingInv, CompletedHolds, MemoryHolds
  <2>2. \A d \in Desc : done[d] =>
          memory[d] # Torn /\ \A k \in DOMAIN file : file[k] # memory[d]
    BY <1>2 DEF RingInv, CompletedHolds
  <2>3. \A d \in Desc : done[d] /\ d # i => \A k \in DOMAIN file' : file'[k] # memory[d]
    <3> SUFFICES ASSUME NEW d \in Desc, done[d], d # i, NEW k \in 1 .. n + 1
                 PROVE  file'[k] # memory[d]
      BY <1>4
    <3>1. CASE k = n + 1
      BY <1>4, <2>1, <3>1
    <3>2. CASE k \in 1 .. n
      BY <1>4, <2>2, <3>2
    <3> QED  BY <1>4, <3>1, <3>2
  <2>4. busy => ~done[cur]
    BY DEF RingInv, CompletedHolds
  <2> QED  BY <1>1, <1>2, <2>2, <2>3, <2>4 DEF CompletedHolds
<1>9. ThreadReads'
  BY <1>1, <1>2 DEF ThreadReads
<1>10. PacedWaits'
  <2> SUFFICES ASSUME setting = "paced" PROVE PacedWaits'
    BY <1>1 DEF PacedWaits
  <2>1. /\ \A d \in Desc : done[d] => ~busy /\ memory[d] = received
        /\ \A k \in DOMAIN file : \A j \in 1 .. k - 1 : file[j] < file[k]
    BY DEF RingInv, PacedWaits
  <2>2. \A k \in 1 .. n : file[k] < memory[i]
    <3> TAKE k \in 1 .. n
    <3>1. file[k] \in 1 .. received /\ file[k] # memory[i]
      BY <1>4, <1>5 DEF RingInv, FileHolds
    <3>2. memory[i] = received /\ received \in Nat
      BY <1>2, <2>1 DEF RecvTypeOK
    <3> QED  BY <3>1, <3>2
  <2> SUFFICES ASSUME NEW k \in 1 .. n + 1, NEW j \in 1 .. k - 1
               PROVE  file'[j] < file'[k]
    BY <1>1, <1>4, <2>1 DEF PacedWaits
  <2>3. j \in 1 .. n
    BY <1>4
  <2>4. CASE k = n + 1
    BY <1>4, <2>2, <2>3, <2>4
  <2>5. CASE k \in 1 .. n
    BY <1>4, <2>1, <2>3, <2>5
  <2> QED  BY <1>4, <2>4, <2>5
<1>11. BurstsFill'
  BY <1>1 DEF RingInv, BurstsFill, Stored, Since
<1> QED  BY <1>6, <1>7, <1>8, <1>9, <1>10, <1>11 DEF RingInv

LEMMA AppendFailsKeepsRing ==
  ASSUME RingInv, Room, AppendFails
  PROVE  RingInv'
<1> USE DEF AppendFails, Thread
<1>1. UNCHANGED <<setting, received, memory, file, busy, cur, done, rs, client, starts, i>>
  BY DEF sgVars, clientVars
<1>2. thread = "append" /\ thread' = "clear"
  OBVIOUS
<1>3. MemoryHolds' /\ FileHolds'
  BY <1>1 DEF RingInv, MemoryHolds, FileHolds
<1>4. CompletedHolds' /\ ThreadReads'
  BY <1>1, <1>2 DEF RingInv, CompletedHolds, ThreadReads
<1>5. PacedWaits'
  BY <1>1 DEF RingInv, PacedWaits
<1>6. BurstsFill'
  BY <1>1 DEF RingInv, BurstsFill, Stored, Since
<1> QED  BY <1>3, <1>4, <1>5, <1>6 DEF RingInv

(* The descriptor is cleared behind the write to the file, not before. *)
LEMMA ClearKeepsRing ==
  ASSUME RecvTypeOK, NoThreadLeft, RingInv, Room, ClearCompleted
  PROVE  RingInv'
<1> USE DEF ClearCompleted, Thread, SetDone
<1>1. UNCHANGED <<setting, received, memory, file, busy, cur, rs, client, starts>>
  BY DEF sgControl, clientVars
<1>2. thread = "clear" /\ thread' \notin {"append", "clear"}
  BY DEF NextDesc
<1>3. /\ i \in Desc /\ cur \in Desc
      /\ \A d \in Desc : done'[d] => done[d] /\ d # i
  BY DEF RecvTypeOK, SgTypeOK
<1>4. client \notin {"idle", "configured", "check"}
  BY <1>2 DEF NoThreadLeft
<1>5. MemoryHolds' /\ FileHolds'
  BY <1>1 DEF RingInv, MemoryHolds, FileHolds
<1>6. CompletedHolds' /\ ThreadReads'
  BY <1>1, <1>2, <1>3 DEF RingInv, CompletedHolds, ThreadReads
<1>7. PacedWaits'
  BY <1>1, <1>3 DEF RingInv, PacedWaits
<1>8. BurstsFill'
  BY <1>1, <1>3, <1>4 DEF RingInv, BurstsFill, Stored, Since
<1> QED  BY <1>5, <1>6, <1>7, <1>8 DEF RingInv

LEMMA ThreadKeepsRing ==
  ASSUME RecvTypeOK, NoThreadLeft, RingInv, Room, ThreadStep
  PROVE  RingInv'
<1> USE DEF Thread, sgVars, sgControl, clientVars
<1>1. CASE TestRunning \/ ReadFails
  BY <1>1, ThreadMovesOn DEF TestRunning, ReadFails
<1>2. CASE ReadEvent
  BY <1>2, ThreadMovesOn DEF ReadEvent, TakeEvent
<1>3. CASE RestartRun
  BY <1>3, ThreadMovesOn DEF RestartRun, WriteDmacr
<1>4. CASE RestartTail
  BY <1>4, ThreadMovesOn DEF RestartTail, WriteTailDesc
<1>5. CASE ClearIoc
  BY <1>5, ThreadMovesOn DEF ClearIoc, ClearIrq
<1>6. CASE PollPending
  BY <1>6, ThreadMovesOn DEF PollPending, NextDesc
<1> QED  BY <1>1, <1>2, <1>3, <1>4, <1>5, <1>6, PollKeepsRing, AppendKeepsRing,
            AppendFailsKeepsRing, ClearKeepsRing
         DEF ThreadStep
-----------------------------------------------------------------------------
(* Before a segment comes, what the engine writes to has been saved: of a  *)
(* paced stream nothing waits, and in a burst only a segment a whole ring  *)
(* ago would be in the way.                                                *)
LEMMA NoneInTheWay ==
  ASSUME RecvTypeOK, RingInv, Room, StoreBegin
  PROVE  /\ ~busy /\ ~done[cur]
         /\ setting = "paced" => \A d \in Desc : ~done[d]
<1>1. cur \in Desc /\ received \in Nat /\ ~busy
  BY DEF RecvTypeOK, SgTypeOK, StoreBegin, Begin
<1>2. \A d \in Desc : done[d] => memory[d] \in Int /\ ~(received - memory[d] + 1 >= Pace)
  <2> SUFFICES ASSUME NEW d \in Desc, done[d]
               PROVE  memory[d] \in Int /\ ~(received - memory[d] + 1 >= Pace)
    OBVIOUS
  <2>1. memory[d] \in Waiting
    BY DEF Waiting
  <2>2. ~Behind(Pace)
    BY DEF StoreBegin
  <2>3. memory[d] \in 0 .. received
    BY DEF RingInv, MemoryHolds
  <2> QED  BY <2>1, <2>2, <2>3 DEF Behind
<1>3. CASE setting = "paced"
  <2>1. \A d \in Desc : ~done[d]
    <3> SUFFICES ASSUME NEW d \in Desc, done[d] PROVE FALSE
      OBVIOUS
    <3>1. memory[d] = received /\ Pace = 1
      BY <1>3 DEF RingInv, PacedWaits, Pace
    <3> QED  BY <1>1, <1>2, <3>1
  <2> QED  BY <1>1, <2>1
<1>4. CASE setting # "paced"
  <2>1. setting = "bursts" /\ MaxBehind <= Descs /\ Pace = MaxBehind
    BY <1>4 DEF RecvTypeOK, Room, Pace
  <2>2. done[cur] => memory[cur] = received - (Descs - 1)
    BY <1>1, <2>1, SgChannelAssumption DEF RingInv, BurstsFill, Stored, Since, Desc
  <2> QED  BY <1>1, <1>2, <1>4, <2>1, <2>2, SgChannelAssumption, S2mmReceiverAssumption
<1> QED  BY <1>3, <1>4

LEMMA StoreBeginKeepsRing ==
  ASSUME RecvTypeOK, NoThreadLeft, RingInv, Room, StoreBegin
  PROVE  RingInv'
<1>1. /\ UNCHANGED <<setting, file, cur, done, rs, client, starts, i, thread, copy>>
      /\ ~busy /\ busy' /\ received' = received + 1
      /\ memory' = [memory EXCEPT ![cur] = Torn]
  BY DEF StoreBegin, Begin, sgControl, clientVars, threadVars
<1>2. cur \in Desc /\ i \in Desc /\ received \in Nat
  BY DEF RecvTypeOK, SgTypeOK
<1>3. memory'[cur] = Torn /\ \A d \in Desc : d # cur => memory'[d] = memory[d]
  BY <1>1, <1>2 DEF RecvTypeOK
<1>4. ~done[cur] /\ (setting = "paced" => \A d \in Desc : ~done[d])
  BY NoneInTheWay
<1>5. MemoryHolds'
  <2>1. \A d \in Desc : memory[d] \in 0 .. received
    BY DEF RingInv, MemoryHolds
  <2>2. \A d \in Desc : memory'[d] \in 0 .. received' /\ memory'[d] # received'
    BY <1>1, <1>2, <1>3, <2>1 DEF Torn
  <2>3. \A d, e \in Desc : memory'[d] = memory'[e] /\ memory'[d] # Torn => d = e
    BY <1>3 DEF RingInv, MemoryHolds
  <2> QED  BY <1>1, <2>2, <2>3 DEF MemoryHolds
<1>6. FileHolds'
  <2>1. \A k \in DOMAIN file : /\ file[k] \in 1 .. received
                               /\ \A j \in 1 .. k - 1 : file[j] # file[k]
    BY DEF RingInv, FileHolds
  <2>2. \A s \in 1 .. received : s \in 1 .. received' /\ s # received'
    BY <1>1, <1>2
  <2> QED  BY <1>1, <2>1, <2>2 DEF FileHolds
<1>7. CompletedHolds'
  BY <1>1, <1>3, <1>4 DEF RingInv, CompletedHolds
<1>8. ThreadReads'
  BY <1>1, <1>2, <1>3, <1>4 DEF RingInv, ThreadReads
<1>9. PacedWaits'
  BY <1>1, <1>4 DEF RingInv, PacedWaits
<1>10. BurstsFill'
  <2>1. Stored' = Stored /\ \A d : Since(d)' = Since(d)
    BY <1>1, <1>2 DEF Stored, Since
  <2>2. ~(client \in {"idle", "configured", "check"} /\ setting = "bursts")
    BY DEF RingInv, BurstsFill, StoreBegin, Begin
  <2> QED  BY <1>1, <1>3, <1>4, <2>1, <2>2 DEF RingInv, BurstsFill
<1> QED  BY <1>5, <1>6, <1>7, <1>8, <1>9, <1>10 DEF RingInv

(* The engine goes round the ring. *)
LEMMA NextOfRing ==
  ASSUME NEW d \in Desc
  PROVE  (d + 1) % Descs = IF d = Last THEN 0 ELSE d + 1
BY SgChannelAssumption DEF Desc, Last

LEMMA StoreEndKeepsRing ==
  ASSUME RecvTypeOK, NoThreadLeft, RingInv, Room, StoreEnd
  PROVE  RingInv'
<1>1. /\ UNCHANGED <<setting, received, file, rs, client, starts, i, thread, copy>>
      /\ busy /\ ~busy' /\ cur' = (cur + 1) % Descs
      /\ done' = [done EXCEPT ![cur] = TRUE] /\ memory' = [memory EXCEPT ![cur] = received]
  BY DEF StoreEnd, Finish, clientVars, threadVars
<1>2. cur \in Desc /\ i \in Desc /\ received \in Nat
  BY DEF RecvTypeOK, SgTypeOK
<1>3. /\ memory'[cur] = received /\ done'[cur]
      /\ \A d \in Desc : d # cur => memory'[d] = memory[d] /\ done'[d] = done[d]
  BY <1>1, <1>2 DEF RecvTypeOK, SgTypeOK
<1>4. \A d \in Desc : memory[d] \in 0 .. received /\ memory[d] # received
  BY <1>1 DEF RingInv, MemoryHolds
<1>5. ~done[cur]
  BY <1>1 DEF RingInv, CompletedHolds
<1>6. MemoryHolds'
  BY <1>1, <1>2, <1>3, <1>4 DEF RingInv, MemoryHolds
<1>7. FileHolds'
  BY <1>1 DEF RingInv, FileHolds
<1>8. CompletedHolds'
  <2>1. received # Torn
    BY <1>2, <1>4 DEF Torn
  <2>2. \A k \in DOMAIN file : file[k] # received
    BY <1>1 DEF RingInv, FileHolds
  <2>3. \A d \in Desc : done[d] =>
          /\ memory[d] # Torn
          /\ ~(thread = "clear" /\ i = d) => \A k \in DOMAIN file : file[k] # memory[d]
    BY DEF RingInv, CompletedHolds
  <2> QED  BY <1>1, <1>2, <1>3, <2>1, <2>2, <2>3 DEF CompletedHolds
<1>9. ThreadReads'
  BY <1>1, <1>2, <1>3, <1>5 DEF RingInv, ThreadReads
<1>10. PacedWaits'
  BY <1>1, <1>2, <1>3 DEF RingInv, PacedWaits
<1>11. BurstsFill'
  <2> SUFFICES ASSUME setting = "bursts" PROVE BurstsFill'
    BY <1>1 DEF BurstsFill
  <2>1. client \notin {"idle", "configured", "check"} /\ (client # "idle" => starts >= 1)
    BY <1>1 DEF RingInv, BurstsFill
  <2>2. Stored' = received /\ Stored = received - 1
    BY <1>1 DEF Stored
  <2>3. \A d \in Desc : done[d] => memory[d] = received - 1 - Since(d)
    BY <2>2 DEF RingInv, BurstsFill
  <2>4. cur' = IF cur = Last THEN 0 ELSE cur + 1
    BY <1>1, <1>2, NextOfRing
  <2>5. \A d \in Desc : Since(d) \in Int /\ Since(d)' = IF d = cur THEN 0 ELSE Since(d) + 1
    BY <1>2, <2>4, SgChannelAssumption DEF Since, Desc, Last
  <2>6. \A d \in Desc : done'[d] => memory'[d] = received - Since(d)'
    BY <1>2, <1>3, <2>3, <2>5
  <2> QED  BY <1>1, <2>1, <2>2, <2>6 DEF BurstsFill
<1> QED  BY <1>6, <1>7, <1>8, <1>9, <1>10, <1>11 DEF RingInv

LEMMA NextKeepsRing ==
  ASSUME RecvTypeOK, NoThreadLeft, RingInv, [RecvNext]_recvVars
  PROVE  RingInv'
<1>1. UNCHANGED setting
  BY DEF RecvNext, recvVars, ClientStep, Start, StartStop, StartNotHalted, StartThread, StartRun,
         StartTail, StopDmacr, StopFlag, StopJoin, ThreadStep, TestRunning, ReadEvent, ReadFails,
         RestartRun, RestartTail, ClearIoc, PollPending, PollCompleted, AppendBuffer, AppendFails,
         ClearCompleted, EngineStep, StoreBegin, StoreEnd
<1>2. CASE ~Room
  BY <1>1, <1>2 DEF RingInv, Room
<1>3. CASE Room /\ UNCHANGED recvVars
  BY <1>3, ClientMovesOn DEF recvVars, sgVars, clientVars, threadVars
<1> QED  BY <1>2, <1>3, ClientKeepsRing, ThreadKeepsRing, StoreBeginKeepsRing, StoreEndKeepsRing
         DEF RecvNext, EngineStep

(* The buffers, the descriptors, the thread and the file fit together. *)
LEMMA RingInvariant == RecvSpec => []RingInv
<1>1. RecvInit => RecvTypeOK /\ NoThreadLeft /\ FlagFollows /\ RingInv
  BY InitType, InitRing DEF RecvInit, NoThreadLeft, FlagFollows
<1>2. RecvTypeOK /\ NoThreadLeft /\ FlagFollows /\ RingInv /\ [RecvNext]_recvVars
        => (RecvTypeOK /\ NoThreadLeft /\ FlagFollows /\ RingInv)'
  BY NextKeepsTypes, NextKeepsNoThread, NextKeepsRing
<1> QED  BY <1>1, <1>2, PTL DEF RecvSpec

(* Every buffer in the file was read whole, and each segment is there once *)
(* (process_completed_buffer against the engine): for every number of      *)
(* buffers, if the thread is never more than the ring behind.              *)
THEOREM SavesWholeOnce ==
  ASSUME MaxBehind <= Descs
  PROVE  RecvSpec => []SavedWholeOnce
<1>1. RingInv => SavedWholeOnce
  <2> SUFFICES ASSUME RingInv PROVE SavedWholeOnce
    OBVIOUS
  <2>1. FileHolds
    BY DEF RingInv, Room
  <2> QED  BY <2>1 DEF FileHolds, SavedWholeOnce, Torn
<1> QED  BY <1>1, RingInvariant, PTL

(* The file of a paced stream is in order, whatever calls fail and however *)
(* often the client starts anew.                                           *)
THEOREM SavesInOrder == RecvSpec => []SavedInOrder
<1>1. RingInv => SavedInOrder
  BY DEF RingInv, Room, PacedWaits, SavedInOrder
<1> QED  BY <1>1, RingInvariant, PTL
=============================================================================
