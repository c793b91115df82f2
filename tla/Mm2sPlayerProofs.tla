--------------------------- MODULE Mm2sPlayerProofs ---------------------------
(***************************************************************************)
(* Proofs about the file player, for every length of file.  Played once at *)
(* any pace, and with an interrupt left or not: although the two handler   *)
(* threads share the file's position and the offset without a lock and may *)
(* give up halfway, the file counts as complete only when all of it has    *)
(* been read or a read has failed.  Played once or cyclically while the    *)
(* threads keep pace and no call fails: the chunks go out in order.        *)
(***************************************************************************)
EXTENDS Mm2sPlayer, TLAPS

(* Before a driver starts the channel is in range. *)
LEMMA SgInitType ==
  ASSUME NEW left \in BOOLEAN, SgInit(left)
  PROVE  SgTypeOK
<1> USE DEF SgInit
<1>1. done \in [Desc -> BOOLEAN]
  OBVIOUS
<1>2. cur \in Desc
  BY SgChannelAssumption DEF Desc
<1>3. ioc \in BOOLEAN /\ event \in BOOLEAN
  OBVIOUS
<1>4. {rs, cyclic, irqEn, active, busy, err} \subseteq BOOLEAN
  OBVIOUS
<1> QED  BY <1>1, <1>2, <1>3, <1>4 DEF SgTypeOK

(* The ring closes: a driver's or the engine's next descriptor is one.     *)
LEMMA NextInRing ==
  ASSUME NEW d \in Desc
  PROVE  (d + 1) % Descs \in Desc
BY SgChannelAssumption DEF Desc

(* A driver's accesses to the registers. *)
LEMMA DmacrType ==
  ASSUME SgTypeOK, NEW run \in BOOLEAN, NEW cyc \in BOOLEAN, NEW irq \in BOOLEAN,
         WriteDmacr(run, cyc, irq)
  PROVE  SgTypeOK'
BY DEF SgTypeOK, WriteDmacr, Notice, Line, Desc

LEMMA CurDescType == SgTypeOK /\ WriteCurDesc => SgTypeOK'
BY SgChannelAssumption DEF SgTypeOK, WriteCurDesc, sgControl, Desc

LEMMA TailDescType == SgTypeOK /\ WriteTailDesc => SgTypeOK'
BY DEF SgTypeOK, WriteTailDesc, Desc

LEMMA ClearIrqType ==
  ASSUME SgTypeOK, NEW clearIoc \in BOOLEAN, NEW clearErr \in BOOLEAN,
         ClearIrq(clearIoc, clearErr)
  PROVE  SgTypeOK'
BY DEF SgTypeOK, ClearIrq, sgControl, Desc

LEMMA TakeEventType == SgTypeOK /\ TakeEvent => SgTypeOK'
BY DEF SgTypeOK, TakeEvent, sgControl, Desc

LEMMA ResetType == SgTypeOK /\ SgReset => SgTypeOK'
BY DEF SgTypeOK, SgReset, Desc

(* A driver's writes to the completed bits. *)
LEMMA SetDoneType ==
  ASSUME SgTypeOK, NEW bits \in [Desc -> BOOLEAN], SetDone(bits)
  PROVE  SgTypeOK'
BY DEF SgTypeOK, SetDone, sgControl

(* The engine's steps. *)
LEMMA BeginType == SgTypeOK /\ Begin => SgTypeOK'
BY DEF SgTypeOK, Begin, sgControl

LEMMA FinishType == SgTypeOK /\ Finish => SgTypeOK'
<1> SUFFICES ASSUME SgTypeOK, Finish PROVE SgTypeOK'
  OBVIOUS
<1>1. cur' \in Desc /\ done' \in [Desc -> BOOLEAN]
  BY NextInRing DEF SgTypeOK, Finish, Desc
<1> QED  BY <1>1 DEF SgTypeOK, Finish, Notice, Line

LEMMA MeetCompletedType == SgTypeOK /\ MeetCompleted => SgTypeOK'
BY DEF SgTypeOK, MeetCompleted, Notice, Line

(* Nothing of the channel changes. *)
LEMMA SgUnchangedType == SgTypeOK /\ UNCHANGED sgVars => SgTypeOK'
BY DEF SgTypeOK, sgVars
-----------------------------------------------------------------------------

(* The chunks read from the file that the offset does not count yet: those *)
(* of the threads between the read and the store of the offset.            *)
Uncounted(h) == IF thread[h] \in {"store", "advance"} THEN 1 ELSE 0
Pending == Uncounted("start") + Uncounted("wait")

(* The offset, and the value of it that a thread is about to add to, leave *)
(* room for every chunk that is pending; an update that is lost makes it   *)
(* fall behind and never ahead.                                            *)
OffsetBehind ==
  /\ currentOffset + Pending <= filePos
  /\ \A h \in Handlers : thread[h] = "advance" => loaded[h] + Pending <= filePos

(* A thread that has entered its loop has its buffer. *)
HasItsBuffer ==
  \A h \in Handlers : thread[h] \notin {"none", "enter", "exited"} => hasBuffer[h]

(* No thread runs before the file is played; the index that a thread has   *)
(* loaded is one of a descriptor; the file is played once.                 *)
Context ==
  /\ main = "idle" => \A h \in Handlers : thread[h] = "none"
  /\ \A h \in Handlers : thread[h] = "switch" => loaded[h] \in Desc
  /\ isCyclic = FALSE

PlayerInv ==
  /\ PlayerStateOK /\ OffsetBehind /\ HasItsBuffer /\ Context
  /\ fileCompleted => filePos = Chunks \/ "read" \in failed
-----------------------------------------------------------------------------
LEMMA InitPlayerInv ==
  ASSUME Modes = {FALSE}, PlayerInit
  PROVE  PlayerInv
<1> USE Mm2sPlayerAssumption DEF PlayerInit
<1>1. SgTypeOK
  BY SgInitType
<1>2. /\ hasBuffer \in [Handlers -> BOOLEAN] /\ seen \in [Handlers -> BOOLEAN]
      /\ isCyclic \in BOOLEAN /\ isRunning \in BOOLEAN /\ fileCompleted \in BOOLEAN
  OBVIOUS
<1>3. /\ memory \in [Desc -> Chunk \cup {Mixed}] /\ sending \in Chunk \cup {Mixed}
      /\ sent \in Seq(Chunk \cup {Mixed})
      /\ buffer \in [Handlers -> Chunk \cup {Mixed}] /\ loaded \in [Handlers -> 0 .. Chunks]
  OBVIOUS
<1>4. currentDescIdx \in Desc /\ currentOffset \in 0 .. Chunks /\ filePos \in 0 .. Chunks
  BY DEF Desc
<1>5. PlayerStateOK
  BY <1>1, <1>2, <1>3, <1>4 DEF PlayerStateOK, Calls
<1>6. OffsetBehind
  BY DEF OffsetBehind, Pending, Uncounted, Handlers
<1>7. HasItsBuffer /\ Context /\ ~fileCompleted
  BY DEF HasItsBuffer, Context
<1> QED  BY <1>5, <1>6, <1>7 DEF PlayerInv

(* The types of PlayerStateOK, each in a conjunct. *)
PlayerTypes ==
  /\ SgTypeOK
  /\ memory \in [Desc -> Chunk \cup {Mixed}] /\ sending \in Chunk \cup {Mixed}
  /\ sent \in Seq(Chunk \cup {Mixed})
  /\ isCyclic \in BOOLEAN /\ isRunning \in BOOLEAN /\ fileCompleted \in BOOLEAN
  /\ currentOffset \in 0 .. Chunks /\ currentDescIdx \in Desc /\ filePos \in 0 .. Chunks
  /\ main \in {"idle", "reset", "curdesc", "dmacr", "tail", "wait", "join", "free", "halt",
               "freed"}
  /\ key \in {"none", "pressed", "read"}
  /\ thread \in [Handlers -> {"none", "enter", "test", "read", "status", "clear", "desc0",
                              "desc1", "switch", "fill", "store", "advance", "finish", "exited"}]
  /\ hasBuffer \in [Handlers -> BOOLEAN] /\ seen \in [Handlers -> BOOLEAN]
  /\ buffer \in [Handlers -> Chunk \cup {Mixed}] /\ loaded \in [Handlers -> 0 .. Chunks]
  /\ failed \subseteq Calls

(* The parts that speak of the offset, the position and the threads. *)
Progress ==
  /\ OffsetBehind /\ HasItsBuffer /\ Context
  /\ fileCompleted => filePos = Chunks \/ "read" \in failed

-----------------------------------------------------------------------------
LEMMA MainKeepsTypes ==
  ASSUME PlayerTypes, Progress, MainStep
  PROVE  PlayerTypes'
<1> USE DEF PlayerTypes, Main, outside, data, ctx, threadVars
<1>1. CASE PlayFile
  <2>1. memory' \in [Desc -> Chunk \cup {Mixed}]
    BY <1>1, Mm2sPlayerAssumption DEF PlayFile, Chunk
  <2>2. /\ filePos' \in 0 .. Chunks /\ currentOffset' \in 0 .. Chunks
        /\ fileCompleted' \in BOOLEAN /\ isRunning' \in BOOLEAN /\ currentDescIdx' \in Desc
    BY <1>1, Mm2sPlayerAssumption DEF PlayFile, Desc
  <2>3. SgTypeOK'
    BY <1>1, SgUnchangedType DEF PlayFile
  <2> QED  BY <1>1, <2>1, <2>2, <2>3 DEF PlayFile
<1>2. CASE ResetDma
  BY <1>2, ResetType DEF ResetDma
<1>3. CASE SetCurDesc
  BY <1>3, CurDescType DEF SetCurDesc
<1>4. CASE RunDma
  BY <1>4, DmacrType DEF RunDma
<1>5. CASE StartTail
  BY <1>5, TailDescType DEF StartTail
<1>6. CASE WaitCreate \/ WaitJoin \/ FreeTimeout
  BY <1>6, SgUnchangedType DEF WaitCreate, WaitJoin, FreeTimeout
<1>7. CASE FreeStop \/ FreeHalted
  <2>1. rs \in BOOLEAN /\ cyclic \in BOOLEAN /\ irqEn \in BOOLEAN
    BY DEF SgTypeOK
  <2> QED  BY <1>7, <2>1, DmacrType DEF FreeStop, FreeHalted
<1> QED  BY <1>1, <1>2, <1>3, <1>4, <1>5, <1>6, <1>7 DEF MainStep

LEMMA MainKeepsProgress ==
  ASSUME PlayerTypes, Progress, MainStep
  PROVE  Progress'
<1> USE DEF PlayerTypes, Progress, OffsetBehind, Pending, Uncounted, HasItsBuffer, Context, Main,
        outside, data, ctx, threadVars, Handlers
<1>1. CASE PlayFile
  <2>1. \A h \in Handlers : thread'[h] \in {"none", "enter"}
    BY <1>1 DEF PlayFile
  <2> QED  BY <1>1, <2>1, Mm2sPlayerAssumption DEF PlayFile
<1>2. CASE WaitCreate
  BY <1>2 DEF WaitCreate
<1>3. CASE /\ UNCHANGED <<threadVars, failed, isCyclic, fileCompleted, currentOffset, filePos>>
           /\ main' # "idle"
  BY <1>3
<1>4. MainStep => PlayFile \/ WaitCreate \/
        (/\ UNCHANGED <<threadVars, failed, isCyclic, fileCompleted, currentOffset, filePos>>
         /\ main' # "idle")
  BY DEF MainStep, ResetDma, SetCurDesc, RunDma, StartTail, WaitJoin, FreeStop, FreeHalted,
         FreeTimeout
<1> QED  BY <1>1, <1>2, <1>3, <1>4
-----------------------------------------------------------------------------
(* A thread that adds to the offset is counted as pending, and a step of a *)
(* thread changes only its own part of the count.                          *)
LEMMA PendingStep ==
  ASSUME PlayerTypes, NEW h \in Handlers
  PROVE  /\ Pending \in Nat
         /\ thread[h] \in {"store", "advance"} => Pending >= 1
BY DEF PlayerTypes, Pending, Uncounted, Handlers

LEMMA HandlerKeepsTypes ==
  ASSUME PlayerTypes, Progress, NEW h \in Handlers, HandlerStep(h)
  PROVE  PlayerTypes'
<1> USE DEF PlayerTypes, Thread, outside, data, ctx, threadVars
<1>0. rs \in BOOLEAN /\ cyclic \in BOOLEAN /\ irqEn \in BOOLEAN
  BY DEF SgTypeOK
<1>1. CASE Enter(h) \/ TestRunning(h)
  <2>1. CASE Enter(h)
    BY <2>1, SgUnchangedType DEF Enter
  <2>2. CASE TestRunning(h)
    BY <2>2, SgUnchangedType DEF TestRunning
  <2> QED  BY <1>1, <2>1, <2>2
<1>2. CASE ReadEvent(h)
  BY <1>2, TakeEventType DEF ReadEvent
<1>3. CASE ReadStatus(h) \/ ClearStatus(h)
  <2>1. ioc \in BOOLEAN
    BY DEF SgTypeOK
  <2>2. CASE ReadStatus(h)
    BY <2>1, <2>2, SgUnchangedType DEF ReadStatus
  <2>3. CASE ClearStatus(h)
    BY <2>3, ClearIrqType DEF ClearStatus
  <2> QED  BY <1>3, <2>2, <2>3
<1>4. CASE ClearDesc0(h)
  <2>1. SgTypeOK'
    BY <1>4, SetDoneType, [done EXCEPT ![0] = FALSE] \in [Desc -> BOOLEAN] DEF ClearDesc0, SgTypeOK
  <2> QED  BY <1>4, <2>1 DEF ClearDesc0
<1>5. CASE ClearDesc1(h)
  <2>1. SgTypeOK'
    BY <1>5, Mm2sPlayerAssumption DEF ClearDesc1, SgTypeOK, Desc
  <2>2. loaded' \in [Handlers -> 0 .. Chunks]
    BY <1>5, Mm2sPlayerAssumption DEF ClearDesc1, LoadDescIdx, Desc
  <2> QED  BY <1>5, <2>1, <2>2 DEF ClearDesc1, LoadDescIdx
<1>6. CASE AtFileEnd(h) \/ AtKey(h) \/ AtRefill(h)
  <2>1. \E to \in {"exited", "test", "fill"} : SwitchTo(h, to)
    BY <1>6 DEF AtFileEnd, AtKey, AtRefill
  <2>2. currentDescIdx' \in Desc
    BY <2>1, Mm2sPlayerAssumption DEF SwitchTo, Progress, Context, Desc
  <2>3. loaded' \in [Handlers -> 0 .. Chunks]
    BY <2>1, Mm2sPlayerAssumption DEF SwitchTo
  <2>4. key' \in {"none", "pressed", "read"}
    BY <1>6 DEF AtFileEnd, AtKey, AtRefill
  <2>5. SgTypeOK'
    BY <2>1, SgUnchangedType DEF SwitchTo
  <2> QED  BY <2>1, <2>2, <2>3, <2>4, <2>5 DEF SwitchTo
<1>7. CASE FillBuffer(h)
  <2>1. filePos' \in 0 .. Chunks /\ buffer' \in [Handlers -> Chunk \cup {Mixed}]
    BY <1>7, Mm2sPlayerAssumption DEF FillBuffer, CanRead, Chunk
  <2> QED  BY <1>7, <2>1, SgUnchangedType DEF FillBuffer
<1>8. CASE FillNothing(h) \/ ReadFails(h)
  BY <1>8, SgUnchangedType DEF FillNothing, ReadFails, Calls
<1>9. CASE StoreChunk(h)
  <2>1. memory' \in [Desc -> Chunk \cup {Mixed}]
    BY <1>9 DEF StoreChunk, Filled
  <2>2. loaded' \in [Handlers -> 0 .. Chunks]
    BY <1>9 DEF StoreChunk
  <2> QED  BY <1>9, <2>1, <2>2, SgUnchangedType DEF StoreChunk
<1>10. CASE AdvanceOffset(h)
  <2>1. loaded[h] + 1 \in 0 .. Chunks
    <3>1. loaded[h] \in 0 .. Chunks
      OBVIOUS
    <3>2. loaded[h] + Pending <= filePos
      BY <1>10 DEF AdvanceOffset, Progress, OffsetBehind
    <3>3. Pending \in Nat /\ Pending >= 1
      BY <1>10, PendingStep DEF AdvanceOffset
    <3> QED  BY <3>1, <3>2, <3>3, Mm2sPlayerAssumption
  <2>2. currentOffset' \in 0 .. Chunks /\ fileCompleted' \in BOOLEAN
    BY <1>10, <2>1 DEF AdvanceOffset
  <2>3. loaded' \in [Handlers -> 0 .. Chunks]
    BY <1>10, Mm2sPlayerAssumption DEF AdvanceOffset
  <2> QED  BY <1>10, <2>2, <2>3, SgUnchangedType DEF AdvanceOffset
<1>11. CASE EndOnce(h)
  <2>1. SgTypeOK'
    BY <1>0, <1>11, DmacrType DEF EndOnce
  <2> QED  BY <1>11, <2>1 DEF EndOnce
<1>12. CASE Rewind(h)
  BY <1>12 DEF Rewind, Progress, Context
<1>13. CASE NoBuffer(h) \/ NoEvent(h) \/ ShortWrite(h)
  <2>1. \E from : GivesUp(h, from)
    BY <1>13 DEF NoBuffer, NoEvent, ShortWrite
  <2>2. memory' \in [Desc -> Chunk \cup {Mixed}]
    BY <1>13 DEF NoBuffer, NoEvent, ShortWrite
  <2> QED  BY <2>1, <2>2, SgUnchangedType DEF GivesUp, Calls
<1> QED  BY <1>1, <1>2, <1>3, <1>4, <1>5, <1>6, <1>7, <1>8, <1>9, <1>10, <1>11, <1>12, <1>13
         DEF HandlerStep, HandlerServes, HandlerFails

LEMMA PendingAfter ==
  ASSUME PlayerTypes, NEW h \in Handlers, NEW to, thread' = [thread EXCEPT ![h] = to]
  PROVE  Pending' = Pending - Uncounted(h) + (IF to \in {"store", "advance"} THEN 1 ELSE 0)
BY DEF PlayerTypes, Pending, Uncounted, Handlers

(* How the steps of the loop move a thread, the offset and the position. *)
QuietStep(h) ==
  /\ UNCHANGED <<currentOffset, filePos>>
  /\ \E to : /\ thread' = [thread EXCEPT ![h] = to]
            /\ thread[h] \notin {"store", "advance"} /\ to \notin {"store", "advance"}
  /\ \A g \in Handlers : g # h => loaded'[g] = loaded[g]

LEMMA StepKinds ==
  ASSUME PlayerTypes, isCyclic = FALSE, NEW h \in Handlers, HandlerStep(h)
  PROVE  QuietStep(h) \/ FillBuffer(h) \/ StoreChunk(h) \/ AdvanceOffset(h) \/ ShortWrite(h)
<1> USE DEF Thread, ctx, PlayerTypes
<1>1. CASE Enter(h) \/ TestRunning(h) \/ ReadEvent(h) \/ ReadStatus(h) \/ ClearStatus(h) \/ ClearDesc0(h)
  <2>1. /\ UNCHANGED <<currentOffset, filePos, loaded>>
        /\ thread[h] \notin {"store", "advance"}
    BY <1>1 DEF Enter, TestRunning, ReadEvent, ReadStatus, ClearStatus, ClearDesc0
  <2>2. \E to \in {"exited", "test", "read", "status", "clear", "desc0", "desc1"} :
          thread' = [thread EXCEPT ![h] = to]
    BY <1>1 DEF Enter, TestRunning, ReadEvent, ReadStatus, ClearStatus, ClearDesc0
  <2> QED  BY <2>1, <2>2 DEF QuietStep
<1>2. CASE ClearDesc1(h) \/ AtFileEnd(h) \/ AtKey(h) \/ AtRefill(h)
  <2>1. /\ UNCHANGED <<currentOffset, filePos>>
        /\ thread[h] \notin {"store", "advance"}
        /\ \A g \in Handlers : g # h => loaded'[g] = loaded[g]
    BY <1>2 DEF ClearDesc1, LoadDescIdx, AtFileEnd, AtKey, AtRefill, SwitchTo
  <2>2. \E to \in {"exited", "test", "fill", "switch"} : thread' = [thread EXCEPT ![h] = to]
    BY <1>2 DEF ClearDesc1, LoadDescIdx, AtFileEnd, AtKey, AtRefill, SwitchTo
  <2> QED  BY <2>1, <2>2 DEF QuietStep
<1>3. CASE FillNothing(h) \/ ReadFails(h) \/ EndOnce(h) \/ NoBuffer(h) \/ NoEvent(h)
  BY <1>3 DEF FillNothing, ReadFails, EndOnce, NoBuffer, NoEvent, GivesUp, QuietStep
<1> QED  BY <1>1, <1>2, <1>3 DEF HandlerStep, HandlerServes, HandlerFails, Rewind

LEMMA HandlerKeepsOffset ==
  ASSUME PlayerTypes, Progress, NEW h \in Handlers, HandlerStep(h)
  PROVE  OffsetBehind'
<1>0. /\ currentOffset \in Nat /\ filePos \in Nat /\ Pending \in Nat
      /\ \A g \in Handlers : loaded[g] \in Nat
      /\ DOMAIN thread = Handlers /\ DOMAIN loaded = Handlers
  BY PendingStep, Mm2sPlayerAssumption DEF PlayerTypes
<1>1. /\ currentOffset + Pending <= filePos
      /\ \A g \in Handlers : thread[g] = "advance" => loaded[g] + Pending <= filePos
  BY DEF Progress, OffsetBehind
<1>2. CASE QuietStep(h)
  <2>1. Pending' = Pending
    <3>1. PICK to : /\ thread' = [thread EXCEPT ![h] = to]
                    /\ thread[h] \notin {"store", "advance"} /\ to \notin {"store", "advance"}
      BY <1>2 DEF QuietStep
    <3>2. Pending' = Pending - Uncounted(h) + 0
      BY <3>1, PendingAfter
    <3> QED  BY <1>0, <3>1, <3>2 DEF Uncounted
  <2>2. \A g \in Handlers : thread'[g] = "advance" => thread[g] = "advance" /\ loaded'[g] = loaded[g]
    BY <1>0, <1>2 DEF QuietStep
  <2>3. currentOffset' = currentOffset /\ filePos' = filePos
    BY <1>2 DEF QuietStep
  <2> QED  BY <1>1, <2>1, <2>2, <2>3 DEF OffsetBehind
<1>3. CASE FillBuffer(h)
  <2>1. Pending' = Pending + 1
    <3>1. thread' = [thread EXCEPT ![h] = "store"]
      BY <1>3 DEF FillBuffer, Thread
    <3>2. Uncounted(h) = 0
      BY <1>3 DEF FillBuffer, Thread, Uncounted
    <3>3. Pending' = Pending - Uncounted(h) + 1
      BY <3>1, PendingAfter
    <3> QED  BY <1>0, <3>2, <3>3
  <2>2. \A g \in Handlers : thread'[g] = "advance" => thread[g] = "advance" /\ loaded'[g] = loaded[g]
    BY <1>0, <1>3 DEF FillBuffer, Thread
  <2>3. currentOffset' = currentOffset /\ filePos' = filePos + 1
    BY <1>3 DEF FillBuffer
  <2> QED  BY <1>0, <1>1, <2>1, <2>2, <2>3 DEF OffsetBehind
<1>4. CASE StoreChunk(h)
  <2>1. Pending' = Pending
    <3>1. thread' = [thread EXCEPT ![h] = "advance"]
      BY <1>4 DEF StoreChunk, Thread
    <3>2. Uncounted(h) = 1
      BY <1>4 DEF StoreChunk, Thread, Uncounted
    <3>3. Pending' = Pending - Uncounted(h) + 1
      BY <3>1, PendingAfter
    <3> QED  BY <1>0, <3>2, <3>3
  <2>2. \A g \in Handlers : thread'[g] = "advance" =>
          \/ thread[g] = "advance" /\ loaded'[g] = loaded[g]
          \/ loaded'[g] = currentOffset
    BY <1>0, <1>4 DEF StoreChunk, Thread
  <2>3. currentOffset' = currentOffset /\ filePos' = filePos
    BY <1>4 DEF StoreChunk, ctx
  <2> QED  BY <1>0, <1>1, <2>1, <2>2, <2>3 DEF OffsetBehind
<1>5. CASE AdvanceOffset(h)
  <2>1. Pending' = Pending - 1
    <3>1. PICK to \in {"finish", "test"} : thread' = [thread EXCEPT ![h] = to]
      BY <1>5 DEF AdvanceOffset, Thread
    <3>2. Uncounted(h) = 1
      BY <1>5 DEF AdvanceOffset, Thread, Uncounted
    <3>3. Pending' = Pending - Uncounted(h) + 0
      BY <3>1, PendingAfter
    <3> QED  BY <1>0, <3>2, <3>3
  <2>2. \A g \in Handlers : thread'[g] = "advance" => thread[g] = "advance" /\ loaded'[g] = loaded[g]
    BY <1>0, <1>5 DEF AdvanceOffset, Thread
  <2>3. currentOffset' = loaded[h] + 1 /\ filePos' = filePos /\ thread[h] = "advance"
    BY <1>5 DEF AdvanceOffset, Thread
  <2> QED  BY <1>0, <1>1, <2>1, <2>2, <2>3 DEF OffsetBehind
<1>6. CASE ShortWrite(h)
  <2>1. Pending' = Pending - 1
    <3>1. thread' = [thread EXCEPT ![h] = "exited"]
      BY <1>6 DEF ShortWrite, GivesUp, Thread
    <3>2. Uncounted(h) = 1
      BY <1>6 DEF ShortWrite, GivesUp, Thread, Uncounted
    <3>3. Pending' = Pending - Uncounted(h) + 0
      BY <3>1, PendingAfter
    <3> QED  BY <1>0, <3>2, <3>3
  <2>2. \A g \in Handlers : thread'[g] = "advance" => thread[g] = "advance" /\ loaded'[g] = loaded[g]
    BY <1>0, <1>6 DEF ShortWrite, GivesUp, Thread
  <2>3. currentOffset' = currentOffset /\ filePos' = filePos
    BY <1>6 DEF ShortWrite, GivesUp, ctx
  <2> QED  BY <1>0, <1>1, <2>1, <2>2, <2>3 DEF OffsetBehind
<1> QED  BY <1>2, <1>3, <1>4, <1>5, <1>6, StepKinds DEF Progress, Context

LEMMA HandlerKeepsProgress ==
  ASSUME PlayerTypes, Progress, NEW h \in Handlers, HandlerStep(h)
  PROVE  Progress'
<1> USE DEF PlayerTypes
<1>0. OffsetBehind'
  BY HandlerKeepsOffset
<1>1. isCyclic = FALSE /\ isCyclic' = FALSE /\ main' = main /\ main # "idle"
  <2>1. isCyclic' = isCyclic /\ main' = main /\ thread[h] # "none"
    BY DEF HandlerStep, HandlerServes, HandlerFails,
         Enter, TestRunning, ReadEvent, ReadStatus, ClearStatus, ClearDesc0,
           ClearDesc1, LoadDescIdx, AtFileEnd, AtKey, AtRefill, SwitchTo, FillBuffer, FillNothing,
           ReadFails, StoreChunk, AdvanceOffset, EndOnce, Rewind, NoBuffer, NoEvent, ShortWrite,
           GivesUp, Thread, ctx
  <2> QED  BY <2>1 DEF Progress, Context
(* The threads' loaded index and buffer. *)
<1>2. \A g \in Handlers : thread'[g] = "switch" => loaded'[g] \in Desc
  <2>1. \A g \in Handlers : thread[g] = "switch" => loaded[g] \in Desc
    BY DEF Progress, Context
  <2>2. CASE ClearDesc1(h)
    BY <2>1, <2>2 DEF ClearDesc1, LoadDescIdx, Thread
  <2>3. CASE AtFileEnd(h) \/ AtKey(h) \/ AtRefill(h)
    BY <2>1, <2>3 DEF AtFileEnd, AtKey, AtRefill, SwitchTo, Thread
  <2>4. CASE StoreChunk(h) \/ AdvanceOffset(h)
    BY <2>1, <2>4 DEF StoreChunk, AdvanceOffset, Thread
  <2>5. CASE Enter(h) \/ TestRunning(h) \/ ReadEvent(h) \/ ReadStatus(h) \/ ClearStatus(h) \/ ClearDesc0(h)
    BY <2>1, <2>5 DEF Enter, TestRunning, ReadEvent, ReadStatus, ClearStatus, ClearDesc0, Thread
  <2>6. CASE FillBuffer(h) \/ FillNothing(h) \/ ReadFails(h) \/ EndOnce(h)
    BY <2>1, <2>6 DEF FillBuffer, FillNothing, ReadFails, EndOnce, Thread
  <2>7. CASE NoBuffer(h) \/ NoEvent(h) \/ ShortWrite(h)
    BY <2>1, <2>7 DEF NoBuffer, NoEvent, ShortWrite, GivesUp, Thread
  <2> QED  BY <1>1, <2>2, <2>3, <2>4, <2>5, <2>6, <2>7 DEF HandlerStep, HandlerServes, HandlerFails, Rewind
<1>3. HasItsBuffer'
  <2>1. HasItsBuffer
    BY DEF Progress
  <2>2. CASE Enter(h)
    BY <1>1, <2>1, <2>2 DEF Enter, Thread, HasItsBuffer
  <2>3. CASE TestRunning(h) \/ ReadEvent(h) \/ ReadStatus(h) \/ ClearStatus(h) \/ ClearDesc0(h)
    BY <2>1, <2>3 DEF TestRunning, ReadEvent, ReadStatus, ClearStatus, ClearDesc0, Thread, HasItsBuffer
  <2>4. CASE ClearDesc1(h) \/ AtFileEnd(h) \/ AtKey(h) \/ AtRefill(h)
    BY <2>1, <2>4 DEF ClearDesc1, LoadDescIdx, AtFileEnd, AtKey, AtRefill, SwitchTo, Thread,
                      HasItsBuffer
  <2>5. CASE FillBuffer(h) \/ FillNothing(h) \/ StoreChunk(h) \/ AdvanceOffset(h) \/ EndOnce(h)
    BY <2>1, <2>5 DEF FillBuffer, FillNothing, StoreChunk, AdvanceOffset, EndOnce, Thread,
                      HasItsBuffer
  <2>6. CASE ReadFails(h) \/ NoBuffer(h) \/ NoEvent(h) \/ ShortWrite(h)
    BY <2>1, <2>6 DEF ReadFails, NoBuffer, NoEvent, ShortWrite, GivesUp, Thread, HasItsBuffer
  <2> QED  BY <1>1, <2>2, <2>3, <2>4, <2>5, <2>6 DEF HandlerStep, HandlerServes, HandlerFails, Rewind
(* The file counts as complete. *)
<1>4. fileCompleted' => filePos' = Chunks \/ "read" \in failed'
  <2>1. /\ fileCompleted => filePos = Chunks \/ "read" \in failed
        /\ currentOffset + Pending <= filePos /\ Pending \in Nat
        /\ currentOffset \in 0 .. Chunks /\ filePos \in 0 .. Chunks
    BY PendingStep DEF Progress, OffsetBehind
  <2>2. CASE FillBuffer(h)
    BY <2>1, <2>2 DEF FillBuffer, CanRead, outside
  <2>3. CASE FillNothing(h)
    <3>1. hasBuffer[h]
      BY <2>3 DEF FillNothing, Thread, Progress, HasItsBuffer
    <3> QED  BY <2>1, <2>3, <3>1, Mm2sPlayerAssumption DEF FillNothing, CanRead
  <2>4. CASE AdvanceOffset(h)
    <3>1. loaded[h] \in 0 .. Chunks /\ loaded[h] + Pending <= filePos /\ Pending >= 1
      BY <2>4, PendingStep DEF AdvanceOffset, Thread, Progress, OffsetBehind
    <3>2. Reaches(loaded[h] + 1) => filePos = Chunks
      BY <2>1, <3>1, Mm2sPlayerAssumption DEF Reaches
    <3> QED  BY <2>1, <2>4, <3>2 DEF AdvanceOffset, outside
  <2>5. CASE UNCHANGED <<fileCompleted, filePos>> /\ failed \subseteq failed'
    BY <2>1, <2>5
  <2>6. CASE ReadFails(h)
    BY <2>6 DEF ReadFails
  <2> QED
    BY <1>1, <2>2, <2>3, <2>4, <2>5, <2>6
    DEF HandlerStep, HandlerServes, HandlerFails,
         Enter, TestRunning, ReadEvent, ReadStatus, ClearStatus, ClearDesc0, ClearDesc1,
        LoadDescIdx, AtFileEnd, AtKey, AtRefill, SwitchTo, StoreChunk, EndOnce, Rewind, NoBuffer,
        NoEvent, ShortWrite, GivesUp, ctx, outside
<1> QED  BY <1>0, <1>1, <1>2, <1>3, <1>4 DEF Progress, Context
-----------------------------------------------------------------------------
LEMMA OthersKeepInv ==
  ASSUME PlayerTypes, Progress, PressKey \/ EngineStep \/ UNCHANGED playerVars
  PROVE  PlayerTypes' /\ Progress'
<1> USE DEF outside, data, ctx, threadVars
<1>1. UNCHANGED <<ctx, main, threadVars, failed>>
  BY DEF PressKey, EngineStep, SendBegin, SendEnd, SendError, playerVars
<1>2. Progress'
  BY <1>1 DEF Progress, OffsetBehind, Pending, Uncounted, HasItsBuffer, Context
<1> USE DEF PlayerTypes
<1>3. CASE PressKey \/ UNCHANGED playerVars
  BY <1>2, <1>3, SgUnchangedType DEF PressKey, playerVars
<1>4. CASE SendBegin
  BY <1>2, <1>4, BeginType DEF SendBegin, SgTypeOK
<1>5. CASE SendEnd
  <2>1. sent' \in Seq(Chunk \cup {Mixed})
    BY <1>5 DEF SendEnd
  <2> QED  BY <1>2, <1>5, <2>1, FinishType DEF SendEnd
<1>6. CASE SendError
  BY <1>2, <1>6, MeetCompletedType DEF SendError
<1> QED  BY <1>3, <1>4, <1>5, <1>6 DEF EngineStep

LEMMA NextKeepsInv == PlayerInv /\ [PlayerNext]_playerVars => PlayerInv'
<1> SUFFICES ASSUME PlayerTypes, Progress, [PlayerNext]_playerVars
             PROVE  PlayerTypes' /\ Progress'
  BY DEF PlayerInv, PlayerTypes, Progress, PlayerStateOK
<1>1. CASE MainStep
  BY <1>1, MainKeepsTypes, MainKeepsProgress
<1>2. CASE \E h \in Handlers : HandlerStep(h)
  BY <1>2, HandlerKeepsTypes, HandlerKeepsProgress
<1> QED  BY <1>1, <1>2, OthersKeepInv DEF PlayerNext

(* The pace and the length of the file are given, and a call that has      *)
(* failed stays so. *)
LEMMA SettingStays ==
  [PlayerNext]_playerVars => UNCHANGED <<paced, lastShort>> /\ failed \subseteq failed'
<1>1. MainStep => UNCHANGED outside
  BY DEF MainStep, PlayFile, ResetDma, SetCurDesc, RunDma, StartTail, WaitCreate, WaitJoin,
         FreeStop, FreeHalted, FreeTimeout
<1>2. \A h \in Handlers :
        HandlerStep(h) => UNCHANGED <<paced, lastShort>> /\ failed \subseteq failed'
  BY DEF HandlerStep, HandlerServes, HandlerFails,
         Enter, TestRunning, ReadEvent, ReadStatus, ClearStatus, ClearDesc0,
         ClearDesc1, LoadDescIdx, AtFileEnd, AtKey, AtRefill, SwitchTo, FillBuffer, FillNothing,
         ReadFails, StoreChunk, AdvanceOffset, EndOnce, Rewind, GivesUp, NoBuffer, NoEvent, ShortWrite, outside
<1>3. PressKey \/ EngineStep => UNCHANGED outside
  BY DEF PressKey, EngineStep, SendBegin, SendEnd, SendError
<1> QED  BY <1>1, <1>2, <1>3 DEF PlayerNext, playerVars, outside

(* Every variable keeps its type when a file is played once: whatever the  *)
(* threads do the offset and the position stay within the file and the     *)
(* descriptor's index within the ring.                                     *)
THEOREM PlayerTypeCorrect ==
  ASSUME Modes = {FALSE}
  PROVE  PlayerSpec => []PlayerTypeOK
<1> DEFINE Settings == {paced, lastShort} \subseteq BOOLEAN
<1>1. PlayerInit => Settings
  BY DEF PlayerInit
<1>2. Settings /\ [PlayerNext]_playerVars => Settings'
  BY SettingStays
<1>3. PlayerInv /\ Settings => PlayerTypeOK
  BY DEF PlayerInv, PlayerTypeOK
<1> HIDE DEF Settings
<1> QED  BY <1>1, <1>2, <1>3, InitPlayerInv, NextKeepsInv, PTL DEF PlayerSpec

(* A file that is played once counts as complete only when all of it has   *)
(* been read or a read has failed, for every length of the file and every  *)
(* interleaving of the two handler threads that share its position and     *)
(* offset and may give up halfway.                                         *)
THEOREM CompletesHonestly ==
  ASSUME Modes = {FALSE}
  PROVE  PlayerSpec => []CompleteMeansRead
<1>1. PlayerInv => CompleteMeansRead
  BY DEF PlayerInv, CompleteMeansRead
<1> QED  BY <1>1, InitPlayerInv, NextKeepsInv, PTL DEF PlayerSpec
-----------------------------------------------------------------------------
(* The order in which the chunks go out, in single and cyclic play, while  *)
(* the threads keep pace and no key has been read.                         *)

(* The chunk to send k-th, the one after a chunk, and where the file's     *)
(* position is when a chunk has been stored.                               *)
At(k) == 1 + ((k - 1) % Chunks)
Following(c) == IF c = Chunks THEN 1 ELSE c + 1
Position(c) == IF isCyclic /\ c = Chunks THEN 0 ELSE c
Due == At(Len(sent) + 1)
Long == Chunks > 2

OrderTypes ==
  /\ isCyclic \in BOOLEAN /\ fileCompleted \in BOOLEAN
  /\ memory \in [Desc -> Int] /\ sending \in Int /\ sent \in Seq(Int)
  /\ currentOffset \in Int /\ currentDescIdx \in Int /\ filePos \in Int
  /\ thread \in [Handlers -> {"none", "enter", "test", "read", "status", "clear", "desc0",
                              "desc1", "switch", "fill", "store", "advance", "finish", "exited"}]
  /\ hasBuffer \in [Handlers -> BOOLEAN] /\ seen \in [Handlers -> BOOLEAN]
  /\ buffer \in [Handlers -> Int] /\ loaded \in [Handlers -> Int]

(* A thread that has read an event and is not done with it.                *)
Serves(h) == thread[h] \in {"status", "clear", "desc0", "desc1", "switch", "fill", "store",
                            "advance", "finish"}
Begun == main \notin {"idle", "reset", "curdesc", "dmacr", "tail", "wait"}

(* Before play_test waits, nothing has gone out; both threads are in their *)
(* loops before the first event.                                           *)
Beginning ==
  /\ main = "idle" => thread["start"] = "none"
  /\ main # "idle" => thread["start"] # "none"
  /\ thread["wait"] = "none" <=> ~Begun
  /\ main \in {"idle", "reset", "curdesc", "dmacr", "tail"} => ~active /\ ~busy
  /\ main \notin {"idle", "reset", "curdesc", "dmacr"} => irqEn
  /\ ~Begun => sent = <<>> /\ cur = 0
  /\ sent = <<>> => ~event /\ ~ioc /\ \A h \in Handlers : ~Serves(h)
  /\ sent # <<>> => \A h \in Handlers : thread[h] \notin {"none", "enter"}

(* One thread at a time serves an event, and before the next one.  A       *)
(* thread leaves its loop only when a file that is played once is complete. *)
TakeTurns ==
  /\ \A h, g \in Handlers : Serves(h) /\ Serves(g) => h = g
  /\ event => \A h \in Handlers : ~Serves(h)
  /\ (\E h \in Handlers : thread[h] = "exited") => ~isCyclic /\ fileCompleted
  /\ main \in {"free", "halt", "freed"} => thread["wait"] = "exited"
  /\ ~isRunning => main \in {"idle", "freed"}
  /\ busy => sending = memory[cur]

(* A file that fits the buffer is in it from the beginning.                *)
ShortFile ==
  ~Long /\ main # "idle" =>
    fileCompleted /\ \A h \in Handlers : thread[h] \notin {"fill", "store", "advance", "finish"}

(* A longer one, until it is complete if it is played once: where the      *)
(* position, the offset and the descriptor's index are, between events,    *)
(* while an event waits for a thread, and in each step of its service.     *)
Live == Long /\ main # "idle" /\ (isCyclic \/ ~fileCompleted)
ReadUpTo(c) == filePos = Position(c) /\ currentOffset = filePos /\ ~fileCompleted
Left(n) == isCyclic \/ Len(sent) + n < Chunks

Unserved(h) == thread[h] \in {"status", "clear", "desc0", "desc1", "switch"}
AtRest ==
  ~event /\ (\A h \in Handlers : ~Serves(h)) =>
    ~ioc /\ currentDescIdx = cur /\ ReadUpTo(Following(Due)) /\ Left(2)
BeforeService ==
  event \/ (\E h \in Handlers : Unserved(h)) =>
    currentDescIdx = 1 - cur /\ ReadUpTo(Due) /\ Left(1)
Signs ==
  /\ event => ioc
  /\ \A h \in Handlers :
       /\ thread[h] \in {"status", "clear"} => ioc
       /\ Serves(h) /\ thread[h] \notin {"status", "clear"} => ~ioc
       /\ thread[h] \in {"clear", "desc0", "desc1"} => seen[h]
       /\ thread[h] = "switch" => loaded[h] = currentDescIdx
InService ==
  \A h \in Handlers :
    /\ thread[h] \in {"fill", "store", "advance", "finish"} => currentDescIdx = cur
    /\ thread[h] = "fill" => ReadUpTo(Due) /\ Left(1)
    /\ thread[h] \in {"store", "advance"} =>
         ~fileCompleted /\ filePos = Following(Due) /\ currentOffset = filePos - 1 /\ Left(1)
    /\ thread[h] = "store" => buffer[h] = filePos
    /\ thread[h] = "advance" => loaded[h] = currentOffset
    /\ thread[h] = "finish" => isCyclic /\ Following(Due) = Chunks

Service == Live => AtRest /\ BeforeService /\ Signs /\ InService

Complete ==
  Long /\ ~isCyclic /\ fileCompleted =>
    /\ Len(sent) + 2 >= Chunks
    /\ \A h \in Handlers : thread[h] \notin {"fill", "store", "advance"}

Allocated ==
  Long => \A h \in Handlers : thread[h] \in {"none", "enter", "exited"} \/ hasBuffer[h]

(* The half that goes out next holds the chunk that is due, the other one  *)
(* the chunk after it unless that is still to be stored.                   *)
Late ==
  Live /\ (event \/ \E h \in Handlers : Unserved(h) \/ thread[h] \in {"fill", "store"})
Halves ==
  main # "idle" =>
    /\ Left(0) => memory[cur] = Expected(Due)
    /\ Left(1) /\ ~Late => memory[1 - cur] = Expected(Following(Due))

InOrder == \A k \in DOMAIN sent : isCyclic \/ k <= Chunks => sent[k] = Expected(At(k))

InTurn ==
  /\ SgTypeOK /\ OrderTypes /\ Beginning /\ TakeTurns /\ ShortFile /\ Service /\ Complete
  /\ Allocated /\ Halves /\ InOrder

OrderInv == paced /\ key # "read" /\ failed = {} => InTurn
-----------------------------------------------------------------------------
LEMMA ModOfNext ==
  ASSUME NEW x \in Nat, NEW c \in Nat \ {0}
  PROVE  /\ x % c \in 0 .. c - 1
         /\ (x + 1) % c = IF x % c = c - 1 THEN 0 ELSE (x % c) + 1
<1> DEFINE q == x \div c  r == x % c
<1>1. x = c * q + r /\ r \in 0 .. c - 1 /\ q \in Nat
  OBVIOUS
<1> HIDE DEF q, r
<1>2. \A y, p \in Nat, s \in 0 .. c - 1 : y = c * p + s => y % c = s
  OBVIOUS
<1>3. CASE r = c - 1
  <2>1. x + 1 = c * (q + 1) + 0 /\ 0 \in 0 .. c - 1 /\ q + 1 \in Nat /\ x + 1 \in Nat
    BY <1>1, <1>3
  <2>2. (x + 1) % c = 0
    BY ONLY <1>2, <2>1
  <2> QED  BY <1>1, <1>3, <2>2 DEF r
<1>4. CASE r # c - 1
  <2>1. x + 1 = c * q + (r + 1) /\ r + 1 \in 0 .. c - 1 /\ x + 1 \in Nat
    BY <1>1, <1>4
  <2>2. (x + 1) % c = r + 1
    BY ONLY <1>1, <1>2, <2>1
  <2> QED  BY <1>1, <1>4, <2>2 DEF r
<1> QED  BY <1>3, <1>4

(* The file's chunks come round in their order. *)
LEMMA AtFollows ==
  ASSUME NEW k \in Nat \ {0}
  PROVE  /\ At(k) \in Chunk /\ At(k + 1) = Following(At(k))
         /\ k <= Chunks => At(k) = k
<1>1. k - 1 \in Nat /\ Chunks \in Nat \ {0} /\ (k + 1) - 1 = (k - 1) + 1
  BY Mm2sPlayerAssumption
<1>2. /\ (k - 1) % Chunks \in 0 .. Chunks - 1
      /\ ((k - 1) + 1) % Chunks = IF (k - 1) % Chunks = Chunks - 1 THEN 0 ELSE ((k - 1) % Chunks) + 1
  BY <1>1, ModOfNext
<1>3. k <= Chunks => (k - 1) % Chunks = k - 1
  BY <1>1
<1>4. At(k + 1) = 1 + (((k - 1) + 1) % Chunks)
  BY <1>1 DEF At
<1> QED  BY <1>1, <1>2, <1>3, <1>4 DEF At, Following, Chunk

LEMMA DueChunk ==
  ASSUME sent \in Seq(Int)
  PROVE  /\ Len(sent) \in Nat /\ Due \in Chunk /\ Following(Due) \in Chunk
         /\ At(Len(sent) + 2) = Following(Due)
         /\ Len(sent) < Chunks => Due = Len(sent) + 1
         /\ Len(sent) + 1 < Chunks => Following(Due) = Len(sent) + 2
<1>1. Len(sent) \in Nat /\ Chunks \in Nat \ {0}
  BY Mm2sPlayerAssumption
<1>2. Len(sent) + 1 \in Nat \ {0} /\ (Len(sent) + 1) + 1 = Len(sent) + 2
  BY <1>1
<1>3. /\ Due \in Chunk /\ At(Len(sent) + 2) = Following(Due)
      /\ Len(sent) + 1 <= Chunks => Due = Len(sent) + 1
  BY <1>2, AtFollows DEF Due
<1> QED  BY <1>1, <1>3 DEF Following, Chunk

LEMMA TwoHandlers == Handlers = {"start", "wait"} /\ Desc = {0, 1} /\ ErrIrq = FALSE
                     /\ Chunks \in Nat \ {0}
BY Mm2sPlayerAssumption DEF Handlers, Desc
-----------------------------------------------------------------------------
LEMMA InitInTurn == PlayerInit => OrderInv
<1> SUFFICES ASSUME PlayerInit, paced  PROVE InTurn
  BY DEF OrderInv
<1> USE TwoHandlers DEF PlayerInit, SgInit
<1>0. ~event /\ ~ioc /\ isCyclic \in BOOLEAN
  BY Mm2sPlayerAssumption
<1>1. OrderTypes /\ SgTypeOK
  <2>1. memory \in [Desc -> Int] /\ sending \in Int /\ sent \in Seq(Int)
    BY DEF Mixed
  <2>2. /\ thread \in [Handlers -> {"none"}] /\ buffer \in [Handlers -> Int]
        /\ loaded \in [Handlers -> Int]
    BY DEF Mixed
  <2>3. hasBuffer \in [Handlers -> BOOLEAN] /\ seen \in [Handlers -> BOOLEAN]
    OBVIOUS
  <2>4. SgTypeOK
    BY SgInitType
  <2> QED  BY <1>0, <2>1, <2>2, <2>3, <2>4 DEF OrderTypes
<1>2. Beginning
  BY <1>0 DEF Beginning, Begun, Serves
<1>3. TakeTurns
  BY <1>0 DEF TakeTurns, Serves
<1>4. ShortFile /\ Service /\ Complete /\ Allocated /\ Halves /\ InOrder
  BY <1>0 DEF ShortFile, Service, Live, Complete, Allocated, Halves, InOrder
<1> QED  BY <1>1, <1>2, <1>3, <1>4 DEF InTurn

(* What the parts after Beginning and TakeTurns speak of. *)
orderView == <<lastShort, isCyclic, fileCompleted, currentOffset, currentDescIdx, filePos, data,
               thread, hasBuffer, buffer, seen, loaded, cur, event, ioc>>

LEMMA ViewKept ==
  ASSUME InTurn, UNCHANGED orderView, main = "idle" <=> main' = "idle"
  PROVE  OrderTypes' /\ ShortFile' /\ Service' /\ Complete' /\ Allocated' /\ Halves' /\ InOrder'
<1> USE DEF InTurn
<1>1. UNCHANGED <<lastShort, isCyclic, fileCompleted, currentOffset, currentDescIdx, filePos,
                  memory, sending, sent, thread, hasBuffer, buffer, seen, loaded, cur, event, ioc>>
  BY DEF orderView, data
<1>2. OrderTypes' /\ ShortFile' /\ Complete' /\ Allocated'
  BY <1>1 DEF OrderTypes, ShortFile, Complete, Allocated
<1>3. Due' = Due /\ Live' = Live
  BY <1>1 DEF Due, Live
<1>4. Service'
  <2>1. AtRest' = AtRest
    BY <1>1, <1>3 DEF AtRest, Serves, ReadUpTo, Position, Left
  <2>2. BeforeService' = BeforeService
    BY <1>1, <1>3 DEF BeforeService, Unserved, ReadUpTo, Position, Left
  <2>3. Signs' = Signs
    BY <1>1, <1>3 DEF Signs, Serves
  <2>4. InService' = InService
    BY <1>1, <1>3 DEF InService, ReadUpTo, Position, Left
  <2> QED  BY <1>3, <2>1, <2>2, <2>3, <2>4 DEF Service
<1>5. Halves'
  <2>1. Late' = Late
    BY <1>1, <1>3 DEF Late, Unserved
  <2> QED  BY <1>1, <1>3, <2>1 DEF Halves, Left, Expected, Filled
<1>6. InOrder'
  BY <1>1 DEF InOrder, Expected, Filled
<1> QED  BY <1>2, <1>4, <1>5, <1>6

LEMMA SgBooleans ==
  SgTypeOK => /\ rs \in BOOLEAN /\ cyclic \in BOOLEAN /\ irqEn \in BOOLEAN /\ active \in BOOLEAN
              /\ busy \in BOOLEAN /\ ioc \in BOOLEAN /\ err \in BOOLEAN /\ event \in BOOLEAN
              /\ cur \in Desc /\ done \in [Desc -> BOOLEAN]
BY DEF SgTypeOK

(* Before play_test waits, the registers are set up.                       *)
LEMMA StartKeepsTurn ==
  ASSUME InTurn, ResetDma \/ SetCurDesc \/ RunDma \/ StartTail
  PROVE  InTurn'
<1> USE TwoHandlers DEF InTurn, Main
<1>1. /\ main \in {"reset", "curdesc", "dmacr", "tail"} /\ sent = <<>> /\ cur = 0
      /\ ~ioc /\ ~event /\ ~active /\ ~busy
      /\ main \notin {"reset", "curdesc", "dmacr"} => irqEn
  BY DEF ResetDma, SetCurDesc, RunDma, StartTail, Beginning, Begun
<1>2. /\ UNCHANGED <<outside, data, ctx, key, threadVars>>
      /\ SgTypeOK' /\ cur' = 0 /\ ~ioc' /\ ~event' /\ ~busy'
      /\ main' \in {"curdesc", "dmacr", "tail", "wait"}
      /\ main' # "wait" => ~active'
      /\ main' \in {"tail", "wait"} => irqEn'
  <2>1. CASE ResetDma
    BY <1>1, <2>1, ResetType DEF ResetDma, SgReset
  <2>2. CASE SetCurDesc
    BY <1>1, <2>2, CurDescType DEF SetCurDesc, WriteCurDesc, sgControl
  <2>3. CASE RunDma
    <3>1. SgTypeOK'
      BY <2>3, DmacrType DEF RunDma, OrderTypes
    <3>2. /\ UNCHANGED <<cur, ioc, busy>> /\ irqEn' /\ active' = (TRUE /\ active)
          /\ event' = (event \/ ((irqEn' /\ (ioc' \/ (ErrIrq /\ err'))) /\ ~Line))
      BY <2>3 DEF RunDma, WriteDmacr, Notice, Line
    <3>3. ~event' /\ ~active'
      BY <1>1, <3>2
    <3> QED  BY <1>1, <2>3, <3>1, <3>2, <3>3 DEF RunDma
  <2>4. CASE StartTail
    BY <1>1, <2>4, TailDescType DEF StartTail, WriteTailDesc
  <2> QED  BY <2>1, <2>2, <2>3, <2>4
<1>3. UNCHANGED orderView
  BY <1>1, <1>2, SgBooleans DEF orderView, outside, ctx, threadVars, SgTypeOK
<1>4. Beginning'
  BY <1>1, <1>2 DEF Beginning, Begun, Serves, data, threadVars
<1>5. TakeTurns'
  BY <1>1, <1>2 DEF TakeTurns, Serves, data, threadVars, ctx
<1> QED  BY <1>1, <1>2, <1>3, <1>4, <1>5, ViewKept

LEMMA StopKeepsTurn ==
  ASSUME InTurn, WaitJoin \/ FreeStop \/ FreeHalted \/ FreeTimeout
  PROVE  InTurn'
<1> USE TwoHandlers DEF InTurn, Main
<1>1. /\ main \in {"join", "free", "halt"} /\ irqEn
      /\ rs \in BOOLEAN /\ cyclic \in BOOLEAN /\ irqEn \in BOOLEAN /\ event \in BOOLEAN
  BY SgBooleans DEF WaitJoin, FreeStop, FreeHalted, FreeTimeout, Beginning
<1>2. /\ UNCHANGED <<outside, data, isCyclic, fileCompleted, currentOffset, currentDescIdx,
                     filePos, key, threadVars>>
      /\ main' \in {"free", "halt", "freed"}
      /\ SgTypeOK' /\ UNCHANGED <<busy, cur, ioc, event, irqEn>>
  <2>1. CASE FreeStop \/ FreeHalted
    <3>1. PICK r \in BOOLEAN, c \in BOOLEAN : WriteDmacr(r, c, irqEn)
      BY <1>1, <2>1 DEF FreeStop, FreeHalted
    <3>2. SgTypeOK'
      BY <1>1, <3>1, DmacrType
    <3>3. UNCHANGED <<busy, cur, ioc, err, irqEn>> /\ event' = (event \/ (Line' /\ ~Line))
      BY <3>1 DEF WriteDmacr, Notice
    <3>4. Line' = Line
      BY <3>3 DEF Line
    <3>5. event' = event
      BY <1>1, <3>3, <3>4
    <3> QED  BY <2>1, <3>2, <3>3, <3>5 DEF FreeStop, FreeHalted, ctx
  <2>2. CASE WaitJoin \/ FreeTimeout
    BY <2>2, SgUnchangedType DEF WaitJoin, FreeTimeout, sgVars, ctx
  <2> QED  BY <2>1, <2>2
<1>3. UNCHANGED orderView
  BY <1>2 DEF orderView, outside, threadVars
<1>4. thread["wait"] = "exited" /\ (main' = "freed" \/ isRunning' = isRunning)
  BY DEF WaitJoin, FreeStop, FreeHalted, FreeTimeout, TakeTurns, ctx
<1>5. Beginning'
  BY <1>1, <1>2 DEF Beginning, Begun, Serves, data, threadVars
<1>6. TakeTurns'
  BY <1>1, <1>2, <1>4 DEF TakeTurns, Serves, data, threadVars
<1> QED  BY <1>1, <1>2, <1>3, <1>5, <1>6, ViewKept

LEMMA PlayKeepsTurn ==
  ASSUME InTurn, PlayFile
  PROVE  InTurn'
<1> USE TwoHandlers DEF InTurn
<1>1. /\ main = "idle" /\ main' = "reset"
      /\ memory' = [d \in Desc |-> IF d = 0 \/ Chunks = 1 THEN 1 ELSE 2]
      /\ filePos' = (IF Chunks = 1 THEN 1 ELSE 2) /\ currentOffset' = filePos'
      /\ fileCompleted' = (Chunks <= 2) /\ isRunning' = TRUE /\ currentDescIdx' = 0
      /\ thread' = [thread EXCEPT !["start"] = "enter"]
      /\ UNCHANGED <<paced, lastShort, sgVars, sending, sent, isCyclic, key>>
      /\ UNCHANGED <<hasBuffer, buffer, seen, loaded>>
  BY DEF PlayFile, Main, outside
<1>2. UNCHANGED <<active, busy, cur, ioc, event, irqEn>>
  BY <1>1 DEF sgVars
<1>3. /\ sent = <<>> /\ cur = 0 /\ ~ioc /\ ~event /\ ~active /\ ~busy
      /\ thread["start"] = "none" /\ thread["wait"] = "none" /\ \A h \in Handlers : ~Serves(h)
  BY <1>1 DEF Beginning, Begun
<1>4. thread'["start"] = "enter" /\ thread'["wait"] = "none"
  BY <1>1, <1>3 DEF OrderTypes
<1>5. Len(sent) = 0 /\ Due' = Due /\ Due = 1 /\ (Long => Following(Due) = 2)
  <2>1. Len(sent) = 0 /\ sent \in Seq(Int)
    BY <1>3 DEF OrderTypes
  <2>2. Due = 1 /\ (Long => Following(Due) = 2)
    BY <2>1, DueChunk DEF Long
  <2> QED  BY <1>1, <2>1, <2>2 DEF Due
<1>6. SgTypeOK'
  BY <1>1, SgUnchangedType
<1>7. OrderTypes'
  <2>1. memory' \in [Desc -> Int]
    BY <1>1
  <2> QED  BY <1>1, <2>1 DEF OrderTypes
<1>8. Beginning'
  BY <1>1, <1>2, <1>3, <1>4 DEF Beginning, Begun, Serves
<1>9. TakeTurns'
  BY <1>1, <1>2, <1>3, <1>4 DEF TakeTurns, Serves
<1>9a. Long' = Long /\ (fileCompleted' <=> ~Long) /\ fileCompleted' \in BOOLEAN
  <2>1. fileCompleted' = (Chunks <= 2) /\ Chunks \in Nat
    BY <1>1
  <2>2. Chunks <= 2 <=> ~Long
    BY <2>1 DEF Long
  <2>3. fileCompleted' \in BOOLEAN
    BY ONLY <2>1
  <2>4. fileCompleted' <=> Chunks <= 2
    BY ONLY <2>1, Zenon
  <2>5. Long' = Long
    BY DEF Long
  <2> QED  BY <2>2, <2>3, <2>4, <2>5
<1>9b. \A h \in Handlers : thread'[h] \in {"none", "enter"}
  BY <1>4
<1>10. ShortFile'
  BY <1>9a, <1>9b DEF ShortFile
<1>11. Service'
  <2> SUFFICES ASSUME Live'  PROVE (AtRest /\ BeforeService /\ Signs /\ InService)'
    BY DEF Service
  <2>1. Long /\ ~fileCompleted'
    BY <1>9a DEF Live
  <2>4. filePos' = 2 /\ currentOffset' = 2 /\ currentDescIdx' = 0
    BY <1>1, <2>1 DEF Long
  <2>2. AtRest'
    BY <1>1, <1>2, <1>3, <1>5, <2>1, <2>4 DEF AtRest, ReadUpTo, Position, Left, Long
  <2>3. BeforeService' /\ Signs' /\ InService'
    BY <1>2, <1>3, <1>4 DEF BeforeService, Signs, InService, Unserved, Serves
  <2> QED  BY <2>2, <2>3
<1>12. Complete'
  BY <1>9a DEF Complete
<1>13. Allocated'
  BY <1>4 DEF Allocated
<1>14. Halves'
  <2>1. memory'[0] = 1 /\ memory'[1] = IF Chunks = 1 THEN 1 ELSE 2
    BY <1>1
  <2>2. Expected(1)' = 1 /\ (Chunks > 1 => Expected(2)' = 2)
    BY <1>1 DEF Expected, Filled
  <2>3. Chunks > 1 => Following(Due) = 2
    BY <1>5 DEF Following
  <2>4. Chunks = 1 => Following(Due) = 1
    BY <1>5 DEF Following
  <2> QED  BY <1>1, <1>2, <1>3, <1>5, <2>1, <2>2, <2>3, <2>4 DEF Halves, Left
<1>15. InOrder'
  BY <1>1, <1>3 DEF InOrder
<1> QED  BY <1>6, <1>7, <1>8, <1>9, <1>10, <1>11, <1>12, <1>13, <1>14, <1>15

(* A thread moves, and nothing else that the order depends on.             *)
LEMMA WaitCreateKeepsTurn ==
  ASSUME InTurn, WaitCreate
  PROVE  InTurn'
<1> USE TwoHandlers DEF InTurn
<1>1. /\ main = "wait" /\ main' = "join"
      /\ thread' = [thread EXCEPT !["wait"] = "enter"]
      /\ UNCHANGED <<lastShort, sgVars, memory, sending, sent, key, hasBuffer, buffer, seen, loaded,
                     isCyclic, isRunning, fileCompleted, currentOffset, currentDescIdx, filePos>>
  BY DEF WaitCreate, Main, outside, data, ctx
<1>2. UNCHANGED <<active, busy, cur, ioc, event, irqEn>>
  BY <1>1 DEF sgVars
<1>3. /\ sent = <<>> /\ ~event /\ ~ioc /\ \A h \in Handlers : ~Serves(h)
      /\ thread["wait"] = "none"
  BY <1>1 DEF Beginning, Begun
<1>4. /\ thread'["wait"] = "enter" /\ thread'["start"] = thread["start"]
      /\ \A h \in Handlers : ~Serves(h)'
  BY <1>1, <1>3 DEF OrderTypes, Serves
<1>5. SgTypeOK' /\ OrderTypes'
  BY <1>1, SgUnchangedType DEF OrderTypes
<1>6. Beginning' /\ TakeTurns'
  BY <1>1, <1>2, <1>3, <1>4 DEF Beginning, TakeTurns, Begun
<1>7. ShortFile' /\ Complete' /\ Allocated'
  BY <1>1, <1>4 DEF ShortFile, Complete, Allocated
<1>8. Due' = Due /\ Live' = Live
  BY <1>1 DEF Due, Live
<1>9. Service'
  <2>1. Service => (Live => AtRest)
    BY DEF Service
  <2>2. Live => AtRest'
    BY <1>1, <1>2, <1>3, <1>8, <2>1 DEF AtRest, ReadUpTo, Position, Left
  <2>3. BeforeService' /\ Signs' /\ InService'
    BY <1>2, <1>3, <1>4 DEF BeforeService, Signs, InService, Unserved, Serves
  <2> QED  BY <1>8, <2>2, <2>3 DEF Service
<1>10. Halves'
  <2>1. ~Late /\ ~Late'
    BY <1>2, <1>3, <1>4 DEF Late, Unserved, Serves
  <2> QED  BY <1>1, <1>2, <1>8, <2>1 DEF Halves, Left, Expected, Filled
<1>11. InOrder'
  BY <1>1 DEF InOrder, Expected, Filled
<1> QED  BY <1>5, <1>6, <1>7, <1>9, <1>10, <1>11

LEMMA ViewOnlyKeepsTurn ==
  ASSUME InTurn, UNCHANGED <<orderView, sgVars, main, isRunning>>
  PROVE  InTurn'
<1> USE DEF InTurn
<1>1. UNCHANGED <<orderView, thread, isCyclic, fileCompleted, memory, sending, sent, main, isRunning>>
      /\ UNCHANGED <<active, busy, cur, ioc, event, irqEn>>
  BY DEF orderView, data, sgVars
<1>2. Beginning' /\ TakeTurns'
  BY <1>1 DEF Beginning, Begun, TakeTurns, Serves
<1> QED  BY <1>1, <1>2, ViewKept, SgUnchangedType
-----------------------------------------------------------------------------
(* The engine.                                                             *)
LEMMA BeginKeepsTurn ==
  ASSUME InTurn, SendBegin
  PROVE  InTurn'
<1> USE TwoHandlers DEF InTurn
<1>1. /\ active /\ busy' /\ sending' = memory[cur]
      /\ UNCHANGED <<lastShort, memory, sent, main, key, hasBuffer, buffer, seen, loaded, thread,
                     isCyclic, isRunning, fileCompleted, currentOffset, currentDescIdx, filePos>>
      /\ UNCHANGED <<active, cur, ioc, event, irqEn>>
  BY DEF SendBegin, Begin, outside, ctx, threadVars, sgControl
<1>2. SgTypeOK'
  BY BeginType DEF SendBegin
<1>3. OrderTypes'
  BY <1>1, SgBooleans DEF OrderTypes
<1>4. Beginning' /\ TakeTurns'
  BY <1>1 DEF Beginning, TakeTurns, Begun, Serves
<1>5. ShortFile' /\ Complete' /\ Allocated'
  BY <1>1 DEF ShortFile, Complete, Allocated
<1>6. Due' = Due /\ Live' = Live
  BY <1>1 DEF Due, Live
<1>7. Service'
  <2>1. AtRest' = AtRest /\ BeforeService' = BeforeService
    BY <1>1, <1>6 DEF AtRest, BeforeService, Serves, Unserved, ReadUpTo, Position, Left
  <2>2. Signs' = Signs /\ InService' = InService
    BY <1>1, <1>6 DEF Signs, InService, Serves, ReadUpTo, Position, Left
  <2> QED  BY <1>6, <2>1, <2>2 DEF Service
<1>8. Halves'
  <2>1. Late' = Late
    BY <1>1, <1>6 DEF Late, Unserved
  <2> QED  BY <1>1, <1>6, <2>1 DEF Halves, Left, Expected, Filled
<1>9. InOrder'
  BY <1>1 DEF InOrder, Expected, Filled
<1> QED  BY <1>2, <1>3, <1>4, <1>5, <1>7, <1>8, <1>9

LEMMA ErrorKeepsTurn ==
  ASSUME InTurn, SendError
  PROVE  InTurn'
<1> USE TwoHandlers DEF InTurn
<1>1. /\ ~active' /\ UNCHANGED <<busy, cur, ioc, irqEn, outside, data, ctx, main, key, threadVars>>
      /\ event' = (event \/ (Line' /\ ~Line))
  BY DEF SendError, MeetCompleted, Notice
<1>2. event' = event
  <2>1. Line' = Line
    BY <1>1 DEF Line
  <2> QED  BY <1>1, <2>1, SgBooleans
<1>3. UNCHANGED orderView
  BY <1>1, <1>2 DEF orderView, outside, ctx, threadVars
<1>4. Beginning' /\ TakeTurns'
  BY <1>1, <1>2 DEF Beginning, TakeTurns, Begun, Serves, data, ctx, threadVars
<1> QED  BY <1>1, <1>3, <1>4, ViewKept, MeetCompletedType DEF SendError

(* A transfer ends only when no thread serves an event.  While the player  *)
(* is live this makes an event, and the next chunk is due.                 *)
LEMMA EndKeepsTurn ==
  ASSUME InTurn, paced, SendEnd
  PROVE  InTurn'
<1> USE TwoHandlers DEF InTurn
<1>1. /\ busy /\ busy' = FALSE /\ cur' = (cur + 1) % Descs /\ ioc' = TRUE /\ irqEn' = irqEn
      /\ event' = (event \/ (Line' /\ ~Line))
      /\ sent' = Append(sent, IF memory[cur] = sending THEN sending ELSE Mixed)
      /\ UNCHANGED <<lastShort, memory, sending, main, thread, hasBuffer, buffer, seen, loaded,
                     isCyclic, isRunning, fileCompleted, currentOffset, currentDescIdx, filePos>>
  BY DEF SendEnd, Finish, Notice, outside, ctx, threadVars
<1>2. Begun /\ irqEn /\ main # "idle"
  BY <1>1 DEF SendEnd, Reacted, Beginning, Begun
<1>3. /\ \A h \in Handlers : thread[h] \in {"read", "exited"} /\ ~Serves(h)
      /\ event => \A h \in Handlers : thread[h] = "exited"
  <2>1. \A h \in Handlers : thread[h] # "none"
    BY <1>2 DEF Beginning
  <2>2. /\ \A h \in Handlers : thread[h] \in {"none", "read", "exited"}
        /\ event => \A h \in Handlers : thread[h] # "read"
    BY DEF SendEnd, Reacted
  <2> QED  BY <2>1, <2>2 DEF Serves
<1>4. cur' = 1 - cur /\ cur \in {0, 1}
  <2>1. cur \in {0, 1} /\ Descs = 2
    BY SgBooleans, Mm2sPlayerAssumption
  <2> QED  BY <1>1, <2>1
<1>5. sending = memory[cur] /\ memory[cur] \in Int
  BY <1>1, <1>4 DEF TakeTurns, OrderTypes
<1>6. sent' = Append(sent, memory[cur]) /\ sent' \in Seq(Int) /\ Len(sent) \in Nat
      /\ Len(sent') = Len(sent) + 1 /\ sent' # <<>>
  <2>1. sent \in Seq(Int) /\ sent' = Append(sent, memory[cur])
    BY <1>1, <1>5 DEF OrderTypes
  <2> QED  BY <1>5, <2>1
<1>7. Due' = Following(Due) /\ Live' = Live
  <2>1. At(Len(sent) + 2) = Following(Due)
    BY DueChunk DEF OrderTypes
  <2>2. Due' = At((Len(sent) + 1) + 1)
    BY <1>6 DEF Due, At
  <2>3. (Len(sent) + 1) + 1 = Len(sent) + 2
    BY <1>6
  <2> QED  BY <1>1, <2>1, <2>2, <2>3 DEF Live
<1>8. Live => ~event /\ ~Late /\ ~ioc /\ currentDescIdx = cur /\ ReadUpTo(Following(Due)) /\ Left(2)
  <2> SUFFICES ASSUME Live
               PROVE  ~event /\ ~Late /\ ~ioc /\ currentDescIdx = cur
                      /\ ReadUpTo(Following(Due)) /\ Left(2)
    OBVIOUS
  <2>1. ~event
    BY <1>3 DEF Live, TakeTurns
  <2>2. ~Late
    BY <1>3, <2>1 DEF Late, Unserved, Serves
  <2> QED  BY <1>3, <2>1, <2>2 DEF Service, AtRest
<1>9. SgTypeOK'
  BY FinishType DEF SendEnd
<1>10. OrderTypes'
  BY <1>1, <1>6 DEF OrderTypes
<1>11. Beginning'
  BY <1>1, <1>2, <1>3, <1>6 DEF Beginning, Begun
<1>12. TakeTurns'
  BY <1>1, <1>3 DEF TakeTurns, Serves
<1>13. ShortFile' /\ Allocated'
  BY <1>1 DEF ShortFile, Allocated
<1>14. Complete'
  BY <1>1, <1>6 DEF Complete
<1>15. Service'
  <2> SUFFICES ASSUME Live  PROVE (AtRest /\ BeforeService /\ Signs /\ InService)'
    BY <1>7 DEF Service
  <2>1. event' /\ ioc'
    BY <1>1, <1>2, <1>8 DEF Line
  <2>2. BeforeService'
    <3>1. currentDescIdx' = 1 - cur'
      BY <1>1, <1>4, <1>8
    <3>2. ReadUpTo(Due)'
      BY <1>1, <1>7, <1>8 DEF ReadUpTo, Position
    <3>3. Left(1)'
      BY <1>1, <1>6, <1>8 DEF Left
    <3> QED  BY <3>1, <3>2, <3>3 DEF BeforeService
  <2>3. AtRest' /\ Signs' /\ InService'
    BY <1>1, <1>3, <2>1 DEF AtRest, Signs, InService, Serves
  <2> QED  BY <2>2, <2>3
<1>16. Halves'
  <2>1. \A c : Expected(c)' = Expected(c)
    BY <1>1 DEF Expected, Filled
  <2>2. Left(0)' => memory'[cur'] = Expected(Due)'
    <3>1. Left(0)' => Left(1)
      BY <1>1, <1>6 DEF Left
    <3>2. ~Late
      BY <1>8 DEF Late
    <3>3. Left(1) => memory[1 - cur] = Expected(Following(Due))
      BY <1>2, <3>2 DEF Halves
    <3>4. Expected(Due)' = Expected(Following(Due))
      BY <1>1, <1>7 DEF Expected, Filled
    <3> QED  BY <1>1, <1>4, <3>1, <3>3, <3>4
  <2>3. Left(1)' /\ ~Late' => memory'[1 - cur'] = Expected(Following(Due))'
    <3> SUFFICES ASSUME Left(1)', ~Late'  PROVE memory'[1 - cur'] = Expected(Following(Due))'
      OBVIOUS
    <3>1. ~Live
      <4> SUFFICES ASSUME Live  PROVE FALSE
        OBVIOUS
      <4>1. event'
        BY <1>1, <1>2, <1>8 DEF Line
      <4> QED  BY <1>7, <4>1 DEF Late
    <3>2. isCyclic \/ Len(sent) + 2 < Chunks
      BY <1>1, <1>6 DEF Left
    <3>3. isCyclic /\ ~Long
      BY <1>2, <1>6, <3>1, <3>2 DEF Live, Complete, Long
    <3>4. Following(Following(Due)) = Due
      <4>1. Due \in Chunk
        BY DueChunk DEF OrderTypes
      <4> QED  BY <3>3, <4>1 DEF Long, Following, Chunk
    <3>5. memory[cur] = Expected(Due)
      BY <1>2, <3>3 DEF Halves, Left
    <3>6. Following(Due)' = Following(Following(Due))
      BY <1>7 DEF Following
    <3>7. Expected(Following(Due))' = Expected(Due)
      BY <1>1, <3>4, <3>6 DEF Expected, Filled
    <3> QED  BY <1>1, <1>4, <3>5, <3>7
  <2> QED  BY <2>2, <2>3 DEF Halves
<1>17. InOrder'
  <2> SUFFICES ASSUME NEW k \in DOMAIN sent', isCyclic \/ k <= Chunks
               PROVE  sent'[k] = Expected(At(k))
    BY <1>1 DEF InOrder, Expected, Filled
  <2>1. sent \in Seq(Int)
    BY DEF OrderTypes
  <2>2. CASE k = Len(sent) + 1
    <3>1. sent'[k] = memory[cur] /\ Due = At(k)
      BY <1>6, <2>1, <2>2 DEF Due
    <3>2. Left(0)
      BY <1>6, <2>2 DEF Left
    <3> QED  BY <1>2, <3>1, <3>2 DEF Halves
  <2>3. CASE k # Len(sent) + 1
    <3>1. k \in DOMAIN sent /\ sent'[k] = sent[k]
      BY <1>6, <2>1, <2>3
    <3> QED  BY <3>1 DEF InOrder
  <2> QED  BY <2>2, <2>3
<1> QED
  BY <1>9, <1>10, <1>11, <1>12, <1>13, <1>14, <1>15, <1>16, <1>17
-----------------------------------------------------------------------------
(* The threads.  Nothing else happens to an event that one of them serves. *)
LEMMA ServesAlone ==
  ASSUME InTurn, NEW h \in Handlers, Serves(h)
  PROVE  /\ main # "idle" /\ Begun /\ irqEn /\ sent # <<>> /\ ~event
         /\ \A g \in Handlers : g # h => thread[g] \in {"test", "read", "exited"} /\ ~Serves(g)
         /\ Long => hasBuffer[h]
<1> USE TwoHandlers DEF InTurn
<1>1. sent # <<>>
  BY DEF Beginning
<1>2. Begun
  BY <1>1 DEF Beginning
<1>3. main # "idle" /\ irqEn
  BY <1>2 DEF Beginning, Begun
<1>4. ~event
  BY DEF TakeTurns
<1>5. \A g \in Handlers : g # h => thread[g] \in {"test", "read", "exited"} /\ ~Serves(g)
  <2> SUFFICES ASSUME NEW g \in Handlers, g # h
               PROVE  thread[g] \in {"test", "read", "exited"} /\ ~Serves(g)
    OBVIOUS
  <2>1. ~Serves(g)
    BY DEF TakeTurns
  <2>2. thread[g] \notin {"none", "enter"}
    BY <1>1 DEF Beginning
  <2>3. thread[g] \in {"none", "enter", "test", "read", "status", "clear", "desc0", "desc1",
                       "switch", "fill", "store", "advance", "finish", "exited"}
    BY DEF OrderTypes
  <2> QED  BY <2>1, <2>2, <2>3 DEF Serves
<1>6. Long => hasBuffer[h]
  BY DEF Allocated, Serves
<1> QED  BY <1>1, <1>2, <1>3, <1>4, <1>5, <1>6

(* A step of the service moves the thread on or, for a complete file that  *)
(* is played once, out of its loop; the parts that speak of the threads'   *)
(* turns and of what has gone out do not notice it.                        *)
serviceView == <<lastShort, isCyclic, isRunning, sending, sent, main, hasBuffer, cur, busy, irqEn,
                 event>>

ServiceMove(h, to) ==
  /\ Serves(h) /\ thread' = [thread EXCEPT ![h] = to]
  /\ to \in {"clear", "desc0", "desc1", "switch", "fill", "store", "advance", "finish", "test",
             "exited"}
  /\ to = "exited" => ~isCyclic /\ fileCompleted
  /\ ~isCyclic /\ fileCompleted => fileCompleted'
  /\ memory'[cur] = memory[cur]
  /\ UNCHANGED serviceView

LEMMA ServiceStep ==
  ASSUME InTurn, NEW h \in Handlers, NEW to, ServiceMove(h, to)
  PROVE  /\ Beginning' /\ TakeTurns' /\ Allocated' /\ InOrder'
         /\ Due' = Due /\ Begun /\ main # "idle" /\ ~event /\ thread'[h] = to
         /\ \A g \in Handlers : g # h => thread'[g] = thread[g] /\ ~Serves(g)
                                         /\ thread[g] \in {"test", "read", "exited"}
         /\ Long => hasBuffer[h]
<1> USE TwoHandlers
<1>1. /\ main # "idle" /\ Begun /\ irqEn /\ sent # <<>> /\ ~event
      /\ \A g \in Handlers : g # h => thread[g] \in {"test", "read", "exited"} /\ ~Serves(g)
      /\ Long => hasBuffer[h]
  BY ServesAlone DEF ServiceMove
<1>2. /\ thread'[h] = to
      /\ \A g \in Handlers : g # h => thread'[g] = thread[g]
  BY DEF InTurn, OrderTypes, ServiceMove
<1>3. UNCHANGED <<lastShort, isCyclic, isRunning, sending, sent, main, hasBuffer, cur, busy, irqEn,
                  event>>
  BY DEF serviceView, ServiceMove
<1> USE DEF InTurn, ServiceMove
<1>4. Beginning'
  <2>1. \A g \in Handlers : thread'[g] \notin {"none", "enter"}
    BY <1>1, <1>2
  <2>2. \A g \in Handlers : thread[g] \notin {"none", "enter"}
    BY <1>1 DEF Serves
  <2> QED  BY <1>1, <1>3, <2>1, <2>2 DEF Beginning, Begun
<1>5. TakeTurns'
  <2>1. \A g \in Handlers : Serves(g)' => g = h
    BY <1>1, <1>2 DEF Serves
  <2>2. (\E g \in Handlers : thread'[g] = "exited") => ~isCyclic /\ fileCompleted
    BY <1>2 DEF TakeTurns
  <2>3. main \in {"free", "halt", "freed"} => thread'["wait"] = "exited"
    BY <1>2 DEF TakeTurns, Serves
  <2> QED  BY <1>1, <1>3, <2>1, <2>2, <2>3 DEF TakeTurns
<1>6. Allocated'
  BY <1>1, <1>2, <1>3 DEF Allocated, Long
<1>7. InOrder' /\ Due' = Due
  BY <1>3 DEF InOrder, Expected, Filled, Due, At
<1> QED  BY <1>1, <1>2, <1>3, <1>4, <1>5, <1>6, <1>7

(* A thread that does not serve an event goes on to wait for one.          *)
LEMMA LoopKeepsTurn ==
  ASSUME InTurn, NEW h \in Handlers, Enter(h) \/ TestRunning(h)
  PROVE  InTurn'
<1> USE TwoHandlers DEF InTurn
<1>1. /\ thread[h] \in {"enter", "test"}
      /\ UNCHANGED <<lastShort, sgVars, memory, sending, sent, main, key, buffer, seen, loaded,
                     isCyclic, isRunning, fileCompleted, currentOffset, currentDescIdx, filePos>>
  BY DEF Enter, TestRunning, Thread, outside, data, ctx
<1>2. UNCHANGED <<active, busy, cur, ioc, event, irqEn>>
  BY <1>1 DEF sgVars
<1>3. main # "idle" /\ ~Serves(h)
  BY <1>1 DEF Beginning, Begun, Serves
<1>4. PICK to \in {"test", "read", "exited"} : thread' = [thread EXCEPT ![h] = to]
  BY DEF Enter, TestRunning, Thread
<1>5. thread'[h] = to /\ \A g \in Handlers : g # h => thread'[g] = thread[g]
  BY <1>4 DEF OrderTypes
<1>6. to = "exited" => ~isCyclic /\ fileCompleted
  <2>1. CASE Enter(h)
    BY <1>5, <2>1 DEF Enter, Thread, OrderTypes
  <2>2. CASE TestRunning(h)
    <3>1. to = "exited" => ~isRunning
      BY <1>5, <2>2 DEF TestRunning, Thread, OrderTypes
    <3> QED  BY <1>3, <3>1 DEF TakeTurns
  <2> QED  BY <2>1, <2>2
<1>7. \A g \in Handlers : Serves(g)' = Serves(g)
  BY <1>3, <1>5 DEF Serves
<1>8. /\ hasBuffer' \in [Handlers -> BOOLEAN]
      /\ \A g \in Handlers : g # h => hasBuffer'[g] = hasBuffer[g]
      /\ Long => to = "exited" \/ hasBuffer'[h]
  <2>1. CASE Enter(h)
    <3>1. hasBuffer' = [hasBuffer EXCEPT ![h] = ~fileCompleted]
      BY <2>1 DEF Enter
    <3>2. Long => to = "exited" \/ ~fileCompleted
      <4>1. sent = <<>> /\ ~event /\ \A g \in Handlers : ~Serves(g)
        BY <2>1 DEF Enter, Thread, Beginning
      <4>2. Live => ~fileCompleted
        BY <4>1 DEF Service, AtRest, ReadUpTo
      <4>3. ~isCyclic /\ fileCompleted => to = "exited"
        BY <1>5, <2>1 DEF Enter, Thread, OrderTypes
      <4> QED  BY <1>3, <4>2, <4>3 DEF Live
    <3> QED  BY <3>1, <3>2 DEF OrderTypes
  <2>2. CASE TestRunning(h)
    BY <2>2 DEF TestRunning, Thread, OrderTypes, Allocated
  <2> QED  BY <2>1, <2>2
<1>9. SgTypeOK' /\ OrderTypes'
  BY <1>1, <1>4, <1>8, SgUnchangedType DEF OrderTypes
<1>10. Beginning'
  <2>1. thread["wait"] = "none" <=> thread'["wait"] = "none"
    BY <1>1, <1>5
  <2>2. thread["start"] = "none" <=> thread'["start"] = "none"
    BY <1>1, <1>5
  <2>3. sent # <<>> => \A g \in Handlers : thread'[g] \notin {"none", "enter"}
    BY <1>5 DEF Beginning
  <2> QED  BY <1>1, <1>2, <1>7, <2>1, <2>2, <2>3 DEF Beginning, Begun
<1>11. TakeTurns'
  <2>1. main \in {"free", "halt", "freed"} => thread'["wait"] = "exited"
    BY <1>1, <1>5 DEF TakeTurns
  <2>2. (\E g \in Handlers : thread'[g] = "exited") => ~isCyclic /\ fileCompleted
    BY <1>5, <1>6 DEF TakeTurns
  <2> QED  BY <1>1, <1>2, <1>7, <2>1, <2>2 DEF TakeTurns
<1>12. ShortFile' /\ Complete'
  BY <1>1, <1>5 DEF ShortFile, Complete, Long
<1>13. Allocated'
  BY <1>5, <1>8 DEF Allocated, Long
<1>14. Due' = Due /\ Live' = Live
  BY <1>1 DEF Due, Live
<1>15. \A g \in Handlers : Serves(g) => thread'[g] = thread[g]
  BY <1>3, <1>5
<1>16. Service'
  <2>1. AtRest' = AtRest
    BY <1>1, <1>2, <1>7, <1>14 DEF AtRest, ReadUpTo, Position, Left
  <2>2. BeforeService' = BeforeService
    <3>1. \A g \in Handlers : Unserved(g)' = Unserved(g)
      BY <1>5, <1>1 DEF Unserved
    <3> QED  BY <1>1, <1>2, <1>14, <3>1 DEF BeforeService, ReadUpTo, Position, Left
  <2>3. Signs => Signs'
    BY <1>1, <1>2, <1>5, <1>7 DEF Signs
  <2>4. InService => InService'
    BY <1>1, <1>2, <1>5, <1>14 DEF InService, ReadUpTo, Position, Left
  <2> QED  BY <1>14, <2>1, <2>2, <2>3, <2>4 DEF Service
<1>17. Halves'
  <2>1. Late' = Late
    <3>1. \A g \in Handlers : (Unserved(g) \/ thread[g] \in {"fill", "store"})' =
                              (Unserved(g) \/ thread[g] \in {"fill", "store"})
      BY <1>1, <1>5 DEF Unserved
    <3> QED  BY <1>2, <1>14, <3>1 DEF Late
  <2> QED  BY <1>1, <1>2, <1>14, <2>1 DEF Halves, Left, Expected, Filled
<1>18. InOrder'
  BY <1>1 DEF InOrder, Expected, Filled
<1> QED  BY <1>9, <1>10, <1>11, <1>12, <1>13, <1>16, <1>17, <1>18

LEMMA ReadEventKeepsTurn ==
  ASSUME InTurn, NEW h \in Handlers, ReadEvent(h)
  PROVE  InTurn'
<1> USE TwoHandlers DEF InTurn
<1>1. /\ thread[h] = "read" /\ thread' = [thread EXCEPT ![h] = "status"] /\ event /\ event' = FALSE
      /\ UNCHANGED <<lastShort, memory, sending, sent, main, key, hasBuffer, buffer, seen, loaded,
                     isCyclic, isRunning, fileCompleted, currentOffset, currentDescIdx, filePos>>
      /\ UNCHANGED <<active, busy, cur, ioc, irqEn>>
  BY DEF ReadEvent, Thread, TakeEvent, sgControl, outside, data, ctx
<1>2. thread'[h] = "status" /\ \A g \in Handlers : g # h => thread'[g] = thread[g]
  BY <1>1 DEF OrderTypes
<1>3. sent # <<>> /\ main # "idle" /\ \A g \in Handlers : ~Serves(g)
  BY <1>1 DEF Beginning, Begun, TakeTurns
<1>4. \A g \in Handlers : g # h => ~Serves(g)'
  BY <1>2, <1>3 DEF Serves
<1>5. SgTypeOK' /\ OrderTypes'
  BY <1>1, TakeEventType DEF ReadEvent, OrderTypes
<1>6. Beginning'
  <2>1. thread["wait"] = "none" <=> thread'["wait"] = "none"
    BY <1>1, <1>2
  <2>2. thread["start"] = "none" <=> thread'["start"] = "none"
    BY <1>1, <1>2
  <2> QED  BY <1>1, <1>2, <1>3, <2>1, <2>2 DEF Beginning, Begun
<1>7. TakeTurns'
  <2>1. main \in {"free", "halt", "freed"} => thread'["wait"] = "exited"
    BY <1>1, <1>2 DEF TakeTurns
  <2>2. (\E g \in Handlers : thread'[g] = "exited") => ~isCyclic /\ fileCompleted
    BY <1>2 DEF TakeTurns
  <2> QED  BY <1>1, <1>4, <2>1, <2>2 DEF TakeTurns
<1>8. ShortFile' /\ Complete' /\ Allocated'
  BY <1>1, <1>2 DEF ShortFile, Complete, Allocated, Long
<1>9. Due' = Due /\ Live' = Live
  BY <1>1 DEF Due, Live
<1>10. Service'
  <2> SUFFICES ASSUME Live  PROVE (AtRest /\ BeforeService /\ Signs /\ InService)'
    BY <1>9 DEF Service
  <2>1. ioc /\ currentDescIdx = 1 - cur /\ ReadUpTo(Due) /\ Left(1)
    BY <1>1 DEF Service, Signs, BeforeService
  <2>2. AtRest'
    BY <1>2 DEF AtRest, Serves
  <2>3. BeforeService'
    BY <1>1, <1>9, <2>1 DEF BeforeService, ReadUpTo, Position, Left
  <2>4. Signs' /\ InService'
    BY <1>1, <1>2, <1>3, <2>1 DEF Signs, InService, Serves
  <2> QED  BY <2>2, <2>3, <2>4
<1>11. Halves'
  <2>1. Late <=> Live
    BY <1>1 DEF Late
  <2>2. Late' <=> Live
    BY <1>2, <1>9 DEF Late, Unserved
  <2> QED  BY <1>1, <1>9, <2>1, <2>2 DEF Halves, Left, Expected, Filled
<1>12. InOrder'
  BY <1>1 DEF InOrder, Expected, Filled
<1> QED  BY <1>5, <1>6, <1>7, <1>8, <1>10, <1>11, <1>12

(* The status register's bits and the descriptors' completed bits.         *)
LEMMA ClearKeepsTurn ==
  ASSUME InTurn, NEW h \in Handlers,
         ReadStatus(h) \/ ClearStatus(h) \/ ClearDesc0(h) \/ ClearDesc1(h)
  PROVE  InTurn'
<1> USE TwoHandlers
<1>1. /\ thread[h] \in {"status", "clear", "desc0", "desc1"}
      /\ thread[h] = "status" => thread' = [thread EXCEPT ![h] = "clear"] /\ ioc' = ioc
                                 /\ seen' = [seen EXCEPT ![h] = ioc] /\ loaded' = loaded
      /\ thread[h] = "clear" => thread' = [thread EXCEPT ![h] = "desc0"]
                                /\ seen' = seen /\ ~ioc' /\ loaded' = loaded
      /\ thread[h] = "desc0" => thread' = [thread EXCEPT ![h] = "desc1"]
                                /\ seen' = seen /\ ioc' = ioc /\ loaded' = loaded
      /\ thread[h] = "desc1" =>
           /\ thread' = [thread EXCEPT ![h] = IF seen[h] THEN "switch" ELSE "test"]
           /\ loaded' = [loaded EXCEPT ![h] = IF seen[h] THEN currentDescIdx ELSE 0]
           /\ seen' = seen /\ ioc' = ioc
      /\ UNCHANGED <<lastShort, memory, sending, sent, main, key, hasBuffer, buffer,
                     isCyclic, isRunning, fileCompleted, currentOffset, currentDescIdx, filePos>>
      /\ UNCHANGED <<busy, cur, irqEn, event>>
  BY DEF ReadStatus, ClearStatus, ClearDesc0, ClearDesc1, LoadDescIdx, Thread, ClearIrq, SetDone,
         sgControl, sgVars, outside, data, ctx
<1>2. PICK to \in {"clear", "desc0", "desc1", "switch", "test"} :
        /\ thread' = [thread EXCEPT ![h] = to]
        /\ thread[h] = "status" => to = "clear"
        /\ thread[h] = "clear" => to = "desc0"
        /\ thread[h] = "desc0" => to = "desc1"
        /\ thread[h] = "desc1" => to = (IF seen[h] THEN "switch" ELSE "test")
  <2> DEFINE t == IF thread[h] = "status" THEN "clear"
                  ELSE IF thread[h] = "clear" THEN "desc0"
                  ELSE IF thread[h] = "desc0" THEN "desc1"
                  ELSE IF seen[h] THEN "switch" ELSE "test"
  <2>1. t \in {"clear", "desc0", "desc1", "switch", "test"} /\ thread' = [thread EXCEPT ![h] = t]
    BY <1>1
  <2> QED  BY <2>1
<1>3. Serves(h)
  BY <1>1 DEF Serves
<1>4. /\ Beginning' /\ TakeTurns' /\ Allocated' /\ InOrder'
      /\ Due' = Due /\ Begun /\ main # "idle" /\ ~event /\ thread'[h] = to
      /\ \A g \in Handlers : g # h => thread'[g] = thread[g] /\ ~Serves(g)
                                      /\ thread[g] \in {"test", "read", "exited"}
  <2>1. ServiceMove(h, to)
    BY <1>1, <1>2, <1>3 DEF ServiceMove, serviceView
  <2> QED  BY <2>1, ServiceStep
<1> USE DEF InTurn
<1>5. SgTypeOK'
  <2>1. CASE ReadStatus(h) \/ ClearStatus(h)
    BY <2>1, SgUnchangedType, ClearIrqType DEF ReadStatus, ClearStatus
  <2>2. CASE ClearDesc0(h)
    BY <2>2, SetDoneType, [done EXCEPT ![0] = FALSE] \in [Desc -> BOOLEAN] DEF ClearDesc0, SgTypeOK
  <2>3. CASE ClearDesc1(h)
    BY <2>3, Mm2sPlayerAssumption DEF ClearDesc1, SgTypeOK, Desc
  <2> QED  BY <2>1, <2>2, <2>3
<1>6. OrderTypes'
  <2>1. seen' \in [Handlers -> BOOLEAN] /\ loaded' \in [Handlers -> Int]
    BY <1>1, SgBooleans DEF OrderTypes
  <2> QED  BY <1>1, <1>2, <2>1 DEF OrderTypes
<1>7. ShortFile' /\ Complete'
  <2>1. \A g \in Handlers : thread'[g] \notin {"fill", "store", "advance", "finish"}
    BY <1>2, <1>4
  <2> QED  BY <1>1, <2>1 DEF ShortFile, Complete, Long
<1>8. Live' = Live
  BY <1>1 DEF Live
<1>9. Live => /\ currentDescIdx = 1 - cur /\ ReadUpTo(Due) /\ Left(1)
              /\ to \in {"clear", "desc0", "desc1", "switch"} /\ (ioc' <=> to = "clear")
              /\ to \in {"clear", "desc0", "desc1"} => seen'[h]
              /\ to = "switch" => loaded'[h] = currentDescIdx
  <2> SUFFICES ASSUME Live
               PROVE  /\ currentDescIdx = 1 - cur /\ ReadUpTo(Due) /\ Left(1)
                      /\ to \in {"clear", "desc0", "desc1", "switch"} /\ (ioc' <=> to = "clear")
                      /\ to \in {"clear", "desc0", "desc1"} => seen'[h]
                      /\ to = "switch" => loaded'[h] = currentDescIdx
    OBVIOUS
  <2>1. currentDescIdx = 1 - cur /\ ReadUpTo(Due) /\ Left(1)
    BY <1>1 DEF Service, BeforeService, Unserved
  <2>2. /\ thread[h] \in {"status", "clear"} => ioc
        /\ thread[h] \in {"desc0", "desc1"} => ~ioc
        /\ thread[h] \in {"clear", "desc0", "desc1"} => seen[h]
    BY <1>1, <1>3 DEF Service, Signs
  <2>3. to \in {"clear", "desc0", "desc1", "switch"} /\ (ioc' <=> to = "clear")
    BY <1>1, <1>2, <2>2
  <2>4. to \in {"clear", "desc0", "desc1"} => seen'[h]
    BY <1>1, <1>2, <2>2 DEF OrderTypes
  <2>5. to = "switch" => loaded'[h] = currentDescIdx
    BY <1>1, <1>2, <2>2 DEF OrderTypes
  <2> QED  BY <2>1, <2>3, <2>4, <2>5
<1>10. Service'
  <2> SUFFICES ASSUME Live  PROVE (AtRest /\ BeforeService /\ Signs /\ InService)'
    BY <1>8 DEF Service
  <2>1. AtRest'
    BY <1>4, <1>9 DEF AtRest, Serves
  <2>2. BeforeService'
    BY <1>1, <1>4, <1>9 DEF BeforeService, ReadUpTo, Position, Left
  <2>3. Signs'
    BY <1>1, <1>4, <1>9 DEF Signs, Serves
  <2>4. InService'
    BY <1>1, <1>4, <1>9 DEF InService
  <2> QED  BY <2>1, <2>2, <2>3, <2>4
<1>11. Halves'
  <2>1. Late <=> Live
    BY <1>1 DEF Late, Unserved
  <2>2. Late' <=> Live
    BY <1>4, <1>8, <1>9 DEF Late, Unserved
  <2> QED  BY <1>1, <1>4, <1>8, <2>1, <2>2 DEF Halves, Left, Expected, Filled
<1> QED  BY <1>4, <1>5, <1>6, <1>7, <1>10, <1>11

(* The next descriptor becomes the current one; then the file is at its    *)
(* end, or the half that has gone out is to be refilled.                   *)
LEMMA SwitchKeepsTurn ==
  ASSUME InTurn, NEW h \in Handlers, AtFileEnd(h) \/ AtRefill(h)
  PROVE  InTurn'
<1> USE TwoHandlers
<1>1. /\ thread[h] = "switch" /\ currentDescIdx' = 1 - loaded[h]
      /\ loaded' = [loaded EXCEPT ![h] = 0]
      /\ UNCHANGED <<lastShort, memory, sending, sent, main, key, hasBuffer, buffer, seen,
                     isCyclic, isRunning, fileCompleted, currentOffset, filePos>>
      /\ UNCHANGED sgVars
  BY DEF AtFileEnd, AtRefill, SwitchTo, Thread, outside, data
<1>2. UNCHANGED <<busy, cur, irqEn, event, ioc>>
  BY <1>1 DEF sgVars
<1>3. PICK to \in {"exited", "test", "fill"} :
        /\ thread' = [thread EXCEPT ![h] = to]
        /\ to = "exited" => ~isCyclic /\ fileCompleted
        /\ to = "fill" => ~fileCompleted
        /\ to = "test" => fileCompleted /\ isCyclic
  <2>1. CASE AtFileEnd(h)
    BY <2>1 DEF AtFileEnd, SwitchTo, Thread
  <2>2. CASE AtRefill(h)
    <3> DEFINE t == IF fileCompleted THEN "test" ELSE "fill"
    <3>1. t \in {"test", "fill"} /\ thread' = [thread EXCEPT ![h] = t]
      BY <2>2 DEF AtRefill, SwitchTo, Thread
    <3>2. fileCompleted => isCyclic
      BY <2>2 DEF AtRefill
    <3> QED  BY <3>1, <3>2
  <2> QED  BY <2>1, <2>2
<1>4. Serves(h)
  BY <1>1 DEF Serves
<1>5. /\ Beginning' /\ TakeTurns' /\ Allocated' /\ InOrder'
      /\ Due' = Due /\ Begun /\ main # "idle" /\ ~event /\ thread'[h] = to
      /\ \A g \in Handlers : g # h => thread'[g] = thread[g] /\ ~Serves(g)
                                      /\ thread[g] \in {"test", "read", "exited"}
  <2>1. ServiceMove(h, to)
    BY <1>1, <1>2, <1>3, <1>4 DEF ServiceMove, serviceView
  <2> QED  BY <2>1, ServiceStep
<1> USE DEF InTurn
<1>6. SgTypeOK'
  BY <1>1, SgUnchangedType
<1>7. OrderTypes'
  <2>1. loaded' \in [Handlers -> Int] /\ currentDescIdx' \in Int
    BY <1>1 DEF OrderTypes
  <2> QED  BY <1>1, <1>3, <2>1 DEF OrderTypes
<1>8. ShortFile' /\ Complete'
  <2>1. \A g \in Handlers : thread'[g] \notin {"store", "advance", "finish"}
    BY <1>3, <1>5
  <2>2. \A g \in Handlers : thread'[g] = "fill" => ~fileCompleted
    BY <1>3, <1>5
  <2> QED  BY <1>1, <2>1, <2>2 DEF ShortFile, Complete, Long
<1>9. Live' = Live
  BY <1>1 DEF Live
<1>10. Live => /\ currentDescIdx' = cur /\ ReadUpTo(Due) /\ Left(1) /\ ~ioc /\ to = "fill"
               /\ Late
  <2> SUFFICES ASSUME Live
               PROVE  currentDescIdx' = cur /\ ReadUpTo(Due) /\ Left(1) /\ ~ioc /\ to = "fill" /\ Late
    OBVIOUS
  <2>1. currentDescIdx = 1 - cur /\ ReadUpTo(Due) /\ Left(1) /\ Late
    BY <1>1 DEF Service, BeforeService, Unserved, Late
  <2>2. ~ioc /\ loaded[h] = currentDescIdx
    BY <1>1, <1>4 DEF Service, Signs
  <2>3. currentDescIdx' = cur
    BY <1>1, <2>1, <2>2, SgBooleans
  <2>4. to = "fill"
    BY <1>3, <2>1 DEF ReadUpTo
  <2> QED  BY <2>1, <2>2, <2>3, <2>4
<1>11. Service'
  <2> SUFFICES ASSUME Live  PROVE (AtRest /\ BeforeService /\ Signs /\ InService)'
    BY <1>9 DEF Service
  <2>1. AtRest'
    BY <1>5, <1>10 DEF AtRest, Serves
  <2>2. BeforeService'
    BY <1>2, <1>5, <1>10 DEF BeforeService, Unserved
  <2>3. Signs'
    BY <1>2, <1>5, <1>10 DEF Signs
  <2>4. InService'
    BY <1>1, <1>2, <1>5, <1>10 DEF InService, ReadUpTo, Position, Left
  <2> QED  BY <2>1, <2>2, <2>3, <2>4
<1>12. Halves'
  <2>1. Late => Late'
    BY <1>5, <1>9, <1>10 DEF Late
  <2> QED  BY <1>1, <1>2, <1>5, <1>9, <1>10, <2>1 DEF Halves, Late, Left, Expected, Filled
<1> QED  BY <1>5, <1>6, <1>7, <1>8, <1>11, <1>12

(* What a thread that refills a half knows. *)
LEMMA RefillsLive ==
  ASSUME InTurn, NEW h \in Handlers, thread[h] \in {"fill", "store", "advance", "finish"},
         isCyclic \/ thread[h] # "finish"
  PROVE  /\ Live /\ Serves(h) /\ hasBuffer[h] /\ currentDescIdx = cur /\ ~ioc
         /\ thread[h] = "fill" => ReadUpTo(Due) /\ Left(1)
         /\ thread[h] \in {"store", "advance"} =>
              ~fileCompleted /\ filePos = Following(Due) /\ currentOffset = filePos - 1 /\ Left(1)
         /\ thread[h] = "store" => buffer[h] = filePos
         /\ thread[h] = "advance" => loaded[h] = currentOffset
         /\ thread[h] = "finish" => Following(Due) = Chunks
<1> USE DEF InTurn
<1>1. Serves(h) /\ main # "idle"
  BY ServesAlone DEF Serves
<1>2. Live
  BY <1>1 DEF ShortFile, Complete, Live
<1>3. Signs /\ InService
  BY <1>2 DEF Service
<1>4. ~ioc /\ currentDescIdx = cur
  BY <1>1, <1>3 DEF Signs, InService
<1> QED  BY <1>1, <1>2, <1>3, <1>4, ServesAlone DEF InService, Live

(* The chunk after the one that is due is the next one of the file.        *)
LEMMA NextChunk ==
  ASSUME InTurn, Left(1), filePos = Position(Due)
  PROVE  filePos < Chunks /\ filePos + 1 = Following(Due) /\ filePos \in Nat
<1>1. /\ Due \in 1 .. Chunks /\ Len(sent) \in Nat
      /\ Len(sent) < Chunks => Due = Len(sent) + 1
  BY DueChunk DEF InTurn, OrderTypes, Chunk
<1>2. Due = Chunks => isCyclic
  BY <1>1 DEF Left
<1> QED  BY <1>1, <1>2, TwoHandlers DEF Position, Following

LEMMA FillKeepsTurn ==
  ASSUME InTurn, NEW h \in Handlers, FillBuffer(h) \/ FillNothing(h)
  PROVE  InTurn'
<1> USE TwoHandlers
<1>1. thread[h] = "fill"
  BY DEF FillBuffer, FillNothing, Thread
<1>2. Live /\ Serves(h) /\ hasBuffer[h] /\ currentDescIdx = cur /\ ~ioc /\ ReadUpTo(Due) /\ Left(1)
  BY <1>1, RefillsLive
<1>3. /\ filePos < Chunks /\ filePos + 1 = Following(Due) /\ currentOffset = filePos
      /\ filePos \in Nat /\ ~fileCompleted
  BY <1>2, NextChunk DEF ReadUpTo
<1>4. FillBuffer(h)
  BY <1>2, <1>3 DEF FillNothing, CanRead
<1>5. /\ thread' = [thread EXCEPT ![h] = "store"]
      /\ filePos' = filePos + 1 /\ buffer' = [buffer EXCEPT ![h] = filePos + 1]
      /\ UNCHANGED <<lastShort, memory, sending, sent, main, key, hasBuffer, seen, loaded,
                     isCyclic, isRunning, fileCompleted, currentOffset, currentDescIdx>>
      /\ UNCHANGED sgVars
  BY <1>4 DEF FillBuffer, Thread, outside, data
<1>6. UNCHANGED <<busy, cur, irqEn, event, ioc>>
  BY <1>5 DEF sgVars
<1>7. /\ Beginning' /\ TakeTurns' /\ Allocated' /\ InOrder'
      /\ Due' = Due /\ Begun /\ main # "idle" /\ ~event /\ thread'[h] = "store"
      /\ \A g \in Handlers : g # h => thread'[g] = thread[g] /\ ~Serves(g)
                                      /\ thread[g] \in {"test", "read", "exited"}
  <2>1. ServiceMove(h, "store")
    BY <1>2, <1>5, <1>6 DEF ServiceMove, serviceView
  <2> QED  BY <2>1, ServiceStep
<1> USE DEF InTurn
<1>8. SgTypeOK'
  BY <1>5, SgUnchangedType
<1>9. OrderTypes'
  <2>1. buffer' \in [Handlers -> Int] /\ filePos' \in Int
    BY <1>3, <1>5 DEF OrderTypes
  <2> QED  BY <1>5, <2>1 DEF OrderTypes
<1>10. ShortFile' /\ Complete' /\ Live'
  BY <1>2, <1>3, <1>5 DEF ShortFile, Complete, Live, Long
<1>11. Service'
  <2>1. AtRest' /\ BeforeService'
    BY <1>6, <1>7 DEF AtRest, BeforeService, Serves, Unserved
  <2>2. Signs'
    BY <1>2, <1>6, <1>7 DEF Signs
  <2>3. InService'
    <3>1. buffer'[h] = filePos' /\ filePos' = Following(Due)' /\ currentOffset' = filePos' - 1
      BY <1>3, <1>5, <1>7 DEF OrderTypes, Following
    <3>2. Left(1)' /\ currentDescIdx' = cur' /\ ~fileCompleted'
      BY <1>2, <1>3, <1>5, <1>6 DEF Left
    <3> QED  BY <1>7, <3>1, <3>2 DEF InService
  <2> QED  BY <2>1, <2>2, <2>3 DEF Service
<1>12. Halves'
  <2>1. Late /\ Late'
    BY <1>1, <1>2, <1>7, <1>10 DEF Late
  <2> QED  BY <1>5, <1>6, <1>7, <2>1 DEF Halves, Left, Expected, Filled
<1> QED  BY <1>7, <1>8, <1>9, <1>10, <1>11, <1>12

(* The half that has gone out gets the next chunk.                         *)
LEMMA StoreKeepsTurn ==
  ASSUME InTurn, NEW h \in Handlers, StoreChunk(h)
  PROVE  InTurn'
<1> USE TwoHandlers
<1>1. /\ thread[h] = "store" /\ thread' = [thread EXCEPT ![h] = "advance"]
      /\ memory' = [memory EXCEPT ![RefillHalf] = Filled(buffer[h])]
      /\ loaded' = [loaded EXCEPT ![h] = currentOffset]
      /\ UNCHANGED <<lastShort, sending, sent, main, key, hasBuffer, buffer, seen, isCyclic,
                     isRunning, fileCompleted, currentOffset, currentDescIdx, filePos>>
      /\ UNCHANGED sgVars
  BY DEF StoreChunk, Thread, outside, ctx
<1>2. UNCHANGED <<busy, cur, irqEn, event, ioc>>
  BY <1>1 DEF sgVars
<1>3. /\ Live /\ Serves(h) /\ currentDescIdx = cur /\ ~ioc /\ ~fileCompleted
      /\ filePos = Following(Due) /\ currentOffset = filePos - 1 /\ Left(1)
      /\ buffer[h] = filePos
  BY <1>1, RefillsLive
<1>4. /\ memory'[cur] = memory[cur] /\ memory'[1 - cur] = Expected(Following(Due))
      /\ memory' \in [Desc -> Int] /\ loaded' \in [Handlers -> Int] /\ loaded'[h] = currentOffset
  <2>1. cur \in {0, 1} /\ RefillHalf = 1 - cur /\ RefillHalf # cur
    BY <1>3, SgBooleans DEF InTurn, RefillHalf
  <2>2. Filled(buffer[h]) = Expected(Following(Due))
    BY <1>3 DEF Expected, Live, Long
  <2>3. Filled(buffer[h]) \in Int
    BY DEF InTurn, OrderTypes, Filled, Mixed
  <2> QED  BY <1>1, <2>1, <2>2, <2>3 DEF InTurn, OrderTypes
<1>5. /\ Beginning' /\ TakeTurns' /\ Allocated' /\ InOrder'
      /\ Due' = Due /\ Begun /\ main # "idle" /\ ~event /\ thread'[h] = "advance"
      /\ \A g \in Handlers : g # h => thread'[g] = thread[g] /\ ~Serves(g)
                                      /\ thread[g] \in {"test", "read", "exited"}
  <2>1. ServiceMove(h, "advance")
    BY <1>1, <1>2, <1>3, <1>4 DEF ServiceMove, serviceView
  <2> QED  BY <2>1, ServiceStep
<1> USE DEF InTurn
<1>6. SgTypeOK' /\ OrderTypes'
  BY <1>1, <1>4, SgUnchangedType DEF OrderTypes
<1>7. ShortFile' /\ Complete' /\ Live'
  BY <1>1, <1>3 DEF ShortFile, Complete, Live, Long
<1>8. Service'
  <2>1. AtRest' /\ BeforeService'
    BY <1>2, <1>5 DEF AtRest, BeforeService, Serves, Unserved
  <2>2. Signs'
    BY <1>2, <1>3, <1>5 DEF Signs
  <2>3. InService'
    <3>1. filePos' = Following(Due)' /\ currentOffset' = filePos' - 1 /\ Left(1)'
      BY <1>1, <1>3, <1>5 DEF Left, Following
    <3>2. loaded'[h] = currentOffset' /\ currentDescIdx' = cur' /\ ~fileCompleted'
      BY <1>1, <1>2, <1>3, <1>4
    <3> QED  BY <1>5, <3>1, <3>2 DEF InService
  <2> QED  BY <2>1, <2>2, <2>3 DEF Service
<1>9. Halves'
  BY <1>1, <1>2, <1>4, <1>5 DEF Halves, Left, Expected, Filled
<1> QED  BY <1>5, <1>6, <1>7, <1>8, <1>9

(* The offset follows; the file may be complete.                           *)
LEMMA AdvanceKeepsTurn ==
  ASSUME InTurn, NEW h \in Handlers, AdvanceOffset(h)
  PROVE  InTurn'
<1> USE TwoHandlers
<1>1. /\ thread[h] = "advance"
      /\ thread' = [thread EXCEPT ![h] = IF Reaches(loaded[h] + 1) THEN "finish" ELSE "test"]
      /\ currentOffset' = loaded[h] + 1
      /\ fileCompleted' = (fileCompleted \/ Reaches(loaded[h] + 1))
      /\ loaded' = [loaded EXCEPT ![h] = 0]
      /\ UNCHANGED <<lastShort, memory, sending, sent, main, key, hasBuffer, buffer, seen,
                     isCyclic, isRunning, currentDescIdx, filePos>>
      /\ UNCHANGED sgVars
  BY DEF AdvanceOffset, Thread, outside, data
<1>2. UNCHANGED <<busy, cur, irqEn, event, ioc>>
  BY <1>1 DEF sgVars
<1>3. /\ Live /\ Serves(h) /\ currentDescIdx = cur /\ ~ioc /\ ~fileCompleted
      /\ filePos = Following(Due) /\ currentOffset = filePos - 1 /\ Left(1)
      /\ loaded[h] = currentOffset
  BY <1>1, RefillsLive
<1>4. /\ Due \in 1 .. Chunks /\ Following(Due) \in 1 .. Chunks /\ Len(sent) \in Nat
      /\ Len(sent) + 1 < Chunks => Following(Due) = Len(sent) + 2
  BY DueChunk DEF InTurn, OrderTypes, Chunk
<1>5. /\ currentOffset' = filePos /\ fileCompleted' \in BOOLEAN
      /\ fileCompleted' <=> Following(Due) = Chunks
      /\ Reaches(loaded[h] + 1) <=> Following(Due) = Chunks
  <2>1. loaded[h] + 1 = filePos /\ filePos \in 1 .. Chunks
    BY <1>3, <1>4
  <2>2. Reaches(loaded[h] + 1) <=> Following(Due) = Chunks
    BY <1>3, <1>4, <2>1 DEF Reaches
  <2>3. fileCompleted' \in BOOLEAN /\ (fileCompleted' <=> Reaches(loaded[h] + 1))
    BY <1>1, <1>3, Zenon
  <2> QED  BY <1>1, <2>1, <2>2, <2>3
<1>6. PICK to \in {"finish", "test"} :
        /\ thread' = [thread EXCEPT ![h] = to]
        /\ to = "finish" <=> Following(Due) = Chunks
  <2> DEFINE t == IF Reaches(loaded[h] + 1) THEN "finish" ELSE "test"
  <2>1. t \in {"finish", "test"} /\ thread' = [thread EXCEPT ![h] = t]
    BY <1>1
  <2>2. t = "finish" <=> Following(Due) = Chunks
    BY <1>5
  <2> QED  BY <2>1, <2>2
<1>7. /\ Beginning' /\ TakeTurns' /\ Allocated' /\ InOrder'
      /\ Due' = Due /\ Begun /\ main # "idle" /\ ~event /\ thread'[h] = to
      /\ \A g \in Handlers : g # h => thread'[g] = thread[g] /\ ~Serves(g)
                                      /\ thread[g] \in {"test", "read", "exited"}
  <2>1. ServiceMove(h, to)
    BY <1>1, <1>2, <1>3, <1>6 DEF ServiceMove, serviceView
  <2> QED  BY <2>1, ServiceStep
<1> USE DEF InTurn
<1>8. SgTypeOK'
  BY <1>1, SgUnchangedType
<1>9. OrderTypes'
  <2>1. loaded' \in [Handlers -> Int] /\ currentOffset' \in Int
    BY <1>1, <1>5 DEF OrderTypes
  <2> QED  BY <1>1, <1>5, <1>6, <2>1 DEF OrderTypes
<1>10. ShortFile'
  BY <1>1, <1>3 DEF ShortFile, Live, Long
<1>11. Complete'
  <2> SUFFICES ASSUME ~isCyclic, fileCompleted'
               PROVE  /\ Len(sent) + 2 >= Chunks
                      /\ \A g \in Handlers : thread'[g] \notin {"fill", "store", "advance"}
    BY <1>1 DEF Complete
  <2>1. Len(sent) + 2 >= Chunks
    BY <1>3, <1>4, <1>5 DEF Left
  <2>2. \A g \in Handlers : thread'[g] \notin {"fill", "store", "advance"}
    BY <1>6, <1>7
  <2> QED  BY <2>1, <2>2
<1>12. Service'
  <2> SUFFICES ASSUME Live'  PROVE (AtRest /\ BeforeService /\ Signs /\ InService)'
    BY DEF Service
  <2>1. isCyclic \/ Following(Due) # Chunks
    BY <1>1, <1>5 DEF Live
  <2>2. AtRest'
    <3> SUFFICES ASSUME ~Serves(h)'
                 PROVE  (~ioc /\ currentDescIdx = cur /\ ReadUpTo(Following(Due)) /\ Left(2))'
      BY DEF AtRest
    <3>1. Following(Due) # Chunks /\ ~fileCompleted'
      BY <1>5, <1>6, <1>7 DEF Serves
    <3>2. ReadUpTo(Following(Due))'
      BY <1>1, <1>3, <1>5, <1>7, <3>1 DEF ReadUpTo, Position, Following
    <3>3. Left(2)'
      BY <1>1, <1>3, <1>4, <3>1 DEF Left
    <3> QED  BY <1>1, <1>2, <1>3, <3>2, <3>3
  <2>3. BeforeService'
    BY <1>2, <1>6, <1>7 DEF BeforeService, Unserved
  <2>4. Signs'
    BY <1>2, <1>3, <1>6, <1>7 DEF Signs
  <2>5. InService'
    <3>1. currentDescIdx' = cur' /\ isCyclic' = isCyclic /\ Following(Due)' = Following(Due)
      BY <1>1, <1>2, <1>3, <1>7 DEF Following
    <3>2. thread'[h] = "finish" => isCyclic' /\ Following(Due)' = Chunks
      BY <1>6, <1>7, <2>1, <3>1
    <3> QED  BY <1>6, <1>7, <3>1, <3>2 DEF InService
  <2> QED  BY <2>2, <2>3, <2>4, <2>5
<1>13. Halves'
  <2>1. ~Late
    <3>1. \A g \in Handlers : ~Unserved(g) /\ thread[g] \notin {"fill", "store"}
      BY <1>1, <1>7 DEF Unserved
    <3> QED  BY <1>7, <3>1 DEF Late
  <2> QED  BY <1>1, <1>2, <1>7, <2>1 DEF Halves, Left, Expected, Filled
<1> QED  BY <1>7, <1>8, <1>9, <1>10, <1>11, <1>12, <1>13

(* At its end the file begins again, or the engine is no longer cyclic.    *)
LEMMA FinishKeepsTurn ==
  ASSUME InTurn, NEW h \in Handlers, EndOnce(h) \/ Rewind(h)
  PROVE  InTurn'
<1> USE TwoHandlers
<1>1. /\ thread[h] = "finish" /\ thread' = [thread EXCEPT ![h] = "test"] /\ Serves(h)
      /\ UNCHANGED <<lastShort, memory, sending, sent, main, key, hasBuffer, buffer, seen, loaded,
                     isCyclic, isRunning, currentDescIdx>>
      /\ UNCHANGED <<busy, cur, irqEn, ioc>>
  BY DEF EndOnce, Rewind, Thread, Serves, WriteDmacr, sgVars, outside, data, ctx
<1>2. UNCHANGED event /\ SgTypeOK'
  <2>1. CASE EndOnce(h)
    <3>1. WriteDmacr(rs, FALSE, irqEn) /\ rs \in BOOLEAN /\ irqEn \in BOOLEAN /\ event \in BOOLEAN
      BY <2>1, SgBooleans DEF EndOnce, InTurn
    <3>2. SgTypeOK'
      BY <3>1, DmacrType DEF InTurn
    <3>3. UNCHANGED <<ioc, err, irqEn>> /\ event' = (event \/ (Line' /\ ~Line))
      BY <3>1 DEF WriteDmacr, Notice
    <3>4. Line' = Line
      BY <3>3 DEF Line
    <3> QED  BY <3>1, <3>2, <3>3, <3>4
  <2>2. CASE Rewind(h)
    BY <2>2, SgUnchangedType DEF Rewind, sgVars, InTurn
  <2> QED  BY <2>1, <2>2
<1>3. isCyclic => /\ Live /\ currentDescIdx = cur /\ ~ioc /\ Following(Due) = Chunks
                  /\ filePos' = 0 /\ currentOffset' = 0 /\ ~fileCompleted'
  BY <1>1, RefillsLive DEF EndOnce, Rewind
<1>4. ~isCyclic => fileCompleted /\ ~Live /\ UNCHANGED <<fileCompleted, currentOffset, filePos>>
  <2> SUFFICES ASSUME ~isCyclic
               PROVE  fileCompleted /\ ~Live /\ UNCHANGED <<fileCompleted, currentOffset, filePos>>
    OBVIOUS
  <2>1. UNCHANGED <<fileCompleted, currentOffset, filePos>>
    BY DEF EndOnce, Rewind, ctx
  <2>2. Long
    BY <1>1, ServesAlone DEF InTurn, ShortFile
  <2>3. ~Live
    BY <1>1 DEF InTurn, Service, InService
  <2> QED  BY <1>1, <2>1, <2>2, <2>3, ServesAlone DEF Live
<1>5. fileCompleted' \in BOOLEAN /\ filePos' \in Int /\ currentOffset' \in Int
  <2>1. CASE EndOnce(h)
    <3>1. UNCHANGED <<fileCompleted, currentOffset, filePos>>
      BY <2>1 DEF EndOnce, ctx
    <3>2. fileCompleted \in BOOLEAN /\ filePos \in Int /\ currentOffset \in Int
      BY DEF InTurn, OrderTypes
    <3> QED  BY <3>1, <3>2
  <2>2. CASE Rewind(h)
    <3>1. fileCompleted' = FALSE
      BY <2>2 DEF Rewind
    <3>2. fileCompleted' \in BOOLEAN
      BY ONLY <3>1
    <3>3. filePos' \in Int /\ currentOffset' \in Int
      BY <2>2 DEF Rewind
    <3> QED  BY <3>2, <3>3
  <2> QED  BY <2>1, <2>2
<1>6. /\ Beginning' /\ TakeTurns' /\ Allocated' /\ InOrder'
      /\ Due' = Due /\ Begun /\ main # "idle" /\ ~event /\ thread'[h] = "test"
      /\ \A g \in Handlers : g # h => thread'[g] = thread[g] /\ ~Serves(g)
                                      /\ thread[g] \in {"test", "read", "exited"}
  <2>1. ServiceMove(h, "test")
    BY <1>1, <1>2, <1>3, <1>4 DEF ServiceMove, serviceView
  <2> QED  BY <2>1, ServiceStep
<1>7. Long
  BY <1>1, <1>6 DEF InTurn, ShortFile
<1> USE DEF InTurn
<1>8. OrderTypes'
  BY <1>1, <1>5 DEF OrderTypes
<1>9. ShortFile' /\ Complete'
  BY <1>1, <1>4, <1>6, <1>7 DEF ShortFile, Complete, Long
<1>10. Live' <=> isCyclic
  BY <1>1, <1>3, <1>4, <1>6, <1>7 DEF Live, Long
<1>11. Service'
  <2> SUFFICES ASSUME isCyclic  PROVE (AtRest /\ BeforeService /\ Signs /\ InService)'
    BY <1>10 DEF Service
  <2>1. AtRest'
    <3>1. ReadUpTo(Following(Due))' /\ Left(2)'
      BY <1>1, <1>3, <1>6 DEF ReadUpTo, Position, Following, Left
    <3> QED  BY <1>1, <1>3, <3>1 DEF AtRest
  <2>2. BeforeService'
    BY <1>2, <1>6 DEF BeforeService, Unserved
  <2>3. Signs'
    BY <1>1, <1>2, <1>3, <1>6 DEF Signs, Serves
  <2>4. InService'
    BY <1>6 DEF InService
  <2> QED  BY <2>1, <2>2, <2>3, <2>4
<1>12. Halves'
  <2>1. ~Late
    <3>1. \A g \in Handlers : ~Unserved(g) /\ thread[g] \notin {"fill", "store"}
      BY <1>1, <1>6 DEF Unserved
    <3> QED  BY <1>6, <3>1 DEF Late
  <2> QED  BY <1>1, <1>6, <2>1 DEF Halves, Left, Expected, Filled
<1> QED  BY <1>2, <1>6, <1>8, <1>9, <1>11, <1>12
-----------------------------------------------------------------------------
LEMMA HandlerKeepsTurn ==
  ASSUME InTurn, NEW h \in Handlers, HandlerStep(h), key' # "read", failed' = {}
  PROVE  InTurn'
<1>1. ~AtKey(h)
  BY DEF AtKey
<1>2. ~ReadFails(h) /\ ~NoBuffer(h) /\ ~NoEvent(h) /\ ~ShortWrite(h)
  BY DEF ReadFails, NoBuffer, NoEvent, ShortWrite, GivesUp
<1> QED
  BY <1>1, <1>2, LoopKeepsTurn, ReadEventKeepsTurn, ClearKeepsTurn, SwitchKeepsTurn, FillKeepsTurn,
     StoreKeepsTurn, AdvanceKeepsTurn, FinishKeepsTurn DEF HandlerStep, HandlerServes, HandlerFails

(* A key that has been read stays read.                                    *)
LEMMA KeyStaysRead == [PlayerNext]_playerVars /\ key = "read" => key' = "read"
<1> SUFFICES ASSUME [PlayerNext]_playerVars, key = "read"  PROVE key' = key
  OBVIOUS
<1>1. MainStep => key' = key
  BY DEF MainStep, PlayFile, ResetDma, SetCurDesc, RunDma, StartTail, WaitCreate, WaitJoin,
         FreeStop, FreeHalted, FreeTimeout
<1>2. \A h \in Handlers : HandlerStep(h) => key' = key
  BY DEF HandlerStep, HandlerServes, HandlerFails,
         Enter, TestRunning, ReadEvent, ReadStatus, ClearStatus, ClearDesc0,
         ClearDesc1, LoadDescIdx, AtFileEnd, AtKey, AtRefill, SwitchTo, FillBuffer, FillNothing,
         ReadFails, StoreChunk, AdvanceOffset, EndOnce, Rewind, GivesUp, NoBuffer, NoEvent, ShortWrite
<1>3. PressKey \/ EngineStep => key' = key
  BY DEF PressKey, EngineStep, SendBegin, SendEnd, SendError
<1> QED  BY <1>1, <1>2, <1>3 DEF PlayerNext, playerVars

LEMMA NextKeepsTurn == OrderInv /\ [PlayerNext]_playerVars => OrderInv'
<1> SUFFICES ASSUME OrderInv, [PlayerNext]_playerVars, paced', key' # "read", failed' = {}
             PROVE  InTurn'
  BY DEF OrderInv
<1>1. paced /\ InTurn
  BY SettingStays, KeyStaysRead DEF OrderInv
<1>2. CASE MainStep
  BY <1>1, <1>2, PlayKeepsTurn, StartKeepsTurn, WaitCreateKeepsTurn, StopKeepsTurn DEF MainStep
<1>3. CASE \E h \in Handlers : HandlerStep(h)
  BY <1>1, <1>3, HandlerKeepsTurn
<1>4. CASE EngineStep
  BY <1>1, <1>4, BeginKeepsTurn, EndKeepsTurn, ErrorKeepsTurn DEF EngineStep
<1>5. CASE PressKey \/ UNCHANGED playerVars
  <2>1. UNCHANGED <<orderView, sgVars, main, isRunning>>
    BY <1>5 DEF PressKey, playerVars, orderView, outside, ctx, threadVars, data, sgVars
  <2> QED  BY <1>1, <2>1, ViewOnlyKeepsTurn
<1> QED  BY <1>2, <1>3, <1>4, <1>5 DEF PlayerNext

(* While the threads keep pace, what has gone out is the file's chunks in  *)
(* their order, and from the first again in cyclic play, for every length  *)
(* of file and every bound on the transfers: until a key has been read or  *)
(* a call has failed.                                                      *)
THEOREM SendsInOrder == PlayerSpec => []SentInOrder
<1>1. OrderInv => SentInOrder
  BY DEF OrderInv, InTurn, InOrder, SentInOrder, At
<1> QED  BY <1>1, InitInTurn, NextKeepsTurn, PTL DEF PlayerSpec
=============================================================================
