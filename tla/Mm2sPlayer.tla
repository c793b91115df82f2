----------------------------- MODULE Mm2sPlayer -----------------------------
(***************************************************************************)
(* The file player library driver_mm2s (axidma_mm2s.c) as play_test.c uses *)
(* it: play a file, wait, free.  Two descriptors send the two halves of a  *)
(* buffer in turn; a handler thread refills the half that has been sent    *)
(* from the file.  axidma_mm2s_play_file starts such a thread and detaches *)
(* it, axidma_mm2s_wait starts another one on the same context.            *)
(***************************************************************************)
EXTENDS SgChannel, Sequences

CONSTANTS
  Chunks,     (* the file, in halves of the buffer, numbered from 1        *)
  Modes,      (* what ctx->is_cyclic may be: play again and again          *)
  SlowModes,  (* the modes in which the threads may be slow                *)
  MaxSent,    (* bounds on the transfers, when the threads keep pace and   *)
  MaxUnpaced  (* when they do not                                          *)

ASSUME Mm2sPlayerAssumption ==
  /\ Descs = 2 /\ ~ErrIrq
  /\ Chunks \in Nat \ {0} /\ MaxSent \in Nat /\ MaxUnpaced \in Nat
  /\ SlowModes \subseteq Modes /\ Modes \subseteq BOOLEAN

(* The handler threads, by the function that starts them. *)
Handlers == {"start", "wait"}

VARIABLES
  paced,      (* sending half a buffer takes longer than any thread needs  *)
              (* to react, and no interrupt is left from an earlier run    *)
  lastShort,  (* the file ends within a chunk                              *)
  memory,     (* the two halves of the buffer on the board                 *)
  sending,    (* what the half in transfer held when the transfer began    *)
  sent,       (* what has gone out                                         *)
  isCyclic, isRunning, fileCompleted, currentOffset, currentDescIdx,  (* ctx *)
  filePos,    (* the position in the file, which the threads share         *)
  main,       (* where play_test is                                        *)
  key,        (* the user's key: not pressed, pressed, read by a thread    *)
  thread,     (* where each handler thread is                              *)
  hasBuffer,  (* whether it has allocated its buffer                       *)
  buffer,     (* the chunk in it                                           *)
  seen,       (* whether it saw the IOC bit of DMASR                       *)
  loaded,     (* the shared field that it has loaded and is to store: no   *)
              (* lock guards the context, and two threads may both load    *)
              (* it before either stores                                   *)
  failed      (* the kinds of calls that have failed so far                *)

ctx == <<isCyclic, isRunning, fileCompleted, currentOffset, currentDescIdx, filePos>>
data == <<memory, sending, sent>>
threadVars == <<thread, hasBuffer, buffer, seen, loaded>>

(* What the code does not decide. *)
outside == <<paced, lastShort, failed>>

playerVars == <<outside, sgVars, data, ctx, main, key, threadVars>>

(* The calls of a handler thread that may fail: reading the file, and those *)
(* that make it give up (malloc, reading the event, writing to the board). *)
Calls == {"read", "thread"}

(* Parts of different chunks, or of a chunk and of old data after it. *)
Mixed == 0
Chunk == 1 .. Chunks

(* A chunk's half, sent in full as the descriptor says; the rest of a      *)
(* short one is what the half held before.                                 *)
Filled(chunk) == IF lastShort /\ chunk = Chunks THEN Mixed ELSE chunk

PlayerInit ==
  /\ isCyclic \in Modes /\ lastShort \in BOOLEAN
  /\ paced \in BOOLEAN /\ (paced \/ isCyclic \in SlowModes)
  /\ SgInit(~paced)
  /\ memory = [d \in Desc |-> Mixed] /\ sending = Mixed /\ sent = <<>>
  /\ isRunning = FALSE /\ fileCompleted = FALSE
  /\ currentOffset = 0 /\ currentDescIdx = 0 /\ filePos = 0
  /\ main = "idle" /\ key = "none"
  /\ thread = [h \in Handlers |-> "none"]
  /\ hasBuffer = [h \in Handlers |-> FALSE]
  /\ buffer = [h \in Handlers |-> Mixed]
  /\ seen = [h \in Handlers |-> FALSE]
  /\ loaded = [h \in Handlers |-> 0]
  /\ failed = {}
-----------------------------------------------------------------------------
(* play_test's main.                                                       *)
Main(from, to) == main = from /\ main' = to

(* axidma_mm2s_play_file up to the creation of the thread: a file of one   *)
(* chunk goes into both halves, one of two into the halves, with the       *)
(* descriptors' lengths set to fit; a longer one is begun.                 *)
PlayFile ==
  /\ Main("idle", "reset")
  /\ memory' = [d \in Desc |-> IF d = 0 \/ Chunks = 1 THEN 1 ELSE 2]
  /\ filePos' = IF Chunks = 1 THEN 1 ELSE 2
  /\ currentOffset' = filePos'
  /\ fileCompleted' = (Chunks <= 2)
  /\ isRunning' = TRUE
  /\ currentDescIdx' = 0
  /\ thread' = [thread EXCEPT !["start"] = "enter"]
  /\ UNCHANGED <<outside, sgVars, sending, sent, isCyclic, key>>
  /\ UNCHANGED <<hasBuffer, buffer, seen, loaded>>

ResetDma ==
  /\ Main("reset", "curdesc")
  /\ SgReset
  /\ UNCHANGED <<outside, data, ctx, key, threadVars>>

SetCurDesc ==
  /\ Main("curdesc", "dmacr")
  /\ WriteCurDesc
  /\ UNCHANGED <<outside, data, ctx, key, threadVars>>

RunDma ==
  /\ Main("dmacr", "tail")
  /\ WriteDmacr(TRUE, isCyclic, TRUE)
  /\ UNCHANGED <<outside, data, ctx, key, threadVars>>

StartTail ==
  /\ Main("tail", "wait")
  /\ WriteTailDesc
  /\ UNCHANGED <<outside, data, ctx, key, threadVars>>

(* axidma_mm2s_wait *)
WaitCreate ==
  /\ Main("wait", "join")
  /\ thread' = [thread EXCEPT !["wait"] = "enter"]
  /\ UNCHANGED <<outside, sgVars, data, ctx, key, hasBuffer, buffer, seen, loaded>>

WaitJoin ==
  /\ Main("join", "free")
  /\ thread["wait"] = "exited"
  /\ UNCHANGED <<outside, sgVars, data, ctx, key, threadVars>>

(* axidma_mm2s_free and stop_dma_transfer, whose wait for DMASR to say     *)
(* halted may time out.                                                    *)
FreeStop ==
  /\ Main("free", "halt")
  /\ WriteDmacr(FALSE, cyclic, irqEn)
  /\ UNCHANGED <<outside, data, ctx, key, threadVars>>

FreeHalted ==
  /\ Halted
  /\ Main("halt", "freed")
  /\ isRunning' = FALSE
  /\ WriteDmacr(rs, FALSE, irqEn)
  /\ UNCHANGED <<outside, data, isCyclic, fileCompleted, currentOffset, currentDescIdx>>
  /\ UNCHANGED <<filePos, key, threadVars>>

FreeTimeout ==
  /\ ~Halted
  /\ Main("halt", "freed")
  /\ UNCHANGED <<outside, sgVars, data, ctx, key, threadVars>>

MainStep ==
  \/ PlayFile \/ ResetDma \/ SetCurDesc \/ RunDma \/ StartTail \/ WaitCreate \/ WaitJoin
  \/ FreeStop \/ FreeHalted \/ FreeTimeout

PressKey ==
  /\ isCyclic /\ key = "none" /\ key' = "pressed"
  /\ UNCHANGED <<outside, sgVars, data, ctx, main, threadVars>>
-----------------------------------------------------------------------------
(* interrupt_handler, run by thread h.                                     *)
Thread(h, from, to) == thread[h] = from /\ thread' = [thread EXCEPT ![h] = to]

Enter(h) ==
  /\ Thread(h, "enter", IF fileCompleted /\ ~isCyclic THEN "exited" ELSE "test")
  /\ hasBuffer' = [hasBuffer EXCEPT ![h] = ~fileCompleted]
  /\ UNCHANGED <<outside, sgVars, data, ctx, main, key, buffer, seen, loaded>>

TestRunning(h) ==
  /\ Thread(h, "test", IF isRunning THEN "read" ELSE "exited")
  /\ UNCHANGED <<outside, sgVars, data, ctx, main, key, hasBuffer, buffer, seen, loaded>>

ReadEvent(h) ==
  /\ Thread(h, "read", "status")
  /\ TakeEvent
  /\ UNCHANGED <<outside, data, ctx, main, key, hasBuffer, buffer, seen, loaded>>

(* DMASR is read, and then cleared: of what came in between nothing is seen. *)
ReadStatus(h) ==
  /\ Thread(h, "status", "clear")
  /\ seen' = [seen EXCEPT ![h] = ioc]
  /\ UNCHANGED <<outside, sgVars, data, ctx, main, key, hasBuffer, buffer, loaded>>

ClearStatus(h) ==
  /\ Thread(h, "clear", "desc0")
  /\ ClearIrq(TRUE, TRUE)
  /\ UNCHANGED <<outside, data, ctx, main, key, hasBuffer, buffer, seen, loaded>>

ClearDesc0(h) ==
  /\ Thread(h, "desc0", "desc1")
  /\ SetDone([done EXCEPT ![0] = FALSE])
  /\ UNCHANGED <<outside, data, ctx, main, key, hasBuffer, buffer, seen, loaded>>

(* The second descriptor's completion sends the engine round again.  With  *)
(* IOC seen, current_desc_idx is loaded.  (A definition that differs from  *)
(* the one after it by a bug is a mutant: it tests the properties.)        *)
LoadDescIdx(h) ==
  /\ Thread(h, "desc1", IF seen[h] THEN "switch" ELSE "test")
  /\ loaded' = [loaded EXCEPT ![h] = IF seen[h] THEN currentDescIdx ELSE 0]
  /\ UNCHANGED <<outside, data, ctx, main, key, hasBuffer, buffer, seen>>

ClearDesc1NoRestart(h) ==
  /\ LoadDescIdx(h)
  /\ SetDone([done EXCEPT ![1] = FALSE])

ClearDesc1(h) ==
  /\ LoadDescIdx(h)
  /\ done' = [done EXCEPT ![1] = FALSE]
  /\ active' = IF done[1] THEN rs ELSE active
  /\ UNCHANGED <<rs, cyclic, irqEn, busy, cur, ioc, err, event>>

(* IOC: the next descriptor is the current one; then the file's end, a     *)
(* pressed key, or a refill.                                               *)
SwitchTo(h, to) ==
  /\ Thread(h, "switch", to)
  /\ currentDescIdx' = 1 - loaded[h]
  /\ loaded' = [loaded EXCEPT ![h] = 0]
  /\ UNCHANGED <<outside, sgVars, data, isCyclic, isRunning, fileCompleted, currentOffset>>
  /\ UNCHANGED <<filePos, main, hasBuffer, buffer, seen>>

AtFileEnd(h) == ~isCyclic /\ fileCompleted /\ SwitchTo(h, "exited") /\ UNCHANGED key

AtKey(h) == isCyclic /\ key = "pressed" /\ key' = "read" /\ SwitchTo(h, "exited")

AtRefill(h) ==
  /\ IF isCyclic THEN key # "pressed" ELSE ~fileCompleted
  /\ SwitchTo(h, IF fileCompleted THEN "test" ELSE "fill")
  /\ UNCHANGED key

(* The next chunk of the file is read; nothing is read at its end or into  *)
(* a buffer that has not been allocated.                                   *)
CanRead(h) == hasBuffer[h] /\ filePos < Chunks /\ currentOffset < Chunks

FillBuffer(h) ==
  /\ CanRead(h)
  /\ Thread(h, "fill", "store")
  /\ filePos' = filePos + 1
  /\ buffer' = [buffer EXCEPT ![h] = filePos + 1]
  /\ UNCHANGED <<sgVars, data, isCyclic, isRunning, fileCompleted, currentOffset, currentDescIdx>>
  /\ UNCHANGED <<outside, main, key, hasBuffer, seen, loaded>>

FillNothing(h) ==
  /\ ~CanRead(h)
  /\ Thread(h, "fill", "test")
  /\ fileCompleted' = TRUE
  /\ UNCHANGED <<sgVars, data, isCyclic, isRunning, currentOffset, currentDescIdx, filePos>>
  /\ UNCHANGED <<outside, main, key, hasBuffer, buffer, seen, loaded>>

(* A read that fails counts as the end of the file.                        *)
ReadFails(h) ==
  /\ Thread(h, "fill", "test")
  /\ fileCompleted' = TRUE
  /\ failed' = failed \cup {"read"}
  /\ UNCHANGED <<sgVars, data, isCyclic, isRunning, currentOffset, currentDescIdx, filePos>>
  /\ UNCHANGED <<paced, lastShort, main, key, hasBuffer, buffer, seen, loaded>>

(* The half before the current descriptor's gets the chunk, and the offset *)
(* that is to advance is loaded.                                           *)
RefillHalf == IF currentDescIdx = 0 THEN 1 ELSE 0

StoreChunk(h) ==
  /\ Thread(h, "store", "advance")
  /\ memory' = [memory EXCEPT ![RefillHalf] = Filled(buffer[h])]
  /\ loaded' = [loaded EXCEPT ![h] = currentOffset]
  /\ UNCHANGED <<outside, sgVars, sending, sent, ctx, main, key, hasBuffer, buffer, seen>>

(* A thread that gets no memory or no event, or writes less than the chunk, *)
(* gives up.                                                               *)
GivesUp(h, from) ==
  /\ Thread(h, from, "exited")
  /\ failed' = failed \cup {"thread"}
  /\ UNCHANGED <<paced, lastShort, sgVars, sending, sent, ctx, main, key>>
  /\ UNCHANGED <<hasBuffer, buffer, seen, loaded>>

NoBuffer(h) == ~fileCompleted /\ GivesUp(h, "enter") /\ UNCHANGED memory

NoEvent(h) == GivesUp(h, "read") /\ UNCHANGED memory

ShortWrite(h) ==
  /\ GivesUp(h, "store")
  /\ memory' \in {memory, [memory EXCEPT ![RefillHalf] = Mixed]}

(* The offset reaches the file's size.                                     *)
ReachesEarly(offset) == offset + 1 >= Chunks
Reaches(offset) == offset >= Chunks

AdvanceOffset(h) ==
  /\ Thread(h, "advance", IF Reaches(loaded[h] + 1) THEN "finish" ELSE "test")
  /\ currentOffset' = loaded[h] + 1
  /\ fileCompleted' = (fileCompleted \/ Reaches(loaded[h] + 1))
  /\ loaded' = [loaded EXCEPT ![h] = 0]
  /\ UNCHANGED <<sgVars, data, isCyclic, isRunning, currentDescIdx, filePos, main, key>>
  /\ UNCHANGED <<outside, hasBuffer, buffer, seen>>

(* At the end of the file: no longer cyclic, or from the beginning again.  *)
EndOnce(h) ==
  /\ ~isCyclic
  /\ Thread(h, "finish", "test")
  /\ WriteDmacr(rs, FALSE, irqEn)
  /\ UNCHANGED <<outside, data, ctx, main, key, hasBuffer, buffer, seen, loaded>>

RewindNoSeek(h) ==
  /\ isCyclic
  /\ Thread(h, "finish", "test")
  /\ currentOffset' = 0 /\ fileCompleted' = FALSE
  /\ UNCHANGED <<sgVars, data, isCyclic, isRunning, currentDescIdx, filePos, main, key>>
  /\ UNCHANGED <<outside, hasBuffer, buffer, seen, loaded>>

Rewind(h) ==
  /\ isCyclic
  /\ Thread(h, "finish", "test")
  /\ filePos' = 0 /\ currentOffset' = 0 /\ fileCompleted' = FALSE
  /\ UNCHANGED <<sgVars, data, isCyclic, isRunning, currentDescIdx, main, key>>
  /\ UNCHANGED <<outside, hasBuffer, buffer, seen, loaded>>

HandlerServes(h) ==
  \/ Enter(h) \/ TestRunning(h) \/ ReadEvent(h) \/ ReadStatus(h) \/ ClearStatus(h)
  \/ ClearDesc0(h) \/ ClearDesc1(h) \/ AtFileEnd(h) \/ AtKey(h) \/ AtRefill(h)
  \/ FillBuffer(h) \/ FillNothing(h) \/ StoreChunk(h) \/ AdvanceOffset(h)
  \/ EndOnce(h) \/ Rewind(h)

HandlerFails(h) == ReadFails(h) \/ NoBuffer(h) \/ NoEvent(h) \/ ShortWrite(h)

HandlerStep(h) == HandlerServes(h) \/ HandlerFails(h)
-----------------------------------------------------------------------------
(* The engine sends the halves.                                            *)
Reacted ==
  /\ main \notin {"reset", "curdesc", "dmacr", "tail", "wait"}
  /\ \A h \in Handlers : thread[h] \in {"none", "read", "exited"}
  /\ event => \A h \in Handlers : thread[h] # "read"

SendBegin ==
  /\ Len(sent) < (IF paced THEN MaxSent ELSE MaxUnpaced)
  /\ Begin
  /\ sending' = memory[cur]
  /\ UNCHANGED <<outside, memory, sent, ctx, main, key, threadVars>>

SendEnd ==
  /\ paced => Reacted
  /\ Finish
  /\ sent' = Append(sent, IF memory[cur] = sending THEN sending ELSE Mixed)
  /\ UNCHANGED <<outside, memory, sending, ctx, main, key, threadVars>>

SendError ==
  /\ MeetCompleted
  /\ UNCHANGED <<outside, data, ctx, main, key, threadVars>>

EngineStep == SendBegin \/ SendEnd \/ SendError

PlayerNext == MainStep \/ PressKey \/ (\E h \in Handlers : HandlerStep(h)) \/ EngineStep

PlayerSpec == PlayerInit /\ [][PlayerNext]_playerVars

(* The threads and the engine go on; of two threads that wait for an event *)
(* none gets every one. No call has to fail.                               *)
FairPlayerSpec ==
  /\ PlayerSpec
  /\ WF_playerVars(MainStep)
  /\ WF_playerVars(EngineStep)
  /\ \A h \in Handlers : WF_playerVars(HandlerServes(h))
-----------------------------------------------------------------------------
PlayerStateOK ==
  /\ SgTypeOK
  /\ memory \in [Desc -> Chunk \cup {Mixed}] /\ sending \in Chunk \cup {Mixed}
  /\ sent \in Seq(Chunk \cup {Mixed})
  /\ {isCyclic, isRunning, fileCompleted} \subseteq BOOLEAN
  /\ currentOffset \in 0 .. Chunks /\ currentDescIdx \in Desc /\ filePos \in 0 .. Chunks
  /\ main \in {"idle", "reset", "curdesc", "dmacr", "tail", "wait", "join", "free", "halt",
               "freed"}
  /\ key \in {"none", "pressed", "read"}
  /\ thread \in [Handlers -> {"none", "enter", "test", "read", "status", "clear", "desc0",
                              "desc1", "switch", "fill", "store", "advance", "finish", "exited"}]
  /\ {hasBuffer, seen} \subseteq [Handlers -> BOOLEAN]
  /\ buffer \in [Handlers -> Chunk \cup {Mixed}] /\ loaded \in [Handlers -> 0 .. Chunks]
  /\ failed \subseteq Calls

PlayerTypeOK == {paced, lastShort} \subseteq BOOLEAN /\ PlayerStateOK

(* With threads that keep pace and calls that do not fail, what goes out   *)
(* is the file, chunk by chunk, and from its beginning again when it is    *)
(* played cyclically and no thread has quit because of a key.  The last    *)
(* chunk may come with old data after it, unless the file fits the buffer: *)
(* then the lengths that the descriptors have been given fit as well       *)
(* (axidma_mm2s.c:344-391).                                                *)
Expected(chunk) == IF Chunks > 2 THEN Filled(chunk) ELSE chunk

SentInOrder ==
  paced /\ key # "read" /\ failed = {} =>
    \A k \in DOMAIN sent :
      isCyclic \/ k <= Chunks => sent[k] = Expected(1 + ((k - 1) % Chunks))

(* A file that is played once counts as complete only when all of it has   *)
(* been read or a read has failed (then the rest is dropped, and nobody is *)
(* told: axidma_mm2s.c:619-621).  The threads share its position and the   *)
(* offset, may overwrite each other's updates and may give up halfway: the *)
(* file never counts as complete because of that.                          *)
CompleteMeansRead == ~isCyclic /\ fileCompleted => filePos = Chunks \/ "read" \in failed

(* While play_test waits, a cyclic player sends on and on, although reads  *)
(* fail and the other thread gives up: each half of the buffer has its     *)
(* turn again, until the bound is reached.                                 *)
KeepsPlaying ==
  \A d \in Desc :
    (paced /\ isCyclic /\ main = "join")
      ~> (main # "join" \/ Len(sent) = MaxSent \/ (busy /\ cur = d))

(* A file that is played once is not followed by anything else. *)
NothingAfterFile == ~isCyclic /\ Chunks > 2 /\ failed = {} => Len(sent) <= Chunks

(* All of a file that is played once is read before it counts as complete. *)
AllIsRead == ~isCyclic /\ fileCompleted => filePos = Chunks

(* axidma_mm2s_wait waits until the file has been sent. *)
WaitMeansSent ==
  paced /\ main = "free" /\ ~isCyclic /\ failed = {} =>
    \A c \in Chunk : \E k \in DOMAIN sent : sent[k] = c

(* axidma_mm2s_wait returns when a file has been played once (a run that   *)
(* has come to the bound says nothing).                                    *)
WaitEnds == main = "join" ~> (main # "join" \/ Len(sent) = MaxSent)

(* The key that a thread has read ends the thread that play_test waits for. *)
KeyEndsWait == key = "read" => thread["wait"] = "exited"

(* When the context is freed no thread uses it. *)
FreedUnused == main = "freed" => \A h \in Handlers : thread[h] \in {"none", "exited"}
=============================================================================
