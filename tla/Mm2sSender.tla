----------------------------- MODULE Mm2sSender -----------------------------
(***************************************************************************)
(* The file sender of driver/axidma.c: main loads a file into the buffer   *)
(* on the board, makes one descriptor for each packet of it, creates the   *)
(* event thread, starts the engine and joins the thread, which counts      *)
(* packets until the file has been sent.                                   *)
(***************************************************************************)
EXTENDS SgChannel, FiniteSets

CONSTANTS
  FilePackets,    (* the file's size in packets of MM2S_ONE_PACKET_SIZE    *)
  Leftover,       (* an earlier run has left an interrupt                  *)
  EngineErrors    (* a transfer may fail                                   *)

(* The descriptors are those of the packets that the buffer holds.         *)
ASSUME Mm2sSenderAssumption ==
  /\ FilePackets \in Nat /\ Descs <= FilePackets
  /\ {Leftover, EngineErrors} \subseteq BOOLEAN

VARIABLES
  sent,       (* packets that have gone out                                *)
  bytesSent,  (* dma->bytes_sent, in packets                               *)
  running,    (* dma->running                                              *)
  main,       (* where main is                                             *)
  thread,     (* where mm2s_event_handler_thread is                        *)
  dmasr       (* what it has read of DMASR: the IOC and the error bit      *)

threadVars == <<thread, dmasr>>
senderVars == <<sgVars, sent, bytesSent, running, main, threadVars>>

(* A file that does not fit in the buffer, by which init_mm2s_dma makes    *)
(* the transfer cyclic.                                                    *)
IsCyclic == FilePackets > Descs

SenderInit ==
  /\ SgInit(Leftover)
  /\ sent = 0 /\ bytesSent = 0
  /\ running = TRUE
  /\ main = "create"
  /\ thread = "none" /\ dmasr = [ioc |-> FALSE, err |-> FALSE]
-----------------------------------------------------------------------------
(* main, from the creation of the thread: start_mm2s_dma, whose waits for  *)
(* the engine to halt and to reset are over in time, and the join.         *)
Main(from, to) == main = from /\ main' = to

CreateThread ==
  /\ Main("create", "reset")
  /\ thread' = "test"
  /\ UNCHANGED <<sgVars, sent, bytesSent, running, dmasr>>

ResetDma ==
  /\ Main("reset", "curdesc")
  /\ SgReset
  /\ UNCHANGED <<sent, bytesSent, running, threadVars>>

SetCurDesc ==
  /\ Main("curdesc", "dmacr")
  /\ WriteCurDesc
  /\ UNCHANGED <<sent, bytesSent, running, threadVars>>

RunDma ==
  /\ Main("dmacr", "tail")
  /\ WriteDmacr(TRUE, IsCyclic, TRUE)
  /\ UNCHANGED <<sent, bytesSent, running, threadVars>>

StartTail ==
  /\ Main("tail", "running")
  /\ WriteTailDesc
  /\ UNCHANGED <<sent, bytesSent, running, threadVars>>

SetRunning ==
  /\ Main("running", "join")
  /\ running' = TRUE
  /\ UNCHANGED <<sgVars, sent, bytesSent, threadVars>>

Join ==
  /\ thread = "exited"
  /\ Main("join", "done")
  /\ UNCHANGED <<sgVars, sent, bytesSent, running, threadVars>>

MainStep ==
  CreateThread \/ ResetDma \/ SetCurDesc \/ RunDma \/ StartTail \/ SetRunning \/ Join
-----------------------------------------------------------------------------
(* mm2s_event_handler_thread.                                              *)
Thread(from, to) == thread = from /\ thread' = to

TestRunning ==
  /\ Thread("test", IF running THEN "poll" ELSE "exited")
  /\ UNCHANGED <<sgVars, sent, bytesSent, running, main, dmasr>>

(* poll finds an event and it is read, or 100 ms pass. *)
PollEvent ==
  /\ Thread("poll", "status")
  /\ TakeEvent
  /\ UNCHANGED <<sent, bytesSent, running, main, dmasr>>

PollTimeout ==
  /\ Thread("poll", "test")
  /\ UNCHANGED <<sgVars, sent, bytesSent, running, main, dmasr>>

ReadStatus ==
  /\ Thread("status", IF ioc THEN "clearIoc" ELSE IF err THEN "clearErr" ELSE "test")
  /\ dmasr' = [ioc |-> ioc, err |-> err]
  /\ UNCHANGED <<sgVars, sent, bytesSent, running, main>>

ClearIoc ==
  /\ Thread("clearIoc", "count")
  /\ ClearIrq(TRUE, FALSE)
  /\ UNCHANGED <<sent, bytesSent, running, main, dmasr>>

(* An interrupt counts as one packet; bytes_sent stops at file_size.       *)
Counted == IF bytesSent + 1 > FilePackets THEN FilePackets ELSE bytesSent + 1

AllCountedEarly == Counted + 1 >= FilePackets /\ ~IsCyclic
AllCountedLate == Counted > FilePackets /\ ~IsCyclic
AllCounted == Counted >= FilePackets /\ ~IsCyclic

CountPacket ==
  /\ thread = "count"
  /\ bytesSent' = Counted
  /\ thread' = IF AllCounted THEN "stop" ELSE IF dmasr.err THEN "clearErr" ELSE "test"
  /\ UNCHANGED <<sgVars, sent, running, main, dmasr>>

ClearError ==
  /\ Thread("clearErr", "stop")
  /\ ClearIrq(FALSE, TRUE)
  /\ UNCHANGED <<sent, bytesSent, running, main, dmasr>>

(* All is sent, or an error has occurred: RS is cleared, then running.     *)
StopDma ==
  /\ Thread("stop", "stopFlag")
  /\ WriteDmacr(FALSE, cyclic, irqEn)
  /\ UNCHANGED <<sent, bytesSent, running, main, dmasr>>

StopFlag ==
  /\ Thread("stopFlag", "exited")
  /\ running' = FALSE
  /\ UNCHANGED <<sgVars, sent, bytesSent, main, dmasr>>

ThreadStep ==
  \/ TestRunning \/ PollEvent \/ PollTimeout \/ ReadStatus \/ ClearIoc \/ CountPacket
  \/ ClearError \/ StopDma \/ StopFlag
-----------------------------------------------------------------------------
(* The engine sends the packets.                                           *)
SendBegin ==
  /\ Begin
  /\ UNCHANGED <<sent, bytesSent, running, main, threadVars>>

SendEnd ==
  /\ Finish
  /\ sent' = sent + 1
  /\ UNCHANGED <<bytesSent, running, main, threadVars>>

SendError ==
  /\ EngineErrors
  /\ rs /\ busy
  /\ rs' = FALSE /\ active' = FALSE /\ busy' = FALSE
  /\ err' = TRUE
  /\ UNCHANGED <<cyclic, irqEn, cur, done, ioc>>
  /\ Notice
  /\ UNCHANGED <<sent, bytesSent, running, main, threadVars>>

EngineStep == SendBegin \/ SendEnd \/ SendError

SenderNext == MainStep \/ ThreadStep \/ EngineStep

SenderSpec == SenderInit /\ [][SenderNext]_senderVars

(* main, the thread and the engine go on; an event that waits is seen.     *)
FairSenderSpec ==
  /\ SenderSpec
  /\ WF_senderVars(MainStep)
  /\ WF_senderVars(ThreadStep) /\ SF_senderVars(PollEvent)
  /\ WF_senderVars(SendBegin) /\ WF_senderVars(SendEnd)
-----------------------------------------------------------------------------
SenderTypeOK ==
  /\ SgTypeOK
  /\ sent \in 0 .. Descs /\ bytesSent \in 0 .. FilePackets /\ running \in BOOLEAN
  /\ main \in {"create", "reset", "curdesc", "dmacr", "tail", "running", "join", "done"}
  /\ thread \in {"none", "test", "poll", "status", "clearIoc", "count", "clearErr", "stop",
                 "stopFlag", "exited"}
  /\ dmasr \in [ioc : BOOLEAN, err : BOOLEAN]

(* The thread never counts a packet that has not gone out, although one    *)
(* interrupt may stand for many and DMASR is read before it is cleared.    *)
NeverCountsAhead == bytesSent <= sent

(* The engine is stopped only when all of the file has been sent, unless a *)
(* transfer has failed.                                                    *)
StopsAfterAll == main = "done" => sent = FilePackets \/ dmasr.err

(* main comes to its end if no transfer fails and the thread keeps pace:   *)
(* it is never two packets behind, so that no interrupt stands for two.    *)
KeepsPace == ~err /\ sent <= bytesSent + 1

PacedSenderEnds == []KeepsPace => <>(main = "done")

(* main comes to its end, at any pace. *)
SenderEnds == <>(main = "done")

(* A file that does not fit in the buffer is not sent in part. *)
BigFileRefused == IsCyclic => ~rs
=============================================================================
