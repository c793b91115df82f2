----------------------------- MODULE SimpleDma ------------------------------
(* The AXI DMA driver on an engine in simple mode: xaxidma.c without       *)
(* scatter-gather, used by xaxidma_example_simple_poll.c, which sends      *)
(* packets round a loop and compares, or by any client. The driver reads   *)
(* a channel's status and then writes its registers in one step: a channel *)
(* it finds ready does nothing in between.                                 *)
EXTENDS Integers, Sequences

CONSTANTS
  Boards,       \* the engines, see BoardType
  MaxLen,       \* MaxTransferLen
  PktLen,       \* MAX_PKT_LEN
  Tries,        \* NUMBER_OF_TRANSFERS
  ResetTimeout, \* XAXIDMA_RESET_TIMEOUT
  MaxCalls      \* bound: calls of a client other than the example

Dir == {"tx", "rx"}
BoardType ==
  [has : SUBSET Dir, hasSg : BOOLEAN, dre : BOOLEAN,
   resets : BOOLEAN,                    \* whether a reset ever ends
   errs : BOOLEAN,                      \* whether transfers may fail
   drops : 0 .. Tries + 1,              \* the transfer of which nothing is stored, if any
   fresh : BOOLEAN]                     \* whether the memory was never used for a test
ASSUME BoardsAssumption == Boards \subseteq BoardType
ASSUME TriesAssumption == Tries \in Nat \ {0}

VARIABLES
  board, client,              \* what runs: client is "example" or "any"
  rs, halted, idle, err, resetting,  \* CR and SR of the channels
  flight,                     \* items that a channel's transfer still has, 0 without one
  stream,                     \* the loop: lengths of packets
  rxBuf,                      \* items of the pattern in the receive buffer
  received,                   \* transfers of the receive channel so far
  initialized, runState,      \* the driver's instance
  pc, left,                   \* the program, and rounds left of its loop
  calls,                      \* calls of a client so far
  ret                         \* what it returned

engineVars == <<rs, halted, idle, err, resetting, flight, stream, rxBuf, received>>
dmaVars == <<board, client, engineVars, initialized, runState, pc, left, calls, ret>>

Both(x) == [d \in Dir |-> x]

-----------------------------------------------------------------------------
(* The engine. A channel stops at the end of its transfer when RS is off,  *)
(* on an error it stops at once, and only a reset starts it again. Idle is *)
(* off while a channel is halted and before its first transfer.            *)
RunStop(ds, on) ==
  /\ rs' = [d \in Dir |-> IF d \in ds THEN on ELSE rs[d]]
  /\ halted' = [d \in Dir |-> IF d \notin ds THEN halted[d] ELSE IF on THEN err[d] ELSE flight[d] = 0]
  /\ idle' = [d \in Dir |-> idle[d] /\ (on \/ d \notin ds)]
  /\ UNCHANGED <<err, resetting, flight, stream, rxBuf, received>>

Ends(d) ==
  /\ flight' = [flight EXCEPT ![d] = 0]
  /\ idle' = [idle EXCEPT ![d] = rs[d]]
  /\ halted' = [halted EXCEPT ![d] = ~rs[d]]

Breaks(d) ==
  /\ flight' = [flight EXCEPT ![d] = 0]
  /\ err' = [err EXCEPT ![d] = TRUE]
  /\ idle' = [idle EXCEPT ![d] = FALSE]
  /\ halted' = [halted EXCEPT ![d] = TRUE]

Send ==
  /\ ~resetting /\ flight["tx"] > 0 /\ stream = <<>>
  /\ stream' = <<flight["tx"]>>
  /\ Ends("tx")
  /\ UNCHANGED <<rs, err, resetting, rxBuf, received>>

Receive ==
  /\ ~resetting /\ flight["rx"] > 0 /\ stream # <<>>
  /\ stream' = Tail(stream)
  /\ IF Head(stream) > flight["rx"]
     THEN Breaks("rx") /\ UNCHANGED <<rxBuf, received>>
     ELSE /\ Ends("rx") /\ UNCHANGED err
          /\ received' = IF client = "example" THEN received + 1 ELSE received
          /\ rxBuf' = IF board.drops = received' THEN rxBuf ELSE Head(stream)
  /\ UNCHANGED <<rs, resetting>>

Error(d) ==
  /\ board.errs /\ ~resetting /\ flight[d] > 0
  /\ Breaks(d)
  /\ UNCHANGED <<rs, resetting, stream, rxBuf, received>>

ResetEnds ==
  /\ resetting /\ board.resets
  /\ resetting' = FALSE
  /\ rs' = Both(FALSE) /\ halted' = Both(TRUE) /\ idle' = Both(FALSE)
  /\ err' = Both(FALSE) /\ flight' = Both(0)
  /\ UNCHANGED <<stream, rxBuf, received>>

Engine == /\ Send \/ Receive \/ (\E d \in Dir : Error(d)) \/ ResetEnds
          /\ UNCHANGED <<board, client, initialized, runState, pc, left, calls, ret>>

-----------------------------------------------------------------------------
(* The driver. XAxiDma_CfgInitialize and XAxiDma_Selftest reset both       *)
(* channels and look ResetTimeout times whether they are out of it.        *)
ResetAndWait ==
  /\ resetting' = TRUE /\ runState' = Both("HALTED")
  /\ left' = ResetTimeout /\ pc' = "reset"
  /\ UNCHANGED <<rs, halted, idle, err, flight, stream, rxBuf, received, board, client, ret>>

CfgInitialize ==
  /\ pc = "start"
  /\ initialized' = FALSE
  /\ ResetAndWait /\ UNCHANGED calls

Selftest ==
  /\ pc = "any" /\ calls < MaxCalls
  /\ calls' = calls + 1
  /\ ResetAndWait /\ UNCHANGED initialized

ResetIsDone == ~resetting

WaitForReset ==
  /\ pc = "reset"
  /\ \/ /\ ResetIsDone /\ left > 0
        /\ initialized' = TRUE /\ pc' = client /\ left' = 0
        /\ UNCHANGED ret
     \/ /\ ~ResetIsDone /\ left > 0
        /\ left' = left - 1
        /\ UNCHANGED <<initialized, pc, ret>>
     \/ /\ left = 0
        /\ pc' = "done" /\ ret' = "FAILURE"
        /\ UNCHANGED <<initialized, left>>
  /\ UNCHANGED <<board, client, calls, runState, engineVars>>

Busy(d) == ~idle[d]

\* Mutants: the engine's status is not looked at, a halted channel is taken for busy
AcceptsAny(d, len, aligned) ==
  /\ ~board.hasSg /\ d \in board.has /\ len \in 1 .. MaxLen
  /\ aligned \/ board.dre

AcceptsIdle(d, len, aligned) ==
  /\ ~board.hasSg /\ d \in board.has /\ len \in 1 .. MaxLen
  /\ ~Busy(d)
  /\ aligned \/ board.dre

Accepts(d, len, aligned) ==
  /\ ~board.hasSg /\ d \in board.has /\ len \in 1 .. MaxLen
  /\ halted[d] \/ ~Busy(d)
  /\ aligned \/ board.dre

\* RS, then the length, which starts the transfer unless the channel is in error
Submit(d, len) ==
  /\ rs' = [rs EXCEPT ![d] = TRUE]
  /\ IF err[d] THEN UNCHANGED <<halted, idle, flight>>
     ELSE /\ halted' = [halted EXCEPT ![d] = FALSE]
          /\ idle' = [idle EXCEPT ![d] = FALSE]
          /\ flight' = [flight EXCEPT ![d] = len]
  /\ UNCHANGED <<err, resetting, stream, rxBuf, received>>

SimpleTransfer(d, len, aligned) ==
  /\ IF Accepts(d, len, aligned) THEN Submit(d, len) ELSE UNCHANGED engineVars
  /\ UNCHANGED <<board, client, initialized, runState, left>>

\* Both calls change nothing before the instance is initialized
Pause ==
  /\ RunStop(board.has, FALSE)
  /\ runState' = [d \in Dir |-> IF d \in board.has THEN "HALTED" ELSE runState[d]]
  /\ UNCHANGED <<board, client, initialized, left>>

Started == \A d \in board.has : ~halted[d]

Start == RunStop({d \in board.has : runState[d] = "HALTED"}, TRUE)

Resume ==
  /\ IF Started THEN UNCHANGED engineVars ELSE Start
  /\ runState' = [d \in Dir |-> IF d \in board.has THEN "NOT_HALTED" ELSE runState[d]]
  /\ UNCHANGED <<board, client, initialized, left>>

AnyCall ==
  /\ pc = "any" /\ calls < MaxCalls
  /\ calls' = calls + 1
  /\ \/ Pause
     \/ Resume
     \/ \E d \in Dir, len \in {0, 1, PktLen, MaxLen + 1}, aligned \in BOOLEAN : SimpleTransfer(d, len, aligned)
  /\ UNCHANGED <<pc, ret>>

-----------------------------------------------------------------------------
(* XAxiDma_SimplePollExample: left is the number of packets gone round. *)
GoesTo(there, failed) ==
  /\ pc' = (IF failed THEN "done" ELSE there)
  /\ ret' = IF failed THEN "FAILURE" ELSE ret
  /\ UNCHANGED calls

RefuseSg ==
  /\ pc = "example"
  /\ GoesTo("rx", board.hasSg)
  /\ UNCHANGED <<board, client, engineVars, initialized, runState, left>>

ArmReceive ==
  /\ pc = "rx"
  /\ GoesTo("tx", ~Accepts("rx", PktLen, TRUE))
  /\ SimpleTransfer("rx", PktLen, TRUE)

SendPacket ==
  /\ pc = "tx"
  /\ GoesTo("poll", ~Accepts("tx", PktLen, TRUE))
  /\ SimpleTransfer("tx", PktLen, TRUE)

\* Mutant: one channel only is waited for
SendingEnds == ~Busy("tx")
TransfersEnded == ~Busy("rx") /\ ~Busy("tx")

Poll ==
  /\ pc = "poll" /\ TransfersEnded
  /\ GoesTo("check", FALSE)
  /\ UNCHANGED <<board, client, engineVars, initialized, runState, left>>

CheckData == rxBuf = PktLen

Check ==
  /\ pc = "check"
  /\ left' = left + 1
  /\ IF ~CheckData THEN pc' = "done" /\ ret' = "FAILURE"
     ELSE IF left' < Tries THEN pc' = "rx" /\ ret' = ret
     ELSE pc' = "done" /\ ret' = "SUCCESS"
  /\ UNCHANGED <<board, client, calls, engineVars, initialized, runState>>

-----------------------------------------------------------------------------
\* A channel may be left running by what used the engine before
DmaInit ==
  /\ board \in Boards /\ client \in {"example", "any"} /\ (client = "any" => ~board.hasSg)
  /\ flight \in {f \in [Dir -> {0, PktLen}] : f["tx"] = 0 /\ (f["rx"] = 0 \/ "rx" \in board.has)}
  /\ rs = [d \in Dir |-> flight[d] # 0] /\ halted = [d \in Dir |-> flight[d] = 0]
  /\ idle = Both(FALSE) /\ err = Both(FALSE) /\ resetting = FALSE
  /\ stream = <<>> /\ received = 0
  /\ rxBuf \in {0} \cup {n \in {PktLen} : ~board.fresh}
  /\ initialized = FALSE /\ runState = Both("HALTED")
  /\ pc = "start" /\ left = 0 /\ calls = 0 /\ ret = "none"

DmaProgram == \/ CfgInitialize \/ WaitForReset \/ Selftest \/ AnyCall
              \/ RefuseSg \/ ArmReceive \/ SendPacket \/ Poll \/ Check

DmaNext == DmaProgram \/ Engine

Example == CfgInitialize \/ WaitForReset \/ RefuseSg \/ ArmReceive \/ SendPacket \/ Poll \/ Check

\* The program runs on, and so does the engine; clients need not call it
FairDma == WF_dmaVars(Example) /\ WF_dmaVars(Engine)
DmaSpec == DmaInit /\ [][DmaNext]_dmaVars /\ FairDma

-----------------------------------------------------------------------------
\* XAxiDma_SimpleTransfer never writes the length of a channel whose
\* transfer is not over, whatever the client does and the engine did before:
\* the engine's registers would then belong to two transfers.
NoneOverwritten ==
  [][\A d \in Dir : flight[d] # 0 /\ flight'[d] # flight[d] => flight'[d] = 0]_dmaVars

\* What a pass of the example says: the data went round at least once. The
\* receive buffer is not cleared between the tries, so that a transfer behind
\* the first that stores nothing is not seen, nor is any in a memory that
\* still has the data of an earlier run.
PassMeansDelivered ==
  client = "example" /\ ret = "SUCCESS" =>
    /\ ~board.hasSg /\ board.has = Dir /\ received = Tries
    /\ board.drops # 1 \/ ~board.fresh

\* The example comes to an end and calls a working board good that has come
\* out of reset in time, unless an error stops a channel: XAxiDma_Busy then
\* says busy for ever.
Working == board.has = Dir /\ ~board.hasSg /\ board.resets /\ board.drops \notin 1 .. Tries
ExampleEnds ==
  client = "example" => <>(\/ pc = "done" /\ (Working /\ initialized => ret = "SUCCESS")
                           \/ \E d \in Dir : err[d])
=============================================================================
