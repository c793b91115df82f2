---------------------------- MODULE BoardProofs -----------------------------
(* What the tests say of a board. The simple mode of the AXI DMA driver:   *)
(* for every engine, every client, every number of calls and any order of  *)
(* them, no transfer is written over one that is not over; and what a      *)
(* success of the polling example says, for every number of rounds. The    *)
(* memory tests: a sound memory passes, and an address line that does not  *)
(* reach the memory does not, for every width, length of block and pattern.*)
EXTENDS BoardTests, TLAPS

ChannelsTyped ==
  /\ {rs, halted, idle, err} \subseteq [Dir -> BOOLEAN]
  /\ flight = [d \in Dir |-> flight[d]]

(* Each bit the driver looks at, or that a start copies into one of them,  *)
(* says that the channel's transfer is over.                               *)
StatusIsTrue == \A d \in Dir : halted[d] \/ idle[d] \/ err[d] => flight[d] = 0

DmaInv == ChannelsTyped /\ StatusIsTrue

(* A step of the engine ends transfers and begins none. *)
OnlyEnds == \A d \in Dir : flight'[d] # flight[d] => flight'[d] = 0

(* XAxiDma_SimpleTransfer begins one where none is in flight. *)
NotOverwritten == \A d \in Dir : flight[d] # 0 /\ flight'[d] # flight[d] => flight'[d] = 0
-----------------------------------------------------------------------------
LEMMA InitDmaInv == DmaInit => DmaInv
<1> SUFFICES ASSUME DmaInit PROVE DmaInv
  OBVIOUS
<1> USE DEF DmaInit, Both
<1>1. rs \in [Dir -> BOOLEAN] /\ halted \in [Dir -> BOOLEAN]
  OBVIOUS
<1>2. idle \in [Dir -> BOOLEAN] /\ err \in [Dir -> BOOLEAN]
  OBVIOUS
<1>3. flight = [d \in Dir |-> flight[d]]
  OBVIOUS
<1>4. StatusIsTrue
  BY DEF StatusIsTrue
<1> QED  BY <1>1, <1>2, <1>3, <1>4 DEF DmaInv, ChannelsTyped

(* The end of a transfer and its failure. *)
LEMMA EndsKeepsInv ==
  ASSUME NEW d \in Dir, DmaInv, Ends(d), UNCHANGED <<rs, err>>
  PROVE  DmaInv' /\ NotOverwritten
<1> USE DEF DmaInv, ChannelsTyped, StatusIsTrue, Ends
<1>1. halted' \in [Dir -> BOOLEAN] /\ idle' \in [Dir -> BOOLEAN]
  OBVIOUS
<1>2. rs' \in [Dir -> BOOLEAN] /\ err' \in [Dir -> BOOLEAN]
  OBVIOUS
<1>3. flight' = [e \in Dir |-> flight'[e]]
  OBVIOUS
<1>4. StatusIsTrue'
  OBVIOUS
<1>5. NotOverwritten
  BY DEF NotOverwritten
<1> QED  BY <1>1, <1>2, <1>3, <1>4, <1>5

LEMMA BreaksKeepsInv ==
  ASSUME NEW d \in Dir, DmaInv, Breaks(d), UNCHANGED rs
  PROVE  DmaInv' /\ NotOverwritten
<1> USE DEF DmaInv, ChannelsTyped, StatusIsTrue, Breaks
<1>1. halted' \in [Dir -> BOOLEAN] /\ idle' \in [Dir -> BOOLEAN] /\ err' \in [Dir -> BOOLEAN]
  OBVIOUS
<1>2. rs' \in [Dir -> BOOLEAN]
  OBVIOUS
<1>3. flight' = [e \in Dir |-> flight'[e]]
  OBVIOUS
<1>4. StatusIsTrue'
  OBVIOUS
<1>5. NotOverwritten
  BY DEF NotOverwritten
<1> QED  BY <1>1, <1>2, <1>3, <1>4, <1>5

(* Starting and stopping channels: a channel in error stays halted, one    *)
(* that is stopped halts only without a transfer.                          *)
LEMMA RunStopKeepsInv ==
  ASSUME NEW ds, NEW on \in BOOLEAN, DmaInv, RunStop(ds, on)
  PROVE  DmaInv' /\ NotOverwritten
<1> USE DEF DmaInv, ChannelsTyped, StatusIsTrue, RunStop
<1>1. rs' \in [Dir -> BOOLEAN] /\ halted' \in [Dir -> BOOLEAN]
  OBVIOUS
<1>2. idle' \in [Dir -> BOOLEAN] /\ err' \in [Dir -> BOOLEAN]
  OBVIOUS
<1>3. flight' = [e \in Dir |-> flight'[e]]
  OBVIOUS
<1>4. StatusIsTrue'
  OBVIOUS
<1>5. NotOverwritten
  BY DEF NotOverwritten
<1> QED  BY <1>1, <1>2, <1>3, <1>4, <1>5

LEMMA QuietKeepsInv ==
  ASSUME DmaInv, UNCHANGED <<rs, halted, idle, err, flight>>
  PROVE  DmaInv' /\ NotOverwritten
BY DEF DmaInv, ChannelsTyped, StatusIsTrue, NotOverwritten

(* XAxiDma_SimpleTransfer, whose test of the status is what counts. *)
LEMMA TransferKeepsInv ==
  ASSUME NEW d \in Dir, NEW len, NEW aligned, DmaInv, SimpleTransfer(d, len, aligned)
  PROVE  DmaInv' /\ NotOverwritten
<1>1. CASE ~Accepts(d, len, aligned)
  BY <1>1, QuietKeepsInv DEF SimpleTransfer, engineVars
<1>2. CASE Accepts(d, len, aligned)
  <2> USE DEF DmaInv, ChannelsTyped, StatusIsTrue
  <2>1. Submit(d, len)
    BY <1>2 DEF SimpleTransfer
  <2>2. flight[d] = 0
    BY <1>2 DEF Accepts, Busy
  <2>3. CASE err[d]
    <3>1. rs' \in [Dir -> BOOLEAN] /\ UNCHANGED <<halted, idle, err, flight>>
      BY <2>1, <2>3 DEF Submit
    <3> QED  BY <3>1 DEF NotOverwritten
  <2>4. CASE ~err[d]
    <3>1. rs' \in [Dir -> BOOLEAN] /\ halted' \in [Dir -> BOOLEAN] /\ idle' \in [Dir -> BOOLEAN]
      BY <2>1, <2>4 DEF Submit
    <3>2. err' = err /\ flight' = [e \in Dir |-> flight'[e]]
      BY <2>1, <2>4 DEF Submit
    <3>3. \A e \in Dir : e # d => halted'[e] = halted[e] /\ idle'[e] = idle[e]
                                  /\ flight'[e] = flight[e]
      BY <2>1, <2>4 DEF Submit
    <3>4. ~halted'[d] /\ ~idle'[d] /\ ~err'[d]
      BY <2>1, <2>4 DEF Submit
    <3>5. StatusIsTrue'
      BY <3>2, <3>3, <3>4
    <3>6. NotOverwritten
      BY <3>3, <2>2 DEF NotOverwritten
    <3> QED  BY <3>1, <3>2, <3>5, <3>6
  <2> QED  BY <2>3, <2>4
<1> QED  BY <1>1, <1>2
-----------------------------------------------------------------------------
LEMMA EngineKeepsInv == DmaInv /\ Engine => DmaInv' /\ NotOverwritten
<1> SUFFICES ASSUME DmaInv, Engine PROVE DmaInv' /\ NotOverwritten
  OBVIOUS
<1>1. CASE Send
  BY <1>1, EndsKeepsInv DEF Send, Dir
<1>2. CASE Receive
  <2>1. CASE Head(stream) > flight["rx"]
    BY <1>2, <2>1, BreaksKeepsInv DEF Receive, Dir
  <2>2. CASE ~(Head(stream) > flight["rx"])
    BY <1>2, <2>2, EndsKeepsInv DEF Receive, Dir
  <2> QED  BY <2>1, <2>2
<1>3. CASE \E d \in Dir : Error(d)
  BY <1>3, BreaksKeepsInv DEF Error
<1>4. CASE ResetEnds
  <2> USE <1>4 DEF ResetEnds, Both
  <2>1. {rs', halted', idle', err'} \subseteq [Dir -> BOOLEAN]
    OBVIOUS
  <2>2. flight' = [d \in Dir |-> flight'[d]]
    OBVIOUS
  <2>3. StatusIsTrue' /\ NotOverwritten
    BY DEF StatusIsTrue, NotOverwritten
  <2> QED  BY <2>1, <2>2, <2>3 DEF DmaInv, ChannelsTyped
<1> QED  BY <1>1, <1>2, <1>3, <1>4 DEF Engine

LEMMA ProgramKeepsInv == DmaInv /\ DmaProgram => DmaInv' /\ NotOverwritten
<1> SUFFICES ASSUME DmaInv, DmaProgram PROVE DmaInv' /\ NotOverwritten
  OBVIOUS
<1>1. CASE CfgInitialize \/ Selftest
  BY <1>1, QuietKeepsInv DEF CfgInitialize, Selftest, ResetAndWait
<1>2. CASE WaitForReset \/ Poll \/ Check
  BY <1>2, QuietKeepsInv DEF WaitForReset, Poll, Check, engineVars
<1>3. CASE RefuseSg
  BY <1>3, QuietKeepsInv DEF RefuseSg, engineVars
<1>4. CASE ArmReceive \/ SendPacket
  BY <1>4, TransferKeepsInv DEF ArmReceive, SendPacket, Dir
<1>5. CASE AnyCall
  <2>1. CASE Pause
    BY <2>1, RunStopKeepsInv DEF Pause
  <2>2. CASE Resume
    BY <2>2, RunStopKeepsInv, QuietKeepsInv DEF Resume, Start, engineVars
  <2>3. CASE \E d \in Dir, len \in {0, 1, PktLen, MaxLen + 1}, aligned \in BOOLEAN :
               SimpleTransfer(d, len, aligned)
    BY <2>3, TransferKeepsInv
  <2> QED  BY <1>5, <2>1, <2>2, <2>3 DEF AnyCall
<1> QED  BY <1>1, <1>2, <1>3, <1>4, <1>5 DEF DmaProgram
-----------------------------------------------------------------------------
LEMMA NextKeepsDmaInv == DmaInv /\ [DmaNext]_dmaVars => DmaInv' /\ (NotOverwritten \/ UNCHANGED dmaVars)
<1> SUFFICES ASSUME DmaInv, [DmaNext]_dmaVars PROVE DmaInv' /\ (NotOverwritten \/ UNCHANGED dmaVars)
  OBVIOUS
<1>1. CASE UNCHANGED dmaVars
  BY <1>1, QuietKeepsInv DEF dmaVars, engineVars
<1> QED  BY <1>1, EngineKeepsInv, ProgramKeepsInv DEF DmaNext

(* Whatever a client calls and whatever the engine does, a channel's       *)
(* status tells that a transfer is in flight.                              *)
THEOREM StatusTells == DmaSpec => []DmaInv
<1> QED  BY InitDmaInv, NextKeepsDmaInv, PTL DEF DmaSpec

(* No call of the driver writes a transfer over one that is not over       *)
(* (XAxiDma_SimpleTransfer), for every engine and any number of calls.     *)
THEOREM TransfersAreKept == DmaSpec => NoneOverwritten
<1>1. DmaInv /\ [DmaNext]_dmaVars => [NotOverwritten]_dmaVars
  BY NextKeepsDmaInv
<1>2. DmaSpec => [][NotOverwritten]_dmaVars
  BY <1>1, StatusTells, PTL DEF DmaSpec
<1> QED  BY <1>2 DEF NoneOverwritten, NotOverwritten
-----------------------------------------------------------------------------
(* Nothing is on its way round the loop. *)
NothingSent == stream = <<>> /\ flight["tx"] = 0

(* The rounds of the loop. *)
InLoop == pc \in {"rx", "tx", "poll", "check"}

(* The example has asked for a packet of this round and has got it or not. *)
Waiting == received = left /\ ~idle["rx"]
Got == received = left + 1 /\ NothingSent

(* With the first packet lost in a fresh memory the buffer is empty up to  *)
(* the second, and the first round is the last one.                        *)
FirstIsLost == board.fresh /\ board.drops = 1

(* What the example has asked for and got at each of its steps: while it   *)
(* waits one packet is on its way round at most.                           *)
ExampleAt ==
  /\ pc \in {"start", "reset", "example"} => NothingSent /\ received = 0 /\ ret = "none"
  /\ pc = "example" => left = 0
  /\ InLoop => left \in 0 .. Tries - 1 /\ ret = "none"
  /\ pc = "rx" => NothingSent /\ received = left
  /\ pc = "tx" => NothingSent /\ Waiting
  /\ pc = "poll" =>
       \/ Got
       \/ Waiting /\ (stream = <<>> \/ (flight["tx"] = 0 /\ Tail(stream) = <<>>))
  /\ pc = "check" => Got
  /\ pc \in {"tx", "poll", "check"} => PktLen \in 1 .. MaxLen /\ "rx" \in board.has /\ ~board.hasSg
  /\ pc \in {"poll", "check"} => board.has = Dir
  /\ FirstIsLost /\ pc # "done" => rxBuf = 0 /\ (InLoop => left = 0)

(* The engine has no channels but the two. *)
BoardsAreBuilt == board.has \subseteq Dir

(* What the example says with a success. *)
Delivered ==
  /\ pc = "done" /\ NothingSent /\ received = Tries
  /\ ~board.hasSg /\ board.has = Dir /\ ~FirstIsLost

(* A channel in error never becomes idle, so that the example waits for it *)
(* for ever and does not take it for one that has received.                *)
ExampleInv ==
  client = "example" =>
    /\ pc \in {"start", "reset", "example", "rx", "tx", "poll", "check", "done"}
    /\ err \in [Dir -> BOOLEAN]
    /\ \A d \in Dir : err[d] => ~idle[d]
    /\ ExampleAt
    /\ ret = "SUCCESS" => Delivered
-----------------------------------------------------------------------------
LEMMA InitExample == DmaInit => ExampleInv
<1> SUFFICES ASSUME DmaInit, client = "example" PROVE ExampleInv
  BY DEF ExampleInv
<1>1. flight["tx"] = 0 /\ stream = <<>>
  BY DEF DmaInit
<1>2. err \in [Dir -> BOOLEAN] /\ \A d \in Dir : ~err[d]
  BY DEF DmaInit, Both
<1>3. FirstIsLost => rxBuf = 0
  BY DEF DmaInit, FirstIsLost
<1>4. pc = "start" /\ received = 0 /\ ret = "none"
  BY DEF DmaInit
<1> QED  BY <1>1, <1>2, <1>3, <1>4 DEF ExampleInv, ExampleAt, InLoop, NothingSent

(* The engine passes the packet on, receives it, fails, or is reset. *)
LEMMA SendKeepsExample ==
  ASSUME DmaInv, ExampleInv, client = "example", Send,
         UNCHANGED <<board, client, initialized, runState, pc, left, calls, ret>>
  PROVE  ExampleInv'
<1>1. flight["tx"] # 0 /\ stream = <<>> /\ flight' = [flight EXCEPT !["tx"] = 0]
  BY DEF Send, Ends
<1>2. flight'["tx"] = 0
  BY <1>1 DEF DmaInv, ChannelsTyped, Dir
<1>3. stream' = <<flight["tx"]>> /\ Tail(stream') = <<>>
  BY DEF Send
<1>4. UNCHANGED <<rs, err, rxBuf, received>> /\ idle' = [idle EXCEPT !["tx"] = rs["tx"]]
  BY DEF Send, Ends
<1>5. ~err["tx"]
  BY <1>1 DEF DmaInv, StatusIsTrue, Dir
<1>6. err' \in [Dir -> BOOLEAN] /\ \A d \in Dir : err'[d] => ~idle'[d]
  BY <1>4, <1>5 DEF ExampleInv, DmaInv, ChannelsTyped
<1>7. idle'["rx"] = idle["rx"]
  BY <1>4 DEF DmaInv, ChannelsTyped, Dir
<1>8. pc = "poll" \/ (pc = "done" /\ ret # "SUCCESS")
  BY <1>1 DEF ExampleInv, ExampleAt, NothingSent, Delivered, Waiting, Got, InLoop
<1> QED  BY <1>1, <1>2, <1>3, <1>4, <1>6, <1>7, <1>8
         DEF ExampleInv, ExampleAt, NothingSent, Delivered, Waiting, Got, InLoop, FirstIsLost

LEMMA ReceiveKeepsExample ==
  ASSUME DmaInv, ExampleInv, client = "example", Receive,
         UNCHANGED <<board, client, initialized, runState, pc, left, calls, ret>>
  PROVE  ExampleInv'
<1>1. stream # <<>> /\ stream' = Tail(stream) /\ flight["rx"] # 0
  BY DEF Receive
<1>2. pc = "poll" \/ (pc = "done" /\ ret # "SUCCESS")
  BY <1>1 DEF ExampleInv, ExampleAt, NothingSent, Delivered, Waiting, Got, InLoop
<1>3. ~halted["rx"] /\ ~idle["rx"] /\ ~err["rx"]
  BY <1>1 DEF DmaInv, StatusIsTrue, Dir
<1>4. flight'["tx"] = flight["tx"]
  BY DEF Receive, Ends, Breaks, DmaInv, ChannelsTyped, Dir
<1>5. pc = "poll" => Tail(stream) = <<>> /\ flight["tx"] = 0 /\ received = left
  BY <1>1, <1>2 DEF ExampleInv, ExampleAt, NothingSent, Waiting, Got
<1>6. CASE Head(stream) > flight["rx"]
  <2>1. idle' = [idle EXCEPT !["rx"] = FALSE] /\ err' = [err EXCEPT !["rx"] = TRUE]
    BY <1>6 DEF Receive, Breaks
  <2>2. UNCHANGED <<rxBuf, received>>
    BY <1>6 DEF Receive
  <2>3. err' \in [Dir -> BOOLEAN] /\ \A d \in Dir : err'[d] => ~idle'[d]
    BY <2>1 DEF ExampleInv, DmaInv, ChannelsTyped
  <2>4. ~idle'["rx"]
    BY <2>1 DEF DmaInv, ChannelsTyped, Dir
  <2> QED  BY <1>1, <1>2, <1>4, <1>5, <2>2, <2>3, <2>4
           DEF ExampleInv, ExampleAt, NothingSent, Delivered, Waiting, Got, InLoop, FirstIsLost
<1>7. CASE ~(Head(stream) > flight["rx"])
  <2>1. idle' = [idle EXCEPT !["rx"] = rs["rx"]] /\ err' = err
    BY <1>7 DEF Receive, Ends
  <2>2. received' = received + 1 /\ rxBuf' = IF board.drops = received' THEN rxBuf ELSE Head(stream)
    BY <1>7 DEF Receive
  <2>3. err' \in [Dir -> BOOLEAN] /\ \A d \in Dir : err'[d] => ~idle'[d]
    BY <1>3, <2>1 DEF ExampleInv, DmaInv, ChannelsTyped
  <2>4. FirstIsLost /\ pc = "poll" => left = 0 /\ rxBuf' = 0
    <3>1. FirstIsLost /\ pc = "poll" => left = 0 /\ rxBuf = 0
      BY DEF ExampleInv, ExampleAt, InLoop
    <3> QED  BY <3>1, <2>2, <1>5 DEF FirstIsLost
  <2>5. FirstIsLost' = FirstIsLost
    BY DEF FirstIsLost
  <2> QED  BY <1>1, <1>2, <1>4, <1>5, <2>2, <2>3, <2>4, <2>5
           DEF ExampleInv, ExampleAt, NothingSent, Delivered, Waiting, Got, InLoop
<1> QED  BY <1>6, <1>7

LEMMA ErrorKeepsExample ==
  ASSUME DmaInv, ExampleInv, client = "example", NEW d \in Dir, Error(d),
         UNCHANGED <<board, client, initialized, runState, pc, left, calls, ret>>
  PROVE  ExampleInv'
<1>1. UNCHANGED <<stream, rxBuf, received>>
  BY DEF Error
<1>2. idle' = [idle EXCEPT ![d] = FALSE] /\ err' = [err EXCEPT ![d] = TRUE]
  BY DEF Error, Breaks
<1>3. err' \in [Dir -> BOOLEAN] /\ \A e \in Dir : err'[e] => ~idle'[e]
  BY <1>2 DEF ExampleInv, DmaInv, ChannelsTyped
<1>4. ~idle["rx"] => ~idle'["rx"]
  BY <1>2 DEF DmaInv, ChannelsTyped, Dir
<1>5. flight["tx"] = 0 => flight'["tx"] = 0
  BY DEF Error, Breaks, DmaInv, ChannelsTyped, Dir
<1> QED  BY <1>1, <1>3, <1>4, <1>5
         DEF ExampleInv, ExampleAt, NothingSent, Delivered, Waiting, Got, InLoop, FirstIsLost

LEMMA ResetEndsKeepsExample ==
  ASSUME DmaInv, ExampleInv, client = "example", ResetEnds,
         UNCHANGED <<board, client, initialized, runState, pc, left, calls, ret>>
  PROVE  ExampleInv'
<1>1. UNCHANGED <<stream, rxBuf, received>>
  BY DEF ResetEnds
<1>2. err' \in [Dir -> BOOLEAN] /\ \A e \in Dir : ~err'[e]
  BY DEF ResetEnds, Both
<1>3. ~idle'["rx"] /\ flight'["tx"] = 0
  BY DEF ResetEnds, Both, Dir
<1> QED  BY <1>1, <1>2, <1>3
         DEF ExampleInv, ExampleAt, NothingSent, Delivered, Waiting, Got, InLoop, FirstIsLost

LEMMA QuietKeepsExample ==
  ASSUME ExampleInv, UNCHANGED dmaVars
  PROVE  ExampleInv'
BY DEF ExampleInv, ExampleAt, NothingSent, Delivered, Waiting, Got, InLoop, FirstIsLost,
       dmaVars, engineVars

LEMMA EngineKeepsExample == DmaInv /\ ExampleInv /\ Engine => ExampleInv'
<1> SUFFICES ASSUME DmaInv, ExampleInv, Engine PROVE ExampleInv'
  OBVIOUS
<1>1. CASE client # "example"
  BY <1>1 DEF Engine, ExampleInv
<1>2. CASE client = "example"
  BY <1>2, SendKeepsExample, ReceiveKeepsExample, ErrorKeepsExample, ResetEndsKeepsExample
  DEF Engine
<1> QED  BY <1>1, <1>2
-----------------------------------------------------------------------------
(* The steps of the example itself. *)
LEMMA ResetKeepsExample ==
  ASSUME ExampleInv, client = "example", CfgInitialize
  PROVE  ExampleInv'
<1>1. pc = "start" /\ pc' = "reset"
  BY DEF CfgInitialize, ResetAndWait
<1>2. UNCHANGED <<err, idle, flight, stream, rxBuf, received, board, client, ret>>
  BY DEF CfgInitialize, ResetAndWait
<1> QED  BY <1>1, <1>2
         DEF ExampleInv, ExampleAt, NothingSent, Delivered, InLoop, FirstIsLost

LEMMA WaitKeepsExample ==
  ASSUME ExampleInv, client = "example", WaitForReset
  PROVE  ExampleInv'
<1>1. UNCHANGED <<board, client, err, idle, flight, stream, rxBuf, received>>
  BY DEF WaitForReset, engineVars
<1>2. pc = "reset" /\ \/ pc' = "example" /\ left' = 0 /\ ret' = ret
                      \/ pc' = "reset" /\ ret' = ret
                      \/ pc' = "done" /\ ret' = "FAILURE"
  BY DEF WaitForReset
<1> QED  BY <1>1, <1>2
         DEF ExampleInv, ExampleAt, NothingSent, Delivered, InLoop, FirstIsLost

LEMMA RefuseKeepsExample ==
  ASSUME ExampleInv, client = "example", RefuseSg
  PROVE  ExampleInv'
<1>1. UNCHANGED <<board, client, err, idle, flight, stream, rxBuf, received, left>>
  BY DEF RefuseSg, engineVars
<1>2. pc = "example" /\ \/ pc' = "rx" /\ ret' = ret
                        \/ pc' = "done" /\ ret' = "FAILURE"
  BY DEF RefuseSg, GoesTo
<1>3. 0 \in 0 .. Tries - 1
  BY TriesAssumption
<1> QED  BY <1>1, <1>2, <1>3
         DEF ExampleInv, ExampleAt, NothingSent, Delivered, InLoop, FirstIsLost

(* A transfer begins with the channel busy. *)
LEMMA TransferStarts ==
  ASSUME DmaInv, ExampleInv, client = "example", NEW d \in Dir, NEW len,
         SimpleTransfer(d, len, TRUE)
  PROVE  /\ UNCHANGED <<board, client, left, err, stream, rxBuf, received>>
         /\ \A e \in Dir : err'[e] => ~idle'[e]
         /\ \A e \in Dir : e # d => flight'[e] = flight[e] /\ idle'[e] = idle[e]
         /\ Accepts(d, len, TRUE) => ~idle'[d]
<1>1. CASE ~Accepts(d, len, TRUE)
  BY <1>1 DEF SimpleTransfer, engineVars, ExampleInv
<1>2. CASE Accepts(d, len, TRUE)
  <2>1. Submit(d, len) /\ UNCHANGED <<board, client, left>>
    BY <1>2 DEF SimpleTransfer
  <2>2. CASE err[d]
    BY <1>2, <2>1, <2>2 DEF Submit, ExampleInv
  <2>3. CASE ~err[d]
    BY <1>2, <2>1, <2>3 DEF Submit, ExampleInv, DmaInv, ChannelsTyped
  <2> QED  BY <2>1, <2>2, <2>3
<1> QED  BY <1>1, <1>2

LEMMA ArmKeepsExample ==
  ASSUME DmaInv, ExampleInv, client = "example", ArmReceive
  PROVE  ExampleInv'
<1> DEFINE ok == Accepts("rx", PktLen, TRUE)
<1>1. "rx" \in Dir /\ "tx" \in Dir /\ SimpleTransfer("rx", PktLen, TRUE)
  BY DEF ArmReceive, Dir
<1>2. UNCHANGED <<board, client, left, err, stream, rxBuf, received>>
  BY <1>1, TransferStarts
<1>3. \A e \in Dir : err'[e] => ~idle'[e]
  BY <1>1, TransferStarts
<1>4. flight'["tx"] = flight["tx"] /\ (ok => ~idle'["rx"])
  BY <1>1, TransferStarts
<1>5. ok => PktLen \in 1 .. MaxLen /\ "rx" \in board.has /\ ~board.hasSg
  BY DEF Accepts
<1>6. pc = "rx" /\ \/ ok /\ pc' = "tx" /\ ret' = ret
                   \/ pc' = "done" /\ ret' = "FAILURE"
  BY DEF ArmReceive, GoesTo
<1> HIDE DEF ok
<1> QED  BY <1>2, <1>3, <1>4, <1>5, <1>6
         DEF ExampleInv, ExampleAt, NothingSent, Waiting, Delivered, InLoop, FirstIsLost

LEMMA SendPacketKeepsExample ==
  ASSUME DmaInv, ExampleInv, client = "example", BoardsAreBuilt, SendPacket
  PROVE  ExampleInv'
<1> DEFINE ok == Accepts("tx", PktLen, TRUE)
<1>1. "rx" \in Dir /\ "tx" \in Dir /\ SimpleTransfer("tx", PktLen, TRUE)
  BY DEF SendPacket, Dir
<1>2. UNCHANGED <<board, client, left, err, stream, rxBuf, received>>
  BY <1>1, TransferStarts
<1>3. \A e \in Dir : err'[e] => ~idle'[e]
  BY <1>1, TransferStarts
<1>4. idle'["rx"] = idle["rx"]
  BY <1>1, TransferStarts
<1>5. pc = "tx" /\ \/ ok /\ pc' = "poll" /\ ret' = ret
                   \/ pc' = "done" /\ ret' = "FAILURE"
  BY DEF SendPacket, GoesTo
<1>6. ok => board.has = Dir
  <2>1. board.has \subseteq Dir
    BY DEF BoardsAreBuilt
  <2>2. ok => "tx" \in board.has
    BY DEF Accepts
  <2>3. "rx" \in board.has
    BY <1>5 DEF ExampleInv, ExampleAt
  <2> QED  BY <2>1, <2>2, <2>3 DEF Dir
<1> HIDE DEF ok
<1> QED  BY <1>2, <1>3, <1>4, <1>5, <1>6
         DEF ExampleInv, ExampleAt, NothingSent, Waiting, Delivered, InLoop, FirstIsLost

LEMMA PollKeepsExample ==
  ASSUME ExampleInv, client = "example", Poll
  PROVE  ExampleInv'
<1>1. UNCHANGED <<board, client, err, idle, flight, stream, rxBuf, received, left>>
  BY DEF Poll, engineVars
<1>2. pc = "poll" /\ pc' = "check" /\ ret' = ret
  BY DEF Poll, GoesTo
<1>3. idle["rx"]
  BY DEF Poll, TransfersEnded, Busy
<1> QED  BY <1>1, <1>2, <1>3
         DEF ExampleInv, ExampleAt, NothingSent, Waiting, Got, Delivered, InLoop, FirstIsLost

LEMMA CheckKeepsExample ==
  ASSUME ExampleInv, client = "example", Check
  PROVE  ExampleInv'
<1>1. UNCHANGED <<board, client, err, idle, flight, stream, rxBuf, received>>
  BY DEF Check, engineVars
<1>2. pc = "check" /\ left' = left + 1
  BY DEF Check
<1>3. left \in 0 .. Tries - 1 /\ NothingSent /\ received = left + 1 /\ ret = "none"
  BY <1>2 DEF ExampleInv, ExampleAt, Got, InLoop
<1>4. CheckData => ~FirstIsLost
  BY <1>2 DEF ExampleInv, ExampleAt, CheckData
<1>5. board.has = Dir /\ ~board.hasSg
  BY <1>2 DEF ExampleInv, ExampleAt
<1>6. CASE ~CheckData
  BY <1>1, <1>2, <1>6 DEF Check, ExampleInv, ExampleAt, InLoop, FirstIsLost
<1>7. CASE CheckData /\ left' < Tries
  <2>1. pc' = "rx" /\ ret' = ret /\ left' \in 0 .. Tries - 1
    BY <1>2, <1>3, <1>7, TriesAssumption DEF Check
  <2> QED  BY <1>1, <1>2, <1>3, <1>4, <1>7, <2>1
           DEF ExampleInv, ExampleAt, NothingSent, Delivered, InLoop, FirstIsLost
<1>8. CASE CheckData /\ ~(left' < Tries)
  <2>1. pc' = "done" /\ ret' = "SUCCESS" /\ received = Tries
    BY <1>2, <1>3, <1>8, TriesAssumption DEF Check
  <2> QED  BY <1>1, <1>3, <1>4, <1>5, <1>8, <2>1
           DEF ExampleInv, ExampleAt, NothingSent, Delivered, InLoop, FirstIsLost
<1> QED  BY <1>6, <1>7, <1>8

LEMMA ProgramKeepsExample == DmaInv /\ BoardsAreBuilt /\ ExampleInv /\ DmaProgram => ExampleInv'
<1> SUFFICES ASSUME DmaInv, BoardsAreBuilt, ExampleInv, DmaProgram PROVE ExampleInv'
  OBVIOUS
<1>1. CASE client # "example"
  <2>1. client' = client
    BY DEF DmaProgram, CfgInitialize, Selftest, ResetAndWait, WaitForReset, Poll, Check,
           RefuseSg, ArmReceive, SendPacket, SimpleTransfer, AnyCall, Pause, Resume
  <2> QED  BY <1>1, <2>1 DEF ExampleInv
<1>2. CASE client = "example"
  <2>1. ~Selftest /\ ~AnyCall
    BY <1>2 DEF Selftest, AnyCall, ExampleInv
  <2> QED  BY <1>2, <2>1, ResetKeepsExample, WaitKeepsExample, RefuseKeepsExample,
              ArmKeepsExample, SendPacketKeepsExample, PollKeepsExample, CheckKeepsExample
           DEF DmaProgram
<1> QED  BY <1>1, <1>2

LEMMA BuildIsKept == BoardsAreBuilt /\ [DmaNext]_dmaVars => BoardsAreBuilt'
<1> SUFFICES ASSUME BoardsAreBuilt, [DmaNext]_dmaVars PROVE board' = board
  BY DEF BoardsAreBuilt
<1> QED  BY DEF DmaNext, DmaProgram, Engine, CfgInitialize, Selftest, ResetAndWait, WaitForReset,
                Poll, Check, RefuseSg, ArmReceive, SendPacket, SimpleTransfer, AnyCall, Pause,
                Resume, dmaVars

(* The example reports success only when each of its packets went round    *)
(* the loop, on an engine with both channels and without scatter-gather,   *)
(* and the first one was stored (XAxiDma_SimplePollExample and CheckData). *)
THEOREM PassIsDelivered == DmaSpec => []PassMeansDelivered
<1>1. DmaInit => BoardsAreBuilt
  BY BoardsAssumption DEF DmaInit, BoardsAreBuilt, BoardType
<1>2. DmaInv /\ BoardsAreBuilt /\ ExampleInv /\ [DmaNext]_dmaVars => ExampleInv'
  BY EngineKeepsExample, ProgramKeepsExample, QuietKeepsExample DEF DmaNext
<1>3. ExampleInv => PassMeansDelivered
  BY DEF ExampleInv, Delivered, FirstIsLost, PassMeansDelivered
<1> QED  BY <1>1, <1>2, <1>3, InitExample, BuildIsKept, StatusTells, PTL DEF DmaSpec
-----------------------------------------------------------------------------
(* The memory tests. Calls are of blocks that the memory holds; a subtest  *)
(* that is checked is one that was asked for.                              *)
CallsFit ==
  /\ call.bytes \in {1, 2, 4} /\ call.words \in 1 .. Size /\ call.extended \in BOOLEAN
  /\ sub \in 1 .. 6 /\ phase \in {"idle", "fill", "check", "done"}
  /\ phase = "idle" => sub = 1
  /\ phase = "check" => sub \in 1 .. 5 /\ Selected
  /\ phase = "done" /\ status = 0 => sub = 6

(* What has been filled in reads back from a sound memory.                 *)
Stored ==
  fault.kind = "none" =>
    /\ status = 0
    /\ phase = "check" => \A i \in Locations : mem[i] = Val[i]

(* Once the counter and the inverse address have been checked, no two      *)
(* locations with different values of theirs are one cell.                 *)
Told(subtest, val) ==
  call.subtest \in {0, subtest} /\ Countable /\ sub > subtest => ~Mixed(val)
LinesTold == Told(1, Increment) /\ Told(4, InverseAddr)

MemInv == CallsFit /\ Stored /\ LinesTold

(* Neither the extended set's count nor a walk leaves the memory, and a    *)
(* count that does not wrap is that of the block.                          *)
LEMMA CountWraps ==
  ASSUME NEW b \in {1, 2, 4}, NEW n \in Nat, NEW m \in Nat \ {0}
  PROVE  /\ ((b * n) % m) \div b \in 0 .. n
         /\ b * n < m => ((b * n) % m) \div b = n
<1> DEFINE t == b * n
           w == t % m
<1>1. t \in Nat /\ ((b = 1 /\ t = n) \/ (b = 2 /\ t = 2 * n) \/ (b = 4 /\ t = 4 * n))
  <2>1. CASE b = 1
    BY <2>1
  <2>2. CASE b = 2
    BY <2>2
  <2>3. CASE b = 4
    BY <2>3
  <2> QED BY <2>1, <2>2, <2>3
<1> HIDE DEF t
<1>2. w \in 0 .. t /\ (t < m => w = t)
  BY <1>1
<1> HIDE DEF w
<1>3. w \div b \in 0 .. n /\ (w = t => w \div b = n)
  BY <1>1, <1>2
<1> QED BY <1>2, <1>3 DEF w, t

LEMMA LocationsFit ==
  ASSUME CallsFit
  PROVE  /\ Locations \subseteq Words
         /\ Countable /\ ~Walks => Locations = Tested
<1> DEFINE n == call.words
           b == call.bytes
<1>1. b \in {1, 2, 4} /\ n \in 1 .. Size /\ call.extended \in BOOLEAN /\ Size \in Nat
  BY MemTestAssumption DEF CallsFit
<1>2. b * ByteBits \in 0 .. Size
  BY <1>1, MemTestAssumption
<1>3. LoopBound \in 0 .. n /\ (Countable => LoopBound = n)
  <2>1. 2 ^ CountBits \in Nat \ {0}
    BY MemTestAssumption
  <2> DEFINE m == 2 ^ CountBits
  <2> HIDE DEF m
  <2>2. /\ ((b * n) % m) \div b \in 0 .. n
        /\ b * n < m => ((b * n) % m) \div b = n
    <3>1. n \in Nat /\ m \in Nat \ {0}
      BY <1>1, <2>1 DEF m
    <3> HIDE DEF n, b
    <3> QED BY <1>1, <3>1, CountWraps
  <2>3. LoopBound = IF call.extended THEN ((b * n) % m) \div b ELSE n
    BY DEF LoopBound, m
  <2>4. Countable <=> (call.extended => b * n < m)
    BY DEF Countable, m
  <2> HIDE DEF n, b
  <2> QED BY <1>1, <2>2, <2>3, <2>4
<1>4. Locations \subseteq Words
  BY <1>1, <1>2, <1>3 DEF Locations, Words, Bits
<1>5. ASSUME Countable, ~Walks PROVE Locations = Tested
  BY <1>1, <1>3, <1>5 DEF Locations, Tested
<1> QED BY <1>4, <1>5

(* The values of a subtest stay while it runs.                             *)
LEMMA ValuesStay ==
  ASSUME call' = call
  PROVE  /\ Increment' = Increment /\ InverseAddr' = InverseAddr
         /\ Countable' = Countable /\ Tested' = Tested
         /\ sub' = sub /\ round' = round => Val' = Val /\ Locations' = Locations
<1>1. Increment' = Increment /\ InverseAddr' = InverseAddr
  BY DEF Increment, InverseAddr, Not, Wrapped, Bits
<1>2. Countable' = Countable /\ Tested' = Tested
  BY DEF Countable, Tested
<1>3. ASSUME sub' = sub, round' = round PROVE Val' = Val
  <2>1. WalkOnes' = WalkOnes
    BY <1>3 DEF WalkOnes, Wrapped, Bits, RotateLeft
  <2>2. WalkZeros' = WalkZeros
    BY <1>3 DEF WalkZeros, Wrapped, Bits, RotateLeft, Not
  <2>3. FixedPattern' = FixedPattern
    BY DEF FixedPattern
  <2> QED BY <1>1, <1>3, <2>1, <2>2, <2>3 DEF Val
<1>4. ASSUME sub' = sub PROVE Locations' = Locations
  BY <1>4 DEF Locations, Walks, Bits, LoopBound
<1> QED BY <1>1, <1>2, <1>3, <1>4

(* A sound memory gives back what has been stored.                         *)
LEMMA SoundMemory ==
  ASSUME fault.kind = "none"
  PROVE  \A i : Cell(i) = i /\ Load(i) = mem[i]
BY DEF Cell, Load

LEMMA SoundStore ==
  ASSUME fault.kind = "none", NEW S \in SUBSET Words, NEW val, Store(S, val)
  PROVE  \A i \in S : mem'[i] = val[i]
<1> SUFFICES ASSUME NEW i \in S PROVE mem'[i] = val[i]
  OBVIOUS
<1> DEFINE here == {k \in S : Cell(k) = i}
<1>1. here = {i}
  BY SoundMemory
<1>2. i \in Words /\ mem'[i] = IF here = {} THEN mem[i] ELSE val[Max(here)]
  BY DEF Store
<1>3. i \in Int
  BY MemTestAssumption DEF Words
<1>4. Max({i}) = i
  BY <1>3 DEF Max
<1> HIDE DEF here
<1> QED BY <1>1, <1>2, <1>4

(* Two locations that are one cell read alike.                             *)
LEMMA OneCellReadsAlike ==
  ASSUME NEW i, NEW k, Cell(i) = Cell(k)
  PROVE  Load(i) = Load(k)
<1>1. CASE fault.kind = "line"
  BY <1>1 DEF Load
<1>2. CASE fault.kind # "line"
  BY <1>2 DEF Cell
<1> QED BY <1>1, <1>2

LEMMA MatchTells ==
  ASSUME CallsFit, Countable, ~Walks, \A i \in Locations : Load(i) = Val[i]
  PROVE  ~Mixed(Val)
<1> SUFFICES ASSUME NEW i \in Tested, NEW k \in Tested, Cell(i) = Cell(k), Val[i] # Val[k]
             PROVE  FALSE
  BY DEF Mixed
<1>1. Load(i) = Val[i] /\ Load(k) = Val[k]
  BY LocationsFit
<1> QED BY <1>1, OneCellReadsAlike
-----------------------------------------------------------------------------
LEMMA InitMem == MemInit => MemInv
<1> SUFFICES ASSUME MemInit PROVE MemInv
  OBVIOUS
<1>1. call.bytes = 1 /\ call.words = 1 /\ call.extended = FALSE
  BY DEF MemInit
<1>2. CallsFit
  BY <1>1, MemTestAssumption DEF MemInit, CallsFit
<1> QED BY <1>2 DEF MemInit, MemInv, Stored, LinesTold, Told

LEMMA CallKeepsMem ==
  ASSUME MemInv, NEW bytes \in {1, 2, 4}, NEW extended \in BOOLEAN, Call(bytes, extended)
  PROVE  MemInv'
<1>1. PICK words \in Blocks, pattern \in Patterns, subtest \in 0 .. 5 :
        call' = [bytes |-> bytes, extended |-> extended, words |-> words,
                 pattern |-> pattern, subtest |-> subtest]
  BY DEF Call
<1>2. call'.bytes = bytes /\ call'.extended = extended /\ call'.words = words
  BY <1>1
<1>3. phase = "idle" /\ phase' = "fill" /\ UNCHANGED <<fault, mem, sub, round, status>>
  BY DEF Call
<1>4. CallsFit'
  BY <1>2, <1>3, MemTestAssumption DEF MemInv, CallsFit
<1>5. Stored' /\ LinesTold'
  BY <1>3 DEF MemInv, CallsFit, Stored, LinesTold, Told
<1> QED BY <1>4, <1>5 DEF MemInv

(* A step that goes on to a later subtest tells of the one before it.      *)
LEMMA GoesOn ==
  ASSUME MemInv, call' = call, fault' = fault, sub' \in {sub, sub + 1},
         sub' = sub + 1 => /\ sub = 1 /\ call.subtest \in {0, 1} /\ Countable => ~Mixed(Increment)
                           /\ sub = 4 /\ call.subtest \in {0, 4} /\ Countable => ~Mixed(InverseAddr)
  PROVE  LinesTold'
<1>1. /\ Increment' = Increment /\ InverseAddr' = InverseAddr
      /\ Countable' = Countable /\ Tested' = Tested
  BY ValuesStay
<1>2. \A i : Cell(i)' = Cell(i)
  BY DEF Cell, WithBit, Bit
<1>3. Mixed(Increment)' = Mixed(Increment) /\ Mixed(InverseAddr)' = Mixed(InverseAddr)
  BY <1>1, <1>2 DEF Mixed
<1>4. sub \in 1 .. 6
  BY DEF MemInv, CallsFit
<1>5. Told(1, Increment)'
  BY <1>1, <1>3, <1>4 DEF MemInv, LinesTold, Told
<1>6. Told(4, InverseAddr)'
  BY <1>1, <1>3, <1>4 DEF MemInv, LinesTold, Told
<1> QED BY <1>5, <1>6 DEF LinesTold

LEMMA FillKeepsMem == MemInv /\ Fill => MemInv'
<1> SUFFICES ASSUME MemInv, Fill PROVE MemInv'
  OBVIOUS
<1>1. /\ phase = "fill" /\ sub <= 5 /\ Selected /\ Store(Locations, Val) /\ phase' = "check"
      /\ UNCHANGED <<fault, call, sub, round, status>>
  BY DEF Fill
<1>2. CallsFit'
  BY <1>1 DEF MemInv, CallsFit, Selected
<1>3. LinesTold'
  <2>1. sub' # sub + 1
    BY <1>1 DEF MemInv, CallsFit
  <2> QED BY <1>1, <2>1, GoesOn
<1>4. Stored'
  <2> SUFFICES ASSUME fault.kind = "none"
               PROVE  status = 0 /\ \A i \in Locations' : mem'[i] = Val'[i]
    BY <1>1 DEF Stored
  <2>1. Val' = Val /\ Locations' = Locations
    BY <1>1, ValuesStay
  <2>2. \A i \in Locations : mem'[i] = Val[i]
    BY <1>1, LocationsFit, SoundStore DEF MemInv
  <2> QED BY <2>1, <2>2 DEF MemInv, Stored
<1> QED BY <1>2, <1>3, <1>4 DEF MemInv

LEMMA MatchKeepsMem == MemInv /\ Match => MemInv'
<1> SUFFICES ASSUME MemInv, Match PROVE MemInv'
  OBVIOUS
<1>1. /\ phase = "check" /\ phase' = "fill" /\ \A i \in Locations : Load(i) = Val[i]
      /\ UNCHANGED <<fault, mem, call, status>>
      /\ sub' \in {sub, sub + 1}
  BY DEF Match
<1>2. CallsFit'
  BY <1>1 DEF MemInv, CallsFit
<1>3. LinesTold'
  <2>1. ASSUME Countable, sub \in {1, 4} PROVE ~Mixed(Val)
    BY <1>1, <2>1, MatchTells DEF MemInv, Walks
  <2>2. (sub = 1 => Val = Increment) /\ (sub = 4 => Val = InverseAddr)
    BY DEF Val
  <2> QED BY <1>1, <2>1, <2>2, GoesOn
<1>4. Stored'
  BY <1>1 DEF MemInv, Stored
<1> QED BY <1>2, <1>3, <1>4 DEF MemInv

LEMMA MismatchKeepsMem == MemInv /\ Mismatch => MemInv'
<1> SUFFICES ASSUME MemInv, Mismatch PROVE MemInv'
  OBVIOUS
<1>1. /\ phase = "check" /\ \E i \in Locations : Load(i) # Val[i]
      /\ status' = -1 /\ phase' = "done" /\ UNCHANGED <<fault, mem, call, sub, round>>
  BY DEF Mismatch
<1>2. CallsFit'
  BY <1>1 DEF MemInv, CallsFit
<1>3. LinesTold'
  <2>1. sub' # sub + 1
    BY <1>1 DEF MemInv, CallsFit
  <2> QED BY <1>1, <2>1, GoesOn
<1>4. fault.kind # "none"
  <2> SUFFICES ASSUME fault.kind = "none" PROVE FALSE
    OBVIOUS
  <2>1. \A i \in Locations : mem[i] = Val[i]
    BY <1>1 DEF MemInv, Stored
  <2> QED BY <1>1, <2>1, SoundMemory
<1> QED BY <1>1, <1>2, <1>3, <1>4 DEF MemInv, Stored

LEMMA SkipKeepsMem == MemInv /\ (Skip \/ Return) => MemInv'
<1> SUFFICES ASSUME MemInv, Skip \/ Return PROVE MemInv'
  OBVIOUS
<1>1. CASE Skip
  <2>1. /\ phase = "fill" /\ phase' = "fill" /\ sub <= 5 /\ call.subtest \notin {0, sub}
        /\ sub' = sub + 1 /\ UNCHANGED <<fault, mem, call, round, status>>
    BY <1>1 DEF Skip, Selected
  <2>2. CallsFit'
    BY <2>1 DEF MemInv, CallsFit
  <2>3. LinesTold'
    BY <2>1, GoesOn
  <2> QED BY <2>1, <2>2, <2>3 DEF MemInv, Stored
<1>2. CASE Return
  <2>1. /\ phase = "fill" /\ phase' = "done" /\ sub = 6
        /\ UNCHANGED <<fault, mem, call, sub, round, status>>
    BY <1>2 DEF Return
  <2>2. CallsFit'
    BY <2>1 DEF MemInv, CallsFit
  <2>3. LinesTold'
    BY <2>1, GoesOn
  <2> QED BY <2>1, <2>2, <2>3 DEF MemInv, Stored
<1> QED BY <1>1, <1>2

LEMMA RestKeepsMem == MemInv /\ UNCHANGED memVars => MemInv'
<1> SUFFICES ASSUME MemInv, UNCHANGED memVars PROVE MemInv'
  OBVIOUS
<1>1. UNCHANGED <<fault, mem, call, sub, round, phase, status>>
  BY DEF memVars
<1>2. CallsFit'
  BY <1>1 DEF MemInv, CallsFit, Selected
<1>3. LinesTold'
  <2>1. sub' # sub + 1
    BY <1>1 DEF MemInv, CallsFit
  <2> QED BY <1>1, <2>1, GoesOn
<1>4. Val' = Val /\ Locations' = Locations
  BY <1>1, ValuesStay
<1>5. Stored'
  BY <1>1, <1>4 DEF MemInv, Stored
<1> QED BY <1>2, <1>3, <1>5 DEF MemInv

LEMMA NextKeepsMem == MemInv /\ [MemNext]_memVars => MemInv'
<1> SUFFICES ASSUME MemInv, [MemNext]_memVars PROVE MemInv'
  OBVIOUS
<1>1. CASE \/ Xil_TestMem8 \/ Xil_TestMem16 \/ Xil_TestMem32
           \/ Xil_TestMem8Extended \/ Xil_TestMem16Extended \/ Xil_TestMem32Extended
  BY <1>1, CallKeepsMem DEF Xil_TestMem8, Xil_TestMem16, Xil_TestMem32,
       Xil_TestMem8Extended, Xil_TestMem16Extended, Xil_TestMem32Extended
<1> QED BY <1>1, FillKeepsMem, MatchKeepsMem, MismatchKeepsMem, SkipKeepsMem, RestKeepsMem
        DEF MemNext

LEMMA MemInvTells == MemInv => SoundPasses /\ LinesAreFound
BY DEF MemInv, CallsFit, Stored, SoundPasses, LinesTold, Told, LinesAreFound, Passed

LEMMA MemInvariant == MemSpec => []MemInv
BY InitMem, NextKeepsMem, PTL DEF MemSpec

(* No memory test calls a sound memory faulty, and after a pass of the     *)
(* counter or of the inverse address no two locations that are to hold     *)
(* different values of it are one cell: an address line that does not      *)
(* reach the memory is found, unless the values repeat at its distance or  *)
(* the extended set's u32 does not count to the block's end. For every     *)
(* width of word, length of block, pattern and subtest (xil_testmem.c).    *)
THEOREM VerdictsAreRight == MemSpec => []VerdictIsRight
<1>1. MemInv => VerdictIsRight
  BY MemInvTells DEF VerdictIsRight
<1> QED  BY <1>1, MemInvariant, PTL
=============================================================================
