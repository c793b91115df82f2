----------------------------- MODULE IicPolled -----------------------------
(***************************************************************************)
(* xiic_l.c, which drives the core by polling, and the board tools of      *)
(* driver/c/xiic_wbwr.c that call it from a process on the host. One       *)
(* action per access of a register that another step can come before.      *)
(***************************************************************************)
EXTENDS IicCore, SequencesExt

CONSTANTS
  Jobs,         (* what the tools are asked for: [tool, reg, n] *)
  PromptPolls   (* the poll for the bus sees it busy before the address is over *)

ASSUME IicPolledAssumption == PromptPolls \in BOOLEAN

VARIABLES
  job,    (* the tool's call                                               *)
  stage,  (* where the tool is                                             *)
  pc,     (* where XIic_Send, Recv, DynSend or DynRecv is                  *)
  call,   (* their arguments: [fn, bytes, n, opt]                          *)
  left,   (* ByteCount: bytes still to send or to receive                  *)
  got,    (* the bytes received, BufferPtr                                 *)
  count   (* the number of bytes the last call has returned                *)

polledVars == <<job, stage, pc, call, left, got, count>>

Stop == "XIIC_STOP"
Rep == "XIIC_REPEATED_START"
Dynamic == call.fn \in {"dynSend", "dynRecv"}
Sends == call.fn \in {"send", "dynSend"}
NoCall == [fn |-> "none", bytes |-> <<>>, n |-> 0, opt |-> Stop]

PolledInit ==
  /\ job \in Jobs
  /\ stage = "first" /\ pc = "none" /\ call = NoCall /\ left = 0
  /\ got = <<>>
  /\ count \in {0, 1}     (* it is read before it has been set *)

Enter(fn, bytes, n, opt) ==
  /\ call' = [fn |-> fn, bytes |-> bytes, n |-> n, opt |-> opt]
  /\ left' = n /\ got' = <<>>
  /\ pc' = IF fn \in {"send", "dynSend"} THEN "waitFree" ELSE "address"
  /\ UNCHANGED <<job, count>>

Return(bytes) == pc' = "return" /\ count' = bytes
-----------------------------------------------------------------------------
(* XIic_WaitBusFree, before a send and after a receive: it gives up after  *)
(* a second, longer than any transfer. The bus is then held for this core. *)
Held == Throttled \/ (wire.master = "us" /\ wire.rx /\ wire.nak /\ ~wire.dyn /\ "msms" \in cr)

WaitFree ==
  /\ pc \in {"waitFree", "waitFreed"}
  /\ ~BusBusy \/ Held
  /\ IF BusBusy THEN Return(0)
     ELSE IF pc = "waitFreed" THEN Return(call.n - left)
     ELSE pc' = "address" /\ UNCHANGED count
  /\ UNCHANGED <<coreVars, job, stage, call, left, got>>

(* The address, and the control register that lets it go. Under a repeated *)
(* start a send leaves the control register alone.                         *)
Address ==
  /\ pc = "address"
  /\ LET again == "rsta" \in cr /\ ~Dynamic
         addr == IF Sends THEN AddrW ELSE AddrR
         noack == IF call.n = 1 THEN {"noack"} ELSE {}
     IN  /\ txf' = Put(txf, IF Dynamic THEN Start(addr) ELSE Plain(addr))
         /\ cr' = IF Dynamic THEN cr
                  ELSE IF Sends THEN (IF again THEN cr ELSE {"msms", "tx", "en"})
                  ELSE IF again THEN (cr \ {"tx"}) \cup noack ELSE {"msms", "en"} \cup noack
         /\ rfd' = IF call.fn = "recv" THEN 0 ELSE rfd
         /\ pc' = IF again THEN "data" ELSE "busWait"
         /\ UNCHANGED <<ier, gie, rxf, wire, dev, job, stage, call, left, got, count>>
         /\ Latch(isr \ (IF call.fn = "recv" THEN {"rxf", "txerr", "arb"}
                         ELSE IF again THEN {} ELSE {"txe", "txerr", "arb"}))

(* The latched BNB can only be cleared while the bus is busy. A dynamic    *)
(* receive then writes its count.                                          *)
BusWait ==
  /\ pc = "busWait" /\ BusBusy
  /\ pc' = "data"
  /\ txf' = IF call.fn = "dynRecv" THEN Put(txf, StopAt(call.n)) ELSE txf
  /\ UNCHANGED <<registers, rxf, wire, dev, job, stage, call, left, got, count>>
  /\ Latch(isr \ {"bnb"})

(* The poll of the interrupt status in the four data loops: an error ends  *)
(* them with what is left.                                                 *)
OnlyArbitration == {"arb"}
SendErrors == {"txerr", "arb", "bnb"}
RecvErrors == {"arb", "bnb"} \cup (IF left = 1 THEN {} ELSE {"txerr"})
AfterError == IF call.fn = "dynSend" THEN "reset"
              ELSE IF call.fn = "dynRecv" THEN "waitFreed" ELSE "finish"

DataDone ==
  /\ pc = "data" /\ left = 0
  /\ IF call.fn = "dynRecv" THEN pc' = "waitFreed" /\ UNCHANGED count
     ELSE IF call.opt = Stop THEN pc' = "waitBnb" /\ UNCHANGED count
     ELSE IF Dynamic THEN Return(call.n)
     ELSE pc' = "finish" /\ UNCHANGED count
  /\ UNCHANGED <<coreVars, job, stage, call, left, got>>

DataError ==
  /\ pc = "data" /\ left > 0
  /\ IF Sends THEN isr \cap SendErrors # {}
     ELSE isr \cap RecvErrors # {} /\ (IF Dynamic THEN rxf = <<>> ELSE "rxf" \notin isr)
  /\ pc' = AfterError
  /\ UNCHANGED <<coreVars, job, stage, call, left, got, count>>
-----------------------------------------------------------------------------
(* SendData: a byte when the core waits for one. MSMS goes before the last *)
(* byte does, so that the STOP follows it.                                 *)
Byte == call.bytes[call.n - left + 1]
LastWithStop == left = 1 /\ call.opt = Stop
CanSend == pc = "data" /\ left > 0 /\ isr \cap SendErrors = {} /\ "txe" \in isr

ClearMsms ==
  /\ CanSend /\ call.fn = "send" /\ LastWithStop
  /\ cr' = {"en", "tx"}
  /\ pc' = "lastByte"
  /\ UNCHANGED <<rfd, ier, gie, txf, rxf, wire, dev, job, stage, call, left, got, count>>
  /\ Latch(isr)

PutByte ==
  /\ \/ CanSend /\ call.fn = "send" /\ ~LastWithStop
     \/ pc = "lastByte"
  /\ txf' = Put(txf, Plain(Byte))
  /\ left' = left - 1
  /\ pc' = IF left = 1 /\ call.opt = Rep THEN "holdBus" ELSE "data"
  /\ UNCHANGED <<registers, rxf, wire, dev, job, stage, call, got, count>>
  /\ Latch(isr \ {"txe"})

HoldBus ==
  /\ pc = "holdBus" /\ "txe" \in isr
  /\ cr' = {"rsta", "en", "tx", "msms"}
  /\ pc' = "data"
  /\ UNCHANGED <<rfd, ier, gie, txf, rxf, wire, dev, job, stage, call, left, got, count>>
  /\ Latch(isr \ {"txe"})

(* DynSendData: the STOP is a mark on the last byte.                       *)
PutDynByte ==
  /\ CanSend /\ call.fn = "dynSend"
  /\ txf' = Put(txf, IF LastWithStop THEN StopAt(Byte) ELSE Plain(Byte))
  /\ left' = left - 1
  /\ UNCHANGED <<registers, rxf, wire, dev, job, stage, pc, call, got, count>>
  /\ Latch(isr)

ResetCore ==
  /\ pc = "reset"
  /\ cr' = {"en"} /\ txf' = FlushedTx
  /\ Return(call.n - left)
  /\ UNCHANGED <<rfd, ier, gie, rxf, wire, dev, job, stage, call, left, got>>
  /\ Latch(isr)
-----------------------------------------------------------------------------
(* RecvData: the last byte must be refused, so NO_ACK is set before the    *)
(* last but one is read; the read lets the core go on.                     *)
CanRecv == pc = "data" /\ ~Sends /\ left > 0 /\
           (IF Dynamic THEN rxf # <<>> ELSE "rxf" \in isr)

NoAckLate ==
  /\ CanRecv /\ ~Dynamic
  /\ cr' = IF LastWithStop THEN {"en"} ELSE IF left = 1 THEN cr \cup {"noack"} ELSE cr
  /\ pc' = "readByte"
  /\ UNCHANGED <<rfd, ier, gie, txf, rxf, wire, dev, job, stage, call, left, got, count>>
  /\ Latch(isr)

NoAckBeforeLast ==
  /\ CanRecv /\ ~Dynamic
  /\ cr' = IF LastWithStop THEN {"en"} ELSE IF left = 2 THEN cr \cup {"noack"} ELSE cr
  /\ pc' = "readByte"
  /\ UNCHANGED <<rfd, ier, gie, txf, rxf, wire, dev, job, stage, call, left, got, count>>
  /\ Latch(isr)

ReadByte ==
  /\ pc = "readByte" \/ (CanRecv /\ Dynamic)
  /\ got' = Append(got, Head(rxf)) /\ rxf' = Tail(rxf)
  /\ left' = left - 1
  /\ pc' = "data"
  /\ cr' = IF ~Dynamic /\ left = 1 /\ call.opt = Rep THEN {"en", "msms", "rsta"} ELSE cr
  /\ UNCHANGED <<rfd, ier, gie, txf, wire, dev, job, stage, call, count>>
  /\ Latch(IF Dynamic THEN isr ELSE isr \ {"rxf", "txerr", "arb"})

WaitBnb ==
  /\ pc = "waitBnb" /\ "bnb" \in isr
  /\ IF Dynamic THEN Return(call.n) ELSE pc' = "finish" /\ UNCHANGED count
  /\ UNCHANGED <<coreVars, job, stage, call, left, got>>

(* The end of XIic_Send and of XIic_Recv. Unless the bus is held for a     *)
(* repeated start, a send gives it up and waits until it is free, a        *)
(* receive disables the core; a receive waits for the bus in any case.     *)
Finish ==
  /\ pc = "finish"
  /\ cr' = IF "rsta" \in cr THEN cr
           ELSE IF Sends /\ wire.asSlave = "none" THEN cr \ {"msms"} ELSE {}
  /\ IF ~Sends THEN pc' = "waitFreed" /\ UNCHANGED count
     ELSE IF "rsta" \in cr \/ wire.asSlave # "none" THEN Return(call.n - left)
     ELSE pc' = "sendIdle" /\ UNCHANGED count
  /\ UNCHANGED <<rfd, ier, gie, txf, rxf, wire, dev, job, stage, call, left, got>>
  /\ Latch(isr)

SendIdle ==
  /\ pc = "sendIdle" /\ ~BusBusy
  /\ Return(call.n - left)
  /\ UNCHANGED <<coreVars, job, stage, call, left, got>>
-----------------------------------------------------------------------------
(* The tools. Each first addresses the register until the device takes it, *)
(* and resets the core after a refusal.                                    *)
ResetAfterRefusal(refused) ==
  /\ txf' = IF refused THEN FlushedTx ELSE txf
  /\ cr' = IF refused THEN {"en"} ELSE cr
  /\ UNCHANGED <<rfd, ier, gie, rxf, wire, dev>>
  /\ Latch(isr)

Pointer == <<job.reg>>
Page == [i \in 1..job.n |-> job.reg + i]

(* WishboneReadByte and WishboneDynReadByte look at the bus first; with it *)
(* busy, the loop's condition reads a count nobody has set.                *)
ToolAddresses ==
  /\ stage = "first" /\ pc = "none"
  /\ IF job.tool \in {"read", "dynRead"} /\ BusBusy
     THEN pc' = "return" /\ stage' = "pointer" /\ UNCHANGED <<job, call, left, got, count>>
     ELSE /\ stage' = IF job.tool = "dynWrite" THEN "page" ELSE "pointer"
          /\ IF job.tool = "dynWrite"
             THEN Enter("dynSend", Pointer \o Page, job.n + 1, Stop)
             ELSE Enter(IF job.tool = "dynRead" THEN "dynSend" ELSE "send", Pointer, 1,
                        IF job.tool = "held" THEN Rep ELSE Stop)
  /\ UNCHANGED coreVars

ToolRetries ==
  /\ stage \in {"pointer", "acked"} /\ pc = "return" /\ count # 1
  /\ pc' = "none" /\ stage' = IF stage = "pointer" THEN "first" ELSE "again"
  /\ UNCHANGED <<job, call, left, got, count>>
  /\ ResetAfterRefusal(job.tool # "dynRead" /\ call # NoCall)

(* WishboneWriteByte: the page, then the pointer until the device answers. *)
ToolPolls ==
  /\ \/ stage = "again" /\ pc = "none"
     \/ stage = "page" /\ pc = "return" /\ job.tool = "write"
  /\ stage' = "acked"
  /\ Enter("send", Pointer, 1, Stop)
  /\ UNCHANGED coreVars

(* WishboneDynReadByte receives until it has everything; the refusal of    *)
(* its read, which would bring it back, is not in IicCore.                 *)
ToolTransfers ==
  /\ pc = "return"
  /\ \/ stage = "pointer" /\ count = 1
     \/ stage = "page" /\ job.tool = "dynRead" /\ count # job.n
  /\ stage' = "page"
  /\ CASE job.tool = "write" -> Enter("send", Pointer \o Page, job.n + 1, Stop)
       [] job.tool = "dynRead" -> ~BusBusy /\ Enter("dynRecv", <<>>, job.n, Stop)
       [] OTHER -> Enter("recv", <<>>, job.n, Stop)
  /\ UNCHANGED coreVars

ToolEnds ==
  /\ pc = "return"
  /\ \/ stage = "page" /\ job.tool # "write" /\ (job.tool = "dynRead" => count = job.n)
     \/ stage = "acked" /\ count = 1
  /\ stage' = "over"
  /\ UNCHANGED <<coreVars, job, pc, call, left, got, count>>
-----------------------------------------------------------------------------
Poll ==
  \/ WaitFree \/ Address \/ BusWait \/ DataDone \/ DataError
  \/ ClearMsms \/ PutByte \/ HoldBus \/ PutDynByte \/ ResetCore
  \/ NoAckBeforeLast \/ ReadByte \/ WaitBnb \/ Finish \/ SendIdle
Tool ==
  \/ ToolAddresses \/ ToolRetries \/ ToolPolls \/ ToolTransfers \/ ToolEnds

(* The process is not kept from the processor for as long as an address    *)
(* takes on the bus.                                                       *)
CoreUnderPolling ==
  /\ CoreStep
  /\ PromptPolls /\ pc = "busWait" => wire.shift = <<>>
  /\ UNCHANGED polledVars

PolledNext == Poll \/ Tool \/ CoreUnderPolling
=============================================================================
