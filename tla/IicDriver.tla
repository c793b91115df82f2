----------------------------- MODULE IicDriver -----------------------------
(***************************************************************************)
(* The interrupt-driven I2C driver: xiic_master.c, xiic_dyn_master.c,      *)
(* xiic_slave.c, xiic_multi_master.c, xiic_intr.c, and the start and stop  *)
(* of xiic.c, with 7 bit addresses. The application calls the driver and   *)
(* waits for its handlers; the core and other masters move between the     *)
(* steps of a call and of the interrupt handler.                           *)
(***************************************************************************)
EXTENDS IicCore, SequencesExt

CONSTANT
  Programs    (* what the application does: sequences of                   *)
              (* [op, n, rep, dyn]; the options are set before each call   *)

VARIABLES
  ip,     (* the XIic instance                                             *)
  buf,    (* the receive buffer                                            *)
  irq,    (* what XIic_InterruptHandler has read when it was entered       *)
  app     (* the application: [todo, state, op, told, slave,*)
          (* stray]                                                         *)

driverVars == <<ip, buf, irq, app>>

NoOp == [op |-> "none", n |-> 0, rep |-> FALSE, dyn |-> FALSE]
NoIrq == [on |-> FALSE, intr |-> {}, slave |-> FALSE, clear |-> {}]

(* After XIic_CfgInitialize, XIic_MultiMasterInclude and XIic_SlaveInclude.*)
DriverInit(ops) ==
  /\ ip = [started |-> FALSE, send |-> <<>>, recv |-> 0, recvNull |-> TRUE, bnbOnly |-> FALSE,
           dyn |-> FALSE, rep |-> FALSE, ackOff |-> FALSE]
  /\ buf = <<>> /\ irq = NoIrq
  /\ app = [todo |-> ops, state |-> "idle", op |-> NoOp, told |-> "none", slave |-> "none",
            stray |-> FALSE]

Op == Head(app.todo)
Idling == ~irq.on /\ app.todo # <<>>
-----------------------------------------------------------------------------
(* XIic_Start, and XIic_Stop, which refuses while the core is a master or  *)
(* is addressed, and otherwise leaves the interrupts off.                  *)
XIic_Start ==
  /\ Idling /\ Op.op = "start" /\ app.state = "idle"
  /\ cr' = {"en"} /\ rfd' = 0 /\ ier' = {"aas", "arb"} /\ gie' = TRUE
  /\ ip' = [ip EXCEPT !.started = TRUE, !.dyn = FALSE]
  /\ app' = [app EXCEPT !.todo = Tail(@)]
  /\ UNCHANGED <<txf, rxf, wire, dev, buf, irq>>
  /\ Latch({})

XIic_Stop ==
  /\ Idling /\ Op.op = "stop" /\ app.state = "idle"
  /\ LET busy == "msms" \in cr \/ wire.asSlave # "none" IN
       /\ gie' = busy
       /\ ip' = [ip EXCEPT !.started = busy]
       /\ app' = IF busy THEN app ELSE [app EXCEPT !.todo = Tail(@)]
  /\ UNCHANGED <<cr, rfd, ier, txf, rxf, isr, wire, dev, buf, irq>>

(* XIic_DynamicInitialize resets the core, also one that has been started: *)
(* the interrupts stay off until a transfer enables those it needs. Of its *)
(* result, a look at the status after that, nothing depends.               *)
XIic_DynamicInitialize ==
  /\ Idling /\ Op.op = "dynInit" /\ app.state = "idle"
  /\ cr' = {"en"} /\ rfd' = Depth - 1 /\ ier' = {} /\ gie' = FALSE
  /\ txf' = <<>> /\ rxf' = <<>>
  /\ app' = [app EXCEPT !.todo = Tail(@)]
  /\ UNCHANGED <<wire, dev, ip, buf, irq>>
  /\ Latch({})
-----------------------------------------------------------------------------
(* XIic_MasterSend, MasterRecv, DynMasterSend and DynMasterRecv. First the *)
(* interrupts go off and the bus is looked at (IsBusBusy); if it is busy   *)
(* the BNB interrupt is to tell when it no longer is.                      *)
Transfers == {"send", "recv"}

MasterCall ==
  /\ Idling /\ Op.op \in Transfers /\ app.state = "idle" /\ app.slave = "none"
  /\ LET busy == "msms" \notin cr /\ BusBusy IN
       /\ gie' = busy
       /\ ier' = IF busy THEN ier \cup {"bnb"} ELSE ier
       /\ ip' = [ip EXCEPT !.dyn = Op.dyn, !.rep = Op.rep, !.bnbOnly = busy \/ @]
       /\ app' = [app EXCEPT !.state = IF busy THEN "busBusy" ELSE "calling"]
       /\ UNCHANGED <<cr, rfd, txf, rxf, wire, dev, buf, irq>>
       /\ Latch(IF busy THEN isr \ {"bnb"} ELSE isr)

Bytes(n) == [i \in 1..n |-> i]

(* XIic_TransmitFifoFill: a master that is to stop keeps the last byte     *)
(* back; so does one whose message is longer than the space.               *)
Room(fifo) == Depth - (IF fifo = <<>> THEN 1 ELSE Len(fifo))
Filled(fifo, bytes, all) ==
  LET n == IF Len(bytes) > Room(fifo) THEN Room(fifo)
           ELSE IF all THEN Len(bytes) ELSE Len(bytes) - 1
  IN  [fifo |-> FoldLeft(Put, fifo, [i \in 1..n |-> Plain(bytes[i])]),
       left |-> SubSeq(bytes, n + 1, Len(bytes)),
       n |-> n]
NotFilled(fifo, bytes) == [fifo |-> fifo, left |-> bytes, n |-> 0]

(* XIic_DynMasterSend turns the direction only on a repeated start: else   *)
(* the START mark of the address does.                                     *)
DynSendCr == IF "msms" \in cr THEN (cr \ {"noack"}) \cup {"tx"} ELSE cr

MasterSend ==
  /\ app.state = "calling" /\ Op.op = "send"
  /\ LET again == "msms" \in cr
         addr == Put(txf, IF Op.dyn THEN Start(AddrW) ELSE Plain(AddrW))
         fill == IF Op.n > 1 THEN Filled(addr, Bytes(Op.n), Op.rep) ELSE NotFilled(addr, Bytes(Op.n))
     IN  /\ txf' = fill.fifo
         /\ cr' = IF Op.dyn THEN DynSendCr
                  ELSE (cr \ {"noack"}) \cup {"tx", "msms"} \cup (IF again THEN {"rsta"} ELSE {})
         /\ ip' = [ip EXCEPT !.send = fill.left,
                             !.recvNull = IF Op.dyn THEN @ ELSE TRUE]
         /\ ier' = ier \cup {"txerr", "txe"} \cup (IF Len(fill.left) > 1 THEN {"txh"} ELSE {})
  /\ app' = [app EXCEPT !.state = "waiting", !.op = Op, !.told = "none"]
  /\ gie' = TRUE
  /\ UNCHANGED <<rfd, rxf, wire, dev, buf, irq>>
  /\ Latch(isr \ (ier' \ {"aas", "arb", "naas", "bnb", "rxf"}))

(* The FIFO throttles one byte before the last, for NO_ACK to be set.      *)
OccupancyLate(n) == IF n = 1 THEN 0 ELSE IF n <= Depth THEN n - 1 ELSE Depth - 1
Occupancy(n) == IF n = 1 THEN 0 ELSE IF n <= Depth THEN n - 2 ELSE Depth - 1

MasterRecv ==
  /\ app.state = "calling" /\ Op.op = "recv"
  /\ LET again == "msms" \in cr
         noack == IF Op.n = 1 THEN {"noack"} ELSE {}
         set == ((cr \ {"noack", "tx"}) \cup noack) \cup (IF again THEN {"rsta"} ELSE {"msms"})
         addr == Put(txf, IF Op.dyn THEN Start(AddrR) ELSE Plain(AddrR))
     IN  /\ cr' = IF Op.dyn /\ ~again THEN cr ELSE set
         /\ txf' = IF Op.dyn THEN Put(addr, StopAt(Op.n)) ELSE addr
  /\ rfd' = Occupancy(Op.n)
  /\ ip' = [ip EXCEPT !.recv = Op.n, !.recvNull = FALSE]
  /\ buf' = <<>>
  /\ ier' = ier \cup {"rxf", "txerr"}
  /\ app' = [app EXCEPT !.state = "waiting", !.op = Op, !.told = "none"]
  /\ gie' = TRUE
  /\ UNCHANGED <<rxf, wire, dev, irq>>
  /\ Latch(isr \ {"rxf", "txerr"})
-----------------------------------------------------------------------------
(* XIic_SlaveSend and XIic_SlaveRecv, called once the status handler has   *)
(* told that the core is addressed.                                        *)
SlaveSend ==
  /\ ~irq.on /\ app.slave = "toSend"
  /\ IF wire.asSlave = "none" THEN UNCHANGED <<coreVars, ip>>
     ELSE LET fill == Filled(txf, Bytes(Depth), TRUE) IN
          /\ ip' = [ip EXCEPT !.send = fill.left, !.recvNull = TRUE]
          /\ txf' = fill.fifo
          /\ LET bits == {"txe", "txerr"} \cup (IF Len(fill.left) > 1 THEN {"txh"} ELSE {}) IN
               /\ ier' = ier \cup bits
               /\ UNCHANGED <<cr, rfd, gie, rxf, wire, dev>>
               /\ Latch(isr \ bits)
  /\ app' = [app EXCEPT !.slave = IF wire.asSlave = "none" THEN "none" ELSE "sending"]
  /\ UNCHANGED <<buf, irq>>

SlaveRecv ==
  /\ ~irq.on /\ app.slave = "toRecv"
  /\ IF wire.asSlave = "none" THEN UNCHANGED <<coreVars, ip, buf>>
     ELSE /\ ip' = [ip EXCEPT !.recv = Depth, !.recvNull = FALSE]
          /\ rfd' = Depth - 1
          /\ ier' = ier \cup {"rxf"}
          /\ buf' = <<>>
          /\ UNCHANGED <<cr, gie, txf, rxf, wire, dev>>
          /\ Latch(isr \ {"rxf"})
  /\ app' = [app EXCEPT !.slave = IF wire.asSlave = "none" THEN "none" ELSE "receiving"]
  /\ UNCHANGED irq
-----------------------------------------------------------------------------
(* The handlers of the application. A report of the transfer under way     *)
(* ends it, any other one is stray.                                        *)
Ends(a, what) ==
  /\ a.state = "waiting"
  /\ what \in {"arbLost", "noAck", IF a.op.op = "send" THEN "sent" ELSE "received"}

Reported(a, what) ==
  IF what = "busNotBusy" THEN (IF a.state = "busBusy" THEN [a EXCEPT !.state = "idle"] ELSE a)
  ELSE IF Ends(a, what)
       THEN [a EXCEPT !.state = "idle", !.todo = Tail(@), !.told = what]
       ELSE [a EXCEPT !.stray = TRUE]

(* XIic_InterruptHandler: what is pending and enabled, and the status.     *)
Pending == isr \cap ier

IrqEnter ==
  /\ ~irq.on /\ gie /\ Pending # {}
  /\ irq' = [on |-> TRUE, intr |-> Pending, slave |-> wire.asSlave # "none", clear |-> {}]
  /\ UNCHANGED <<coreVars, ip, buf, app>>

(* One source is served, the first in this order.                          *)
Order == <<"arb", "rxf", "txerr", "naas", "aas", "bnb", "txe", "txh">>
Serving(bit) ==
  /\ irq.on /\ irq.clear = {}
  /\ bit \in irq.intr
  /\ \A i, j \in 1..Len(Order) : Order[j] = bit /\ i < j => Order[i] \notin irq.intr
Served(bits) == irq' = [irq EXCEPT !.clear = bits]

(* XIic_WriteIisr(Clear) at the end toggles the bit, cleared before or not.*)
IrqLeave ==
  /\ irq.on /\ irq.clear # {}
  /\ irq' = NoIrq
  /\ UNCHANGED <<registers, txf, rxf, wire, dev, ip, buf, app>>
  /\ Latch(Toggled(irq.clear \ {"nothing"}))

ArbitrationLostHandler ==
  /\ Serving("arb")
  /\ ier' = ier \ TxBits /\ txf' = FlushedTx
  /\ app' = Reported(app, "arbLost")
  /\ Served({"arb"})
  /\ UNCHANGED <<cr, rfd, gie, rxf, wire, dev, ip, buf>>
  /\ Latch(isr \ TxBits)

(* ReadRecvByte, k times; an empty FIFO gives anything.                    *)
InFifo == IF rxf = <<>> THEN 1 ELSE Len(rxf)
Read(k) ==
  LET n == IF k > Len(rxf) THEN Len(rxf) ELSE k IN
  /\ buf' = buf \o SubSeq(rxf, 1, n) \o [i \in 1..(k - n) |-> 0]
  /\ rxf' = SubSeq(rxf, n + 1, Len(rxf))

(* RecvMasterData and DynRecvMasterData.                                   *)
OneByteRefused == IF ip.recv = 1 /\ "txerr" \in irq.intr THEN Toggled({"txerr"}) ELSE isr

RecvLastButOne ==
  /\ Serving("rxf") /\ ~irq.slave /\ ip.recv - InFifo = 1
  /\ ier' = ier \ {"txerr"}
  /\ cr' = IF ip.dyn THEN cr ELSE cr \cup {"noack"}
  /\ Read(1)
  /\ ip' = [ip EXCEPT !.recv = @ - 1]
  /\ Served({"rxf"})
  /\ UNCHANGED <<rfd, gie, txf, wire, dev, app>>
  /\ Latch(OneByteRefused \ {"txerr"})

RecvLast ==
  /\ Serving("rxf") /\ ~irq.slave /\ ip.recv = InFifo
  /\ cr' = IF ip.dyn THEN (IF ip.rep THEN cr \cup {"rsta"} ELSE cr)
           ELSE (IF ip.rep THEN cr \cup {"rsta"} ELSE cr \ {"msms"}) \ {"noack"}
  /\ Read(InFifo)
  /\ rfd' = 0
  /\ ier' = ier \ {"rxf"}
  /\ ip' = [ip EXCEPT !.recv = 0]
  /\ app' = Reported(app, "received")
  /\ Served({"rxf"})
  /\ UNCHANGED <<gie, txf, wire, dev>>
  /\ Latch(OneByteRefused)

RecvSome ==
  /\ Serving("rxf") /\ ~irq.slave /\ ip.recv - InFifo > 1
  /\ LET more == ip.recv - InFifo - 1
         k == IF more > Depth THEN Depth ELSE more
     IN  /\ Read(k)
         /\ ip' = [ip EXCEPT !.recv = @ - k]
  /\ Served({"rxf"})
  /\ UNCHANGED <<registers, txf, wire, dev, app>>
  /\ Latch(OneByteRefused)

(* RecvSlaveData: what nobody wants is refused and thrown away.            *)
RecvSlaveData ==
  /\ Serving("rxf") /\ irq.slave
  /\ IF ip.recv = 0
     THEN /\ cr' = cr \cup {"noack"}
          /\ rxf' = <<>> /\ rfd' = 0
          /\ ip' = [ip EXCEPT !.ackOff = TRUE]
          /\ UNCHANGED buf
     ELSE LET left == ip.recv - InFifo IN
          /\ Read(InFifo)
          /\ ip' = [ip EXCEPT !.recv = left]
          /\ rfd' = IF left > Depth THEN Depth - 1 ELSE IF left <= 0 THEN 0 ELSE left - 1
          /\ UNCHANGED cr
  /\ Served({"rxf"})
  /\ UNCHANGED <<ier, gie, txf, wire, dev, app>>
  /\ Latch(OneByteRefused)
-----------------------------------------------------------------------------
(* TxErrorHandler: a sender has been refused, or, as a slave, is done.     *)
TxErrorOfSend ==
  /\ Serving("txerr") /\ ip.recvNull
  /\ txf' = FlushedTx
  /\ ier' = ier \ TxRxBits
  /\ app' = IF "aas" \in isr THEN app ELSE Reported(app, "noAck")
  /\ Served({"txerr"})
  /\ UNCHANGED <<cr, rfd, gie, rxf, wire, dev, ip, buf>>
  /\ Latch(isr)

(* With data in the FIFO it is the core's own refusal of the last byte.    *)
TxErrorOfRecv ==
  /\ Serving("txerr") /\ ~ip.recvNull
  /\ IF "rxf" \in isr
     THEN /\ ier' = ier \ {"txerr"}
          /\ UNCHANGED <<cr, rfd, txf, app>>
     ELSE /\ txf' = FlushedTx
          /\ ier' = ier \ TxRxBits
          /\ cr' = cr \ {"msms"}
          /\ rfd' = 0
          /\ app' = Reported(app, "noAck")
  /\ Served({"txerr"})
  /\ UNCHANGED <<gie, rxf, wire, dev, ip, buf>>
  /\ Latch(IF "rxf" \in isr THEN isr ELSE isr \ TxRxBits)

AddrAsSlaveHandler ==
  /\ Serving("aas")
  /\ ier' = (ier \ {"aas"}) \cup {"naas"}
  /\ app' = [app EXCEPT !.slave = IF wire.asSlave = "read" THEN "toSend" ELSE "toRecv"]
  /\ Served({"aas"})
  /\ UNCHANGED <<cr, rfd, gie, txf, rxf, wire, dev, ip, buf>>
  /\ Latch(isr \ {"naas"})

(* NotAddrAsSlaveHandler: what is in the receive FIFO is read if it is     *)
(* fewer bytes than wanted, and dropped otherwise.                         *)
NotAddrAsSlaveHandler ==
  /\ Serving("naas")
  /\ LET fits == rxf # <<>> /\ ip.recv > Len(rxf)
         drop == rxf # <<>> /\ ip.recv <= Len(rxf) /\ wire.asSlave = "none"
     IN  /\ rxf' = IF fits \/ drop THEN <<>> ELSE rxf
         /\ buf' = IF fits THEN buf \o rxf ELSE buf
  /\ txf' = FlushedTx
  /\ rfd' = 0 /\ cr' = cr \ {"noack"}
  /\ ier' = ((ier \ {"naas"}) \cup {"aas"}) \ (IF ip.recvNull THEN TxBits ELSE {"rxf"})
  /\ ip' = [ip EXCEPT !.ackOff = FALSE, !.recv = 0, !.send = <<>>]
  /\ app' = [app EXCEPT !.slave = "none"]
  /\ Served({"naas"})
  /\ UNCHANGED <<gie, wire, dev>>
  /\ Latch(isr \ {"aas"})

(* BNB: BusNotBusyHandler for a call that has found the bus busy, else the *)
(* end of a send.                                                          *)
BusNotBusyHandler ==
  /\ Serving("bnb") /\ ip.bnbOnly
  /\ cr' = cr \ {"noack"}
  /\ txf' = FlushedTx /\ rxf' = <<>>
  /\ ier' = (ier \ (IF ip.recvNull THEN TxBits ELSE {"rxf"})) \ {"bnb"}
  /\ ip' = [ip EXCEPT !.bnbOnly = FALSE]
  /\ app' = Reported(app, "busNotBusy")
  /\ Served({"bnb"})
  /\ UNCHANGED <<rfd, gie, wire, dev, buf>>
  /\ Latch(isr)

SendHandlerAtBnb ==
  /\ Serving("bnb") /\ ~ip.bnbOnly
  /\ ier' = ier \ {"bnb"}
  /\ app' = Reported(app, "sent")
  /\ Served({"bnb"})
  /\ UNCHANGED <<cr, rfd, gie, txf, rxf, wire, dev, ip, buf>>
  /\ Latch(isr)
-----------------------------------------------------------------------------
(* SendMasterData, DynSendMasterData and SendSlaveData. The bits to clear  *)
(* are read after the data has been written.                               *)
ServingTx == \E bit \in {"txe", "txh"} : Serving(bit)
ServedTx == Served(((isr \cap {"txe", "txh"}) \cup {"nothing"}))

SendMore ==
  /\ ServingTx /\ ~irq.slave /\ Len(ip.send) > 1
  /\ LET fill == Filled(txf, ip.send, ip.rep) IN
       /\ txf' = fill.fifo
       /\ ip' = [ip EXCEPT !.send = fill.left]
       /\ ier' = IF Len(fill.left) < 2 THEN ier \ {"txh"} ELSE ier
  /\ ServedTx
  /\ UNCHANGED <<cr, rfd, gie, rxf, wire, dev, buf, app>>
  /\ Latch(isr)

(* The last byte: MSMS is cleared before it, or it carries the STOP mark.  *)
(* A dynamic send does not count it. Then BNB is to tell the end.          *)
SendLast ==
  /\ ServingTx /\ ~irq.slave /\ Len(ip.send) = 1
  /\ LET done == ~ip.rep \/ ip.dyn IN
       /\ txf' = Put(txf, IF ip.dyn /\ ~ip.rep THEN StopAt(Head(ip.send)) ELSE Plain(Head(ip.send)))
       /\ cr' = IF done /\ ~ip.dyn THEN cr \ {"msms"} ELSE cr
       /\ ip' = [ip EXCEPT !.send = IF ip.dyn /\ ~ip.rep THEN @ ELSE <<>>,
                           !.bnbOnly = IF done THEN FALSE ELSE @]
       /\ ier' = IF done THEN (ier \ TxBits) \cup {"bnb"} ELSE ier
  /\ ServedTx
  /\ UNCHANGED <<rfd, gie, rxf, wire, dev, buf, app>>
  /\ Latch(isr)

SendIsOver(off) ==
  /\ ServingTx /\ ~irq.slave /\ ip.send = <<>>
  /\ IF ip.rep
     THEN /\ cr' = cr \cup {"rsta"}
          /\ ier' = ier \ off
          /\ app' = Reported(app, "sent")
     ELSE UNCHANGED <<cr, ier, app>>
  /\ ServedTx
  /\ UNCHANGED <<rfd, gie, txf, rxf, wire, dev, ip, buf>>
  /\ Latch(isr)

SendOverLeavesTxe == SendIsOver({"txerr", "txh"})
SendOver == SendIsOver(TxBits)

SendSlaveData ==
  /\ ServingTx /\ irq.slave
  /\ IF ip.send = <<>>
     THEN txf' = Put(txf, Plain(255)) /\ UNCHANGED <<ip, ier>>
     ELSE LET fill == Filled(txf, ip.send, TRUE) IN
          /\ txf' = fill.fifo
          /\ ip' = [ip EXCEPT !.send = fill.left]
          /\ ier' = IF fill.left = <<>> THEN ier \ {"txh"} ELSE ier
  /\ ServedTx
  /\ UNCHANGED <<cr, rfd, gie, rxf, wire, dev, buf, app>>
  /\ Latch(isr)
-----------------------------------------------------------------------------
Calls ==
  \/ XIic_Start \/ XIic_Stop \/ XIic_DynamicInitialize
  \/ MasterCall \/ MasterSend \/ MasterRecv \/ SlaveSend \/ SlaveRecv
Handler ==
  \/ IrqEnter \/ IrqLeave
  \/ ArbitrationLostHandler \/ RecvLastButOne \/ RecvLast \/ RecvSome \/ RecvSlaveData
  \/ TxErrorOfSend \/ TxErrorOfRecv \/ AddrAsSlaveHandler \/ NotAddrAsSlaveHandler
  \/ BusNotBusyHandler \/ SendHandlerAtBnb
  \/ SendMore \/ SendLast \/ SendOver \/ SendSlaveData
CoreUnderDriver == CoreStep /\ UNCHANGED driverVars

DriverNext == Calls \/ Handler \/ CoreUnderDriver
=============================================================================
