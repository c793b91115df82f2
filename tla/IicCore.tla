------------------------------ MODULE IicCore ------------------------------
(***************************************************************************)
(* The AXI IIC core, the slave device behind it and another master on the  *)
(* same bus. The core is not in the repository: this is what its drivers   *)
(* (lib/iic, driver/c) take it to be. The interrupt status register        *)
(* latches levels: a bit that is cleared while its cause lasts comes back, *)
(* one that nobody clears stays after its cause has gone. A write toggles. *)
(***************************************************************************)
EXTENDS Integers, Sequences, FiniteSets

CONSTANTS
  Depth,       (* IIC_TX_FIFO_DEPTH and IIC_RX_FIFO_DEPTH                  *)
  Turns        (* bound: how often a device refuses, a rival takes the bus *)

ASSUME IicCoreAssumption ==
  /\ Depth \in Nat \ {0, 1}
  /\ Turns \in Nat

VARIABLES
  cr,    (* the bits of the control register                               *)
  txf,   (* transmit FIFO: bytes, with the START and STOP marks of the     *)
         (* dynamic mode                                                   *)
  rxf,   (* receive FIFO                                                   *)
  rfd,   (* occupancy at which the core throttles, less one                *)
  isr, ier, gie,
  wire,  (* the bus as the core sees it                                    *)
  dev    (* the slave device, and what it has seen and given               *)

registers == <<cr, rfd, ier, gie>>
coreVars == <<registers, txf, rxf, isr, wire, dev>>

AddrW == 100
AddrR == 101
Plain(v) == [v |-> v, start |-> FALSE, stop |-> FALSE]
Start(v) == [v |-> v, start |-> TRUE, stop |-> FALSE]
StopAt(v) == [v |-> v, start |-> FALSE, stop |-> TRUE]

TxBits == {"txerr", "txe", "txh"}
TxRxBits == TxBits \cup {"rxf"}

Idle == [master |-> "free", asSlave |-> "none", addr |-> FALSE, rx |-> FALSE, shift |-> <<>>,
         nak |-> FALSE, dyn |-> FALSE, left |-> -1, stop |-> FALSE]

(* Faults: what may happen. "busy": the device refuses its address;        *)
(* "nack": or any byte; "rival": another master wins the bus, "last": over *)
(* the last byte too; "asSlave": it addresses this core.                   *)
CoreInit(faults) ==
  /\ cr = {"en"} /\ txf = <<>> /\ rxf = <<>> /\ rfd = 0
  /\ isr = {"bnb", "naas", "txh"} /\ ier = {} /\ gie = FALSE
  /\ wire = Idle
  /\ dev = [ptr |-> 0, heard |-> <<>>, gave |-> 0, turns |-> Turns, faults |-> faults]
-----------------------------------------------------------------------------
(* What the interrupt status shows for as long as it lasts.                *)
BusBusy == wire.master # "free"
Throttled == txf = <<>> /\ wire.shift = <<>> /\ ~wire.addr
             /\ ((wire.master = "us" /\ ~wire.rx) \/ (wire.asSlave = "read" /\ ~wire.nak))
Levels ==
  (IF Throttled THEN {"txe"} ELSE {})
  \cup (IF Len(txf) <= Depth \div 2 THEN {"txh"} ELSE {})
  \cup (IF Len(rxf) > rfd THEN {"rxf"} ELSE {})
  \cup (IF BusBusy THEN {} ELSE {"bnb"})
  \cup (IF wire.asSlave = "none" THEN {"naas"} ELSE {"aas"})
Latch(bits) == isr' = bits \cup Levels'
Toggled(bits) == (isr \ bits) \cup (bits \ isr)

(* What a program does to the core. A byte that finds the FIFO full is lost.*)
Put(fifo, entry) == IF Len(fifo) < Depth THEN Append(fifo, entry) ELSE fifo
FlushedTx == <<>>
-----------------------------------------------------------------------------
(* A START, or a repeated one, and the address that follows it.            *)
LoadAddress ==
  /\ "en" \in cr /\ txf # <<>> /\ wire.shift = <<>>
  /\ \/ /\ ~BusBusy
        /\ ("msms" \in cr \/ Head(txf).start)
     \/ /\ wire.master = "us" /\ ~wire.addr /\ (wire.rx => wire.nak)
        /\ "rsta" \in cr \/ Head(txf).start
  /\ wire' = [Idle EXCEPT !.master = "us", !.addr = TRUE, !.shift = <<Head(txf).v>>,
                          !.dyn = Head(txf).start]
  /\ txf' = Tail(txf)
  /\ cr' = (cr \cup {"msms"}) \ {"rsta"}
  /\ UNCHANGED <<rxf, rfd, ier, gie, dev>>
  /\ Latch(isr)

AddressTaken ==
  /\ wire.addr /\ wire.shift # <<>>
  /\ wire' = IF "msms" \notin cr /\ wire.shift[1] = AddrW THEN Idle
             ELSE [wire EXCEPT !.addr = FALSE, !.shift = <<>>, !.rx = (wire.shift[1] = AddrR)]
  /\ dev' = IF wire.shift[1] = AddrR THEN [dev EXCEPT !.gave = 0] ELSE [dev EXCEPT !.heard = <<>>]
  /\ UNCHANGED <<registers, txf, rxf>>
  /\ Latch(isr)

(* Nobody acknowledges the byte: the core stops. MSMS stays set when the   *)
(* byte was the address of a read. What becomes of the count of a dynamic  *)
(* read is not known: its address is not refused here.                     *)
ByteRefused ==
  /\ "nack" \in dev.faults \/ ("busy" \in dev.faults /\ wire.addr)
  /\ dev.turns > 0 /\ wire.master = "us" /\ wire.shift # <<>>
  /\ ~(wire.dyn /\ wire.shift[1] = AddrR)
  /\ wire' = Idle
  /\ cr' = IF wire.addr /\ wire.shift[1] = AddrR THEN cr ELSE cr \ {"msms"}
  /\ dev' = [dev EXCEPT !.turns = @ - 1]
  /\ UNCHANGED <<rfd, ier, gie, txf, rxf>>
  /\ Latch(isr \cup {"txerr"})

(* The other master wins over an address or a byte, over the last one only *)
(* under "last".                                                           *)
ArbitrationLost ==
  /\ "rival" \in dev.faults /\ dev.turns > 0 /\ wire.master = "us" /\ wire.shift # <<>>
  /\ "last" \in dev.faults \/ ("msms" \in cr /\ ~wire.stop)
  /\ wire' = [Idle EXCEPT !.master = "rival"]
  /\ cr' = cr \ {"msms"}
  /\ dev' = [dev EXCEPT !.turns = @ - 1]
  /\ UNCHANGED <<rfd, ier, gie, txf, rxf>>
  /\ Latch(isr \cup {"arb"})
-----------------------------------------------------------------------------
(* Bytes to the device. The first one after the address is its register    *)
(* pointer. The STOP follows the byte during which MSMS is clear.          *)
SendByte ==
  /\ wire.master = "us" /\ ~wire.addr /\ ~wire.rx /\ wire.shift = <<>>
  /\ txf # <<>> /\ ~Head(txf).start /\ "rsta" \notin cr
  /\ wire' = [wire EXCEPT !.shift = <<Head(txf).v>>, !.stop = Head(txf).stop]
  /\ txf' = Tail(txf)
  /\ UNCHANGED <<registers, rxf, dev>>
  /\ Latch(isr)

ByteTaken ==
  /\ wire.master = "us" /\ ~wire.addr /\ ~wire.rx /\ wire.shift # <<>>
  /\ LET last == wire.stop \/ ("msms" \notin cr /\ txf = <<>>)
     IN  /\ wire' = IF last THEN Idle ELSE [wire EXCEPT !.shift = <<>>]
         /\ cr' = IF last THEN cr \ {"msms"} ELSE cr
  /\ dev' = [dev EXCEPT !.heard = Append(@, wire.shift[1]),
                        !.ptr = IF dev.heard = <<>> THEN wire.shift[1] ELSE @]
  /\ UNCHANGED <<rfd, ier, gie, txf, rxf>>
  /\ Latch(isr)

(* Bytes from the device: its registers in order. The core refuses the     *)
(* last one of a dynamic read, and what arrives under NO_ACK.              *)
TakeCount ==
  /\ wire.master = "us" /\ wire.rx /\ wire.dyn /\ wire.left = -1 /\ txf # <<>>
  /\ wire' = [wire EXCEPT !.left = Head(txf).v, !.stop = Head(txf).stop]
  /\ txf' = Tail(txf)
  /\ UNCHANGED <<registers, rxf, dev>>
  /\ Latch(isr)

RecvByte ==
  /\ wire.master = "us" /\ wire.rx /\ ~wire.nak /\ Len(rxf) <= rfd
  /\ IF wire.dyn THEN wire.left > 0 ELSE "msms" \in cr
  /\ LET refused == IF wire.dyn THEN wire.left = 1 ELSE "noack" \in cr IN
       /\ wire' = [wire EXCEPT !.nak = refused, !.left = IF wire.dyn THEN @ - 1 ELSE @]
       /\ rxf' = Append(rxf, dev.ptr)
       /\ dev' = [dev EXCEPT !.gave = @ + 1, !.ptr = @ + 1]
       /\ UNCHANGED <<registers, txf>>
       /\ Latch(IF refused THEN isr \cup {"txerr"} ELSE isr)

(* A device whose last byte has been acknowledged gives one more.          *)
StopRead ==
  /\ wire.master = "us" /\ wire.rx
  /\ IF wire.dyn THEN wire.stop /\ wire.nak ELSE "msms" \notin cr
  /\ wire' = Idle
  /\ cr' = cr \ {"msms"}
  /\ dev' = IF wire.nak THEN dev ELSE [dev EXCEPT !.gave = @ + 1]
  /\ UNCHANGED <<rfd, ier, gie, txf, rxf>>
  /\ Latch(isr)
-----------------------------------------------------------------------------
(* The other master: it uses the bus, or it addresses this core.           *)
RivalTakes ==
  /\ "rival" \in dev.faults /\ dev.turns > 0 /\ ~BusBusy
  /\ \E role \in {"none"} \cup (IF "asSlave" \in dev.faults THEN {"read", "write"} ELSE {}) :
       wire' = [Idle EXCEPT !.master = "rival", !.asSlave = role, !.left = Depth + 1]
  /\ dev' = [dev EXCEPT !.turns = @ - 1]
  /\ UNCHANGED <<registers, txf, rxf>>
  /\ Latch(isr)

RivalWrites ==
  /\ wire.asSlave = "write" /\ Len(rxf) <= rfd /\ wire.left > 0 /\ ~wire.nak
  /\ rxf' = Append(rxf, wire.left)
  /\ wire' = [wire EXCEPT !.left = @ - 1, !.nak = "noack" \in cr]
  /\ UNCHANGED <<registers, txf, dev>>
  /\ Latch(isr)

(* The rival refuses the last byte that it wants.                          *)
RivalReads ==
  /\ wire.asSlave = "read" /\ txf # <<>> /\ wire.left > 0 /\ ~wire.nak
  /\ txf' = Tail(txf)
  /\ \E last \in {TRUE, wire.left = 1} :
       /\ wire' = [wire EXCEPT !.left = @ - 1, !.nak = last]
       /\ UNCHANGED <<registers, rxf, dev>>
       /\ Latch(IF last THEN isr \cup {"txerr"} ELSE isr)

(* It cannot leave while the core throttles it.                            *)
RivalLeaves ==
  /\ wire.master = "rival"
  /\ wire.asSlave = "write" => Len(rxf) <= rfd
  /\ wire.asSlave = "read" => wire.nak
  /\ wire' = Idle
  /\ UNCHANGED <<registers, txf, rxf, dev>>
  /\ Latch(isr)
-----------------------------------------------------------------------------
Shift ==
  \/ LoadAddress \/ AddressTaken \/ SendByte \/ ByteTaken
  \/ TakeCount \/ RecvByte \/ StopRead
Rival == RivalWrites \/ RivalReads \/ RivalLeaves
CoreStep ==
  Shift \/ Rival \/ ByteRefused \/ ArbitrationLost \/ RivalTakes

(* The core and the masters go on.                                         *)
CoreFairness == WF_coreVars(Shift) /\ WF_coreVars(Rival)
=============================================================================
