------------------------------ MODULE SgChannel ------------------------------
(***************************************************************************)
(* One channel of the AXI DMA engine as the Linux drivers of               *)
(* prj/02_pcie_ddr4x3_streamloop use it: a ring of Descs descriptors,      *)
(* CURDESC on the first, TAILDESC always written with the last, and the    *)
(* interrupt line that the XDMA driver turns into an event file.  The      *)
(* engine is not under src/; this is what the drivers take it to do, with  *)
(* the notes of driver_mm2s/axidma_cfg.h:37-41: DMACR's cyclic bit makes   *)
(* the engine ignore that a descriptor is completed already, and a ring    *)
(* goes on past TAILDESC only when TAILDESC is written again.              *)
(***************************************************************************)
EXTENDS Integers

CONSTANTS
  Descs,      (* the number of descriptors of the ring                     *)
  ErrIrq      (* whether the driver enables the error interrupt            *)

ASSUME SgChannelAssumption == Descs \in Nat \ {0} /\ ErrIrq \in BOOLEAN

VARIABLES
  rs, cyclic, irqEn,  (* DMACR: run/stop, cyclic BD enable, interrupts     *)
  active,     (* started by TAILDESC, and not yet past it                  *)
  busy,       (* a descriptor's transfer is in progress                    *)
  cur,        (* the descriptor in progress or the next one                *)
  done,       (* the completed bit of each descriptor's status word        *)
  ioc, err,   (* DMASR's interrupt bits                                    *)
  event       (* the event file has an event to read                       *)

sgVars == <<rs, cyclic, irqEn, active, busy, cur, done, ioc, err, event>>
sgControl == <<rs, cyclic, irqEn, active>>

Desc == 0 .. Descs - 1
Last == Descs - 1
Halted == ~rs /\ ~busy

(* Before a driver starts: a driver that ran earlier may have left         *)
(* interrupts behind, as "left" says.                                      *)
SgInit(left) ==
  /\ rs = FALSE /\ cyclic = FALSE /\ irqEn = FALSE /\ active = FALSE
  /\ busy = FALSE /\ cur = 0 /\ err = FALSE
  /\ done = [d \in Desc |-> FALSE]
  /\ ioc \in {FALSE, left} /\ event \in {FALSE, left}

(* The interrupt line; the event file notices when it rises.               *)
Line == irqEn /\ (ioc \/ (ErrIrq /\ err))
Notice == event' = (event \/ (Line' /\ ~Line))

(* Register accesses of a driver. *)
WriteDmacr(run, cyc, irq) ==
  /\ rs' = run /\ cyclic' = cyc /\ irqEn' = irq
  /\ active' = (run /\ active)
  /\ UNCHANGED <<busy, cur, done, ioc, err>>
  /\ Notice

WriteCurDesc ==
  /\ cur' = IF Halted THEN 0 ELSE cur
  /\ UNCHANGED <<sgControl, busy, done, ioc, err, event>>

WriteTailDesc ==
  /\ active' = rs
  /\ UNCHANGED <<rs, cyclic, irqEn, busy, cur, done, ioc, err, event>>

ClearIrq(clearIoc, clearErr) ==
  /\ ioc' = (ioc /\ ~clearIoc) /\ err' = (err /\ ~clearErr)
  /\ UNCHANGED <<sgControl, busy, cur, done, event>>

TakeEvent ==
  /\ event
  /\ event' = FALSE
  /\ UNCHANGED <<sgControl, busy, cur, done, ioc, err>>

SetDone(bits) ==
  /\ done' = bits
  /\ UNCHANGED <<sgControl, busy, cur, ioc, err, event>>

(* DMACR.Reset, seen complete. *)
SgReset ==
  /\ rs' = FALSE /\ cyclic' = FALSE /\ irqEn' = FALSE /\ active' = FALSE
  /\ busy' = FALSE /\ ioc' = FALSE /\ err' = FALSE
  /\ UNCHANGED <<cur, done, event>>

(* The engine: it begins a transfer, ends it, or meets a descriptor that   *)
(* is completed already, which without the cyclic bit is an error.         *)
Begin ==
  /\ rs /\ active /\ ~busy
  /\ cyclic \/ ~done[cur]
  /\ busy' = TRUE
  /\ UNCHANGED <<sgControl, cur, done, ioc, err, event>>

Finish ==
  /\ busy
  /\ busy' = FALSE
  /\ done' = [done EXCEPT ![cur] = TRUE]
  /\ cur' = (cur + 1) % Descs
  /\ active' = (active /\ cur # Last)
  /\ ioc' = TRUE
  /\ UNCHANGED <<rs, cyclic, irqEn, err>>
  /\ Notice

MeetCompleted ==
  /\ rs /\ active /\ ~busy /\ ~cyclic /\ done[cur]
  /\ rs' = FALSE /\ active' = FALSE
  /\ err' = TRUE
  /\ UNCHANGED <<cyclic, irqEn, busy, cur, done, ioc>>
  /\ Notice

SgTypeOK ==
  /\ {rs, cyclic, irqEn, active, busy, ioc, err, event} \subseteq BOOLEAN
  /\ cur \in Desc /\ done \in [Desc -> BOOLEAN]
=============================================================================
