---------------------------- MODULE FlashDevice ----------------------------
(***************************************************************************)
(* A flash chip as the programmers see it, and flash.c, which opens a      *)
(* device with one of two drivers and hands its calls to that driver.      *)
(* A cell stands for a byte; the sizes of pages, blocks and steps are      *)
(* scaled down, each by itself, and keep their order.                      *)
(***************************************************************************)
EXTENDS Integers, FiniteSets

CONSTANTS
  Cells,        (* the addresses of the largest chip are 0 .. Cells - 1    *)
  Drivers,      (* which of "spi" and "bpi" is soldered on the board       *)
  WearOut       (* of them, those whose chip may fail to erase or program  *)

ASSUME FlashDeviceAssumption ==
  /\ Cells \in Nat \ {0}
  /\ Drivers \subseteq {"spi", "bpi"}
  /\ WearOut \subseteq Drivers

VARIABLES
  cells,    (* what each byte of the chip holds                            *)
  chip,     (* the chip: what it is, what it is busy with, its error flag  *)
  fdev,     (* the struct flash_device that is open                        *)
  call,     (* the read, write or erase that a driver is in                *)
  ret       (* what the last call of a driver has returned                 *)

flashVars == <<cells, chip, fdev, call, ret>>

Addresses == 0 .. Cells - 1

(* Contents: erased, from before, spoilt, or byte i of the file, i > 0.    *)
FF == 0
Old == -1
Junk == -2

Idle == [op |-> "none"]
Closed == [driver |-> "none"]
NoCall == [op |-> "none", addr |-> 0, len |-> 0, src |-> 0, step |-> "start"]

IsOpen == fdev # Closed
Using(driver) == fdev.driver = driver
InCall(op) == call.op = op
Waiting == chip.busy # Idle

Least(a, b) == IF a <= b THEN a ELSE b
Greatest(a, b) == IF a >= b THEN a ELSE b

(* NOR flash: programming clears bits, so a byte that is not erased takes  *)
(* nothing but itself or FF.                                               *)
Programmed(old, new) ==
  CASE new = FF \/ new = old -> old
    [] new # FF /\ old = FF -> new
    [] OTHER -> Junk

(* The chip ends an operation: it erases the addresses, or programs data   *)
(* into its domain. A worn chip spoils them and raises its error flag; an  *)
(* AMD one then toggles its data lines until it is reset.                  *)
Done(good) ==
  LET op == chip.busy
      touched == IF op.op = "erase" THEN op.block ELSE DOMAIN op.data
      value(a) == IF ~good THEN Junk
                  ELSE IF op.op = "erase" THEN FF
                  ELSE Programmed(cells[a], op.data[a])
  IN  cells' = [a \in Addresses |-> IF a \in touched THEN value(a) ELSE cells[a]]

ChipDone ==
  /\ Waiting
  /\ \E good \in {TRUE, chip.kind \notin WearOut} :
       /\ Done(good)
       /\ chip' = [chip EXCEPT !.busy = Idle, !.err = @ \/ ~good,
                               !.mode = IF ~good /\ chip.set = "amd" THEN "abort" ELSE @]
  /\ UNCHANGED <<fdev, call, ret>>

(* A reset of the chip in the middle of an operation spoils what it works  *)
(* on.                                                                     *)
AbortedCells ==
  LET op == chip.busy
      touched == CASE op.op = "none" -> {}
                   [] op.op = "erase" -> op.block
                   [] OTHER -> DOMAIN op.data
  IN  [a \in Addresses |-> IF a \in touched THEN Junk ELSE cells[a]]

(* flash_read, flash_write and flash_erase: without a device they fail     *)
(* where they stand, with one its driver goes to work.                     *)
Dispatch(op, addr, len, src) ==
  IF IsOpen
  THEN call' = [op |-> op, addr |-> addr, len |-> len, src |-> src, step |-> "start"]
       /\ ret' = 0
  ELSE call' = NoCall /\ ret' = -1

CallReturns(r) == call' = NoCall /\ ret' = r

(* flash_release: the driver deselects the chip, the structure is freed.   *)
Release == fdev' = Closed /\ call' = NoCall

(* A board with a chip of one of its kinds, written at the factory.        *)
FlashInit(chips) ==
  /\ cells = [a \in Addresses |-> Old]
  /\ chip \in chips
  /\ fdev = Closed
  /\ call = NoCall
  /\ ret = 0

FlashTypeOK ==
  /\ cells \in [Addresses -> {FF, Old, Junk} \cup 1 .. Cells]
  /\ call.op \in {"none", "read", "write", "erase"}
  /\ call.addr \in Nat /\ call.len \in Nat /\ call.src \in Nat
  /\ ret \in {0, -1}
  /\ fdev.driver \in {"none"} \cup Drivers
=============================================================================
