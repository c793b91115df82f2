------------------------------ MODULE Firmware ------------------------------
(***************************************************************************)
(* vu13p-fw.c: the tool that erases, writes and reads the boot flash and   *)
(* boots the FPGA from it. main finds the segment of the requested slot,   *)
(* loads the file, and works through the flash in steps with the functions *)
(* of flash.h; it may be killed at any moment and run again.               *)
(***************************************************************************)
EXTENDS SpiFlash, BpiFlash

CONSTANTS
  Step,         (* 0x10000, the step of the progress loops                 *)
  Segment0,     (* flash_segment0_length of main, 128 MB                   *)
  SpiCodes,     (* capacity codes of the SPI chips, 0 for none             *)
  Asked,        (* sets of the options -r, -w, -e, -b and -t               *)
  Reruns,       (* of them, those a later run may name instead of its own  *)
  Files,        (* what -w may name: [kind, len, sync, whole, header]      *)
  Slots,        (* what -s may say, -1 for nothing                         *)
  Runs,         (* how often the tool is run                               *)
  MayBeKilled

ASSUME FirmwareAssumption ==
  /\ {Step, Runs, Segment0} \subseteq Nat \ {0} /\ Slots \subseteq Int
  /\ \A f \in Files : f.len \in 0 .. Cells /\ {f.sync, f.whole} \subseteq BOOLEAN
  /\ Asked \subseteq SUBSET {"read", "write", "erase", "boot", "reset"} /\ Reruns \subseteq Asked
  /\ MayBeKilled \in BOOLEAN

(* Chips, segments and steps are whole numbers of blocks and words, and an *)
(* address of four bytes reaches every cell of an SPI chip.                *)
ASSUME GeometryAssumption ==
  /\ Segment0 % SubsectorSize = 0 /\ 2 * SubsectorSize <= ShortReach
  /\ \A c \in SpiCodes \ {0} :
       SizeOf(c) \in 1 .. Least(Cells, Byte * ShortReach) /\ SizeOf(c) % SubsectorSize = 0
  /\ Cells % 32 = 0 /\ Step % 2 = 0

VARIABLES
  opts,     (* the actions asked for, the slot and the file                *)
  pc,       (* where main is                                               *)
  status,   (* main's ret                                                  *)
  seg,      (* the selected segment                                        *)
  buf,      (* the segment's buffer in memory                              *)
  len,      (* the length to write                                         *)
  prog,     (* the progress loop that main is in                           *)
  port,     (* the PCIe port and the device behind it                      *)
  runs      (* runs left                                                   *)

toolVars == <<opts, pc, status, seg, buf, len, prog, port, runs>>
firmwareVars == <<flashVars, toolVars>>

NoProg == [op |-> "none", addr |-> 0, remain |-> 0, src |-> 0, asked |-> 0,
           attempts |-> 0, next |-> "none"]
Tries == 5
NoSegment == [offset |-> 0, size |-> 0]

Goto(l) == pc' = l
Fail == status' = -1 /\ Goto("err")
Wants(action) == action \in opts.actions

(* getopt: -b asks for a boot and a reset, -t for a reset alone. A file to *)
(* write is named with -w only.                                            *)
WithReset(A) == IF "boot" \in A THEN A \cup {"reset"} ELSE A
Actions == {WithReset(A) : A \in Asked}

NoFile == [kind |-> "none", len |-> 0, sync |-> FALSE, whole |-> TRUE, header |-> <<>>]

Options ==
  {o \in [actions : Actions, slot : Slots, file : Files \cup {NoFile}] :
     o.file = NoFile <=> "write" \notin o.actions}
LaterOptions == {o \in Options : o.actions \in {WithReset(A) : A \in Reruns}}

BpiRegions == <<[count |-> 2, size |-> 4], [count |-> (Cells - 8) \div 8, size |-> 8]>>

Chips ==
  (IF "spi" \in Drivers
   THEN {[kind |-> "spi", set |-> "spi", answers |-> c # 0, code |-> c, lanes |-> l, quad |-> FALSE,
          wel |-> FALSE, busy |-> Idle, err |-> FALSE, mode |-> "array"] :
           c \in SpiCodes, l \in {1, 4}}
   ELSE {})
  \cup
  (IF "bpi" \in Drivers
   THEN {[kind |-> "bpi", set |-> s, answers |-> TRUE, mode |-> m, busy |-> Idle, err |-> FALSE,
          size |-> Cells, buffer |-> 4,
          regions |-> BpiRegions] :
           s \in CommandSets \cup {"other"}, m \in {"array", "sync", "abort"}}
   ELSE {})

ToolInit ==
  /\ FlashInit({c \in Chips : /\ c.mode = "sync" => c.set = "intel"
                              /\ c.mode = "abort" => c.set = "amd"})
  /\ opts \in Options
  /\ pc = "open" /\ status = 0
  /\ seg = NoSegment /\ buf = <<>> /\ len = 0
  /\ prog = NoProg
  /\ port = [online |-> TRUE, serr |-> TRUE, iprog |-> FALSE, tries |-> Tries]
  /\ runs = Runs - 1
-----------------------------------------------------------------------------
(* main up to the open flash. The data width is the number of the highest  *)
(* of the four data lines that can be driven.                              *)
OpenFlash ==
  /\ pc = "open"
  /\ IF chip.kind = "spi" THEN SpiOpen(chip.lanes) ELSE BpiOpen
  /\ IF ret' = 0 THEN Goto("segments") /\ UNCHANGED status
                 ELSE Goto("skip") /\ status' = -1
  /\ UNCHANGED <<opts, seg, buf, len, prog, port, runs>>

(* The segments of a configuration; none when it does not fit or is not    *)
(* known.                                                                  *)
Equal(n, size) == [k \in 0 .. n - 1 |-> [offset |-> k * (size \div n), size |-> size \div n]]

Segments(configuration, first, size) ==
  CASE configuration \in {0, 1} -> Equal(1, size)
    [] configuration = 2 /\ first = 0 -> Equal(2, size)
    [] configuration = 2 /\ first \in 1 .. size ->
         [k \in {0, 1} |-> [offset |-> k * first, size |-> IF k = 0 THEN first ELSE size - first]]
    [] configuration \in {4, 8} -> Equal(configuration, size)
    [] OTHER -> <<>>

(* Configuration 2 with segment 0 fixed and slot 1 the default are written *)
(* into main for SPI; the configuration of a BPI board is the board's.     *)
DefaultSlot == 1
Layouts == IF Using("spi") THEN {Segments(2, Segment0, fdev.size)}
           ELSE {Segments(c, 0, fdev.size) : c \in {2, 4, 3}}

(* Without -r and -w the slot is not checked, and the start and length of  *)
(* a slot that is not there are what the stack holds.                      *)
AnySegment == {[offset |-> o, size |-> n] : o \in {0, SubsectorSize}, n \in {SubsectorSize}}

SelectSegment ==
  /\ pc = "segments"
  /\ \E layout \in Layouts :
       LET slot == IF opts.slot < 0 THEN DefaultSlot ELSE opts.slot
       IN  \/ /\ layout = <<>>
              /\ Goto("skip") /\ status' = -1 /\ UNCHANGED seg
           \/ /\ layout # <<>> /\ slot \notin DOMAIN layout
              /\ Wants("read") \/ Wants("write")
              /\ Fail /\ UNCHANGED seg
           \/ /\ layout # <<>>
              /\ slot \in DOMAIN layout \/ ~(Wants("read") \/ Wants("write"))
              /\ seg' \in IF slot \in DOMAIN layout THEN {layout[slot]}
                        ELSE IF Wants("erase") THEN AnySegment ELSE {NoSegment}
              /\ Goto(IF Wants("erase") THEN "confirmErase" ELSE "load") /\ UNCHANGED status
  /\ UNCHANGED <<flashVars, opts, buf, len, prog, port, runs>>

(* A prompt, which -y answers with yes; anything but yes ends main.        *)
Confirm(from, to) ==
  /\ pc = from
  /\ \E yes \in BOOLEAN : Goto(IF yes THEN to ELSE "err")
-----------------------------------------------------------------------------
(* The progress loops: erase, write, write with verification and read, in  *)
(* pieces that end at multiples of the step while more than one is left.   *)
StepOf(op) ==
  CASE op = "erase" -> Greatest(fdev.eraseBlock, Step)
    [] op \in {"write", "verify"} -> Greatest(fdev.writeBuffer, Step)
    [] op = "read" -> Step

Piece(p) ==
  IF p.remain <= StepOf(p.op) THEN p.remain
  ELSE StepOf(p.op) - ((p.addr + StepOf(p.op)) % StepOf(p.op))

Loop(op, addr, n, next) ==
  prog' = [op |-> op, addr |-> addr, remain |-> n, src |-> 0, asked |-> 0,
           attempts |-> 3, next |-> next]

DriverOp(op) == IF op = "verify" THEN "write" ELSE op

AskDriver ==
  /\ pc = "loop" /\ prog.remain > 0 /\ prog.asked = 0
  /\ prog' = [prog EXCEPT !.asked = Piece(prog)]
  /\ Dispatch(DriverOp(prog.op), prog.addr, Piece(prog), prog.src)
  /\ UNCHANGED <<cells, chip, fdev, opts, pc, status, seg, buf, len, port, runs>>

Returned == pc = "loop" /\ prog.asked > 0 /\ call = NoCall

(* A failure ends the loop and, but for a read, main.                      *)
PieceFails ==
  /\ Returned /\ ret # 0
  /\ prog' = NoProg
  /\ IF prog.op = "read" THEN Goto(prog.next) /\ UNCHANGED status ELSE Fail
  /\ UNCHANGED <<flashVars, opts, seg, buf, len, port, runs>>

Advanced == [prog EXCEPT !.addr = @ + prog.asked, !.remain = @ - prog.asked,
                         !.src = @ + prog.asked, !.asked = 0, !.attempts = 3]

PieceDone ==
  /\ Returned /\ ret = 0 /\ prog.op # "verify"
  /\ prog' = Advanced
  /\ UNCHANGED <<flashVars, opts, pc, status, seg, buf, len, port, runs>>

(* flash_write_verify_progress reads each piece four times, and the last   *)
(* reading is the one that counts; a read may go wrong on the way.         *)
ReadsBack == \A i \in 0 .. prog.asked - 1 : BpiReads(prog.addr + i) = buf[prog.src + i]

VerifyPiece ==
  /\ Returned /\ ret = 0 /\ prog.op = "verify"
  /\ \E good \in {ReadsBack} \cup (IF chip.kind \in WearOut THEN {FALSE} ELSE {}) :
       CASE prog.attempts > 0 ->
              /\ prog' = [prog EXCEPT !.attempts = @ - 1]
              /\ UNCHANGED <<pc, status>>
         [] prog.attempts = 0 /\ good ->
              /\ prog' = Advanced
              /\ UNCHANGED <<pc, status>>
         [] OTHER ->
              /\ prog' = NoProg
              /\ Fail
  /\ UNCHANGED <<flashVars, opts, seg, buf, len, port, runs>>

LoopEnds ==
  /\ pc = "loop" /\ prog.remain = 0
  /\ Goto(prog.next)
  /\ prog' = NoProg
  /\ UNCHANGED <<flashVars, opts, status, seg, buf, len, port, runs>>

ProgressStep == AskDriver \/ PieceFails \/ PieceDone \/ VerifyPiece \/ LoopEnds
-----------------------------------------------------------------------------
(* -e: the segment, after a prompt.                                        *)
StartErase ==
  /\ Confirm("confirmErase", "loop")
  /\ IF pc' = "loop" THEN Loop("erase", seg.offset, seg.size, "load") ELSE UNCHANGED prog
  /\ UNCHANGED <<flashVars, opts, status, seg, buf, len, port, runs>>

(* bitfile_parse: fields a to d are passed over, e holds the data, any     *)
(* other is an error.                                                      *)
Parses(header) ==
  \E e \in DOMAIN header :
    header[e] = "e" /\ \A k \in 1 .. e - 1 : header[k] \in {"a", "b", "c", "d"}

(* The length that an image gives and its byte i; what a .bit file claims  *)
(* beyond its end is whatever follows in memory.                           *)
Loads(f) ==
  /\ \/ f.kind = "bin"
     \/ f.kind = "bit" /\ Parses(f.header)
  /\ f.len <= seg.size
  /\ f.sync
ImageByte(f, i) == IF f.kind = "bit" /\ ~f.whole /\ i = f.len - 1 THEN Junk ELSE i + 1

ToBlockEnd(start, n) ==
  IF (start + n) % fdev.eraseBlock = 0 THEN n
  ELSE n + fdev.eraseBlock - ((start + n) % fdev.eraseBlock)

NothingToWrite ==
  /\ pc = "load" /\ ~Wants("write")
  /\ Goto("read")
  /\ UNCHANGED <<flashVars, opts, status, seg, buf, len, prog, port, runs>>

(* -w: the segment in memory is FF but for the image; the length to write  *)
(* is rounded up to the end of an erase block.                             *)
LoadFile ==
  /\ pc = "load" /\ Wants("write")
  /\ IF Loads(opts.file)
     THEN /\ buf' = [i \in 0 .. seg.size - 1 |->
                      IF i < opts.file.len THEN ImageByte(opts.file, i) ELSE FF]
          /\ len' = ToBlockEnd(seg.offset, opts.file.len)
          /\ Goto("confirmWrite")
          /\ UNCHANGED status
     ELSE Fail /\ UNCHANGED <<buf, len>>
  /\ UNCHANGED <<flashVars, opts, seg, prog, port, runs>>

StartWrite ==
  /\ Confirm("confirmWrite", "loop")
  /\ IF pc' = "loop" THEN Loop("erase", seg.offset, len, "program") ELSE UNCHANGED prog
  /\ UNCHANGED <<flashVars, opts, status, seg, buf, len, port, runs>>

(* SPI flash is written without verification; that is commented out, and   *)
(* the model keeps it for BPI flash.                                       *)
StartProgram ==
  /\ pc = "program"
  /\ Goto("loop")
  /\ \E op \in IF Using("spi") THEN {"write"} ELSE {"write", "verify"} :
       Loop(op, seg.offset, len, "programmed")
  /\ UNCHANGED <<flashVars, opts, status, seg, buf, len, port, runs>>

Succeeded ==
  /\ pc = "programmed"
  /\ Goto("read")
  /\ UNCHANGED <<flashVars, opts, status, seg, buf, len, prog, port, runs>>

(* -r: the segment, into a file whose name must not say .hex or .bit.      *)
StartRead ==
  /\ pc = "read"
  /\ IF Wants("read")
     THEN /\ Goto("loop")
          /\ buf' = [i \in 0 .. seg.size - 1 |-> FF]
          /\ Loop("read", seg.offset, seg.size, "save")
     ELSE Goto("skip") /\ UNCHANGED <<buf, prog>>
  /\ UNCHANGED <<flashVars, opts, status, seg, len, port, runs>>

ReadsAt(a) == IF Using("spi") THEN SpiReads(a) ELSE BpiReads(a)

DriverRead ==
  /\ SpiRead \/ BpiRead
  /\ buf' = [i \in DOMAIN buf |->
               IF i \in call.src .. call.src + call.len - 1
               THEN ReadsAt(call.addr + i - call.src) ELSE buf[i]]
  /\ UNCHANGED <<opts, pc, status, seg, len, prog, port, runs>>

SaveFile ==
  /\ pc = "save"
  /\ \E binary \in BOOLEAN : IF binary THEN Goto("skip") /\ UNCHANGED status ELSE Fail
  /\ UNCHANGED <<flashVars, opts, seg, buf, len, prog, port, runs>>

DriverStep ==
  /\ SpiStep(buf) \/ BpiStep(buf)
  /\ UNCHANGED toolVars
-----------------------------------------------------------------------------
(* skip_flash: an error stops a run that read or wrote; otherwise it is    *)
(* forgotten, the devices are released, and the boot or the reset follows. *)
SkipAnyway ==
  /\ pc = "skip"
  /\ status' = 0
  /\ Release
  /\ Goto(IF Wants("reset") THEN "confirmReset" ELSE "err")
  /\ UNCHANGED <<cells, chip, ret, opts, seg, buf, len, prog, port, runs>>

SkipFlash ==
  /\ pc = "skip"
  /\ IF status < 0 /\ (Wants("read") \/ Wants("write"))
     THEN Goto("err") /\ UNCHANGED <<status, fdev, call>>
     ELSE /\ status' = 0
          /\ Release
          /\ Goto(IF Wants("reset") THEN "confirmReset" ELSE "err")
  /\ UNCHANGED <<cells, chip, ret, opts, seg, buf, len, prog, port, runs>>

ConfirmReset ==
  /\ Confirm("confirmReset", "disableErr")
  /\ UNCHANGED <<flashVars, opts, status, seg, buf, len, prog, port, runs>>

(* The paths of the device and of its port are never set, so what they     *)
(* name is anyone's guess: found or not. A file that does not open passes  *)
(* the test !fd, since -1 is not 0, and the search of the list of          *)
(* capabilities then goes by what the stack holds: it stops, or it follows *)
(* the same two bytes for ever, as it does for a port that reads all ones. *)
DisableFatalErr ==
  /\ pc = "disableErr"
  /\ \E found \in BOOLEAN : port' = [port EXCEPT !.serr = @ /\ ~found]
  /\ Goto("iprog") \/ Goto("capabilities")
  /\ UNCHANGED <<flashVars, opts, status, seg, buf, len, prog, runs>>

TriggerBoot ==
  /\ pc = "iprog"
  /\ port' = [port EXCEPT !.iprog = Wants("boot")]
  /\ Goto("remove")
  /\ UNCHANGED <<flashVars, opts, status, seg, buf, len, prog, runs>>

RemoveDevice ==
  /\ pc = "remove"
  /\ \/ Fail /\ UNCHANGED port
     \/ Goto("rescan") /\ port' = [port EXCEPT !.online = FALSE] /\ UNCHANGED status
  /\ UNCHANGED <<flashVars, opts, seg, buf, len, prog, runs>>

(* Up to five hot resets and rescans. The device is found, or the rescan   *)
(* fails, or the next try follows; after the last the loop simply ends.    *)
HotResetForever ==
  /\ pc = "rescan"
  /\ \/ Goto("err") /\ port' = [port EXCEPT !.online = TRUE] /\ UNCHANGED status
     \/ Fail /\ UNCHANGED port
     \/ port' = [port EXCEPT !.tries = IF @ = 1 THEN Tries ELSE @ - 1] /\ UNCHANGED <<pc, status>>
  /\ UNCHANGED <<flashVars, opts, seg, buf, len, prog, runs>>

HotReset ==
  /\ pc = "rescan" /\ port.tries > 0
  /\ \/ Goto("err") /\ port' = [port EXCEPT !.online = TRUE] /\ UNCHANGED status
     \/ Fail /\ UNCHANGED port
     \/ port' = [port EXCEPT !.tries = @ - 1] /\ UNCHANGED <<pc, status>>
  /\ UNCHANGED <<flashVars, opts, seg, buf, len, prog, runs>>

NoTriesLeft ==
  /\ pc = "rescan" /\ port.tries = 0
  /\ Goto("err")
  /\ UNCHANGED <<flashVars, opts, status, seg, buf, len, prog, port, runs>>

Exit ==
  /\ pc = "err"
  /\ Goto("exit")
  /\ Release
  /\ UNCHANGED <<cells, chip, ret, opts, status, seg, buf, len, prog, port, runs>>

MainStep ==
  \/ OpenFlash \/ SelectSegment \/ StartErase \/ NothingToWrite \/ LoadFile \/ StartWrite
  \/ StartProgram \/ Succeeded \/ StartRead \/ SaveFile \/ SkipFlash \/ ConfirmReset
  \/ DisableFatalErr \/ TriggerBoot \/ RemoveDevice \/ HotReset \/ NoTriesLeft \/ Exit

(* The process is killed; the chip goes on with what it is busy with.      *)
Kill ==
  /\ MayBeKilled /\ pc # "exit"
  /\ pc' = "exit" /\ status' = -1 /\ prog' = NoProg
  /\ fdev' = Closed /\ call' = NoCall
  /\ UNCHANGED <<cells, chip, ret, opts, seg, buf, len, port, runs>>

(* The user types the same command again, or another one.                  *)
RunAgain ==
  /\ pc = "exit" /\ runs > 0
  /\ runs' = runs - 1
  /\ pc' = "open" /\ status' = 0 /\ ret' = 0
  /\ seg' = NoSegment /\ buf' = <<>> /\ len' = 0
  /\ port' = [online |-> TRUE, serr |-> TRUE, iprog |-> FALSE, tries |-> Tries]
  /\ opts' \in {opts} \cup LaterOptions
  /\ UNCHANGED <<cells, chip, fdev, call, prog>>

Chip == ChipDone /\ UNCHANGED toolVars

FirmwareNext ==
  MainStep \/ ProgressStep \/ DriverStep \/ DriverRead \/ Kill \/ RunAgain \/ Chip

FirmwareSpec == ToolInit /\ [][FirmwareNext]_firmwareVars

FairFirmwareSpec ==
  /\ FirmwareSpec
  /\ WF_firmwareVars(MainStep \/ ProgressStep \/ DriverStep \/ DriverRead)
  /\ WF_firmwareVars(Chip)
-----------------------------------------------------------------------------
FirmwareTypeOK ==
  /\ FlashTypeOK
  /\ opts \in Options /\ status \in {0, -1} /\ runs \in 0 .. Runs - 1
  /\ len \in 0 .. Cells /\ prog.remain \in 0 .. Cells
  /\ port.tries \in 0 .. Tries

(* The board keeps an image to fall back on: the chip is told to erase and *)
(* to program in the segment that was asked for and nowhere else, whatever *)
(* the length of the file and wherever an earlier run was killed.          *)
Touches(op) == IF op.op = "erase" THEN op.block ELSE DOMAIN op.data

SelectedOnly ==
  IsOpen /\ Waiting => Touches(chip.busy) \subseteq seg.offset .. seg.offset + seg.size - 1

(* "Programming succeeded!": the segment begins with the file and nothing  *)
(* of an older image follows it up to the end of the block.                *)
ProgrammedIsFile ==
  pc = "programmed" =>
    \A i \in 0 .. len - 1 :
      cells[seg.offset + i] = IF i < opts.file.len THEN ImageByte(opts.file, i) ELSE FF

(* The FPGA is told to boot only when no step has failed and the chip that *)
(* the run has opened is at rest; in the run that writes, it then holds    *)
(* the whole image.                                                        *)
BootsIntact ==
  pc = "remove" /\ port.iprog =>
    /\ status = 0
    /\ ret = 0 => ~Waiting
    /\ Wants("write") =>
         /\ ~Waiting
         /\ \A i \in 0 .. opts.file.len - 1 : cells[seg.offset + i] = ImageByte(opts.file, i)

(* Not so for a run that boots alone: the chip may be busy still with what *)
(* a killed run began, it then does not open, and skip_flash forgets that. *)
BootsAtRest == pc = "remove" /\ port.iprog => ~Waiting

(* Every run ends or comes to the list of capabilities of a port that is   *)
(* not there, although the waits for the chip have no timeout.             *)
ToolEnds == pc = "open" ~> pc \in {"exit", "capabilities"}

(* "Failed to open config region of port", return -1: a port whose file    *)
(* does not open is an error of one call, and the run ends with it or      *)
(* without.                                                                *)
EveryRunEnds == pc = "open" ~> pc = "exit"

(* "Requested slot is not valid": a slot that is not there is refused.     *)
(* main checks it for -r and -w and not for -e.                            *)
SlotIsChecked == pc = "confirmErase" => opts.slot < 2

(* "Rescan failed, device is offline!": the branch that says so cannot be  *)
(* reached, since tries is positive inside its loop.                       *)
OfflineIsAnError == pc = "exit" /\ status = 0 => port.online
=============================================================================
