------------------------------ MODULE BpiFlash ------------------------------
(***************************************************************************)
(* flash_bpi.c: the driver of parallel flash. It asks the chip for its     *)
(* command set and geometry (CFI), erases block by block, programs through *)
(* the chip's write buffer and polls its status. Addresses on the bus are  *)
(* those of 16-bit words, two cells each.                                  *)
(***************************************************************************)
EXTENDS FlashDevice, Sequences

CommandSets == {"intel", "amd", "micron"}

(* The chip answers reads with its array or its status; an Intel chip may  *)
(* be in synchronous mode, an AMD chip that has failed toggles: neither    *)
(* answers the query before it is switched back.                           *)
ArrayMode == "array"

(* bpi_flash_deselect writes READ_ARRAY, which a toggling chip ignores.    *)
Deselected(c) == IF c.mode = "abort" THEN c ELSE [c EXCEPT !.mode = ArrayMode]

BpiReturn(r) == CallReturns(r) /\ chip' = Deselected(chip)
-----------------------------------------------------------------------------
(* bpi_flash_init asks up to three times: as the chip stands, after the    *)
(* switch to asynchronous reads, and after the reset of an AMD chip whose  *)
(* lines toggle.                                                           *)
AnswersQuery(c) == c.answers /\ c.mode \notin {"sync", "abort"}

MadeAsync(c) ==
  IF ~AnswersQuery(c) /\ c.set = "intel" THEN [c EXCEPT !.mode = ArrayMode] ELSE c
AbortReset(c) ==
  IF ~AnswersQuery(c) /\ c.mode = "abort" THEN [c EXCEPT !.mode = ArrayMode, !.err = FALSE] ELSE c
Queried(c) == AbortReset(MadeAsync(c))

EraseBlock(regions) ==
  LET sizes == {regions[k].size : k \in DOMAIN regions}
  IN  CHOOSE s \in sizes : \A t \in sizes : t <= s

(* The regions follow one another from address 0.                          *)
RegionStart(regions, k) == IF k = 1 THEN 0 ELSE regions[1].count * regions[1].size
RegionEnd(regions, k) == RegionStart(regions, k) + regions[k].count * regions[k].size

(* The init of the command set: it clears the status register of an Intel  *)
(* or Micron chip and resets an AMD chip.                                  *)
OpsInit(c) == [c EXCEPT !.err = FALSE, !.mode = ArrayMode]

(* A chip that is busy with what a killed run began answers with its       *)
(* status and takes none of the writes; it does not open.                  *)
BpiOpen ==
  LET asked == Queried(chip)
      usable == /\ ~Waiting
                /\ AnswersQuery(asked) /\ asked.set \in CommandSets /\ Len(asked.regions) > 0
  IN  /\ chip' = IF Waiting THEN chip ELSE IF usable THEN OpsInit(asked) ELSE Deselected(asked)
      /\ fdev' = IF ~usable THEN Closed
                 ELSE [driver |-> "bpi", size |-> chip.size, writeBuffer |-> chip.buffer,
                       eraseBlock |-> EraseBlock(chip.regions), regions |-> chip.regions]
      /\ ret' = IF usable THEN 0 ELSE -1
      /\ call' = NoCall
      /\ UNCHANGED cells

(* bpi_flash_read: the array by words, the bytes at either end by halves.  *)
ByteAddress(a) == a
WordOf(a) == a \div 2
HalfOf(word, odd) == cells[2 * word + odd]
BpiReads(a) == HalfOf(WordOf(a), a % 2)

BpiRead ==
  /\ Using("bpi") /\ InCall("read") /\ ~Waiting
  /\ BpiReturn(0)
  /\ UNCHANGED <<cells, fdev>>
-----------------------------------------------------------------------------
(* bpi_flash_write: up to the end of the write buffer's window, by words.  *)
Segment ==
  Least(call.len, fdev.writeBuffer - (call.addr % fdev.writeBuffer))

BufferedProgram(buf) ==
  LET words == Segment \div 2
      first == WordOf(call.addr)
      programmed == {2 * (first + i) + odd : i \in 0 .. words - 1, odd \in {0, 1}}
  IN  /\ Using("bpi") /\ InCall("write") /\ call.len > 0
      /\ ~Waiting /\ call.step = "start"
      /\ chip' = [chip EXCEPT !.mode = "status",
                    !.busy = [op |-> "program",
                              data |-> [a \in programmed |-> buf[call.src + a - 2 * first]]]]
      /\ call' = [call EXCEPT !.step = "check"]
      /\ UNCHANGED <<cells, fdev, ret>>

(* bpi_flash_erase: the region of the address gives the size of its block. *)
RegionsAt(addr) ==
  {k \in DOMAIN fdev.regions :
     RegionStart(fdev.regions, k) <= addr /\ addr < RegionEnd(fdev.regions, k)}
BlockSize(addr) == fdev.regions[CHOOSE k \in RegionsAt(addr) : TRUE].size

EraseRefused ==
  /\ Using("bpi") /\ InCall("erase") /\ call.len > 0
  /\ ~Waiting /\ call.step = "start"
  /\ \/ RegionsAt(call.addr) = {}
     \/ call.addr % BlockSize(call.addr) # 0
     \/ call.len < BlockSize(call.addr)
  /\ BpiReturn(-1)
  /\ UNCHANGED <<cells, fdev>>

(* An Intel or Micron block is unlocked first. The status read after that  *)
(* tells of a block locked for good, and of any earlier error, since only  *)
(* the init clears it.                                                     *)
Unlocks == chip.set \in {"intel", "micron"}

CanErase ==
  /\ Using("bpi") /\ InCall("erase") /\ call.len > 0
  /\ ~Waiting /\ call.step = "start"
  /\ RegionsAt(call.addr) # {}
  /\ call.addr % BlockSize(call.addr) = 0
  /\ call.len >= BlockSize(call.addr)

SectorUnlockFails ==
  /\ CanErase
  /\ Unlocks
  /\ chip.err \/ chip.kind \in WearOut
  /\ CallReturns(-1)
  /\ chip' = [Deselected(chip) EXCEPT !.err = TRUE]
  /\ UNCHANGED <<cells, fdev>>

SectorErase ==
  LET size == BlockSize(call.addr)
      first == 2 * WordOf(call.addr)
  IN  /\ CanErase
      /\ Unlocks => ~chip.err
      /\ chip' = [chip EXCEPT !.mode = "status",
                    !.busy = [op |-> "erase", block |-> first .. first + size - 1]]
      /\ call' = [call EXCEPT !.step = "check"]
      /\ UNCHANGED <<cells, fdev, ret>>

(* The status when the chip is ready. A failed AMD operation is reset, so  *)
(* its error ends with it; that of the others stays until the next init.   *)
StatusFails ==
  /\ Using("bpi") /\ call.op \in {"write", "erase"} /\ call.step = "check" /\ ~Waiting
  /\ chip.err
  /\ CallReturns(-1)
  /\ chip' = [chip EXCEPT !.mode = ArrayMode, !.err = chip.set # "amd"]
  /\ UNCHANGED <<cells, fdev>>

StatusGood ==
  LET count == IF InCall("write") THEN Segment ELSE BlockSize(call.addr)
  IN  /\ Using("bpi") /\ call.op \in {"write", "erase"} /\ call.step = "check" /\ ~Waiting
      /\ ~chip.err
      /\ call' = [call EXCEPT !.addr = @ + count, !.len = @ - count, !.src = @ + count,
                              !.step = "start"]
      /\ UNCHANGED <<cells, chip, fdev, ret>>

BpiReturns ==
  /\ Using("bpi") /\ call.op \in {"write", "erase"} /\ call.len = 0
  /\ BpiReturn(0)
  /\ UNCHANGED <<cells, fdev>>

BpiStep(buf) ==
  \/ BufferedProgram(buf)
  \/ EraseRefused \/ SectorUnlockFails \/ SectorErase
  \/ StatusFails \/ StatusGood
  \/ BpiReturns
=============================================================================
