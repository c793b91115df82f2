------------------------------ MODULE SpiFlash ------------------------------
(***************************************************************************)
(* flash_spi.c: the bit-banged SPI driver. It reads the chip's identity,   *)
(* programs page by page and erases by sectors and subsectors, waiting     *)
(* after each for the chip to be ready.                                    *)
(***************************************************************************)
EXTENDS FlashDevice, SequencesExt

CONSTANTS
  PageSize, SubsectorSize, SectorSize,
  Byte,          (* values of a byte of an address, 256 in the code        *)
  CapacityBits   (* log2 of the bytes that a cell stands for, less 6       *)

ASSUME SpiFlashAssumption ==
  /\ {PageSize, SubsectorSize, SectorSize, Byte} \subseteq Nat \ {0}
  /\ SubsectorSize % PageSize = 0 /\ SectorSize % SubsectorSize = 0
  /\ CapacityBits \in Nat

(* Bytes go out over 1, 2 or 4 wires, most significant bits first; a chip  *)
(* that listens with another number of wires takes another byte.           *)
Protocol == IF fdev.width = 4 THEN "quad" ELSE "str"
Lanes(protocol) == CASE protocol = "str" -> 1 [] protocol = "dual" -> 2 [] OTHER -> 4

Gather(groups, lanes) == FoldLeft(LAMBDA val, group : 2^lanes * val + group, 0, groups)

WriteByte(val, protocol) ==
  LET lanes == Lanes(protocol)
      n == 8 \div lanes
  IN  [i \in 1 .. n |-> (val \div 2^(lanes * (n - i))) % 2^lanes]

ReadByte(groups, protocol) == Gather(groups, Lanes(protocol))

ASSUME BytesSurviveTheWires ==
  \A val \in 0 .. 255, protocol \in {"str", "dual", "quad"} :
    ReadByte(WriteByte(val, protocol), protocol) = val

(* spi_flash_write_addr and _4b: the bytes of the address, the last one    *)
(* first, and the address as the chip puts it together from n of them.     *)
AddrBytes(addr) ==
  LET next == addr \div Byte
      third == next \div Byte
  IN  <<addr % Byte, next % Byte, third % Byte, (third \div Byte) % Byte>>
Decoded(bytes, n) ==
  bytes[1] + Byte * (bytes[2] + Byte * (bytes[3] + IF n = 4 THEN Byte * bytes[4] ELSE 0))

ShortReach == Byte * Byte * Byte
ShortAddress == 3
AddressLength == IF fdev.size > ShortReach THEN 4 ELSE 3
ChipAddress(addr) == Decoded(AddrBytes(addr), AddressLength)
-----------------------------------------------------------------------------
(* spi_flash_init. The third byte of the identity is the capacity, in BCD. *)
FromBcd(code) == (code % 16) + 10 * ((code \div 16) % 16)
SizeOf(code) == 2^(FromBcd(code) - CapacityBits)

(* Outcome of an open: no chip answers, or a device as the chip says.      *)
SpiOpen(width) ==
  /\ cells' = AbortedCells
  /\ chip' = [chip EXCEPT !.busy = Idle, !.wel = FALSE, !.quad = (width = 4)]
  /\ fdev' = IF ~chip.answers THEN Closed
             ELSE [driver |-> "spi", size |-> SizeOf(chip.code), width |-> width,
                   writeBuffer |-> PageSize, eraseBlock |-> SubsectorSize]
  /\ ret' = IF chip.answers THEN 0 ELSE -1
  /\ call' = NoCall

(* spi_flash_read: the whole of it goes over the wires in one command.     *)
SpiReads(a) == cells[ChipAddress(a)]

SpiRead ==
  /\ Using("spi") /\ InCall("read") /\ ~Waiting
  /\ CallReturns(0)
  /\ UNCHANGED <<cells, chip, fdev>>

(* spi_flash_erase: the larger block when it fits, else the smaller, else  *)
(* the request is refused, whatever has been erased by then.               *)
BlockAt(addr, len) ==
  IF addr % SectorSize = 0 /\ len >= SectorSize THEN SectorSize
  ELSE IF addr % SubsectorSize = 0 /\ len >= SubsectorSize THEN SubsectorSize
  ELSE 0

InvalidErase ==
  /\ Using("spi") /\ InCall("erase") /\ call.len > 0 /\ ~Waiting
  /\ BlockAt(call.addr, call.len) = 0
  /\ CallReturns(-1)
  /\ UNCHANGED <<cells, chip, fdev>>

(* Write enable, and the status register that must show it: a protected    *)
(* chip does not.                                                          *)
ToEnable ==
  /\ Using("spi") /\ call.op \in {"write", "erase"} /\ call.len > 0 /\ ~Waiting
  /\ InCall("erase") => BlockAt(call.addr, call.len) > 0
  /\ ~chip.wel

WriteEnableFails ==
  /\ ToEnable
  /\ CallReturns(-1)
  /\ UNCHANGED <<cells, chip, fdev>>

WriteEnable ==
  /\ ToEnable
  /\ chip' = [chip EXCEPT !.wel = TRUE]
  /\ UNCHANGED <<cells, fdev, call, ret>>

(* spi_flash_write: bytes up to the end of the page or of the data. A chip *)
(* that is sent more stays in the page.                                    *)
ToTheEnd == call.len
ToPageEnd == Least(call.len, PageSize - (call.addr % PageSize))

PageProgram(buf) ==
  LET first == ChipAddress(call.addr)
      page == first - (first % PageSize)
      cell(i) == page + ((first + i) % PageSize)
      count == ToPageEnd
      sent == [i \in 0 .. count - 1 |-> buf[call.src + i]]
  IN  /\ Using("spi") /\ InCall("write") /\ call.len > 0 /\ ~Waiting
      /\ chip.wel
      /\ chip' = [chip EXCEPT !.wel = FALSE,
                    !.busy = [op |-> "program",
                              data |-> [a \in {cell(i) : i \in 0 .. count - 1} |->
                                          sent[CHOOSE i \in 0 .. count - 1 : cell(i) = a]]]]
      /\ call' = [call EXCEPT !.addr = @ + count, !.len = @ - count, !.src = @ + count]
      /\ UNCHANGED <<cells, fdev, ret>>

BlockErase ==
  LET size == BlockAt(call.addr, call.len)
      first == ChipAddress(call.addr)
  IN  /\ Using("spi") /\ InCall("erase") /\ call.len > 0 /\ ~Waiting
      /\ size > 0
      /\ chip.wel
      /\ chip' = [chip EXCEPT !.wel = FALSE,
                    !.busy = [op |-> "erase",
                              block |-> {a \in Addresses : a \div size = first \div size}]]
      /\ call' = [call EXCEPT !.addr = @ + size, !.len = @ - Least(size, @)]
      /\ UNCHANGED <<cells, fdev, ret>>

SpiReturns ==
  /\ Using("spi") /\ call.op \in {"write", "erase"} /\ call.len = 0 /\ ~Waiting
  /\ CallReturns(0)
  /\ UNCHANGED <<cells, chip, fdev>>

SpiStep(buf) ==
  \/ WriteEnableFails \/ WriteEnable
  \/ PageProgram(buf)
  \/ InvalidErase \/ BlockErase
  \/ SpiReturns
=============================================================================
