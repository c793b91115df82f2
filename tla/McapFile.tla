------------------------------ MODULE McapFile ------------------------------
(***************************************************************************)
(* The readers of programming files in mcap_lib.c: what .rbt, .bit and     *)
(* .bin files become in memory. A byte is "F" (0xFF, of which the sync     *)
(* word is made) or anything else.                                         *)
(***************************************************************************)
EXTENDS Integers, Sequences, FiniteSetsExt

CONSTANTS
  WordBytes,    (* bytes of a word, 4 in the code                          *)
  U8            (* values of a u8, 256 in the code                         *)

ASSUME McapFileAssumption == {WordBytes, U8} \subseteq Nat \ {0}

F == "F"
Garbage == "garbage"
SyncWord == [i \in 1 .. WordBytes |-> F]

(* Words from byte first on, count of them; a byte that the file has not   *)
(* is whatever the buffer held.                                            *)
ByteAt(bytes, i) == IF i \in DOMAIN bytes THEN bytes[i] ELSE Garbage
Words(bytes, first, count) ==
  [w \in 1 .. count |->
     [b \in 1 .. WordBytes |-> ByteAt(bytes, first + (w - 1) * WordBytes + b - 1)]]

(* MCapProcessBIT: the bytes up to the end of the first sync word, counted *)
(* in a u8, and what follows them.                                         *)
SyncEnds(bytes) ==
  {i \in WordBytes .. Len(bytes) : \A k \in 0 .. WordBytes - 1 : bytes[i - k] = F}

(* The header is read past but not taken off the length.                  *)
UncountedLen(n) == 0
CountedLen(n) == n % U8

ProcessBit(bytes) ==
  IF SyncEnds(bytes) = {} THEN <<>>
  ELSE LET end == Min(SyncEnds(bytes))
           size == Len(bytes) - CountedLen(end)
       IN  <<SyncWord>> \o Words(bytes, end + 1, size \div WordBytes)

(* MCapProcessBIN: the whole file.                                         *)
ProcessBin(bytes) == Words(bytes, 1, Len(bytes) \div WordBytes)

(* MCapProcessRBT: a line of 32 digits is a word; a line is passed over    *)
(* when its first two characters are neither a 1 nor, after it, a 0.       *)
PassedOver(line) == line[1] # "1" /\ line[2] # "0"
ProcessRbt(lines) == SelectSeq(lines, LAMBDA line : ~PassedOver(line))

(* The kind of a file goes by its name; the words are swapped but for .rbt.*)
Load(file) ==
  CASE file.kind = "bit" -> ProcessBit(file.bytes)
    [] file.kind = "bin" -> ProcessBin(file.bytes)
    [] file.kind = "rbt" -> ProcessRbt(file.bytes)
    [] OTHER -> <<>>
=============================================================================
