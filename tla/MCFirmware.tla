----------------------------- MODULE MCFirmware -----------------------------
(***************************************************************************)
(* Firmware with files that fit, that end inside a block, that are too     *)
(* large, that have no sync word, and .bit files with and without errors.  *)
(***************************************************************************)
EXTENDS Firmware

MCFile(kind, n, sync, whole, header) ==
  [kind |-> kind, len |-> n, sync |-> sync, whole |-> whole, header |-> header]

GoodHeader == <<"a", "b", "c", "d", "e">>

MCFiles ==
  {MCFile("bin", n, TRUE, TRUE, <<>>) : n \in {5, 16, 17}} \cup
  {MCFile("bin", 3, FALSE, TRUE, <<>>), MCFile("hex", 3, TRUE, TRUE, <<>>),
   MCFile("bit", 7, TRUE, TRUE, GoodHeader), MCFile("bit", 7, TRUE, FALSE, GoodHeader),
   MCFile("bit", 7, TRUE, TRUE, <<"a", "x", "e">>)}

(* 0x18, 0x19 and 0x20: a chip smaller than segment 0, one of its size and *)
(* one of two segments.                                                    *)
MCSpiCodes == {0, 24, 25, 32}
MCAsked == {{"erase"}, {"write"}, {"read"}, {"boot"}, {"write", "boot"}, {"erase", "reset"}}
MCReruns == {{"boot"}}
MCSlots == {-1, 0, 2}
=============================================================================
