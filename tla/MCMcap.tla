------------------------------- MODULE MCMcap -------------------------------
(***************************************************************************)
(* Mcap with two-byte words and a u8 of 8 values. Headers of a .bit file   *)
(* have no byte of the sync word at their end and fit the u8; the lines of *)
(* an .rbt file that hold a word begin with 1 or with 00.                  *)
(***************************************************************************)
EXTENDS Mcap

MCFile(kind, bytes, payload) == [kind |-> kind, bytes |-> bytes, payload |-> payload]
MCData1 == <<"a", "b">>
MCData2 == <<"c", "d">>
MCBin == MCFile("bin", SyncWord \o MCData1 \o MCData2, <<SyncWord, MCData1, MCData2>>)
MCBit(header) ==
  MCFile("bit", header \o SyncWord \o MCData1 \o MCData2, <<SyncWord, MCData1, MCData2>>)
MCLine(a, b) == <<a, b, "rest">>
MCRbt(first) ==
  MCFile("rbt", <<MCLine("X", "i"), first, MCLine("0", "0")>>, <<first, MCLine("0", "0")>>)
Broken == {MCFile("none", <<>>, <<>>), MCFile("other", <<>>, <<>>), MCFile("bit", <<"h", "h">>, <<>>)}

MCFiles == {MCBin, MCBit(<<"h", F, "h">>), MCBit(<<"h">>), MCRbt(MCLine("1", "0"))} \cup Broken

Command(o, f) == [op |-> o, file |-> f]
MCCommands ==
  {<<Command(o, MCBin)>> : o \in Resets \cup {"read"}}
  \cup {<<Command(o, f)>> : o \in Programs, f \in MCFiles}
  \cup {<<Command("partial", f), Command("full", g)>> : f \in {MCBin} \cup Broken, g \in {MCBin, MCBit(<<"h">>)}}

(* A line that begins with 01, as that of a packet of type 2 does, and a   *)
(* header as long as the u8 has values.                                    *)
MCType2 == {<<Command("full", MCRbt(MCLine("0", "1")))>>}
MCLongHeader == {<<Command("full", MCBit([i \in 1 .. U8 |-> "h"]))>>}
=============================================================================
