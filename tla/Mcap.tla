-------------------------------- MODULE Mcap --------------------------------
(***************************************************************************)
(* mcap.c and mcap_lib.c: resets, readback and programming of the FPGA     *)
(* through the configuration port (MCAP) in the PCIe block. Every access   *)
(* of a register is a step; between two of them the configuration logic    *)
(* changes the status by itself.                                           *)
(***************************************************************************)
EXTENDS McapFile

CONSTANTS
  Commands,     (* what the tool may be run for: sequences of [op, file]   *)
  LoopCount,    (* MCAP_LOOP_COUNT                                         *)
  EosRetries,   (* EMCAP_EOS_RETRY_COUNT                                   *)
  Faults        (* what may go wrong: "req", "err", "refuse"               *)

Resets == {"reset", "modreset", "fullreset"}
Programs == {"partial", "full"}

(* main runs one function, or a clear file and the full bitstream.         *)
ASSUME McapAssumption ==
  /\ {LoopCount, EosRetries} \subseteq Nat \ {0}
  /\ Faults \subseteq {"req", "err", "refuse"}
  /\ \A s \in Commands :
       /\ s \in Seq({s[k] : k \in DOMAIN s}) /\ Len(s) <= 2
       /\ \A k \in DOMAIN s : s[k].op \in Resets \cup Programs \cup {"read"}
       /\ Len(s) = 2 => s[1].op = "partial"

VARIABLES
  control,    (* the bits of CONTROL that are set                          *)
  sts,        (* the bits of STATUS that are set                           *)
  fpga,       (* the words it has taken from the function that runs        *)
  todo,       (* what main has still to do                                 *)
  op,         (* the library's function that runs                          *)
  at,         (* where it is                                               *)
  restore,    (* the CONTROL it has saved                                  *)
  loop,       (* its loop counter                                          *)
  words,      (* data still to be written                                  *)
  multi,      (* mdev->is_multiplebit                                      *)
  result,     (* what the last function has returned                       *)
  undone,     (* an earlier function of this command has not done its work *)
  ungranted   (* the function goes on although the request is still there  *)

portVars == <<control, sts, fpga>>
past == <<undone, ungranted>>
mcapVars == <<portVars, todo, op, at, restore, loop, words, multi, result, past>>

Taken == {"MODE", "IN_USE"}
WriteBits == Taken \cup {"DATA_REG_PROT"}
ResetBits(o) ==
  CASE o = "reset" -> {"RESET"}
    [] o = "modreset" -> {"MOD_RESET"}
    [] OTHER -> {"RESET", "MOD_RESET"}

At(from, to) == at = from /\ at' = to

McapInit ==
  /\ control \in {{}, {"DESIGN_SWITCH"}}
  /\ sts \in SUBSET {"REQ", "EOS"}
  /\ fpga = <<>>
  /\ todo \in Commands
  /\ op = "none" /\ at = "main"
  /\ restore = {} /\ loop = 0 /\ words = <<>>
  /\ multi = (Len(todo) > 1)
  /\ result = 0 /\ undone = FALSE /\ ungranted = FALSE
-----------------------------------------------------------------------------
(* The configuration logic. It gives the port up some time after it sees   *)
(* IN_USE, or never; it starts up some time after the last word.           *)
GrantPort ==
  /\ "REQ" \in sts /\ "IN_USE" \in control
  /\ sts' = sts \ {"REQ"}
  /\ UNCHANGED <<control, fpga, todo, op, at, restore, loop, words, multi, result, past>>

StartUp ==
  /\ at = "eos" /\ fpga # <<>>
  /\ sts' = sts \cup {"EOS"}
  /\ UNCHANGED <<control, fpga, todo, op, at, restore, loop, words, multi, result, past>>

Write(value) ==
  /\ control' = value
  /\ UNCHANGED <<sts, fpga>>
-----------------------------------------------------------------------------
(* main, and MCapConfigureFPGA up to the call that writes: a file that     *)
(* cannot be opened, or that holds nothing, ends it with an error, one of  *)
(* an unknown format ends it with 0 and nothing written.                   *)
Usable(file) == Len(Load(file)) > 0

StartCommand ==
  /\ at = "main" /\ todo # <<>>
  /\ LET cmd == Head(todo) IN
       IF cmd.op \in Programs /\ ~Usable(cmd.file)
       THEN /\ at' = "return"
            /\ op' = IF cmd.file.kind = "other" THEN "none" ELSE cmd.op
            /\ result' = IF cmd.file.kind = "other" THEN 0 ELSE -1
            /\ UNCHANGED words
       ELSE /\ at' = "request"
            /\ op' = cmd.op
            /\ words' = IF cmd.op \in Programs THEN Load(cmd.file) ELSE <<>>
            /\ UNCHANGED result
  /\ fpga' = <<>>
  /\ UNCHANGED <<control, sts, todo, restore, loop, multi, past>>

(* main goes on to the next command whatever a function has returned.      *)
Return ==
  /\ At("return", "main")
  /\ todo' = Tail(todo)
  /\ op' = "none" /\ words' = <<>>
  /\ undone' = (undone \/ result # 0 \/ op = "none")
  /\ UNCHANGED <<portVars, restore, loop, multi, result, ungranted>>

ReturnWith(r) == at' = "return" /\ result' = r
-----------------------------------------------------------------------------
(* MCapClearRequestByConfigure. The poll ends with loop at 0 when the      *)
(* request is gone at the last look, and at -1 when it never goes.         *)
SaveControl ==
  /\ at = "request"
  /\ restore' = control
  /\ loop' = LoopCount
  /\ at' = IF "REQ" \in sts THEN "take" ELSE "begin"
  /\ ungranted' = FALSE
  /\ UNCHANGED <<portVars, todo, op, words, multi, result, undone>>

TakePort ==
  /\ At("take", "poll")
  /\ Write(control \cup Taken)
  /\ UNCHANGED <<todo, op, restore, loop, words, multi, result, past>>

PollForever ==
  /\ at = "poll"
  /\ at' = IF "REQ" \in sts THEN "poll" ELSE "polled"
  /\ UNCHANGED <<portVars, todo, op, restore, loop, words, multi, result, past>>

PollRequest ==
  /\ at = "poll"
  /\ IF "REQ" \in sts
     THEN /\ loop' = loop - 1
          /\ at' = IF loop = 0 THEN "polled" ELSE "poll"
     ELSE at' = "polled" /\ UNCHANGED loop
  /\ UNCHANGED <<portVars, todo, op, restore, words, multi, result, past>>

KeepsPort ==
  /\ at = "polled" /\ loop = 0
  /\ ReturnWith(-1)
  /\ UNCHANGED <<portVars, todo, op, restore, loop, words, multi, past>>

RequestFails ==
  /\ at = "polled" /\ loop = 0
  /\ Write(restore)
  /\ ReturnWith(-1)
  /\ UNCHANGED <<todo, op, restore, loop, words, multi, past>>

RequestCleared ==
  /\ loop # 0
  /\ At("polled", "begin")
  /\ ungranted' = ("REQ" \in sts)
  /\ UNCHANGED <<portVars, todo, op, restore, loop, words, multi, result, undone>>
-----------------------------------------------------------------------------
(* MCapReset, MCapModuleReset and MCapFullReset. The FPGA may refuse the   *)
(* bits. A full reset after a failed write returns to the writer.          *)
AssertReset ==
  /\ op \in Resets
  /\ At("begin", "isReset")
  /\ \E taken \in {ResetBits(op)} \cup (IF "refuse" \in Faults THEN {{}} ELSE {}) :
       Write(control \cup Taken \cup taken)
  /\ UNCHANGED <<todo, op, restore, loop, words, multi, result, past>>

CheckReset ==
  /\ op \in Resets
  /\ at = "isReset"
  /\ control' = restore
  /\ ReturnWith(IF Head(todo).op \in Programs \/ "ERR" \in sts \/ ~(ResetBits(op) \subseteq control)
                THEN -1 ELSE 0)
  /\ sts' = IF "RESET" \in control THEN sts \ {"ERR", "OVERFLOW"} ELSE sts
  /\ UNCHANGED <<fpga, todo, op, restore, loop, words, multi, past>>
-----------------------------------------------------------------------------
(* MCapReadDataRegisters.                                                  *)
AskRead ==
  /\ op = "read"
  /\ At("begin", "isRead")
  /\ control' = (control \cup Taken \cup {"REG_READ"}) \ {"RESET", "MOD_RESET"}
  /\ sts' \in {sts, sts \cup {"CMP"}}
  /\ UNCHANGED <<fpga, todo, op, restore, loop, words, multi, result, past>>

(* Nothing to read is a positive code, which the dump passes over.         *)
CheckRead ==
  /\ op = "read"
  /\ at = "isRead"
  /\ control' = restore
  /\ sts' = sts \ {"CMP"}
  /\ ReturnWith(IF "CMP" \notin sts THEN 1
                ELSE IF {"ERR", "OVERFLOW"} \cap sts # {} THEN -1 ELSE 0)
  /\ UNCHANGED <<fpga, todo, op, restore, loop, words, multi, past>>
-----------------------------------------------------------------------------
(* MCapWritePartialBitStream and MCapWriteBitStream. After a clear file    *)
(* the full one leaves CONTROL as the clear file has set it.               *)
WriteRefused ==
  /\ op \in Programs /\ at = "begin"
  /\ sts \cap {"ERR", "CMP", "OVERFLOW"} # {}
  /\ Write(restore)
  /\ ReturnWith(-1)
  /\ UNCHANGED <<todo, op, restore, loop, words, multi, past>>

SetSomeBits ==
  /\ op \in Programs
  /\ sts \cap {"ERR", "CMP", "OVERFLOW"} = {}
  /\ At("begin", "data")
  /\ IF op = "partial"
     THEN Write((control \cup WriteBits) \ {"RESET", "MOD_RESET", "REG_READ", "DESIGN_SWITCH"})
     ELSE UNCHANGED portVars
  /\ UNCHANGED <<todo, op, restore, loop, words, multi, result, past>>

SetWriteMode ==
  /\ op \in Programs
  /\ sts \cap {"ERR", "CMP", "OVERFLOW"} = {}
  /\ At("begin", "data")
  /\ IF op = "partial" \/ ~multi
     THEN Write((control \cup WriteBits) \ {"RESET", "MOD_RESET", "REG_READ", "DESIGN_SWITCH"})
     ELSE UNCHANGED portVars
  /\ UNCHANGED <<todo, op, restore, loop, words, multi, result, past>>

(* The configuration logic takes a word in write mode, from the port that  *)
(* it has given up; any other is lost without a trace. A word that is      *)
(* taken begins a configuration, and EOS is low until it has started up.   *)
WriteWord ==
  /\ op \in Programs /\ at = "data" /\ words # <<>>
  /\ words' = Tail(words)
  /\ LET taken == WriteBits \subseteq control /\ "REQ" \notin sts
         now == IF taken THEN sts \ {"EOS"} ELSE sts
     IN  /\ fpga' = IF taken THEN Append(fpga, Head(words)) ELSE fpga
         /\ sts' \in {now} \cup (IF "err" \in Faults THEN {now \cup {"ERR"}, now \cup {"OVERFLOW"}}
                                 ELSE {})
  /\ UNCHANGED <<control, todo, op, at, restore, loop, multi, result, past>>

(* Checkforcompletion follows a full bitstream, no-ops alone a partial one.*)
AllWritten ==
  /\ op \in Programs /\ at = "data" /\ words = <<>>
  /\ at' = IF op = "full" THEN "eos" ELSE "check"
  /\ loop' = 0
  /\ UNCHANGED <<portVars, todo, op, restore, words, multi, result, past>>

WaitForEos ==
  /\ at = "eos"
  /\ IF "EOS" \in sts
     THEN at' = "check" /\ UNCHANGED <<loop, result>>
     ELSE /\ loop' = loop + 1
          /\ IF loop + 1 > EosRetries THEN ReturnWith(-1) ELSE UNCHANGED <<at, result>>
  /\ UNCHANGED <<portVars, todo, op, restore, words, multi, past>>

WriteFails ==
  /\ op \in Programs /\ at = "check"
  /\ sts \cap {"ERR", "OVERFLOW"} # {}
  /\ Write(restore)
  /\ op' = "fullreset" /\ at' = "request"
  /\ UNCHANGED <<todo, restore, loop, words, multi, result, past>>

WriteDone ==
  /\ op \in Programs /\ at = "check"
  /\ sts \cap {"ERR", "OVERFLOW"} = {}
  /\ IF op = "full" THEN Write(restore \cup {"DESIGN_SWITCH"}) ELSE UNCHANGED portVars
  /\ ReturnWith(0)
  /\ UNCHANGED <<todo, op, restore, loop, words, multi, past>>
-----------------------------------------------------------------------------
Library ==
  \/ SaveControl \/ TakePort \/ PollRequest \/ RequestFails \/ RequestCleared
  \/ AssertReset \/ CheckReset
  \/ AskRead \/ CheckRead
  \/ WriteRefused \/ SetWriteMode \/ WriteWord \/ AllWritten \/ WaitForEos
  \/ WriteFails \/ WriteDone

McapNext == StartCommand \/ Return \/ Library \/ GrantPort \/ StartUp

FairMcapSpec ==
  /\ McapInit /\ [][McapNext]_mcapVars
  /\ WF_mcapVars(StartCommand \/ Return \/ Library)
  /\ "req" \in Faults \/ WF_mcapVars(GrantPort)
-----------------------------------------------------------------------------
Exited == at = "main" /\ todo = <<>>

(* Words go to the data register only while the port is in MCAP mode, in   *)
(* use and protected; a word that meets another mode is lost without an    *)
(* error. It happens after a clear file that has failed: the full          *)
(* bitstream then counts on a mode that the clear file has not left.       *)
DataInWriteMode ==
  at = "data" /\ words # <<>> =>
    WriteBits \subseteq control \/ (op = "full" /\ multi /\ undone)

(* The port is given back to the configuration logic at the end of every   *)
(* function, failed or not. It is kept by a clear file, by the bitstream   *)
(* that follows one, and when the FPGA does not start up.                  *)
EosTimeout == op = "full" /\ loop > EosRetries /\ result # 0
PortGivenBack ==
  at = "return" /\ ~multi /\ op # "partial" /\ ~EosTimeout => control \cap Taken = {}

(* "FPGA Configuration Done!!": the configuration logic shows no error,    *)
(* has started up after a full bitstream, and has the words of the file,   *)
(* all of them and nothing else. It has none of them when a clear file has *)
(* failed before, whose return main does not look at, and only the last    *)
(* ones when it gives the port up late, after the request for it has been  *)
(* said to be gone.                                                        *)
EndsWith(seq, end) ==
  Len(end) <= Len(seq) /\ SubSeq(seq, Len(seq) - Len(end) + 1, Len(seq)) = end

DoneIsConfigured ==
  at = "return" /\ op \in Programs /\ result = 0 =>
    LET payload == Head(todo).file.payload IN
      /\ sts \cap {"ERR", "OVERFLOW"} = {}
      /\ op = "full" => "EOS" \in sts
      /\ EndsWith(payload, fpga)
      /\ ~ungranted => fpga = payload \/ (undone /\ fpga = <<>>)

(* "FPGA Configuration Done!!", as the tool says it: where the port has    *)
(* been given up, the FPGA has the file.                                   *)
DoneMeansTaken ==
  at = "return" /\ op \in Programs /\ result = 0 /\ ~ungranted =>
    fpga = Head(todo).file.payload

(* Every command ends, although the configuration logic may keep the port, *)
(* refuse a reset or never start up.                                       *)
CommandsEnd == <>Exited

(* "Failed to clear MCAP Request by config bit": a request that stays is   *)
(* an error. The loop counter is -1 then, and the test is for 0.           *)
RequestIsCleared == at = "begin" => "REQ" \notin sts
=============================================================================
