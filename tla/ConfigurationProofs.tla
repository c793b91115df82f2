----------------------- MODULE ConfigurationProofs -----------------------
(***************************************************************************)
(* Proofs about the two ways to configure the FPGA. The MCAP tool, for     *)
(* every sequence of commands, bounds of its loops and faults of the       *)
(* configuration logic: words go out in write mode, the port is given back *)
(* and "Done" is said of a configured FPGA. The firmware tool: what it     *)
(* erases and writes lies in the segment asked for, and a segment said to  *)
(* be programmed holds the file.                                           *)
(***************************************************************************)
EXTENDS Mcap, Firmware, SequenceTheorems, TLAPS

(* The first command runs, or is the next one to run. *)
First == Len(todo) = IF multi THEN 2 ELSE 1
Ops == Resets \cup Programs \cup {"read"}
Item == UNION {{s[k] : k \in DOMAIN s} : s \in Commands}

(* Where a function is from its request for the port to its return. *)
Asking == {"request", "take", "poll", "polled", "begin"}
Working == {"isReset", "isRead", "data", "eos", "check"}

(* The command that runs, and the function that runs for it: a full reset  *)
(* may follow a failed write.                                              *)
Running ==
  /\ todo \in Seq(Item) /\ Len(todo) <= (IF multi THEN 2 ELSE 1) /\ multi \in BOOLEAN
  /\ at \in {"main", "return"} \cup Asking \cup Working
  /\ \A k \in DOMAIN todo : todo[k].op \in Ops
  /\ multi /\ First => todo[1].op = "partial"
  /\ First => ~undone
  /\ undone \in BOOLEAN
  /\ at # "main" => todo # <<>> /\ op \in {todo[1].op, "fullreset", "none"}
  /\ at \notin {"main", "return"} => op # "none"
  /\ at = "return" /\ op = "none" => result = 0
  /\ at \in {"data", "check"} => op \in Programs
  /\ at = "eos" => op = "full"

(* A function that works has seen the request go, or does not know that it *)
(* has not.                                                                *)
Granted == at \in {"begin"} \cup Working /\ "REQ" \in sts => ungranted

(* The port is in write mode while words go out, and from a clear file     *)
(* that has been written to the bitstream that follows it.                 *)
WriteMode ==
  /\ at \in {"data", "eos", "check"} => WriteBits \subseteq control \/ (op = "full" /\ multi /\ undone)
  /\ at = "return" /\ op = "partial" /\ result = 0 => WriteBits \subseteq control
  /\ at = "return" /\ op = "fullreset" /\ todo[1].op = "partial" => result # 0
  /\ (at = "main" \/ (at \in Asking /\ op = "full")) /\ multi /\ ~First /\ ~undone /\ todo # <<>>
       => WriteBits \subseteq control

(* The CONTROL that a function has saved, and has not left when it begins, *)
(* leaves the port to the configuration logic.                             *)
Saved ==
  ~multi =>
    /\ at \in {"main", "request"} /\ First => control \cap Taken = {}
    /\ at \in (Asking \ {"request"}) \cup Working => restore \cap Taken = {}

PortInv == Running /\ Granted /\ WriteMode /\ Saved /\ PortGivenBack
-----------------------------------------------------------------------------
LEMMA InitPort == McapInit => PortInv
<1> SUFFICES ASSUME McapInit PROVE PortInv
  OBVIOUS
<1>1. /\ at = "main" /\ todo \in Commands /\ ~undone /\ undone \in BOOLEAN
      /\ multi = (Len(todo) > 1) /\ control \in {{}, {"DESIGN_SWITCH"}}
  BY DEF McapInit
<1>2. /\ todo \in Seq({todo[k] : k \in DOMAIN todo}) /\ Len(todo) <= 2
      /\ \A k \in DOMAIN todo : todo[k].op \in Ops
      /\ Len(todo) = 2 => todo[1].op = "partial"
  BY <1>1, McapAssumption DEF Ops
<1>3. todo \in Seq(Item)
  <2>1. {todo[k] : k \in DOMAIN todo} \subseteq Item
    BY <1>1 DEF Item
  <2> QED  BY <1>2, <2>1
<1>4. /\ multi \in BOOLEAN /\ Len(todo) \in Nat
      /\ multi <=> Len(todo) = 2
      /\ ~multi => Len(todo) <= 1
  <2>1. Len(todo) \in Nat /\ Len(todo) <= 2
    BY <1>2
  <2>2. multi \in BOOLEAN
    BY ONLY <1>1
  <2>3. multi <=> Len(todo) > 1
    BY ONLY <1>1, Zenon
  <2>4. Len(todo) > 1 <=> Len(todo) = 2
    BY <2>1
  <2>5. ~(Len(todo) > 1) <=> Len(todo) <= 1
    BY <2>1
  <2> QED  BY ONLY <2>1, <2>2, <2>3, <2>4, <2>5, Zenon
<1>5. Running
  BY <1>1, <1>2, <1>3, <1>4 DEF Running, First, Asking, Working
<1>6. WriteMode
  BY <1>1, <1>4 DEF WriteMode, Asking, First
<1>7. control \cap Taken = {}
  BY <1>1 DEF Taken
<1>8. Saved /\ PortGivenBack
  BY <1>1, <1>7 DEF Saved, PortGivenBack, Asking, Working
<1>9. Granted
  BY <1>1 DEF Granted, Working
<1> QED  BY <1>5, <1>6, <1>8, <1>9 DEF PortInv
-----------------------------------------------------------------------------
(* A single command is the first one while it runs.                        *)
LEMMA OnlyCommand ==
  ASSUME Running
  PROVE  /\ Len(todo) \in Nat
         /\ ~multi /\ todo # <<>> => First
         /\ todo # <<>> => Head(todo) = todo[1]
<1>1. todo \in Seq(Item) /\ Len(todo) \in Nat
  BY DEF Running
<1>2. todo # <<>> => Len(todo) >= 1 /\ Head(todo) = todo[1]
  BY <1>1
<1>3. ~multi => Len(todo) <= 1
  BY DEF Running
<1>4. ASSUME ~multi, todo # <<>>  PROVE First
  <2>1. Len(todo) <= 1 /\ Len(todo) >= 1
    BY <1>2, <1>3, <1>4
  <2>2. \A n \in Nat : n <= 1 /\ n >= 1 => n = 1
    OBVIOUS
  <2>3. Len(todo) = 1
    BY ONLY <1>1, <2>1, <2>2, Zenon
  <2> QED  BY <1>4, <2>3, Zenon DEF First
<1> QED  BY <1>1, <1>2, <1>4

(* When a function has returned, the next command is not the first one.    *)
LEMMA NextCommand ==
  ASSUME Running, Return
  PROVE  /\ todo' \in Seq(Item) /\ ~First' /\ multi' = multi
         /\ Len(todo') <= IF multi THEN 2 ELSE 1
         /\ \A k \in DOMAIN todo' : todo'[k].op \in Ops
<1>1. todo' = Tail(todo) /\ multi' = multi /\ at = "return"
  BY DEF Return, At
<1>2. todo \in Seq(Item) /\ todo # <<>> /\ Len(todo) <= (IF multi THEN 2 ELSE 1)
  BY <1>1 DEF Running
<1>3. todo' \in Seq(Item) /\ Len(todo') = Len(todo) - 1
  BY <1>1, <1>2
<1>4. \A k \in DOMAIN todo' : k + 1 \in DOMAIN todo /\ todo'[k] = todo[k + 1]
  BY <1>1, <1>2, <1>3
<1>5. Len(todo) \in Nat
  BY <1>2
<1> QED  BY <1>1, <1>2, <1>3, <1>4, <1>5 DEF Running, First

LEMMA ReturnKeepsPort ==
  ASSUME PortInv, Return
  PROVE  PortInv'
<1> USE DEF PortInv
<1>1. /\ at = "return" /\ at' = "main" /\ control' = control
      /\ undone' = (undone \/ result # 0 \/ op = "none")
  BY DEF Return, At, portVars
<1>2. undone \in BOOLEAN /\ undone' \in BOOLEAN
  BY <1>1 DEF Running
<1>3. /\ todo' \in Seq(Item) /\ ~First' /\ multi' = multi
      /\ Len(todo') <= IF multi THEN 2 ELSE 1
      /\ \A k \in DOMAIN todo' : todo'[k].op \in Ops
  BY NextCommand
<1>4. Running'
  BY <1>1, <1>2, <1>3 DEF Running
<1>5. WriteMode'
  <2> SUFFICES ASSUME multi, ~undone', todo' # <<>>  PROVE WriteBits \subseteq control
    BY <1>1, <1>3 DEF WriteMode, Asking
  <2>1. ~undone /\ result = 0 /\ op # "none"
    BY <1>1, <1>2, Zenon
  <2>2. First
    <3>1. todo \in Seq(Item) /\ todo # <<>> /\ Len(todo) <= 2 /\ todo' = Tail(todo)
      BY <1>1, <1>3 DEF Running, Return
    <3>2. Len(todo) \in Nat /\ Len(todo') = Len(todo) - 1
      BY <3>1
    <3>3. Len(todo') # 0
      BY <1>3
    <3>4. Len(todo) = 2
      BY <3>1, <3>2, <3>3
    <3> QED  BY <1>3, <3>4, Zenon DEF First
  <2>3. op \in {"partial", "fullreset"} /\ todo[1].op = "partial"
    BY <1>1, <2>1, <2>2 DEF Running
  <2> QED  BY <1>1, <2>1, <2>3 DEF WriteMode
<1>6. Saved' /\ PortGivenBack'
  BY <1>1, <1>3 DEF Saved, PortGivenBack, Asking, Working
<1>7. Granted'
  BY <1>1 DEF Granted, Working
<1> QED  BY <1>4, <1>5, <1>6, <1>7

LEMMA GrantedKept ==
  ASSUME Granted, StartCommand \/ Library \/ GrantPort \/ StartUp
  PROVE  Granted'
<1> USE DEF Granted, Working, portVars, past
<1>1. CASE SaveControl
  BY <1>1 DEF SaveControl
<1>2. CASE RequestCleared
  <2>1. sts' = sts /\ ungranted' = ("REQ" \in sts)
    BY <1>2 DEF RequestCleared
  <2>2. "REQ" \in sts' => ungranted'
    BY ONLY <2>1, Zenon
  <2> QED  BY <2>2, Zenon DEF Granted
<1>3. CASE StartCommand \/ TakePort \/ PollRequest \/ RequestFails \/ WriteFails
  BY <1>3 DEF StartCommand, TakePort, PollRequest, RequestFails, WriteFails, At, ReturnWith
<1>4. CASE AssertReset \/ CheckReset \/ AskRead \/ CheckRead \/ WriteRefused \/ GrantPort
  BY <1>4 DEF AssertReset, CheckReset, AskRead, CheckRead, WriteRefused, GrantPort, At, Write,
     ReturnWith
<1>5. CASE SetWriteMode \/ WriteWord
  BY <1>5 DEF SetWriteMode, WriteWord, At, Write
<1>6. CASE AllWritten \/ WaitForEos \/ WriteDone \/ StartUp
  BY <1>6 DEF AllWritten, WaitForEos, WriteDone, StartUp, Write, ReturnWith
<1> QED  BY <1>1, <1>2, <1>3, <1>4, <1>5, <1>6 DEF Library

LEMMA RunningKept ==
  ASSUME PortInv, StartCommand \/ Library \/ GrantPort \/ StartUp
  PROVE  Running'
<1> USE McapAssumption, OnlyCommand
    DEF PortInv, Running, Running, portVars, past, First, Asking, Working, Resets, Programs, Taken, WriteBits, Ops
<1>1. CASE GrantPort
  BY <1>1 DEF GrantPort
<1>2. CASE StartUp
  BY <1>2 DEF StartUp
<1>3. CASE StartCommand
  BY <1>3 DEF StartCommand
<1>4. CASE SaveControl
  BY <1>4 DEF SaveControl
<1>5. CASE TakePort
  BY <1>5 DEF TakePort, At, Write
<1>6. CASE PollRequest
  BY <1>6 DEF PollRequest
<1>7. CASE RequestFails
  BY <1>7 DEF RequestFails, Write, ReturnWith
<1>8. CASE RequestCleared
  BY <1>8 DEF RequestCleared, At
<1>9. CASE AssertReset
  BY <1>9 DEF AssertReset, At, Write
<1>10. CASE CheckReset
  BY <1>10 DEF CheckReset, ReturnWith
<1>11. CASE AskRead
  BY <1>11 DEF AskRead, At
<1>12. CASE CheckRead
  BY <1>12 DEF CheckRead, ReturnWith
<1>13. CASE WriteRefused
  BY <1>13 DEF WriteRefused, Write, ReturnWith
<1>14. CASE SetWriteMode
  BY <1>14 DEF SetWriteMode, At, Write
<1>15. CASE WriteWord
  BY <1>15 DEF WriteWord
<1>16. CASE AllWritten
  BY <1>16 DEF AllWritten
<1>17. CASE WaitForEos
  BY <1>17 DEF WaitForEos, ReturnWith
<1>18. CASE WriteFails
  BY <1>18 DEF WriteFails, Write
<1>19. CASE WriteDone
  BY <1>19 DEF WriteDone, Write, ReturnWith
<1> QED  BY <1>1, <1>2, <1>3, <1>4, <1>5, <1>6, <1>7, <1>8, <1>9, <1>10, <1>11, <1>12, <1>13, <1>14, <1>15, <1>16, <1>17, <1>18, <1>19 DEF Library

LEMMA WriteModeKept ==
  ASSUME PortInv, StartCommand \/ Library \/ GrantPort \/ StartUp
  PROVE  WriteMode'
<1> USE McapAssumption, OnlyCommand
    DEF PortInv, Running, WriteMode, portVars, past, First, Asking, Working, Resets, Programs, Taken, WriteBits, Ops
<1>1. CASE GrantPort
  BY <1>1 DEF GrantPort
<1>2. CASE StartUp
  BY <1>2 DEF StartUp
<1>3. CASE StartCommand
  BY <1>3 DEF StartCommand
<1>4. CASE SaveControl
  BY <1>4 DEF SaveControl
<1>5. CASE TakePort
  BY <1>5 DEF TakePort, At, Write
<1>6. CASE PollRequest
  BY <1>6 DEF PollRequest
<1>7. CASE RequestFails
  BY <1>7 DEF RequestFails, Write, ReturnWith
<1>8. CASE RequestCleared
  BY <1>8 DEF RequestCleared, At
<1>9. CASE AssertReset
  BY <1>9 DEF AssertReset, At, Write
<1>10. CASE CheckReset
  BY <1>10 DEF CheckReset, ReturnWith
<1>11. CASE AskRead
  BY <1>11 DEF AskRead, At
<1>12. CASE CheckRead
  BY <1>12 DEF CheckRead, ReturnWith
<1>13. CASE WriteRefused
  BY <1>13 DEF WriteRefused, Write, ReturnWith
<1>14. CASE SetWriteMode
  BY <1>14 DEF SetWriteMode, At, Write
<1>15. CASE WriteWord
  BY <1>15 DEF WriteWord
<1>16. CASE AllWritten
  BY <1>16 DEF AllWritten
<1>17. CASE WaitForEos
  BY <1>17 DEF WaitForEos, ReturnWith
<1>18. CASE WriteFails
  BY <1>18 DEF WriteFails, Write
<1>19. CASE WriteDone
  BY <1>19 DEF WriteDone, Write, ReturnWith
<1> QED  BY <1>1, <1>2, <1>3, <1>4, <1>5, <1>6, <1>7, <1>8, <1>9, <1>10, <1>11, <1>12, <1>13, <1>14, <1>15, <1>16, <1>17, <1>18, <1>19 DEF Library

LEMMA SavedKept ==
  ASSUME PortInv, StartCommand \/ Library \/ GrantPort \/ StartUp
  PROVE  Saved'
<1> USE McapAssumption, OnlyCommand
    DEF PortInv, Running, Saved, portVars, past, First, Asking, Working, Resets, Programs, Taken, WriteBits, Ops
<1>1. CASE GrantPort
  BY <1>1 DEF GrantPort
<1>2. CASE StartUp
  BY <1>2 DEF StartUp
<1>3. CASE StartCommand
  BY <1>3 DEF StartCommand
<1>4. CASE SaveControl
  BY <1>4 DEF SaveControl
<1>5. CASE TakePort
  BY <1>5 DEF TakePort, At, Write
<1>6. CASE PollRequest
  BY <1>6 DEF PollRequest
<1>7. CASE RequestFails
  BY <1>7 DEF RequestFails, Write, ReturnWith
<1>8. CASE RequestCleared
  BY <1>8 DEF RequestCleared, At
<1>9. CASE AssertReset
  BY <1>9 DEF AssertReset, At, Write
<1>10. CASE CheckReset
  BY <1>10 DEF CheckReset, ReturnWith
<1>11. CASE AskRead
  BY <1>11 DEF AskRead, At
<1>12. CASE CheckRead
  BY <1>12 DEF CheckRead, ReturnWith
<1>13. CASE WriteRefused
  BY <1>13 DEF WriteRefused, Write, ReturnWith
<1>14. CASE SetWriteMode
  BY <1>14 DEF SetWriteMode, At, Write
<1>15. CASE WriteWord
  BY <1>15 DEF WriteWord
<1>16. CASE AllWritten
  BY <1>16 DEF AllWritten
<1>17. CASE WaitForEos
  BY <1>17 DEF WaitForEos, ReturnWith
<1>18. CASE WriteFails
  BY <1>18 DEF WriteFails, Write
<1>19. CASE WriteDone
  BY <1>19 DEF WriteDone, Write, ReturnWith
<1> QED  BY <1>1, <1>2, <1>3, <1>4, <1>5, <1>6, <1>7, <1>8, <1>9, <1>10, <1>11, <1>12, <1>13, <1>14, <1>15, <1>16, <1>17, <1>18, <1>19 DEF Library

LEMMA GivenBackKept ==
  ASSUME PortInv, StartCommand \/ Library \/ GrantPort \/ StartUp
  PROVE  PortGivenBack'
<1> SUFFICES ASSUME at' = "return", ~multi', op' # "partial", ~EosTimeout'
             PROVE  control' \cap Taken = {}
  BY DEF PortGivenBack
<1> USE DEF PortInv
<1>1. ~multi /\ (at # "main" => First)
  BY OnlyCommand DEF Running, StartCommand, Library, SaveControl, TakePort, PollRequest, RequestFails,
     RequestCleared, AssertReset, CheckReset, AskRead, CheckRead, WriteRefused, SetWriteMode,
     WriteWord, AllWritten, WaitForEos, WriteFails, WriteDone, GrantPort, StartUp
<1>2. CASE StartCommand
  BY <1>1, <1>2, OnlyCommand DEF StartCommand, Saved, portVars, past
<1>3. CASE RequestFails \/ CheckReset \/ CheckRead \/ WriteRefused
  <2>1. control' = restore /\ at \in (Asking \ {"request"}) \cup Working
    BY <1>3 DEF RequestFails, CheckReset, CheckRead, WriteRefused, Write, Asking, Working
  <2> QED  BY <1>1, <2>1 DEF Saved
<1>4. CASE WaitForEos
  <2>1. op = "full" /\ op' = op /\ loop' > EosRetries /\ result' # 0
    BY <1>4 DEF WaitForEos, ReturnWith, Running
  <2> QED  BY <2>1 DEF EosTimeout
<1>5. CASE WriteDone
  <2>1. op = "full" /\ control' = restore \cup {"DESIGN_SWITCH"} /\ at = "check"
    BY <1>5 DEF WriteDone, Write, Running, Programs
  <2> QED  BY <1>1, <2>1 DEF Saved, Working, Taken
<1>6. CASE GrantPort \/ StartUp
  BY <1>6 DEF GrantPort, StartUp, PortGivenBack, EosTimeout
<1> QED
  BY <1>2, <1>3, <1>4, <1>5, <1>6
  DEF Library, SaveControl, TakePort, PollRequest, RequestCleared, AssertReset, AskRead,
      SetWriteMode, WriteWord, AllWritten, WriteFails, At

LEMMA NextKeepsPort == PortInv /\ [McapNext]_mcapVars => PortInv'
<1> SUFFICES ASSUME PortInv, [McapNext]_mcapVars PROVE PortInv'
  OBVIOUS
<1>1. CASE UNCHANGED mcapVars
  BY <1>1 DEF mcapVars, portVars, past, PortInv, Running, First, Granted, WriteMode, Saved,
     PortGivenBack, EosTimeout
<1>2. CASE Return
  BY <1>2, ReturnKeepsPort
<1>3. CASE StartCommand \/ Library \/ GrantPort \/ StartUp
  BY <1>3, RunningKept, GrantedKept, WriteModeKept, SavedKept, GivenBackKept DEF PortInv
<1> QED  BY <1>1, <1>2, <1>3 DEF McapNext

LEMMA PortInvariant == FairMcapSpec => []PortInv
<1>1. FairMcapSpec => McapInit /\ [][McapNext]_mcapVars
  BY PTL DEF FairMcapSpec
<1> QED  BY <1>1, InitPort, NextKeepsPort, PTL

(* MCapWritePartialBitStream and MCapWriteBitStream: every word meets a    *)
(* port in write mode, but behind a clear file that has failed.            *)
THEOREM WritesInMode == FairMcapSpec => []DataInWriteMode
<1>1. PortInv => DataInWriteMode
  BY DEF PortInv, WriteMode, DataInWriteMode
<1> QED  BY <1>1, PortInvariant, PTL

(* Every function of the library, also one that fails, leaves the port to  *)
(* the configuration logic, but for those that PortGivenBack names.        *)
THEOREM GivesPortBack == FairMcapSpec => []PortGivenBack
<1>1. PortInv => PortGivenBack
  BY DEF PortInv
<1> QED  BY <1>1, PortInvariant, PTL
-----------------------------------------------------------------------------
(* A sequence that another one ends, element by element.                   *)
LEMMA EndsElementwise ==
  ASSUME NEW W, NEW s \in Seq(W), NEW e \in Seq(W)
  PROVE  EndsWith(s, e) <=>
           /\ Len(e) <= Len(s)
           /\ \A k \in 1 .. Len(e) : e[k] = s[Len(s) - Len(e) + k]
<1> DEFINE from == Len(s) - Len(e) + 1
           part == SubSeq(s, from, Len(s))
<1> SUFFICES ASSUME Len(e) <= Len(s)
             PROVE  part = e <=> \A k \in 1 .. Len(e) : e[k] = s[from - 1 + k]
  BY DEF EndsWith
<1>1. /\ Len(e) \in Nat /\ Len(s) \in Nat /\ from \in 1 .. Len(s) + 1
      /\ \A i \in from .. Len(s) : s[i] \in W
  OBVIOUS
<1>2. /\ part \in Seq(W)
      /\ Len(part) = IF from <= Len(s) THEN Len(s) - from + 1 ELSE 0
      /\ \A i \in 1 .. Len(s) - from + 1 : part[i] = s[from + i - 1]
  BY <1>1, SubSeqProperties
<1>3. Len(part) = Len(e)
  BY <1>1, <1>2
<1>4. \A k \in 1 .. Len(e) : part[k] = s[from - 1 + k]
  BY <1>1, <1>2
<1>5. ASSUME \A k \in 1 .. Len(e) : e[k] = s[from - 1 + k]  PROVE part = e
  BY <1>2, <1>3, <1>4, <1>5, SeqEqual
<1> QED  BY <1>4, <1>5

LEMMA EndsItself ==
  ASSUME NEW W, NEW s \in Seq(W)
  PROVE  EndsWith(s, s)
<1>1. Len(s) \in Nat /\ \A k \in 1 .. Len(s) : Len(s) - Len(s) + k = k
  OBVIOUS
<1> QED  BY <1>1, EndsElementwise

LEMMA TailEnds ==
  ASSUME NEW W, NEW s \in Seq(W), NEW e \in Seq(W), EndsWith(s, e), e # <<>>
  PROVE  EndsWith(s, Tail(e))
<1>1. /\ Len(e) <= Len(s) /\ \A k \in 1 .. Len(e) : e[k] = s[Len(s) - Len(e) + k]
  BY EndsElementwise
<1>2. /\ Tail(e) \in Seq(W) /\ Len(Tail(e)) = Len(e) - 1
      /\ \A k \in 1 .. Len(e) - 1 : Tail(e)[k] = e[k + 1]
  OBVIOUS
<1>3. Len(s) \in Nat /\ Len(e) \in Nat
  OBVIOUS
<1>4. ASSUME NEW k \in 1 .. Len(Tail(e))
      PROVE  Tail(e)[k] = s[Len(s) - Len(Tail(e)) + k]
  <2>1. k + 1 \in 1 .. Len(e) /\ Len(s) - Len(Tail(e)) + k = Len(s) - Len(e) + (k + 1)
    BY <1>2, <1>3
  <2> QED  BY <1>1, <1>2, <2>1
<1>5. Len(Tail(e)) <= Len(s)
  BY <1>1, <1>2, <1>3
<1> QED  BY <1>2, <1>4, <1>5, EndsElementwise

LEMMA MovesWord ==
  ASSUME NEW W, NEW s \in Seq(W), NEW t \in Seq(W), t # <<>>
  PROVE  Append(s, Head(t)) \o Tail(t) = s \o t
<1>1. Head(t) \in W /\ Tail(t) \in Seq(W) /\ <<Head(t)>> \in Seq(W)
  BY HeadTailProperties
<1>2. Append(s, Head(t)) = s \o <<Head(t)>>
  BY <1>1, AppendIsConcat
<1>3. (s \o <<Head(t)>>) \o Tail(t) = s \o (<<Head(t)>> \o Tail(t))
  BY <1>1, ConcatAssociative
<1>4. <<Head(t)>> \o Tail(t) = t
  <2>1. Len(t) \in Nat \ {0} /\ Head(t) = t[1]
    BY EmptySeq
  <2>2. SubSeq(t, 1, Len(t)) = <<t[1]>> \o SubSeq(t, 1 + 1, Len(t))
    BY <2>1, SubSeqRecursiveFirst
  <2>3. SubSeq(t, 1, Len(t)) = t /\ Tail(t) = SubSeq(t, 2, Len(t))
    BY SubSeqFull, TailIsSubSeq
  <2> QED  BY <2>1, <2>2, <2>3
<1> QED  BY <1>2, <1>3, <1>4
-----------------------------------------------------------------------------
(* A file's reader makes words of it, which are its payload.               *)
FilesLoad(W) ==
  \A s \in Commands : \A k \in DOMAIN s : s[k].op \in Programs =>
    Load(s[k].file) \in Seq(W) /\ Load(s[k].file) = s[k].file.payload

(* The words of the file are on their way. In write mode, what the         *)
(* configuration logic has and what is still to be written are all of      *)
(* them; it has none before it gives the port up, and then every one that  *)
(* follows. In another mode, behind a clear file that has failed, it has   *)
(* none. It has started up before the last look at STATUS.                 *)
Loaded == Load(todo[1].file)
Arrived ==
  /\ EndsWith(Loaded, fpga)
  /\ ~ungranted => fpga = Loaded \/ (undone /\ fpga = <<>>)
OnTheWay ==
  /\ at \in Asking /\ op \in Programs => words = Loaded /\ fpga = <<>>
  /\ at = "data" =>
       /\ EndsWith(Loaded, fpga \o words)
       /\ fpga # <<>> => WriteBits \subseteq control /\ "REQ" \notin sts
       /\ ~ungranted => IF WriteBits \subseteq control THEN fpga \o words = Loaded
                        ELSE undone /\ fpga = <<>>
  /\ at \in {"eos", "check"} => Arrived
  /\ at = "check" /\ op = "full" => "EOS" \in sts
  /\ at = "return" /\ op \in Programs /\ result = 0 =>
       /\ Arrived
       /\ sts \cap {"ERR", "OVERFLOW"} = {}
       /\ op = "full" => "EOS" \in sts

Sequences(W) == fpga \in Seq(W) /\ words \in Seq(W)

LEMMA LoadedIsWords ==
  ASSUME NEW W, FilesLoad(W), Running, todo # <<>>, todo[1].op \in Programs
  PROVE  Loaded \in Seq(W) /\ Loaded = todo[1].file.payload
<1>1. todo \in Seq(Item)
  BY DEF Running
<1>2. todo[1] \in Item
  BY <1>1
<1> QED  BY <1>2 DEF Item, FilesLoad, Loaded

LEMMA NextKeepsSequences ==
  ASSUME NEW W, FilesLoad(W), PortInv, Sequences(W), [McapNext]_mcapVars
  PROVE  Sequences(W)'
<1> USE DEF Sequences
<1>1. CASE StartCommand
  <2>1. fpga' = <<>> /\ todo # <<>>
    BY <1>1 DEF StartCommand
  <2>2. words' \in {words, <<>>} \/ (todo[1].op \in Programs /\ words' = Loaded)
    BY <1>1, OnlyCommand DEF StartCommand, Loaded, PortInv
  <2> QED  BY <2>1, <2>2, LoadedIsWords, EmptySeq DEF PortInv
<1>2. CASE Return
  BY <1>2, EmptySeq DEF Return, portVars, past
<1>3. CASE WriteWord
  <2>1. /\ words # <<>> /\ words' = Tail(words)
        /\ fpga' \in {fpga, Append(fpga, Head(words))}
    BY <1>3 DEF WriteWord
  <2>2. Head(words) \in W /\ Tail(words) \in Seq(W)
    BY <2>1, HeadTailProperties
  <2>3. Append(fpga, Head(words)) \in Seq(W)
    BY <2>2, AppendProperties
  <2> QED  BY <2>1, <2>2, <2>3
<1>4. CASE UNCHANGED mcapVars
  BY <1>4 DEF mcapVars, portVars, past
<1> QED
  BY <1>1, <1>2, <1>3, <1>4
  DEF McapNext, Library, SaveControl, TakePort, PollRequest, RequestFails, RequestCleared,
      AssertReset, CheckReset, AskRead, CheckRead, WriteRefused, SetWriteMode, AllWritten,
      WaitForEos, WriteFails, WriteDone, GrantPort, StartUp, Write, portVars, past

LEMMA WriteWordOnTheWay ==
  ASSUME NEW W, FilesLoad(W), PortInv, Sequences(W), OnTheWay, WriteWord
  PROVE  OnTheWay'
<1> DEFINE taken == WriteBits \subseteq control /\ "REQ" \notin sts
<1>1. /\ at = "data" /\ at' = "data" /\ op \in Programs /\ op' = op
      /\ words # <<>> /\ words' = Tail(words)
      /\ fpga' = IF taken THEN Append(fpga, Head(words)) ELSE fpga
      /\ UNCHANGED <<control, todo, undone, ungranted>>
  BY DEF WriteWord, past
<1>2. "REQ" \notin sts => "REQ" \notin sts'
  BY DEF WriteWord
<1>3. Loaded' = Loaded /\ Loaded \in Seq(W)
  <2>1. todo # <<>> /\ todo[1].op \in Programs
    BY <1>1 DEF PortInv, Running, Programs
  <2> QED  BY <1>1, <2>1, LoadedIsWords DEF Loaded, PortInv
<1>4. /\ EndsWith(Loaded, fpga \o words)
      /\ fpga # <<>> => taken
      /\ ~ungranted => IF WriteBits \subseteq control THEN fpga \o words = Loaded
                       ELSE undone /\ fpga = <<>>
  BY <1>1 DEF OnTheWay
<1>5. CASE taken
  <2>1. fpga' \o words' = fpga \o words
    BY <1>1, <1>5, MovesWord DEF Sequences
  <2> QED  BY <1>1, <1>2, <1>3, <1>4, <1>5, <2>1 DEF OnTheWay, Asking
<1>6. CASE ~taken
  <2>1. fpga = <<>> /\ fpga' = <<>>
    BY <1>1, <1>4, <1>6
  <2>2. fpga \o words = words /\ fpga' \o words' = words'
    <3>1. words' \in Seq(W)
      BY <1>1 DEF Sequences
    <3> QED  BY <2>1, <3>1, ConcatEmptySeq DEF Sequences
  <2>3. EndsWith(Loaded, fpga' \o words')
    BY <1>1, <1>3, <1>4, <2>2, TailEnds DEF Sequences
  <2>4. ~ungranted => ~(WriteBits \subseteq control)
    BY <1>1, <1>6 DEF PortInv, Granted, Working
  <2> QED  BY <1>1, <1>3, <1>4, <2>1, <2>3, <2>4 DEF OnTheWay, Asking
<1> QED  BY <1>5, <1>6

LEMMA NextKeepsOnTheWay ==
  ASSUME NEW W, FilesLoad(W), PortInv, Sequences(W), OnTheWay, [McapNext]_mcapVars
  PROVE  OnTheWay'
<1> USE DEF Asking, Programs
<1>1. CASE StartCommand
  <2>1. at' \in {"return", "request"} /\ todo' = todo /\ todo # <<>> /\ fpga' = <<>>
    BY <1>1 DEF StartCommand
  <2>2. at' = "return" => op' = "none" \/ result' # 0
    BY <1>1 DEF StartCommand
  <2>3. at' = "request" /\ op' \in Programs => words' = Loaded
    BY <1>1, OnlyCommand DEF StartCommand, Loaded, PortInv
  <2> QED  BY <2>1, <2>2, <2>3 DEF OnTheWay, Loaded
<1>2. CASE Return
  BY <1>2 DEF Return, At, OnTheWay
<1>3. CASE WriteWord
  BY <1>3, WriteWordOnTheWay
<1>4. CASE SetWriteMode
  <2>1. /\ op \in Programs /\ at = "begin" /\ at' = "data"
        /\ UNCHANGED <<fpga, words, todo, undone, op, multi>>
    BY <1>4 DEF SetWriteMode, At, Write, portVars, past
  <2>2. todo # <<>> /\ todo[1].op = op
    BY <2>1 DEF PortInv, Running
  <2>3. Loaded \in Seq(W) /\ words = Loaded /\ fpga = <<>>
    BY <2>1, <2>2, LoadedIsWords DEF PortInv, OnTheWay
  <2>4. fpga \o words = Loaded /\ EndsWith(Loaded, Loaded)
    BY <2>3, EndsItself, ConcatEmptySeq
  <2>5. ~(WriteBits \subseteq control') => undone'
    BY <1>4, <2>1, WriteModeKept DEF WriteMode, Library
  <2> QED  BY <2>1, <2>3, <2>4, <2>5 DEF OnTheWay, Loaded
<1>5. CASE AllWritten
  <2>1. /\ at = "data" /\ at' = (IF op = "full" THEN "eos" ELSE "check") /\ words = <<>>
        /\ UNCHANGED <<fpga, words, todo, undone, ungranted, op>>
    BY <1>5 DEF AllWritten, portVars, past
  <2>2. fpga \o words = fpga
    BY <2>1, ConcatEmptySeq DEF Sequences
  <2>3. Arrived
    BY <2>1, <2>2 DEF OnTheWay, Arrived
  <2> QED  BY <2>1, <2>3 DEF OnTheWay, Loaded, Arrived
<1>6. CASE WaitForEos
  <2>1. /\ at = "eos" /\ UNCHANGED <<fpga, sts, words, todo, undone, ungranted, op>>
        /\ (at' = "check" /\ "EOS" \in sts) \/ at' = "eos" \/ (at' = "return" /\ result' # 0)
    BY <1>6 DEF WaitForEos, portVars, past, ReturnWith
  <2> QED  BY <2>1 DEF OnTheWay, Loaded, Arrived
<1>7. CASE WriteDone
  <2>1. /\ at = "check" /\ at' = "return" /\ sts \cap {"ERR", "OVERFLOW"} = {}
        /\ UNCHANGED <<fpga, sts, todo, undone, ungranted, op>>
    BY <1>7 DEF WriteDone, Write, portVars, past, ReturnWith
  <2> QED  BY <2>1 DEF OnTheWay, Loaded, Arrived
<1>8. CASE RequestFails \/ CheckReset \/ CheckRead \/ WriteRefused
  <2>1. at' = "return" /\ (result' # 0 \/ op' \notin Programs)
    BY <1>8 DEF RequestFails, CheckReset, CheckRead, WriteRefused, ReturnWith, Resets
  <2> QED  BY <2>1 DEF OnTheWay
<1>9. CASE SaveControl \/ TakePort \/ PollRequest \/ RequestCleared
  <2>1. at \in Asking /\ at' \in Asking /\ UNCHANGED <<op, words, todo, fpga>>
    BY <1>9 DEF SaveControl, TakePort, PollRequest, RequestCleared, At, Write, portVars
  <2> QED  BY <2>1 DEF OnTheWay, Loaded
<1>10. CASE AssertReset \/ AskRead \/ WriteFails
  <2>1. at' \in {"isReset", "isRead"} \/ (at' = "request" /\ op' = "fullreset")
    BY <1>10 DEF AssertReset, AskRead, WriteFails, At
  <2> QED  BY <2>1 DEF OnTheWay
<1>11. CASE GrantPort \/ StartUp \/ UNCHANGED mcapVars
  <2>1. /\ UNCHANGED <<at, op, words, todo, undone, ungranted, fpga, control, result>>
        /\ sts' \in {sts, sts \ {"REQ"}, sts \cup {"EOS"}}
    BY <1>11 DEF GrantPort, StartUp, mcapVars, portVars, past
  <2> QED  BY <2>1 DEF OnTheWay, Loaded, Arrived
<1> QED  BY <1>1, <1>2, <1>3, <1>4, <1>5, <1>6, <1>7, <1>8, <1>9, <1>10, <1>11 DEF McapNext, Library

(* "FPGA Configuration Done!!" (MCapConfigureFPGA returns 0): whatever the *)
(* reader has made of the file has reached the configuration logic, all of *)
(* it and nothing else, it has started up and shows no error; or nothing   *)
(* has, behind a clear file that has failed; or the last words alone, when *)
(* the port was given up late. For every file whose reader makes its       *)
(* payload of it.                                                          *)
THEOREM DoneMeansConfigured ==
  ASSUME NEW CONSTANT W, FilesLoad(W)
  PROVE  FairMcapSpec => []DoneIsConfigured
<1>1. McapInit => Sequences(W) /\ OnTheWay
  BY EmptySeq DEF McapInit, Sequences, OnTheWay, Asking
<1>2. PortInv /\ Sequences(W) /\ OnTheWay /\ [McapNext]_mcapVars => (Sequences(W) /\ OnTheWay)'
  BY NextKeepsSequences, NextKeepsOnTheWay
<1>3. PortInv /\ Sequences(W) /\ OnTheWay => DoneIsConfigured
  <2> SUFFICES ASSUME PortInv, Sequences(W), OnTheWay, at = "return", op \in Programs, result = 0
               PROVE  Arrived /\ Head(todo).file.payload = Loaded
    BY DEF DoneIsConfigured, OnTheWay, Arrived
  <2>1. todo # <<>> /\ todo[1].op = op /\ Head(todo) = todo[1]
    BY OnlyCommand DEF PortInv, Running, Programs
  <2> QED  BY <2>1, LoadedIsWords DEF PortInv, OnTheWay
<1>4. FairMcapSpec => McapInit /\ [][McapNext]_mcapVars
  BY PTL DEF FairMcapSpec
<1> QED  BY <1>1, <1>2, <1>3, <1>4, PortInvariant, PTL
-----------------------------------------------------------------------------
(* The words of a file behind its first bytes (Words): every byte of them  *)
(* is one of the file, if the file has that many.                          *)
FromFile(bytes, from, count) ==
  \A w \in 1 .. count : \A b \in 1 .. WordBytes :
    Words(bytes, from + 1, count)[w][b] = bytes[from + (w - 1) * WordBytes + b]

LEMMA WordsOfBytes ==
  ASSUME NEW Octet, Garbage \in Octet, NEW bytes \in Seq(Octet),
         NEW from \in Nat, NEW count \in Nat,
         from + count * WordBytes <= Len(bytes)
  PROVE  /\ Words(bytes, from + 1, count) \in Seq([1 .. WordBytes -> Octet])
         /\ FromFile(bytes, from, count)
<1> USE McapFileAssumption
<1>1. \A i : ByteAt(bytes, i) \in Octet
  BY DEF ByteAt
<1>2. Words(bytes, from + 1, count) \in [1 .. count -> [1 .. WordBytes -> Octet]]
  BY <1>1 DEF Words
<1>3. Words(bytes, from + 1, count) \in Seq([1 .. WordBytes -> Octet])
  BY <1>2
<1>4. ASSUME NEW w \in 1 .. count, NEW b \in 1 .. WordBytes
      PROVE  Words(bytes, from + 1, count)[w][b] = bytes[from + (w - 1) * WordBytes + b]
  <2> DEFINE place == (w - 1) * WordBytes
  <2>1. WordBytes \in Nat \ {0} /\ Len(bytes) \in Nat /\ place \in Nat
    BY SMT
  <2>2. place + WordBytes <= count * WordBytes
    <3>1. place + WordBytes = w * WordBytes
      BY <2>1
    <3>2. \A x, y, z \in Nat : x <= y => x * z <= y * z
      OBVIOUS
    <3> QED  BY <2>1, <3>1, <3>2
  <2>3. from + place + b \in 1 .. Len(bytes)
    <3> HIDE DEF place
    <3>1. count * WordBytes \in Nat
      BY <2>1
    <3> DEFINE all == count * WordBytes
    <3>2. all \in Nat /\ place + WordBytes <= all /\ from + all <= Len(bytes)
      BY <2>2, <3>1
    <3> HIDE DEF all
    <3> QED  BY <2>1, <3>2
  <2> HIDE DEF place
  <2>4. from + 1 + place + b - 1 = from + place + b
    BY <2>1
  <2>5. ByteAt(bytes, from + place + b) = bytes[from + place + b]
    BY <2>3 DEF ByteAt
  <2> QED  BY <2>4, <2>5 DEF Words, place
<1> QED  BY <1>3, <1>4 DEF FromFile

(* MCapProcessBIT: the sync word, and every whole word of the file behind  *)
(* it, if the first sync word ends where a u8 can still count.             *)
LEMMA BitIsLoaded ==
  ASSUME NEW Octet, {F, Garbage} \subseteq Octet, NEW bytes \in Seq(Octet),
         NEW end \in SyncEnds(bytes), \A e \in SyncEnds(bytes) : end <= e, end < U8
  PROVE  LET count == (Len(bytes) - end) \div WordBytes IN
         /\ ProcessBit(bytes) = <<SyncWord>> \o Words(bytes, end + 1, count)
         /\ ProcessBit(bytes) \in Seq([1 .. WordBytes -> Octet])
         /\ FromFile(bytes, end, count)
<1> USE McapFileAssumption
<1> DEFINE count == (Len(bytes) - end) \div WordBytes
           words_ == Words(bytes, end + 1, count)
<1>1. end \in Nat \ {0} /\ end <= Len(bytes) /\ WordBytes \in Nat \ {0} /\ Len(bytes) \in Nat
  BY DEF SyncEnds
<1>2. Min(SyncEnds(bytes)) = end
  <2>1. SyncEnds(bytes) \subseteq Int
    BY <1>1 DEF SyncEnds
  <2> QED  BY <2>1 DEF Min
<1>3. CountedLen(end) = end
  BY <1>1 DEF CountedLen
<1>4. count \in Nat /\ end + count * WordBytes <= Len(bytes)
  BY <1>1
<1>5. ProcessBit(bytes) = <<SyncWord>> \o words_
  BY <1>2, <1>3 DEF ProcessBit
<1>6. words_ \in Seq([1 .. WordBytes -> Octet]) /\ FromFile(bytes, end, count)
  <2>1. Garbage \in Octet /\ end \in Nat
    BY <1>1
  <2> HIDE DEF count
  <2> QED  BY <1>4, <2>1, WordsOfBytes
<1>7. <<SyncWord>> \in Seq([1 .. WordBytes -> Octet])
  BY DEF SyncWord
<1>8. ProcessBit(bytes) \in Seq([1 .. WordBytes -> Octet])
  BY <1>5, <1>6, <1>7, ConcatProperties
<1> QED  BY <1>5, <1>6, <1>8
-----------------------------------------------------------------------------
(***************************************************************************)
(* The firmware tool. The invariant follows its progress loops and the     *)
(* drivers' calls inside them: how far they have come, and what the cells  *)
(* behind and ahead of them hold.                                          *)
(***************************************************************************)
Values == {FF, Old, Junk} \cup 1 .. Cells
Data == UNION {[D -> Values] : D \in SUBSET Int}
ChipOps == {Idle} \cup [op : {"erase"}, block : SUBSET Int] \cup [op : {"program"}, data : Data]

SpiChips == [kind : {"spi"}, set : {"spi"}, answers : BOOLEAN, code : SpiCodes, lanes : {1, 4},
             quad : BOOLEAN, wel : BOOLEAN, busy : ChipOps, err : BOOLEAN, mode : {"array"}]
BpiChips == [kind : {"bpi"}, set : CommandSets \cup {"other"}, answers : {TRUE},
             mode : {"array", "status", "sync", "abort"}, busy : ChipOps, err : BOOLEAN,
             size : {Cells}, buffer : {4}, regions : {BpiRegions}]
SpiDevices == [driver : {"spi"}, size : {SizeOf(chip.code)}, width : {1, 4},
               writeBuffer : {PageSize}, eraseBlock : {SubsectorSize}]
BpiDevice == [driver |-> "bpi", size |-> Cells, writeBuffer |-> 4, eraseBlock |-> 8,
              regions |-> BpiRegions]
Calls == [op : {"read", "write", "erase"}, addr : Nat, len : Nat, src : Nat,
          step : {"start", "check"}]
Loops == [op : {"erase", "write", "verify", "read"}, addr : Nat, remain : Nat, src : Nat,
          asked : Nat, attempts : 0 .. 3,
          next : {"load", "program", "programmed", "save"}]

Ports == [online : BOOLEAN, serr : BOOLEAN, iprog : BOOLEAN, tries : 0 .. Tries]

(* The device that is open is the chip's.                                  *)
TypeInv ==
  /\ cells \in [Addresses -> Values]
  /\ \/ chip \in SpiChips /\ chip.answers = (chip.code # 0)
     \/ chip \in BpiChips
  /\ chip.kind \in Drivers
  /\ \/ fdev = Closed
     \/ chip.kind = "spi" /\ chip.answers /\ fdev \in SpiDevices
     \/ chip.kind = "bpi" /\ fdev = BpiDevice
  /\ call = NoCall \/ call \in Calls
  /\ ret \in {0, -1} /\ status \in {0, -1}
  /\ opts \in Options
  /\ seg \in [offset : Nat, size : Nat]
  /\ len \in 0 .. Cells
  /\ prog = NoProg \/ prog \in Loops
  /\ port \in Ports
  /\ runs \in 0 .. Runs - 1

(* Where main is, which calls are open and when the chip is busy.          *)
WithDevice == {"segments", "confirmErase", "load", "confirmWrite", "loop", "program",
               "programmed", "read", "save"}
WithSegment == WithDevice \ {"segments"}
Places == WithDevice \cup {"open", "skip", "confirmReset", "disableErr", "iprog", "remove",
                           "capabilities", "rescan", "err", "exit"}

(* Where main comes without a device while the chip goes on with what a    *)
(* killed run began: a write is not on its way to the boot.                *)
NotOpened ==
  \/ pc \in {"open", "exit", "err"}
  \/ pc = "skip" /\ status = -1 /\ ret = -1
  \/ /\ pc \in {"confirmReset", "disableErr", "capabilities", "iprog", "remove", "rescan"}
     /\ ~Wants("write") /\ ret = -1

Flow ==
  /\ pc \in Places
  /\ pc \in WithDevice => IsOpen
  /\ pc \in {"open", "exit"} => fdev = Closed
  /\ call # NoCall => /\ pc = "loop" /\ prog.asked > 0 /\ call.op = DriverOp(prog.op)
  /\ pc = "loop" <=> prog # NoProg
  /\ Waiting =>
       IF IsOpen
       THEN call # NoCall /\ chip.busy.op = IF call.op = "erase" THEN "erase" ELSE "program"
       ELSE NotOpened
  /\ call # NoCall => call.op # "read" \/ ~Waiting
  /\ status = -1 => pc \in {"skip", "err", "exit"}
  /\ pc \in {"confirmWrite", "program", "programmed"} => Wants("write")

(* The segment, for a file made of whole blocks within the chip.           *)
End == seg.offset + seg.size
Whole == End <= Cells /\ seg.offset % fdev.eraseBlock = 0 /\ End % fdev.eraseBlock = 0
Located ==
  pc \in WithSegment =>
    /\ Wants("write") => Whole
    /\ Using("spi") => \A a \in seg.offset .. End - 1 : ChipAddress(a) = a

(* The file in memory, from its confirmation to the last page.             *)
Wanted(i) == IF i < opts.file.len THEN ImageByte(opts.file, i) ELSE FF
Programming == prog.next \in {"program", "programmed"}
FileLoaded ==
  pc \in {"confirmWrite", "program", "programmed"} \/ (pc = "loop" /\ Programming) =>
    /\ Wants("write")
    /\ opts.file.len <= len /\ len <= seg.size
    /\ (seg.offset + len) % fdev.eraseBlock = 0
    /\ buf = [i \in 0 .. seg.size - 1 |-> Wanted(i)]

(* The loop and the call in it stay in the segment, in words of a BPI chip. *)
LoopEnd == prog.addr + prog.remain
PieceEnd == prog.addr + prog.asked
WritingWords == Using("bpi") /\ DriverOp(prog.op) = "write"
Extent ==
  pc = "loop" =>
    /\ prog.op = "erase" => prog.next \in {"load", "program"}
    /\ DriverOp(prog.op) = "write" => prog.next = "programmed"
    /\ prog.op = "read" => prog.next = "save"
    /\ seg.offset <= prog.addr /\ LoopEnd <= End /\ prog.asked <= prog.remain
    /\ Programming => LoopEnd = seg.offset + len
    /\ DriverOp(prog.op) = "write" => prog.src = prog.addr - seg.offset
    /\ WritingWords => prog.addr % 2 = 0 /\ LoopEnd % 2 = 0 /\ PieceEnd % 2 = 0
    /\ call # NoCall =>
         /\ prog.addr <= call.addr /\ call.addr + call.len = PieceEnd
         /\ call.op = "write" => call.src = call.addr - seg.offset
         /\ WritingWords => call.addr % 2 = 0

(* What is under way at the call's address, BPI: the call counts it when   *)
(* the chip is ready. An SPI call counts it at once.                       *)
Checking == call # NoCall /\ call.step = "check"
Count == IF call.op = "erase" THEN BlockSize(call.addr) ELSE Segment
Check ==
  Checking => /\ Using("bpi") /\ call.op \in {"write", "erase"}
              /\ Count \in 1 .. call.len
              /\ call.op = "erase" => call.addr % 2 = 0

Edge ==
  IF call # NoCall THEN call.addr + (IF Checking THEN Count ELSE 0)
  ELSE IF prog.asked > 0 /\ ret = 0 THEN PieceEnd ELSE prog.addr

(* The chip works in the segment, not ahead of the call.                   *)
Reached ==
  Waiting /\ IsOpen =>
    /\ Touches(chip.busy) \subseteq seg.offset .. Edge - 1
    /\ Using("bpi") => Checking /\ Touches(chip.busy) \subseteq call.addr .. Edge - 1

(* Nobody asks an SPI chip whether it has failed, so that what it holds is *)
(* known only of a board whose SPI chip does not.                          *)
Reliable == "spi" \notin WearOut

(* Behind the edge the cells are as the loop makes them, unless the chip  *)
(* is about to or has failed to; ahead of it they are erased.              *)
Target(a) == IF prog.next = "program" THEN FF ELSE buf[a - seg.offset]
Underway(a) ==
  \/ Waiting /\ a \in Touches(chip.busy)
  \/ Checking /\ chip.err /\ a >= call.addr
Behind ==
  Reliable /\ pc = "loop" /\ Programming =>
    \A a \in seg.offset .. Edge - 1 : cells[a] = Target(a) \/ Underway(a)
Ahead ==
  Reliable /\ pc = "loop" /\ prog.next = "programmed" /\ ~(Returned /\ ret # 0) =>
    \A a \in Edge .. seg.offset + len - 1 : cells[a] = FF
InFlight ==
  Reliable /\ Waiting /\ pc = "loop" /\ prog.next = "programmed" =>
    \A a \in DOMAIN chip.busy.data : chip.busy.data[a] = Target(a) /\ cells[a] = FF

(* Between the loops, and up to the boot.                                  *)
Erased ==
  Reliable /\ pc = "program" => \A a \in seg.offset .. seg.offset + len - 1 : cells[a] = FF
FileHeld == Reliable => ProgrammedIsFile
AfterWrite == {"programmed", "read", "save", "skip", "confirmReset", "disableErr", "iprog", "remove"}
Holds == \A i \in 0 .. opts.file.len - 1 : cells[seg.offset + i] = ImageByte(opts.file, i)
Kept ==
  Reliable /\ status = 0 /\ Wants("write") =>
    (pc \in AfterWrite \/ (pc = "loop" /\ prog.next = "save") => Holds)

IInv == TypeInv /\ Flow /\ Located /\ FileLoaded /\ Extent /\ Check /\ Reached
        /\ Behind /\ Ahead /\ InFlight /\ Erased /\ FileHeld /\ Kept
-----------------------------------------------------------------------------
(* Division, as blocks, pages and address bytes need it.                   *)
LEMMA DivMod ==
  ASSUME NEW m \in Nat \ {0}, NEW a \in Nat
  PROVE  a \div m \in Nat /\ a % m \in 0 .. m - 1 /\ a = m * (a \div m) + (a % m)
OBVIOUS

LEMMA DivModUnique ==
  ASSUME NEW m \in Nat \ {0}, NEW q \in Nat, NEW r \in 0 .. m - 1
  PROVE  (m * q + r) \div m = q /\ (m * q + r) % m = r
OBVIOUS

LEMMA DivLess ==
  ASSUME NEW m \in Nat \ {0}, NEW a \in Nat, NEW n \in Nat, a < m * n
  PROVE  a \div m < n
OBVIOUS

LEMMA WithinPage ==
  ASSUME NEW p \in Nat \ {0}, NEW a \in Nat, NEW i \in Nat, (a % p) + i < p
  PROVE  (a + i) % p = (a % p) + i
<1> DEFINE q == a \div p
           r == a % p
<1>1. q \in Nat /\ r \in 0 .. p - 1 /\ a = p * q + r
  BY DivMod
<1>2. r + i \in 0 .. p - 1
  BY <1>1
<1>3. (p * q + (r + i)) % p = r + i
  BY <1>1, <1>2, DivModUnique
<1>4. a + i = p * q + (r + i)
  <2> HIDE DEF q, r
  <2>1. p * q \in Nat
    BY <1>1
  <2> QED BY <1>1, <2>1
<1> QED BY <1>3, <1>4

(* An aligned block is the addresses with its number.                      *)
LEMMA BlockOf ==
  ASSUME NEW s \in Nat \ {0}, NEW f \in Nat, f % s = 0, NEW a \in Nat
  PROVE  a \div s = f \div s <=> a \in f .. f + s - 1
<1> DEFINE q == f \div s
<1>1. q \in Nat /\ f = s * q /\ s * q \in Nat
  BY DivMod
<1> HIDE DEF q
<1>2. ASSUME a \div s = q PROVE a \in f .. f + s - 1
  BY <1>1, <1>2, DivMod
<1>3. ASSUME a \in f .. f + s - 1 PROVE a \div s = q
  <2>1. a - f \in 0 .. s - 1 /\ a = s * q + (a - f)
    BY <1>1, <1>3
  <2> QED BY <1>1, <2>1, DivModUnique
<1> QED BY <1>2, <1>3 DEF q

(* Rounding up does not pass a multiple.                                   *)
LEMMA RoundUp ==
  ASSUME NEW e \in Nat \ {0}, NEW x \in Nat, NEW y \in Nat, y % e = 0, x <= y, x % e # 0
  PROVE  x + e - (x % e) <= y /\ (x + e - (x % e)) % e = 0
<1> DEFINE q == x \div e
           u == y \div e
           r == x % e
<1>1. q \in Nat /\ r \in 1 .. e - 1 /\ x = e * q + r /\ u \in Nat /\ y = e * u
  <2>1. q \in Nat /\ r \in 0 .. e - 1 /\ x = e * q + r
    BY DivMod, Zenon
  <2>2. u \in Nat /\ y % e \in 0 .. e - 1 /\ y = e * u + (y % e)
    BY DivMod, Zenon
  <2> HIDE DEF q, u
  <2>3. e * u \in Nat
    BY <2>2
  <2> QED BY <2>1, <2>2, <2>3
<1> HIDE DEF q, u, r
<1>2. q < u
  <2>1. CASE u <= q
    <3>1. e * u <= e * q
      BY <1>1, <2>1
    <3> QED BY <1>1, <3>1
  <2> QED BY <1>1, <2>1
<1>3. e * (q + 1) <= e * u /\ e * (q + 1) = e * q + e /\ e * q \in Nat
  BY <1>1, <1>2
<1>4. x + e - r = e * (q + 1)
  BY <1>1, <1>3
<1>5. (e * (q + 1) + 0) % e = 0
  BY <1>1, DivModUnique
<1> QED BY <1>1, <1>3, <1>4, <1>5 DEF r

LEMMA Evens ==
  ASSUME NEW x \in Nat, x % 8 = 0 \/ x % 4 = 0
  PROVE  x % 2 = 0
OBVIOUS

LEMMA MultiplesAdd ==
  ASSUME NEW e \in Nat \ {0}, NEW x \in Nat, NEW y \in Nat, x % e = 0, y % e = 0
  PROVE  (x + y) % e = 0
<1> DEFINE q == x \div e
           u == y \div e
<1>1. q \in Nat /\ x = e * q /\ u \in Nat /\ y = e * u
  BY DivMod
<1> HIDE DEF q, u
<1>2. x + y = e * (q + u) + 0
  BY <1>1
<1> QED BY <1>1, <1>2, DivModUnique

(* A piece ends at a multiple of its step, if it does not end the loop.    *)
LEMMA PieceFacts ==
  ASSUME NEW s \in Nat \ {0}, NEW a \in Nat
  PROVE  LET n == s - ((a + s) % s)
         IN  n \in 1 .. s /\ (s % 2 = 0 => (a + n) % 2 = 0)
<1> DEFINE q == (a + s) \div s
           r == (a + s) % s
<1>1. q \in Nat /\ r \in 0 .. s - 1 /\ a + s = s * q + r
  <2>1. a + s \in Nat
    OBVIOUS
  <2> QED BY <2>1, DivMod, Zenon
<1> HIDE DEF q, r
<1>2. ASSUME s % 2 = 0 PROVE (a + (s - r)) % 2 = 0
  <2>1. PICK h \in Nat : s = 2 * h
    BY <1>2
  <2>2. a + (s - r) = s * q
    BY <1>1
  <2>3. s * q = 2 * (h * q) /\ h * q \in Nat
    BY <1>1, <2>1
  <2> QED BY <2>2, <2>3
<1> QED BY <1>1, <1>2 DEF r

(* The chip decodes every address within its reach to itself.              *)
LEMMA ShortAddressDecodes ==
  ASSUME NEW a \in Nat, a < ShortReach
  PROVE  Decoded(AddrBytes(a), 3) = a
<1> DEFINE b == Byte
           x == a \div b
           y == x \div b
<1>1. b \in Nat \ {0}
  BY SpiFlashAssumption
<1>2. x \in Nat /\ a % b \in Nat /\ a = b * x + (a % b)
  <2>1. x \in Nat /\ a % b \in 0 .. b - 1 /\ a = b * x + (a % b)
    BY <1>1, DivMod, Zenon
  <2> HIDE DEF b, x, y
  <2> QED BY <1>1, <2>1
<1>3. y \in Nat /\ x % b \in Nat /\ x = b * y + (x % b)
  <2>1. y \in Nat /\ x % b \in 0 .. b - 1 /\ x = b * y + (x % b)
    BY <1>1, <1>2, DivMod, Zenon
  <2> HIDE DEF b, x, y
  <2> QED BY <1>1, <2>1
<1> HIDE DEF b, x, y
<1>4. y < b
  <2>1. b * b \in Nat \ {0} /\ b * b * b = b * (b * b) /\ a < b * (b * b)
    BY <1>1 DEF ShortReach, b
  <2>2. x < b * b
    BY <1>1, <2>1, DivLess DEF x
  <2> QED BY <1>1, <1>2, <2>2, DivLess DEF y
<1>5. y % b = y
  BY <1>1, <1>3, <1>4
<1>6. Decoded(AddrBytes(a), 3) = (a % b) + b * ((x % b) + b * ((y % b) + 0))
  BY DEF Decoded, AddrBytes, b, x, y
<1>7. b * ((y % b) + 0) = b * y
  <2>1. (y % b) + 0 = y
    BY ONLY <1>3, <1>5
  <2> QED BY <2>1, Zenon
<1>8. (x % b) + b * ((y % b) + 0) = x
  <2>1. b * y \in Nat
    BY <1>1, <1>3
  <2> QED BY ONLY <1>3, <1>7, <2>1
<1>9. Decoded(AddrBytes(a), 3) = (a % b) + b * x
  BY ONLY <1>6, <1>8
<1>10. b * x \in Nat
  BY <1>1, <1>2
<1> QED BY ONLY <1>2, <1>9, <1>10

LEMMA LongAddressDecodes ==
  ASSUME NEW a \in Nat, a < Byte * ShortReach
  PROVE  Decoded(AddrBytes(a), 4) = a
<1> DEFINE b == Byte
           x == a \div b
           y == x \div b
           z == y \div b
<1>1. b \in Nat \ {0}
  BY SpiFlashAssumption
<1>2. x \in Nat /\ a % b \in Nat /\ a = b * x + (a % b)
  <2>1. x \in Nat /\ a % b \in 0 .. b - 1 /\ a = b * x + (a % b)
    BY <1>1, DivMod, Zenon
  <2> HIDE DEF b, x, y
  <2> QED BY <1>1, <2>1
<1>3. y \in Nat /\ x % b \in Nat /\ x = b * y + (x % b)
  <2>1. y \in Nat /\ x % b \in 0 .. b - 1 /\ x = b * y + (x % b)
    BY <1>1, <1>2, DivMod, Zenon
  <2> HIDE DEF b, x, y
  <2> QED BY <1>1, <2>1
<1>4. z \in Nat /\ y % b \in Nat /\ y = b * z + (y % b)
  <2>1. z \in Nat /\ y % b \in 0 .. b - 1 /\ y = b * z + (y % b)
    BY <1>1, <1>3, DivMod, Zenon
  <2> HIDE DEF b, x, y, z
  <2> QED BY <1>1, <2>1
<1> HIDE DEF b, x, y, z
<1>5. z < b
  <2>1. b * b \in Nat \ {0} /\ b * b * b = b * (b * b) /\ b * b * b \in Nat \ {0} /\ a < b * (b * b * b)
    BY <1>1 DEF ShortReach, b
  <2>2. x < b * (b * b)
    BY <1>1, <2>1, DivLess DEF x
  <2>3. y < b * b
    BY <1>1, <1>2, <2>1, <2>2, DivLess DEF y
  <2> QED BY <1>1, <1>3, <2>3, DivLess DEF z
<1>6. z % b = z
  BY <1>1, <1>4, <1>5
<1>7. Decoded(AddrBytes(a), 4) = (a % b) + b * ((x % b) + b * ((y % b) + b * (z % b)))
  BY DEF Decoded, AddrBytes, b, x, y, z
<1>8. b * (z % b) = b * z /\ b * z \in Nat /\ b * y \in Nat /\ b * x \in Nat
  <2>1. b * (z % b) = b * z
    BY <1>6, Zenon
  <2> QED BY <1>1, <1>2, <1>3, <1>4, <2>1
<1>9. (y % b) + b * (z % b) = y
  BY ONLY <1>4, <1>8
<1>10. (x % b) + b * ((y % b) + b * (z % b)) = x
  BY ONLY <1>3, <1>8, <1>9
<1>11. Decoded(AddrBytes(a), 4) = (a % b) + b * x
  BY ONLY <1>7, <1>10
<1> QED BY ONLY <1>2, <1>8, <1>11
-----------------------------------------------------------------------------
(* What is open is what is on the board.                                   *)
LEMMA Devices ==
  ASSUME TypeInv
  PROVE  /\ Using("spi") => /\ chip \in SpiChips /\ chip.kind = "spi" /\ chip.answers
                            /\ chip.code \in SpiCodes \ {0}
                            /\ fdev.size = SizeOf(chip.code) /\ fdev.eraseBlock = SubsectorSize
                            /\ fdev.writeBuffer = PageSize
         /\ Using("bpi") => chip \in BpiChips /\ chip.kind = "bpi" /\ fdev = BpiDevice
         /\ IsOpen => Using("spi") \/ Using("bpi")
         /\ ~(Using("spi") /\ Using("bpi"))
         /\ Using("spi") \/ Using("bpi") => IsOpen
<1>1. ~(Using("spi") /\ Using("bpi"))
  BY DEF Using
<1>2. CASE fdev = Closed
  BY <1>1, <1>2 DEF Using, IsOpen, Closed
<1>3. CASE chip.kind = "spi" /\ chip.answers /\ fdev \in SpiDevices
  <2>1. chip \in SpiChips /\ chip.code \in SpiCodes \ {0}
    BY <1>3 DEF TypeInv, SpiChips, BpiChips
  <2>2. /\ fdev.driver = "spi" /\ fdev.size = SizeOf(chip.code)
        /\ fdev.eraseBlock = SubsectorSize /\ fdev.writeBuffer = PageSize
    BY <1>3 DEF SpiDevices
  <2>3. fdev # Closed
    BY <2>2 DEF Closed
  <2> QED BY <1>3, <2>1, <2>2, <2>3 DEF Using, IsOpen
<1>4. CASE chip.kind = "bpi" /\ fdev = BpiDevice
  <2>1. chip \in BpiChips
    BY <1>4 DEF TypeInv, SpiChips, BpiChips
  <2>2. fdev.driver = "bpi"
    BY <1>4 DEF BpiDevice
  <2>3. fdev # Closed
    BY <2>2 DEF Closed
  <2> QED BY <1>4, <2>1, <2>2, <2>3 DEF Using, IsOpen
<1> QED BY <1>2, <1>3, <1>4 DEF TypeInv

LEMMA SpiGeometry ==
  ASSUME TypeInv, Using("spi")
  PROVE  /\ fdev.size \in Nat \ {0} /\ fdev.size <= Cells /\ fdev.size <= Byte * ShortReach
         /\ fdev.size % SubsectorSize = 0
         /\ SubsectorSize \in Nat \ {0} /\ SectorSize \in Nat \ {0} /\ PageSize \in Nat \ {0}
         /\ Byte \in Nat \ {0} /\ ShortReach \in Nat \ {0} /\ ShortReach <= Byte * ShortReach
<1>1. /\ SubsectorSize \in Nat \ {0} /\ SectorSize \in Nat \ {0} /\ PageSize \in Nat \ {0}
      /\ Byte \in Nat \ {0}
  BY SpiFlashAssumption
<1>2. ShortReach \in Nat \ {0}
  BY <1>1 DEF ShortReach
<1>3. Byte * ShortReach \in Nat /\ ShortReach <= Byte * ShortReach
  BY <1>1, <1>2
<1>4. fdev.size \in 1 .. Least(Cells, Byte * ShortReach) /\ fdev.size % SubsectorSize = 0
  BY Devices, GeometryAssumption
<1>5. Cells \in Nat
  BY FlashDeviceAssumption
<1> QED BY <1>1, <1>2, <1>3, <1>4, <1>5 DEF Least

(* What main finds for a slot: whole blocks in the chip, or no segment.    *)
LEMMA Decodes ==
  ASSUME TypeInv, Using("spi"), NEW a \in Nat, a < fdev.size \/ a < ShortReach
  PROVE  ChipAddress(a) = a
<1>1. /\ fdev.size \in Nat /\ fdev.size <= Byte * ShortReach
      /\ ShortReach \in Nat /\ ShortReach <= Byte * ShortReach /\ Byte * ShortReach \in Nat
  BY SpiGeometry
<1>2. CASE fdev.size > ShortReach
  <2>1. AddressLength = 4
    BY <1>2 DEF AddressLength
  <2>2. a < Byte * ShortReach
    BY <1>1
  <2> QED BY <2>1, <2>2, LongAddressDecodes DEF ChipAddress
<1>3. CASE ~(fdev.size > ShortReach)
  <2>1. AddressLength = 3
    BY <1>3 DEF AddressLength
  <2>2. a < ShortReach
    BY <1>1, <1>3
  <2> QED BY <2>1, <2>2, ShortAddressDecodes DEF ChipAddress
<1> QED BY <1>2, <1>3

LEMMA BpiGeometry ==
  ASSUME TypeInv, Using("bpi")
  PROVE  /\ fdev.size = Cells /\ fdev.eraseBlock = 8 /\ fdev.writeBuffer = 4
         /\ fdev.regions = BpiRegions /\ Cells \in Nat \ {0} /\ Cells % 32 = 0 /\ Cells >= 32
<1>1. fdev = BpiDevice
  BY Devices
<1>2. Cells \in Nat \ {0} /\ Cells % 32 = 0
  BY FlashDeviceAssumption, GeometryAssumption
<1> QED BY <1>1, <1>2 DEF BpiDevice

LEMMA LayoutsAreWhole ==
  ASSUME TypeInv, IsOpen, NEW layout \in Layouts, NEW slot \in DOMAIN layout
  PROVE  LET s == layout[slot]
         IN  /\ s.offset \in Nat /\ s.size \in Nat /\ s.offset + s.size <= fdev.size
             /\ s.offset % fdev.eraseBlock = 0 /\ (s.offset + s.size) % fdev.eraseBlock = 0
             /\ s = [offset |-> s.offset, size |-> s.size]
<1>1. CASE Using("spi")
  <2>1. /\ fdev.size \in Nat \ {0} /\ fdev.size % SubsectorSize = 0 /\ fdev.eraseBlock = SubsectorSize
        /\ Segment0 \in Nat \ {0} /\ Segment0 % SubsectorSize = 0
        /\ SubsectorSize \in Nat \ {0}
    BY <1>1, SpiGeometry, Devices, FirmwareAssumption, GeometryAssumption
  <2>2. layout = Segments(2, Segment0, fdev.size)
    BY <1>1 DEF Layouts
  <2>3. CASE Segment0 \in 1 .. fdev.size
    <3>1. layout = [k \in {0, 1} |-> [offset |-> k * Segment0,
                                      size |-> IF k = 0 THEN Segment0 ELSE fdev.size - Segment0]]
      BY <2>1, <2>2, <2>3 DEF Segments
    <3>2. slot \in {0, 1}
      BY <3>1
    <3>3. CASE slot = 0
      <4>1. layout[slot] = [offset |-> 0, size |-> Segment0]
        BY <2>1, <3>1, <3>3
      <4>2. 0 % SubsectorSize = 0
        BY <2>1
      <4> QED BY <2>1, <2>3, <4>1, <4>2
    <3>4. CASE slot = 1
      <4>1. layout[slot] = [offset |-> Segment0, size |-> fdev.size - Segment0]
        BY <2>1, <3>1, <3>4
      <4>2. Segment0 + (fdev.size - Segment0) = fdev.size
        BY <2>1
      <4> QED BY <2>1, <2>3, <4>1, <4>2
    <3> QED BY <3>2, <3>3, <3>4
  <2>4. CASE ~(Segment0 \in 1 .. fdev.size)
    <3>1. layout = <<>>
      BY <2>1, <2>2, <2>4 DEF Segments
    <3> QED BY <3>1
  <2> QED BY <2>3, <2>4
<1>2. CASE Using("bpi")
  <2>1. /\ fdev.size = Cells /\ fdev.eraseBlock = 8 /\ Cells \in Nat \ {0} /\ Cells % 32 = 0
    BY <1>2, BpiGeometry
  <2>2. PICK c \in {2, 4, 3} : layout = Segments(c, 0, Cells)
    BY <1>2, <2>1, Devices DEF Layouts
  <2>3. PICK m \in Nat : Cells = 32 * m
    BY <2>1
  <2>4. CASE c = 3
    <3>1. layout = <<>>
      BY <2>2, <2>4 DEF Segments
    <3> QED BY <3>1
  <2>5. CASE c \in {2, 4}
    <3>1. layout = Equal(c, Cells)
      BY <2>2, <2>5 DEF Segments
    <3>2. slot \in 0 .. c - 1 /\ layout[slot] = [offset |-> slot * (Cells \div c), size |-> Cells \div c]
      BY <3>1 DEF Equal
    <3>3. CASE c = 2
      <4>1. slot \in {0, 1} /\ Cells \div c = 16 * m
        BY <2>3, <3>2, <3>3
      <4> DEFINE o == slot * (Cells \div c)
                 n == Cells \div c
      <4>2. o \in {0, 16 * m}
        BY <2>3, <4>1
      <4>3. layout[slot] = [offset |-> o, size |-> n] /\ n = 16 * m
        BY <3>2, <4>1
      <4> HIDE DEF o, n
      <4>4. o \in Nat /\ n \in Nat /\ o + n <= Cells /\ o % 8 = 0 /\ (o + n) % 8 = 0
        BY ONLY <2>3, <4>2, <4>3
      <4> QED BY <2>1, <4>3, <4>4
    <3>4. CASE c = 4
      <4>1. slot \in {0, 1, 2, 3} /\ Cells \div c = 8 * m
        BY <2>3, <3>2, <3>4
      <4> DEFINE o == slot * (Cells \div c)
                 n == Cells \div c
      <4>2. o \in {0, 8 * m, 16 * m, 24 * m}
        BY <2>3, <4>1
      <4>3. layout[slot] = [offset |-> o, size |-> n] /\ n = 8 * m
        BY <3>2, <4>1
      <4> HIDE DEF o, n
      <4>4. o \in Nat /\ n \in Nat /\ o + n <= Cells /\ o % 8 = 0 /\ (o + n) % 8 = 0
        BY ONLY <2>3, <4>2, <4>3
      <4> QED BY <2>1, <4>3, <4>4
    <3> QED BY <2>5, <3>3, <3>4
  <2> QED BY <2>4, <2>5
<1> QED BY <1>1, <1>2, Devices
-----------------------------------------------------------------------------
(* Steps of main outside the loops.                                        *)
LEMMA NoLoop ==
  ASSUME TypeInv, Flow, pc # "loop"
  PROVE  /\ Extent /\ Check /\ Reached /\ Behind /\ Ahead /\ InFlight
         /\ prog = NoProg /\ call = NoCall /\ (Waiting => ~IsOpen)
BY DEF Flow, Extent, Check, Reached, Behind, Ahead, InFlight, Checking

LEMMA NoLoopNext ==
  ASSUME Flow', pc' # "loop"
  PROVE  Extent' /\ Check' /\ Reached' /\ Behind' /\ Ahead' /\ InFlight'
<1>1. call' = NoCall /\ (Waiting' => ~IsOpen')
  BY DEF Flow, NoCall
<1> QED BY <1>1 DEF Extent, Check, Reached, Behind, Ahead, InFlight, Checking, NoCall

LEMMA ToolTypes ==
  ASSUME TypeInv, UNCHANGED <<cells, chip, fdev, opts>>,
         call' = NoCall \/ call' \in Calls, ret' \in {0, -1}, status' \in {0, -1},
         seg' \in [offset : Nat, size : Nat], len' \in 0 .. Cells,
         prog' = NoProg \/ prog' \in Loops, port' \in Ports, runs' \in 0 .. Runs - 1
  PROVE  TypeInv'
BY DEF TypeInv, SpiDevices

LEMMA Straight ==
  ASSUME IInv, pc # "loop", UNCHANGED <<flashVars, opts, seg, buf, len, prog>>,
         runs' = runs, port' \in Ports, status' \in {0, -1},
         pc' \in Places \ {"open", "segments", "loop", "confirmWrite", "program", "programmed", "exit"},
         pc' \in WithSegment => pc \in WithSegment,
         NotOpened => NotOpened',
         status' = -1 => pc' \in {"skip", "err"},
         pc' \in AfterWrite /\ status' = 0 /\ Wants("write") => pc \in AfterWrite /\ status = 0
  PROVE  IInv'
<1> USE DEF IInv
<1>1. TypeInv'
  <2>1. /\ UNCHANGED <<cells, chip, fdev, opts, call, ret, seg, len, prog, runs>>
    BY DEF flashVars
  <2> QED BY <2>1, ToolTypes DEF TypeInv
<1>2. prog = NoProg /\ call = NoCall /\ (Waiting => ~IsOpen)
  BY NoLoop
<1>3. Flow'
  BY <1>2 DEF Flow, flashVars, WithDevice, WithSegment, Places, IsOpen, Waiting, Wants
<1>4. Located'
  BY DEF Located, flashVars, Wants, Whole, End, Using, ChipAddress, AddressLength
<1>5. FileLoaded' /\ Erased' /\ FileHeld'
  BY DEF FileLoaded, Erased, FileHeld, ProgrammedIsFile
<1>6. Kept'
  BY DEF Kept, Holds, flashVars, Wants
<1> QED BY <1>1, <1>3, <1>4, <1>5, <1>6, NoLoopNext

Aside ==
  \/ NothingToWrite \/ Succeeded \/ SaveFile \/ ConfirmReset \/ DisableFatalErr
  \/ TriggerBoot \/ RemoveDevice \/ HotReset \/ NoTriesLeft

LEMMA AsideKeeps ==
  ASSUME IInv, Aside
  PROVE  IInv'
<1>1. /\ pc \notin {"open", "exit", "loop"} /\ pc \in Places
      /\ UNCHANGED <<flashVars, opts, seg, buf, len, prog>> /\ runs' = runs
  BY DEF Aside, NothingToWrite, Succeeded, SaveFile, ConfirmReset, DisableFatalErr, TriggerBoot,
         RemoveDevice, HotReset, NoTriesLeft, Confirm, IInv, Flow
<1>2. status \in {0, -1} /\ (pc \notin {"skip", "err"} => status = 0)
  BY <1>1 DEF IInv, Flow, TypeInv
<1>3. port' \in Ports
  <2>1. port \in Ports
    BY DEF IInv, TypeInv
  <2>2. CASE port' = port
    BY <2>1, <2>2
  <2>3. CASE DisableFatalErr
    <3>1. PICK found \in BOOLEAN : port' = [port EXCEPT !.serr = @ /\ ~found]
      BY <2>3 DEF DisableFatalErr
    <3>2. CASE found
      <4>1. port' = [port EXCEPT !.serr = FALSE]
        BY <2>1, <3>1, <3>2, Zenon DEF Ports
      <4> QED BY <2>1, <4>1 DEF Ports
    <3> QED BY <2>1, <3>1 DEF Ports
  <2>4. CASE TriggerBoot
    <3> DEFINE boot == Wants("boot")
    <3>1. boot \in BOOLEAN /\ port' = [port EXCEPT !.iprog = boot]
      BY <2>4 DEF TriggerBoot, Wants
    <3> HIDE DEF boot
    <3> QED BY ONLY <2>1, <3>1 DEF Ports
  <2>5. CASE RemoveDevice
    BY <2>1, <2>5 DEF RemoveDevice, Ports
  <2>6. CASE HotReset
    <3>1. CASE port' = [port EXCEPT !.tries = @ - 1]
      BY <2>1, <2>6, <3>1 DEF HotReset, Ports, Tries
    <3> QED BY <2>1, <2>6, <3>1 DEF HotReset, Ports
  <2> QED BY <2>2, <2>3, <2>4, <2>5, <2>6
          DEF Aside, NothingToWrite, Succeeded, SaveFile, ConfirmReset, NoTriesLeft
<1>4. pc' \in {"read", "skip", "disableErr", "capabilities", "iprog", "remove", "rescan", "err"}
  BY DEF Aside, NothingToWrite, Succeeded, SaveFile, ConfirmReset, DisableFatalErr, TriggerBoot,
         RemoveDevice, HotReset, NoTriesLeft, Confirm, Goto, Fail
<1>5. pc' = "read" => pc \in WithSegment
  BY DEF Aside, NothingToWrite, Succeeded, SaveFile, ConfirmReset, DisableFatalErr, TriggerBoot,
         RemoveDevice, HotReset, NoTriesLeft, Confirm, Goto, Fail, WithSegment, WithDevice
<1>6. status' \in {0, -1} /\ (status' = -1 => pc' \in {"skip", "err"})
  BY <1>2 DEF Aside, NothingToWrite, Succeeded, SaveFile, ConfirmReset, DisableFatalErr, TriggerBoot,
         RemoveDevice, HotReset, NoTriesLeft, Confirm, Goto, Fail
<1>7. pc' \in AfterWrite /\ status' = 0 /\ Wants("write") => pc \in AfterWrite /\ status = 0
  BY <1>2 DEF Aside, NothingToWrite, Succeeded, SaveFile, ConfirmReset, DisableFatalErr, TriggerBoot,
         RemoveDevice, HotReset, NoTriesLeft, Confirm, Goto, Fail, AfterWrite
<1>8. NotOpened => NotOpened'
  BY <1>1 DEF Aside, NothingToWrite, Succeeded, SaveFile, ConfirmReset, DisableFatalErr, TriggerBoot,
         RemoveDevice, HotReset, NoTriesLeft, Confirm, Goto, Fail, NotOpened, Wants, flashVars
<1> QED BY <1>1, <1>3, <1>4, <1>5, <1>6, <1>7, <1>8, Straight DEF Places, WithDevice, WithSegment

(* Steps to where main holds no segment.                                   *)
LEMMA Nowhere ==
  ASSUME TypeInv', Flow',
         \/ pc' \in {"open", "segments", "rescan", "err", "exit"}
         \/ pc' = "skip" /\ status' = -1
  PROVE  IInv'
<1>1. pc' # "loop"
  OBVIOUS
<1>2. Located' /\ FileLoaded' /\ Erased' /\ FileHeld' /\ Kept'
  BY DEF Located, FileLoaded, Erased, FileHeld, ProgrammedIsFile, Kept, AfterWrite, WithSegment, WithDevice
<1> QED BY <1>1, <1>2, NoLoopNext DEF IInv

LEMMA ExitKeeps ==
  ASSUME IInv, Exit
  PROVE  IInv'
<1>1. /\ pc = "err" /\ pc' = "exit" /\ fdev' = Closed /\ call' = NoCall
      /\ UNCHANGED <<cells, chip, ret, opts, status, seg, buf, len, prog, port, runs>>
  BY DEF Exit, Release, Goto
<1>2. TypeInv'
  BY <1>1 DEF TypeInv, IInv, SpiDevices
<1>3. Flow'
  BY <1>1 DEF Flow, IInv, Places, WithDevice, Waiting, IsOpen, NotOpened
<1> QED BY <1>1, <1>2, <1>3, Nowhere

LEMMA KillKeeps ==
  ASSUME IInv, Kill
  PROVE  IInv'
<1>1. /\ pc' = "exit" /\ status' = -1 /\ prog' = NoProg /\ fdev' = Closed /\ call' = NoCall
      /\ UNCHANGED <<cells, chip, ret, opts, seg, buf, len, port, runs>>
  BY DEF Kill
<1>2. TypeInv'
  BY <1>1 DEF TypeInv, IInv, SpiDevices
<1>3. Flow'
  BY <1>1 DEF Flow, IInv, Places, WithDevice, IsOpen, NotOpened
<1> QED BY <1>1, <1>2, <1>3, Nowhere

LEMMA RunAgainKeeps ==
  ASSUME IInv, RunAgain
  PROVE  IInv'
<1>1. /\ pc = "exit" /\ runs' = runs - 1 /\ runs > 0
      /\ pc' = "open" /\ status' = 0 /\ ret' = 0 /\ seg' = NoSegment /\ len' = 0
      /\ port' = [online |-> TRUE, serr |-> TRUE, iprog |-> FALSE, tries |-> Tries]
      /\ opts' \in Options
      /\ UNCHANGED <<cells, chip, fdev, call, prog>>
  BY DEF RunAgain, LaterOptions, IInv, TypeInv
<1>2. TypeInv'
  <2>1. seg' \in [offset : Nat, size : Nat] /\ port' \in Ports
    BY <1>1 DEF NoSegment, Ports, Tries
  <2>2. runs \in 0 .. Runs - 1 /\ len' \in 0 .. Cells /\ runs' \in 0 .. Runs - 1
    BY <1>1, FlashDeviceAssumption, FirmwareAssumption DEF TypeInv, IInv
  <2>3. (call' = NoCall \/ call' \in Calls) /\ (prog' = NoProg \/ prog' \in Loops)
    BY <1>1 DEF TypeInv, IInv
  <2>4. ret' \in {0, -1} /\ status' \in {0, -1}
    BY <1>1
  <2> QED BY <1>1, <2>1, <2>2, <2>3, <2>4 DEF IInv, TypeInv, SpiDevices
<1>3. Flow'
  BY <1>1 DEF Flow, IInv, Places, WithDevice, Waiting, IsOpen, NotOpened
<1> QED BY <1>1, <1>2, <1>3, Nowhere

LEMMA SkipFlashKeeps ==
  ASSUME IInv, SkipFlash
  PROVE  IInv'
<1>1. pc = "skip" /\ UNCHANGED <<cells, chip, ret, opts, seg, buf, len, prog, port, runs>>
  BY DEF SkipFlash
<1>2. /\ call = NoCall /\ prog = NoProg /\ TypeInv /\ Flow /\ Kept /\ status \in {0, -1}
      /\ Waiting => ~IsOpen /\ status = -1 /\ ret = -1
  BY <1>1, NoLoop DEF IInv, TypeInv, Flow, NotOpened
<1>3. CASE pc' = "err" /\ UNCHANGED <<status, fdev, call>>
  <2>1. TypeInv'
    BY <1>1, <1>2, <1>3 DEF TypeInv, SpiDevices
  <2>2. Flow'
    BY <1>1, <1>2, <1>3 DEF Flow, Places, WithDevice, Waiting, IsOpen, NotOpened
  <2> QED BY <1>3, <2>1, <2>2, Nowhere
<1>4. CASE /\ ~(status < 0 /\ (Wants("read") \/ Wants("write")))
           /\ status' = 0 /\ fdev' = Closed /\ call' = NoCall /\ pc' \in {"confirmReset", "err"}
  <2>1. TypeInv'
    BY <1>1, <1>2, <1>4 DEF TypeInv, SpiDevices
  <2>2. Flow'
    BY <1>1, <1>2, <1>4 DEF Flow, Places, WithDevice, Waiting, IsOpen, NotOpened, Wants
  <2>3. Located' /\ FileLoaded' /\ Erased' /\ FileHeld'
    BY <1>4 DEF Located, FileLoaded, Erased, FileHeld, ProgrammedIsFile, WithSegment, WithDevice
  <2>4. Kept'
    <3>1. Wants("write") => status = 0
      BY <1>2, <1>4 DEF TypeInv
    <3>2. Wants("write")' = Wants("write") /\ Holds' = Holds
      BY <1>1 DEF Wants, Holds
    <3> QED BY <1>1, <1>2, <1>4, <3>1, <3>2 DEF Kept, AfterWrite
  <2> QED BY <1>4, <2>1, <2>2, <2>3, <2>4, NoLoopNext DEF IInv
<1> QED BY <1>3, <1>4 DEF SkipFlash, Goto, Release
-----------------------------------------------------------------------------
(* A board at the start, and the flash when it is opened.                  *)
LEMMA OpsAre ==
  ASSUME TypeInv
  PROVE  /\ chip.busy \in ChipOps /\ Idle \in ChipOps
         /\ Waiting => \/ chip.busy.op = "erase" /\ chip.busy.block \in SUBSET Int
                       \/ chip.busy.op = "program" /\ chip.busy.data \in Data
<1>1. chip.busy \in ChipOps
  BY DEF TypeInv, SpiChips, BpiChips
<1> QED BY <1>1 DEF ChipOps, Waiting

LEMMA InitHolds == ToolInit => IInv
<1> SUFFICES ASSUME ToolInit PROVE IInv
  OBVIOUS
<1>1. /\ cells = [a \in Addresses |-> Old] /\ chip \in Chips /\ fdev = Closed /\ call = NoCall
      /\ ret = 0 /\ opts \in Options /\ pc = "open" /\ status = 0 /\ seg = NoSegment
      /\ len = 0 /\ prog = NoProg /\ runs = Runs - 1
      /\ port = [online |-> TRUE, serr |-> TRUE, iprog |-> FALSE, tries |-> Tries]
  BY DEF ToolInit, FlashInit
<1>2. /\ \/ chip \in SpiChips /\ chip.answers = (chip.code # 0)
         \/ chip \in BpiChips
      /\ chip.kind \in Drivers
  <2> DEFINE SpiOnes == {[kind |-> "spi", set |-> "spi", answers |-> c # 0, code |-> c, lanes |-> l,
                          quad |-> FALSE, wel |-> FALSE, busy |-> Idle, err |-> FALSE,
                          mode |-> "array"] : c \in SpiCodes, l \in {1, 4}}
             BpiOnes == {[kind |-> "bpi", set |-> s, answers |-> TRUE, mode |-> m, busy |-> Idle,
                          err |-> FALSE, size |-> Cells, buffer |-> 4, regions |-> BpiRegions] :
                          s \in CommandSets \cup {"other"}, m \in {"array", "sync", "abort"}}
  <2>1. Idle \in ChipOps
    BY DEF ChipOps
  <2>2. CASE "spi" \in Drivers /\ chip \in SpiOnes
    <3>1. PICK c \in SpiCodes, l \in {1, 4} :
            chip = [kind |-> "spi", set |-> "spi", answers |-> c # 0, code |-> c, lanes |-> l,
                    quad |-> FALSE, wel |-> FALSE, busy |-> Idle, err |-> FALSE, mode |-> "array"]
      BY <2>2
    <3> DEFINE answers == c # 0
    <3>2. answers \in BOOLEAN
      OBVIOUS
    <3>3. chip = [kind |-> "spi", set |-> "spi", answers |-> answers, code |-> c, lanes |-> l,
                  quad |-> FALSE, wel |-> FALSE, busy |-> Idle, err |-> FALSE, mode |-> "array"]
      BY <3>1
    <3>4. chip.code = c /\ chip.kind = "spi" /\ chip.answers = answers
      BY <3>3, Zenon
    <3>5. chip \in SpiChips
      <4> HIDE DEF answers
      <4> QED BY ONLY <3>2, <3>3, <2>1 DEF SpiChips
    <3>6. chip.answers = (chip.code # 0)
      BY <3>4, Zenon
    <3>7. "spi" \in Drivers
      BY <2>2
    <3>8. chip.kind \in Drivers
      BY ONLY <3>4, <3>7
    <3> QED BY ONLY <3>5, <3>6, <3>8
  <2>3. CASE "bpi" \in Drivers /\ chip \in BpiOnes
    <3>1. PICK s \in CommandSets \cup {"other"}, m \in {"array", "sync", "abort"} :
            chip = [kind |-> "bpi", set |-> s, answers |-> TRUE, mode |-> m, busy |-> Idle,
                    err |-> FALSE, size |-> Cells, buffer |-> 4, regions |-> BpiRegions]
      BY <2>3
    <3>2. chip \in BpiChips /\ chip.kind = "bpi"
      BY ONLY <2>1, <3>1 DEF BpiChips
    <3>3. "bpi" \in Drivers
      BY <2>3
    <3> QED BY ONLY <3>2, <3>3
  <2>4. Chips = (IF "spi" \in Drivers THEN SpiOnes ELSE {}) \cup
                (IF "bpi" \in Drivers THEN BpiOnes ELSE {})
    BY DEF Chips
  <2>5. chip \in Chips
    BY <1>1
  <2> HIDE DEF SpiOnes, BpiOnes
  <2> QED BY ONLY <2>2, <2>3, <2>4, <2>5
<1>3. TypeInv
  <2>1. cells \in [Addresses -> Values]
    BY <1>1 DEF Values
  <2>2. seg \in [offset : Nat, size : Nat] /\ port \in Ports
    BY <1>1 DEF NoSegment, Ports, Tries
  <2>3. len \in 0 .. Cells /\ runs \in 0 .. Runs - 1
    BY <1>1, FlashDeviceAssumption, FirmwareAssumption
  <2>4. ret \in {0, -1} /\ status \in {0, -1} /\ opts \in Options
    BY <1>1
  <2>5. fdev = Closed /\ call = NoCall /\ prog = NoProg
    BY <1>1
  <2> QED BY <1>2, <2>1, <2>2, <2>3, <2>4, <2>5 DEF TypeInv
<1>4. Flow
  BY <1>1 DEF Flow, Places, WithDevice, NoProg, IsOpen, NotOpened
<1>5. Located /\ FileLoaded /\ Erased /\ FileHeld /\ Kept
  BY <1>1 DEF Located, FileLoaded, Erased, FileHeld, ProgrammedIsFile, Kept, AfterWrite, WithSegment, WithDevice
<1> QED BY <1>1, <1>3, <1>4, <1>5, NoLoop DEF IInv

LEMMA OpenFlashKeeps ==
  ASSUME IInv, OpenFlash
  PROVE  IInv'
<1>1. /\ pc = "open" /\ UNCHANGED <<opts, seg, buf, len, prog, port, runs>>
      /\ IF chip.kind = "spi" THEN SpiOpen(chip.lanes) ELSE BpiOpen
      /\ pc' = IF ret' = 0 THEN "segments" ELSE "skip"
      /\ status' = IF ret' = 0 THEN status ELSE -1
  BY DEF OpenFlash, Goto
<1>2. TypeInv /\ Flow /\ prog = NoProg /\ call = NoCall /\ status = 0
  <2>1. TypeInv /\ Flow
    BY DEF IInv
  <2>2. status = 0
    BY <1>1, <2>1 DEF Flow, TypeInv
  <2> QED BY <1>1, <2>1, <2>2, NoLoop
<1>3. cells' \in [Addresses -> Values] /\ call' = NoCall /\ ret' \in {0, -1}
  BY <1>1, <1>2 DEF SpiOpen, BpiOpen, AbortedCells, TypeInv, Values
<1>4. /\ Waiting' => ret' = -1 /\ fdev' = Closed
      /\ chip'.kind = chip.kind
      /\ \/ chip' \in SpiChips /\ chip'.answers = (chip'.code # 0)
         \/ chip' \in BpiChips
      /\ \/ fdev' = Closed
         \/ chip'.kind = "spi" /\ chip'.answers /\ fdev' \in SpiDevices'
         \/ chip'.kind = "bpi" /\ fdev' = BpiDevice
      /\ ret' = 0 => fdev' # Closed
  <2>1. CASE chip.kind = "spi"
    <3>1. chip \in SpiChips /\ chip.answers = (chip.code # 0) /\ chip.lanes \in {1, 4}
      BY <1>2, <2>1 DEF TypeInv, BpiChips, SpiChips
    <3> DEFINE quad == chip.lanes = 4
    <3>2. quad \in BOOLEAN /\ Idle \in ChipOps
      BY DEF ChipOps
    <3>3. chip' = [chip EXCEPT !.busy = Idle, !.wel = FALSE, !.quad = quad]
      BY <1>1, <2>1 DEF SpiOpen
    <3> HIDE DEF quad
    <3>4. /\ chip' \in SpiChips /\ chip'.code = chip.code /\ chip'.answers = chip.answers
          /\ chip'.kind = chip.kind /\ chip'.busy = Idle
      BY ONLY <3>1, <3>2, <3>3 DEF SpiChips
    <3>5. CASE chip.answers
      <4>1. fdev' = [driver |-> "spi", size |-> SizeOf(chip.code), width |-> chip.lanes,
                     writeBuffer |-> PageSize, eraseBlock |-> SubsectorSize]
        BY <1>1, <2>1, <3>5 DEF SpiOpen
      <4>2. SizeOf(chip.code) = SizeOf(chip'.code)
        BY <3>4
      <4>3. fdev' \in SpiDevices' /\ fdev'.driver = "spi"
        BY <3>1, <4>1, <4>2 DEF SpiDevices
      <4> QED BY <2>1, <3>1, <3>4, <3>5, <4>3 DEF Waiting, Closed
    <3>6. CASE ~chip.answers
      BY <1>1, <2>1, <3>1, <3>4, <3>6 DEF SpiOpen, Waiting
    <3> QED BY <3>5, <3>6
  <2>2. CASE chip.kind # "spi"
    <3>1. chip \in BpiChips /\ chip.kind = "bpi"
      BY <1>2, <2>2 DEF TypeInv, SpiChips, BpiChips
    <3> DEFINE asked == Queried(chip)
               usable == /\ ~Waiting
                         /\ AnswersQuery(asked) /\ asked.set \in CommandSets
                         /\ Len(asked.regions) > 0
    <3>2. CASE Waiting
      BY <1>1, <2>2, <3>1, <3>2 DEF BpiOpen
    <3>3. SUFFICES ASSUME ~Waiting
                   PROVE  /\ Waiting' => ret' = -1 /\ fdev' = Closed
                          /\ chip'.kind = chip.kind
                          /\ chip' \in BpiChips
                          /\ \/ fdev' = Closed
                             \/ chip'.kind = "bpi" /\ fdev' = BpiDevice
                          /\ ret' = 0 => fdev' # Closed
      BY <3>2
    <3>4. /\ chip.busy = Idle
          /\ MadeAsync(chip) \in BpiChips /\ MadeAsync(chip).busy = Idle
      <4>1. chip.busy = Idle
        BY <3>3 DEF Waiting
      <4> QED BY ONLY <3>1, <4>1 DEF MadeAsync, BpiChips, ArrayMode
    <3>5. asked \in BpiChips /\ asked.busy = Idle
      <4> DEFINE m == MadeAsync(chip)
      <4> HIDE DEF m
      <4>1. AbortReset(m) \in BpiChips /\ AbortReset(m).busy = Idle
        BY <3>4 DEF m, AbortReset, BpiChips, ArrayMode
      <4> QED BY <4>1 DEF m, Queried
    <3> HIDE DEF asked
    <3>6. OpsInit(asked) \in BpiChips /\ OpsInit(asked).busy = Idle
      BY ONLY <3>5 DEF OpsInit, BpiChips, ArrayMode
    <3>7. Deselected(asked) \in BpiChips /\ Deselected(asked).busy = Idle
      BY ONLY <3>5 DEF Deselected, BpiChips, ArrayMode
    <3>8. chip' = (IF usable THEN OpsInit(asked) ELSE Deselected(asked))
      BY <1>1, <2>2, <3>3 DEF BpiOpen, asked
    <3>9. chip' \in BpiChips /\ chip'.busy = Idle /\ chip'.kind = "bpi"
      <4>1. chip' \in BpiChips /\ chip'.busy = Idle
        BY <3>6, <3>7, <3>8, Zenon
      <4> QED BY <4>1 DEF BpiChips
    <3>10. CASE usable
      <4>1. ret' = 0 /\ fdev' = [driver |-> "bpi", size |-> chip.size, writeBuffer |-> chip.buffer,
                                 eraseBlock |-> EraseBlock(chip.regions), regions |-> chip.regions]
        BY <1>1, <2>2, <3>10 DEF BpiOpen, asked
      <4>2. EraseBlock(BpiRegions) = 8
        <5>1. {BpiRegions[k].size : k \in DOMAIN BpiRegions} = {4, 8}
          BY DEF BpiRegions
        <5>2. \A s \in {4, 8} : (\A t \in {4, 8} : t <= s) <=> s = 8
          OBVIOUS
        <5> QED BY <5>1, <5>2 DEF EraseBlock
      <4>3. chip.size = Cells /\ chip.buffer = 4 /\ chip.regions = BpiRegions
        BY <3>1 DEF BpiChips
      <4>4. fdev' = BpiDevice
        BY <4>1, <4>2, <4>3, Zenon DEF BpiDevice
      <4>5. fdev'.driver = "bpi"
        BY <4>1
      <4> QED BY <3>1, <3>9, <4>4, <4>5 DEF Waiting, Closed
    <3>11. CASE ~usable
      <4>1. /\ ret' = (IF usable THEN 0 ELSE -1)
            /\ ~usable => fdev' = Closed
        BY <1>1, <2>2, Zenon DEF BpiOpen, asked
      <4> HIDE DEF usable
      <4> QED BY <3>1, <3>9, <3>11, <4>1 DEF Waiting
    <3> QED BY <3>10, <3>11
  <2> QED BY <2>1, <2>2
<1>5. TypeInv'
  BY <1>1, <1>2, <1>3, <1>4 DEF TypeInv
<1>6. Flow'
  BY <1>1, <1>2, <1>3, <1>4 DEF Flow, Places, WithDevice, IsOpen, NotOpened
<1> QED BY <1>1, <1>3, <1>5, <1>6, Nowhere
-----------------------------------------------------------------------------
(* The selected segment: of the layout, or, to erase, what the stack holds. *)
LEMMA ChosenSegment ==
  ASSUME TypeInv, IsOpen, NEW layout \in Layouts, NEW slot,
         seg' \in IF slot \in DOMAIN layout THEN {layout[slot]}
                  ELSE IF Wants("erase") THEN AnySegment ELSE {NoSegment}
  PROVE  /\ seg' \in [offset : Nat, size : Nat]
         /\ slot \in DOMAIN layout =>
              /\ seg'.offset + seg'.size <= Cells
              /\ seg'.offset % fdev.eraseBlock = 0
              /\ (seg'.offset + seg'.size) % fdev.eraseBlock = 0
         /\ Using("spi") =>
              \A a \in seg'.offset .. seg'.offset + seg'.size - 1 : ChipAddress(a) = a
<1>1. CASE slot \in DOMAIN layout
  <2> DEFINE s == layout[slot]
  <2>1. seg' = s
    BY <1>1
  <2>2. /\ s.offset \in Nat /\ s.size \in Nat /\ s.offset + s.size <= fdev.size
        /\ s.offset % fdev.eraseBlock = 0 /\ (s.offset + s.size) % fdev.eraseBlock = 0
        /\ s = [offset |-> s.offset, size |-> s.size]
    BY <1>1, LayoutsAreWhole
  <2> HIDE DEF s
  <2>3. fdev.size <= Cells /\ fdev.size \in Nat
    BY Devices, SpiGeometry, BpiGeometry
  <2>4. Cells \in Nat
    BY FlashDeviceAssumption
  <2>5. seg'.offset \in Nat /\ seg'.size \in Nat /\ seg'.offset + seg'.size <= fdev.size
    BY <2>1, <2>2, Zenon
  <2>6. seg' \in [offset : Nat, size : Nat]
    <3> DEFINE o == s.offset
               n == s.size
    <3>1. o \in Nat /\ n \in Nat /\ s = [offset |-> o, size |-> n]
      BY <2>2
    <3> HIDE DEF o, n
    <3> QED BY ONLY <2>1, <3>1
  <2>7. Using("spi") => \A a \in seg'.offset .. seg'.offset + seg'.size - 1 : ChipAddress(a) = a
    <3> SUFFICES ASSUME Using("spi"), NEW a \in seg'.offset .. seg'.offset + seg'.size - 1
                 PROVE  ChipAddress(a) = a
      OBVIOUS
    <3>1. a \in Nat /\ a < fdev.size
      BY <2>3, <2>5
    <3> QED BY <3>1, Decodes
  <2>8. /\ seg'.offset % fdev.eraseBlock = 0
        /\ (seg'.offset + seg'.size) % fdev.eraseBlock = 0
    BY <2>1, <2>2, Zenon
  <2> QED BY <2>3, <2>4, <2>5, <2>6, <2>7, <2>8
<1>2. CASE slot \notin DOMAIN layout
  <2>1. SubsectorSize \in Nat
    BY SpiFlashAssumption
  <2>2. \/ seg' = [offset |-> 0, size |-> SubsectorSize]
        \/ seg' = [offset |-> SubsectorSize, size |-> SubsectorSize]
        \/ seg' = [offset |-> 0, size |-> 0]
    BY <1>2 DEF AnySegment, NoSegment
  <2>3. /\ seg' \in [offset : Nat, size : Nat]
        /\ seg'.offset + seg'.size <= 2 * SubsectorSize
    BY ONLY <2>1, <2>2
  <2>4. Using("spi") => \A a \in seg'.offset .. seg'.offset + seg'.size - 1 : ChipAddress(a) = a
    <3> SUFFICES ASSUME Using("spi"), NEW a \in seg'.offset .. seg'.offset + seg'.size - 1
                 PROVE  ChipAddress(a) = a
      OBVIOUS
    <3>1. seg'.offset \in Nat /\ seg'.size \in Nat
      BY <2>3
    <3>2. ShortReach \in Nat /\ 2 * SubsectorSize <= ShortReach
      BY SpiGeometry, GeometryAssumption
    <3>3. a \in Nat /\ a < ShortReach
      BY <2>1, <2>3, <3>1, <3>2
    <3> QED BY <3>3, Decodes
  <2> QED BY <1>2, <2>3, <2>4
<1> QED BY <1>1, <1>2

LEMMA SelectSegmentKeeps ==
  ASSUME IInv, SelectSegment
  PROVE  IInv'
<1>1. pc = "segments" /\ UNCHANGED <<flashVars, opts, buf, len, prog, port, runs>>
  BY DEF SelectSegment
<1>2. /\ TypeInv /\ Flow /\ prog = NoProg /\ call = NoCall /\ ~Waiting /\ status = 0 /\ IsOpen
  <2>1. TypeInv /\ Flow
    BY DEF IInv
  <2>2. status = 0 /\ IsOpen
    BY <1>1, <2>1 DEF Flow, TypeInv, WithDevice
  <2> QED BY <1>1, <2>1, <2>2, NoLoop
<1>3. UNCHANGED <<cells, chip, fdev, call, ret, opts, len, prog, port, runs>>
  BY <1>1 DEF flashVars
<1>4. PICK layout \in Layouts :
        LET slot == IF opts.slot < 0 THEN DefaultSlot ELSE opts.slot
        IN  \/ pc' = "skip" /\ status' = -1 /\ seg' = seg
            \/ pc' = "err" /\ status' = -1 /\ seg' = seg
            \/ /\ slot \in DOMAIN layout \/ ~(Wants("read") \/ Wants("write"))
               /\ seg' \in IF slot \in DOMAIN layout THEN {layout[slot]}
                           ELSE IF Wants("erase") THEN AnySegment ELSE {NoSegment}
               /\ pc' \in {"confirmErase", "load"} /\ status' = status
  BY DEF SelectSegment, Goto, Fail
<1> DEFINE slot == IF opts.slot < 0 THEN DefaultSlot ELSE opts.slot
<1> HIDE DEF slot
<1>5. CASE pc' \in {"skip", "err"} /\ status' = -1 /\ seg' = seg
  <2>1. TypeInv'
    BY <1>2, <1>3, <1>5 DEF TypeInv, SpiDevices
  <2>2. Flow'
    BY <1>2, <1>3, <1>5 DEF Flow, Places, WithDevice, Waiting
  <2> QED BY <1>5, <2>1, <2>2, Nowhere
<1>6. CASE /\ slot \in DOMAIN layout \/ ~(Wants("read") \/ Wants("write"))
           /\ seg' \in IF slot \in DOMAIN layout THEN {layout[slot]}
                       ELSE IF Wants("erase") THEN AnySegment ELSE {NoSegment}
           /\ pc' \in {"confirmErase", "load"} /\ status' = status
  <2>1. /\ seg' \in [offset : Nat, size : Nat]
        /\ slot \in DOMAIN layout =>
              /\ seg'.offset + seg'.size <= Cells
              /\ seg'.offset % fdev.eraseBlock = 0
              /\ (seg'.offset + seg'.size) % fdev.eraseBlock = 0
        /\ Using("spi") =>
              \A a \in seg'.offset .. seg'.offset + seg'.size - 1 : ChipAddress(a) = a
    BY <1>2, <1>6, ChosenSegment
  <2>2. TypeInv'
    BY <1>2, <1>3, <1>6, <2>1 DEF TypeInv, SpiDevices
  <2>3. Flow'
    BY <1>2, <1>3, <1>6 DEF Flow, Places, WithDevice, Waiting, IsOpen
  <2>4. Located'
    <3>1. Wants("write")' => slot \in DOMAIN layout
      BY <1>3, <1>6 DEF Wants
    <3>2. Using("spi")' => Using("spi")
      BY <1>3 DEF Using
    <3>3. \A a : ChipAddress(a)' = ChipAddress(a)
      BY <1>3 DEF ChipAddress, AddressLength
    <3> QED BY <1>3, <2>1, <3>1, <3>2, <3>3 DEF Located, Whole, End
  <2>5. FileLoaded' /\ Erased' /\ FileHeld' /\ Kept'
    BY <1>6 DEF FileLoaded, Erased, FileHeld, ProgrammedIsFile, Kept, AfterWrite
  <2> QED BY <1>6, <2>2, <2>3, <2>4, <2>5, NoLoopNext DEF IInv
<1> QED BY <1>4, <1>5, <1>6 DEF slot
-----------------------------------------------------------------------------
(* The file in memory, and the loops when they start.                      *)
LEMMA EraseBlocks ==
  ASSUME TypeInv, IsOpen
  PROVE  /\ fdev.eraseBlock \in Nat \ {0}
         /\ Using("bpi") => fdev.eraseBlock = 8
BY Devices, SpiGeometry, BpiGeometry

LEMMA FileLengths ==
  ASSUME TypeInv
  PROVE  opts.file.len \in 0 .. Cells
<1>1. opts.file \in Files \cup {NoFile}
  BY DEF TypeInv, Options
<1>2. CASE opts.file \in Files
  BY <1>2, FirmwareAssumption
<1>3. CASE opts.file = NoFile
  BY <1>3, FlashDeviceAssumption DEF NoFile
<1> QED BY <1>1, <1>2, <1>3

LEMMA LoadFileKeeps ==
  ASSUME IInv, LoadFile
  PROVE  IInv'
<1>1. pc = "load" /\ Wants("write") /\ UNCHANGED <<flashVars, opts, seg, prog, port, runs>>
  BY DEF LoadFile
<1>2. /\ TypeInv /\ Flow /\ Located /\ prog = NoProg /\ call = NoCall /\ ~Waiting /\ status = 0
      /\ IsOpen
  <2>1. TypeInv /\ Flow /\ Located
    BY DEF IInv
  <2>2. status = 0 /\ IsOpen
    BY <1>1, <2>1 DEF Flow, TypeInv, WithDevice
  <2> QED BY <1>1, <2>1, <2>2, NoLoop
<1>3. UNCHANGED <<cells, chip, fdev, call, ret, opts, seg, prog, port, runs>>
  BY <1>1 DEF flashVars
<1>4. CASE ~Loads(opts.file)
  <2>1. pc' = "err" /\ status' = -1 /\ UNCHANGED <<buf, len>>
    BY <1>1, <1>4 DEF LoadFile, Fail, Goto
  <2>2. TypeInv'
    BY <1>2, <1>3, <2>1 DEF TypeInv, SpiDevices
  <2>3. Flow'
    BY <1>2, <1>3, <2>1 DEF Flow, Places, WithDevice, Waiting
  <2> QED BY <2>1, <2>2, <2>3, Nowhere
<1>5. CASE Loads(opts.file)
  <2> DEFINE n == opts.file.len
             e == fdev.eraseBlock
             x == seg.offset + n
  <2>1. /\ len' = ToBlockEnd(seg.offset, n) /\ pc' = "confirmWrite" /\ status' = status
        /\ buf' = [i \in 0 .. seg.size - 1 |-> Wanted(i)]
    BY <1>1, <1>5 DEF LoadFile, Goto, Wanted
  <2>2. seg.offset \in Nat /\ seg.size \in Nat /\ Cells \in Nat
    BY <1>2, FlashDeviceAssumption DEF TypeInv
  <2>3. n \in Nat /\ n <= seg.size
    BY <1>2, <1>5, FileLengths DEF Loads
  <2>4. e \in Nat \ {0}
    BY <1>2, EraseBlocks
  <2>5. End = seg.offset + seg.size /\ End <= Cells /\ End % e = 0
    BY <1>1, <1>2 DEF Located, Whole, WithSegment, WithDevice, End
  <2>6. len' = IF x % e = 0 THEN n ELSE n + e - (x % e)
    BY <2>1 DEF ToBlockEnd
  <2>7. len' \in Nat /\ n <= len' /\ len' <= seg.size /\ (seg.offset + len') % e = 0
    <3>1. CASE x % e = 0
      <4>1. len' = n
        BY <2>6, <3>1
      <4> QED BY <2>3, <3>1, <4>1
    <3>2. CASE x % e # 0
      <4>1. x \in Nat /\ x <= End /\ End \in Nat
        BY <2>2, <2>3, <2>5
      <4> HIDE DEF n, e
      <4>2. x + e - (x % e) <= End /\ (x + e - (x % e)) % e = 0
        <5> HIDE DEF x
        <5> QED BY <2>4, <2>5, <3>2, <4>1, RoundUp
      <4>3. x % e \in 0 .. e - 1
        <5> HIDE DEF x
        <5> QED BY <2>4, <4>1, DivMod, Zenon
      <4> DEFINE r == x % e
      <4>4. len' = n + e - r /\ r \in 0 .. e - 1 /\ x + e - r <= End /\ (x + e - r) % e = 0
        BY <2>6, <3>2, <4>2, <4>3, Zenon
      <4> HIDE DEF r
      <4>5. x = seg.offset + n
        OBVIOUS
      <4> HIDE DEF x
      <4>6. seg.offset + len' = x + e - r
        BY <2>2, <2>3, <2>4, <4>4, <4>5
      <4>7. len' \in Nat /\ n <= len' /\ len' <= seg.size
        BY <2>2, <2>3, <2>4, <2>5, <4>4, <4>5
      <4>8. (seg.offset + len') % e = 0
        BY <4>4, <4>6, Zenon
      <4> QED BY <4>7, <4>8
    <3> QED BY <3>1, <3>2
  <2>8. len' \in 0 .. Cells
    BY <2>2, <2>5, <2>7
  <2>9. TypeInv'
    BY <1>2, <1>3, <2>1, <2>8 DEF TypeInv, SpiDevices
  <2>10. Flow'
    <3>1. Wants("write")'
      BY <1>1, <1>3 DEF Wants
    <3> QED BY <1>1, <1>2, <1>3, <2>1, <3>1 DEF Flow, Places, WithDevice, Waiting, IsOpen
  <2>11. Located'
    BY <1>1, <1>2, <1>3 DEF Located, Wants, Whole, End, Using, ChipAddress, AddressLength,
                            WithSegment, WithDevice
  <2>12. FileLoaded'
    <3>1. Wants("write")' /\ (\A i : Wanted(i)' = Wanted(i))
      BY <1>1, <1>3 DEF Wants, Wanted
    <3>2. buf' = [i \in 0 .. seg'.size - 1 |-> Wanted(i)']
      BY <1>3, <2>1, <3>1
    <3> QED BY <1>3, <2>7, <3>1, <3>2 DEF FileLoaded
  <2>13. Erased' /\ FileHeld' /\ Kept'
    BY <2>1 DEF Erased, FileHeld, ProgrammedIsFile, Kept, AfterWrite
  <2> QED BY <2>1, <2>9, <2>10, <2>11, <2>12, <2>13, NoLoopNext DEF IInv
<1> QED BY <1>4, <1>5

LEMMA LoopStarts ==
  ASSUME IInv, pc \in WithSegment \ {"loop"}, pc' = "loop",
         UNCHANGED <<flashVars, opts, status, seg, len, port, runs>>,
         NEW o, NEW n, NEW next, Loop(o, seg.offset, n, next),
         \/ o = "erase" /\ n = seg.size /\ next = "load"
         \/ o = "erase" /\ n = len /\ next = "program" /\ pc = "confirmWrite" /\ buf' = buf
         \/ /\ o \in {"write", "verify"} /\ n = len /\ next = "programmed" /\ pc = "program"
            /\ buf' = buf
         \/ o = "read" /\ n = seg.size /\ next = "save" /\ pc = "read"
  PROVE  IInv'
<1>1. UNCHANGED <<cells, chip, fdev, call, ret, opts, status, seg, len, port, runs>>
  BY DEF flashVars
<1>2. /\ TypeInv /\ Flow /\ Located /\ FileLoaded /\ call = NoCall /\ ~Waiting /\ status = 0
      /\ IsOpen /\ seg.offset \in Nat /\ seg.size \in Nat /\ len \in Nat
  <2>1. TypeInv /\ Flow /\ Located /\ FileLoaded
    BY DEF IInv
  <2>2. status = 0 /\ IsOpen
    BY <2>1 DEF Flow, TypeInv, WithSegment, WithDevice
  <2>3. call = NoCall /\ ~Waiting
    BY <2>1, <2>2, NoLoop DEF WithSegment, WithDevice
  <2> QED BY <2>1, <2>2, <2>3, FlashDeviceAssumption DEF TypeInv
<1>3. prog' = [op |-> o, addr |-> seg.offset, remain |-> n, src |-> 0, asked |-> 0,
               attempts |-> 3, next |-> next]
  BY DEF Loop
<1>4. /\ prog'.op = o /\ prog'.addr = seg.offset /\ prog'.remain = n /\ prog'.src = 0
      /\ prog'.asked = 0 /\ prog'.next = next /\ prog' \in Loops /\ prog' # NoProg
  BY <1>2, <1>3 DEF Loops, NoProg
<1>5. n \in Nat /\ n <= seg.size /\ (next \in {"program", "programmed"} => n = len)
  <2>1. pc \in {"confirmWrite", "program"} => len <= seg.size
    BY <1>2 DEF FileLoaded
  <2> QED BY <1>2, <2>1
<1>6. next \in {"program", "programmed"} =>
        /\ Wants("write") /\ opts.file.len <= len /\ len <= seg.size
        /\ (seg.offset + len) % fdev.eraseBlock = 0 /\ seg.offset % fdev.eraseBlock = 0
        /\ buf = [i \in 0 .. seg.size - 1 |-> Wanted(i)] /\ buf' = buf
  BY <1>2 DEF FileLoaded, Located, Whole
<1>7. TypeInv'
  BY <1>1, <1>2, <1>4 DEF TypeInv, SpiDevices
<1>8. Flow'
  BY <1>1, <1>2, <1>4 DEF Flow, Places, WithDevice, Waiting, IsOpen, NoCall
<1>9. Located'
  BY <1>1, <1>2 DEF Located, Wants, Whole, End, Using, ChipAddress, AddressLength,
                          WithSegment, WithDevice
<1>10. FileLoaded'
  <2>1. Wants("write")' = Wants("write") /\ (\A i : Wanted(i)' = Wanted(i))
    BY <1>1 DEF Wants, Wanted
  <2> SUFFICES ASSUME prog'.next \in {"program", "programmed"}
               PROVE  /\ Wants("write")'
                      /\ opts'.file.len <= len' /\ len' <= seg'.size
                      /\ (seg'.offset + len') % fdev'.eraseBlock = 0
                      /\ buf' = [i \in 0 .. seg'.size - 1 |-> Wanted(i)']
    BY DEF FileLoaded, Programming
  <2>2. buf' = [i \in 0 .. seg'.size - 1 |-> Wanted(i)']
    BY <1>1, <1>4, <1>6, <2>1
  <2> QED BY <1>1, <1>4, <1>6, <2>1, <2>2
<1>11. call' = NoCall /\ ~Waiting' /\ prog'.asked = 0 /\ Edge' = seg.offset
  BY <1>1, <1>2, <1>4 DEF Waiting, Edge
<1>12. Extent'
  <2>1. LoopEnd' = seg.offset + n /\ PieceEnd' = seg.offset /\ End' = seg.offset + seg.size
    BY <1>1, <1>2, <1>4 DEF LoopEnd, PieceEnd, End
  <2>2. WritingWords' => seg.offset % 2 = 0 /\ (seg.offset + n) % 2 = 0
    <3> SUFFICES ASSUME WritingWords' PROVE seg.offset % 2 = 0 /\ (seg.offset + n) % 2 = 0
      OBVIOUS
    <3>1. Using("bpi") /\ o \in {"write", "verify"}
      BY <1>1, <1>4 DEF WritingWords, Using, DriverOp
    <3>2. fdev.eraseBlock = 8
      BY <1>2, <3>1, EraseBlocks
    <3>3. seg.offset % 8 = 0 /\ (seg.offset + len) % 8 = 0 /\ n = len
      BY <1>6, <3>1, <3>2
    <3>4. (seg.offset + n) % 8 = 0
      BY <3>3
    <3>5. seg.offset % 2 = 0
      BY <1>2, <3>3, Evens
    <3>6. seg.offset + n \in Nat
      BY <1>2, <1>5
    <3>7. (seg.offset + n) % 2 = 0
      BY <3>4, <3>6, Evens
    <3> QED BY <3>5, <3>7
  <2>3. DriverOp(prog.op)' = DriverOp(o)
    BY <1>4
  <2>4. Programming' => n = len
    BY <1>4, <1>5 DEF Programming
  <2> QED BY <1>1, <1>2, <1>4, <1>5, <1>11, <2>1, <2>2, <2>3, <2>4 DEF Extent, DriverOp
<1>13. Check' /\ Reached' /\ InFlight'
  BY <1>11 DEF Check, Checking, Reached, InFlight
<1>14. Behind'
  BY <1>1, <1>2, <1>11 DEF Behind
<1>15. Ahead'
  <2>1. next = "programmed" => Erased /\ pc = "program"
    BY DEF IInv
  <2> QED BY <1>1, <1>4, <1>11, <2>1 DEF Ahead, Erased
<1>16. Erased' /\ FileHeld'
  BY DEF Erased, FileHeld, ProgrammedIsFile
<1>17. Kept'
  <2>1. Holds' = Holds /\ Wants("write")' = Wants("write")
    BY <1>1 DEF Holds, Wants
  <2>2. next = "save" => pc = "read" /\ Kept
    BY DEF IInv
  <2> QED BY <1>1, <1>2, <1>4, <2>1, <2>2 DEF Kept, AfterWrite
<1> QED BY <1>7, <1>8, <1>9, <1>10, <1>12, <1>13, <1>14, <1>15, <1>16, <1>17 DEF IInv

LEMMA StartsKeep ==
  ASSUME IInv, StartErase \/ StartWrite \/ StartProgram \/ StartRead
  PROVE  IInv'
<1>1. /\ pc \in {"confirmErase", "confirmWrite", "program", "read"}
      /\ UNCHANGED <<flashVars, opts, status, seg, len, port, runs>>
  BY DEF StartErase, StartWrite, StartProgram, StartRead, Confirm
<1>2. TypeInv /\ Flow /\ status = 0 /\ ~Waiting
  <2>1. TypeInv /\ Flow
    BY DEF IInv
  <2> QED BY <1>1, <2>1, NoLoop DEF Flow, TypeInv, WithDevice
<1>3. CASE pc' # "loop"
  <2>1. pc' \in {"err", "skip"} /\ UNCHANGED <<prog, buf>>
    BY <1>3 DEF StartErase, StartWrite, StartProgram, StartRead, Confirm, Goto
  <2>2. pc' \in AfterWrite => pc \in AfterWrite
    BY <1>3 DEF StartErase, StartWrite, StartProgram, StartRead, Confirm, Goto, AfterWrite
  <2>3. port \in Ports
    BY <1>2 DEF TypeInv
  <2>4. ~NotOpened /\ runs' = runs
    BY <1>1 DEF NotOpened
  <2> QED BY <1>1, <1>2, <2>1, <2>2, <2>3, <2>4, Straight DEF Places, WithDevice, WithSegment
<1>4. CASE pc' = "loop"
  <2>1. pc \in WithSegment \ {"loop"}
    BY <1>1 DEF WithSegment, WithDevice
  <2>2. CASE StartErase
    BY <1>1, <1>4, <2>1, <2>2, LoopStarts DEF StartErase, Confirm
  <2>3. CASE StartWrite
    BY <1>1, <1>4, <2>1, <2>3, LoopStarts DEF StartWrite, Confirm
  <2>4. CASE StartProgram
    <3>1. PICK o \in {"write", "verify"} : Loop(o, seg.offset, len, "programmed")
      BY <2>4 DEF StartProgram
    <3>2. pc = "program" /\ buf' = buf
      BY <2>4 DEF StartProgram
    <3> QED BY <1>1, <1>4, <2>1, <3>1, <3>2, LoopStarts
  <2>5. CASE StartRead
    <3>1. pc = "read" /\ Loop("read", seg.offset, seg.size, "save")
      BY <1>4, <2>5 DEF StartRead, Goto
    <3> QED BY <1>1, <1>4, <2>1, <3>1, LoopStarts
  <2> QED BY <2>2, <2>3, <2>4, <2>5
<1> QED BY <1>3, <1>4
-----------------------------------------------------------------------------
(* Steps inside the loops.                                                 *)
LEMMA InLoop ==
  ASSUME IInv, pc = "loop", pc' = "loop", UNCHANGED <<opts, status, seg, len, fdev>>,
         prog'.next = prog.next,
         buf' = buf \/ prog.next = "save", cells' = cells \/ prog.next # "save"
  PROVE  Located' /\ FileLoaded' /\ Erased' /\ FileHeld' /\ Kept'
<1>1. Located'
  BY DEF IInv, Located, Wants, Whole, End, Using, ChipAddress, AddressLength, WithSegment, WithDevice
<1>2. FileLoaded'
  <2>1. Wants("write")' = Wants("write") /\ (\A i : Wanted(i)' = Wanted(i))
    BY DEF Wants, Wanted
  <2> SUFFICES ASSUME prog.next \in {"program", "programmed"}
               PROVE  /\ Wants("write")'
                      /\ opts'.file.len <= len' /\ len' <= seg'.size
                      /\ (seg'.offset + len') % fdev'.eraseBlock = 0
                      /\ buf' = [i \in 0 .. seg'.size - 1 |-> Wanted(i)']
    BY DEF FileLoaded, Programming
  <2>2. /\ Wants("write") /\ opts.file.len <= len /\ len <= seg.size
        /\ (seg.offset + len) % fdev.eraseBlock = 0
        /\ buf = [i \in 0 .. seg.size - 1 |-> Wanted(i)]
    BY DEF IInv, FileLoaded, Programming
  <2>3. buf' = [i \in 0 .. seg'.size - 1 |-> Wanted(i)']
    BY <2>1, <2>2
  <2> QED BY <2>1, <2>2, <2>3
<1>3. Erased' /\ FileHeld'
  BY DEF Erased, FileHeld, ProgrammedIsFile
<1>4. Kept'
  <2>1. CASE prog.next = "save"
    <3>1. Holds' = Holds /\ Wants("write")' = Wants("write")
      BY <2>1 DEF Holds, Wants
    <3> QED BY <2>1, <3>1 DEF IInv, Kept
  <2>2. CASE prog.next # "save"
    BY <2>2 DEF Kept, AfterWrite
  <2> QED BY <2>1, <2>2
<1> QED BY <1>1, <1>2, <1>3, <1>4

(* What holds of a loop and of the call in it.                             *)
LEMMA LoopFacts ==
  ASSUME IInv, pc = "loop"
  PROVE  /\ prog \in Loops /\ prog # NoProg /\ status = 0 /\ IsOpen
         /\ TypeInv /\ Flow /\ Extent /\ Check /\ Reached /\ Behind /\ Ahead /\ InFlight
         /\ seg.offset \in Nat /\ seg.size \in Nat /\ len \in Nat
         /\ prog.addr \in Nat /\ prog.remain \in Nat /\ prog.asked \in Nat /\ prog.src \in Nat
         /\ prog.op \in {"erase", "write", "verify", "read"}
         /\ prog.next \in {"load", "program", "programmed", "save"}
         /\ prog.attempts \in 0 .. 3
         /\ call = NoCall => ~Waiting
<1>1. /\ TypeInv /\ Flow /\ Extent /\ Check /\ Reached /\ Behind /\ Ahead /\ InFlight
  BY DEF IInv
<1>2. prog \in Loops /\ prog # NoProg /\ status = 0 /\ IsOpen /\ (call = NoCall => ~Waiting)
  BY <1>1 DEF Flow, TypeInv, WithDevice, NoCall
<1>3. seg.offset \in Nat /\ seg.size \in Nat /\ len \in Nat
  BY <1>1, FlashDeviceAssumption DEF TypeInv
<1> QED BY <1>1, <1>2, <1>3 DEF Loops

LEMMA CallFacts ==
  ASSUME IInv, call # NoCall
  PROVE  /\ pc = "loop" /\ prog.asked > 0 /\ call.op = DriverOp(prog.op)
         /\ call \in Calls /\ call.op \in {"read", "write", "erase"}
         /\ call.addr \in Nat /\ call.len \in Nat /\ call.src \in Nat
         /\ call.step \in {"start", "check"}
         /\ prog.addr <= call.addr /\ call.addr + call.len = prog.addr + prog.asked
         /\ prog.asked <= prog.remain /\ prog.addr + prog.remain <= seg.offset + seg.size
         /\ seg.offset <= prog.addr
         /\ call.op = "write" => /\ call.src = call.addr - seg.offset
                                 /\ prog.next = "programmed" /\ prog.op \in {"write", "verify"}
         /\ call.op = "erase" => prog.op = "erase" /\ prog.next \in {"load", "program"}
         /\ call.op = "read" => prog.op = "read" /\ prog.next = "save" /\ ~Waiting
         /\ Programming => prog.addr + prog.remain = seg.offset + len
         /\ Using("bpi") /\ call.op = "write" =>
              call.addr % 2 = 0 /\ (call.addr + call.len) % 2 = 0
<1>1. pc = "loop" /\ prog.asked > 0 /\ call.op = DriverOp(prog.op) /\ call \in Calls
  BY DEF IInv, Flow, TypeInv
<1>2. /\ call.op \in {"read", "write", "erase"} /\ call.addr \in Nat /\ call.len \in Nat
      /\ call.src \in Nat /\ call.step \in {"start", "check"}
  BY <1>1 DEF Calls
<1>3. prog.op \in {"erase", "write", "verify", "read"} /\ Extent /\ Flow
  BY <1>1, LoopFacts
<1>4. /\ call.op = "write" => prog.op \in {"write", "verify"}
      /\ call.op = "erase" => prog.op = "erase"
      /\ call.op = "read" => prog.op = "read"
  BY <1>1, <1>3 DEF DriverOp
<1> QED BY <1>1, <1>2, <1>3, <1>4 DEF Extent, Flow, LoopEnd, PieceEnd, End, WritingWords

LEMMA StepsOf ==
  ASSUME IInv, pc = "loop"
  PROVE  /\ StepOf(prog.op) \in Nat \ {0}
         /\ WritingWords => StepOf(prog.op) % 2 = 0
<1>1. Step \in Nat \ {0} /\ Step % 2 = 0 /\ PageSize \in Nat \ {0}
  BY FirmwareAssumption, GeometryAssumption, SpiFlashAssumption
<1>2. fdev.eraseBlock \in Nat \ {0} /\ fdev.writeBuffer \in Nat \ {0}
      /\ (Using("bpi") => fdev.writeBuffer = 4)
  BY <1>1, LoopFacts, EraseBlocks, Devices, BpiGeometry
<1>3. prog.op \in {"erase", "write", "verify", "read"}
  BY LoopFacts
<1> QED BY <1>1, <1>2, <1>3 DEF StepOf, Greatest, WritingWords, DriverOp

LEMMA AskDriverKeeps ==
  ASSUME IInv, AskDriver
  PROVE  IInv'
<1> DEFINE n == Piece(prog)
<1>1. /\ pc = "loop" /\ prog.remain > 0 /\ prog.asked = 0
      /\ prog' = [prog EXCEPT !.asked = n]
      /\ UNCHANGED <<cells, chip, fdev, opts, pc, status, seg, buf, len, port, runs>>
  BY DEF AskDriver
<1>2. /\ prog \in Loops /\ prog # NoProg /\ status = 0 /\ IsOpen
      /\ TypeInv /\ Flow /\ Extent /\ Check /\ Reached /\ Behind /\ Ahead /\ InFlight
      /\ seg.offset \in Nat /\ seg.size \in Nat /\ len \in Nat
      /\ prog.addr \in Nat /\ prog.remain \in Nat /\ prog.asked \in Nat /\ prog.src \in Nat
      /\ prog.op \in {"erase", "write", "verify", "read"}
      /\ (call = NoCall => ~Waiting)
  BY <1>1, LoopFacts
<1>3. call = NoCall /\ ~Waiting
  BY <1>1, <1>2 DEF Flow
<1>4. /\ n \in 1 .. prog.remain
      /\ WritingWords => n = prog.remain \/ (prog.addr + n) % 2 = 0
  <2> DEFINE s == StepOf(prog.op)
  <2>1. s \in Nat \ {0} /\ (WritingWords => s % 2 = 0)
    BY <1>1, StepsOf
  <2>2. n = IF prog.remain <= s THEN prog.remain ELSE s - ((prog.addr + s) % s)
    BY DEF Piece
  <2> HIDE DEF n, s
  <2> DEFINE m == s - ((prog.addr + s) % s)
  <2>3. m \in 1 .. s /\ (s % 2 = 0 => (prog.addr + m) % 2 = 0)
    BY <1>2, <2>1, PieceFacts
  <2>4. n = IF prog.remain <= s THEN prog.remain ELSE m
    BY <2>2
  <2> HIDE DEF m
  <2> QED BY <1>1, <1>2, <2>1, <2>3, <2>4
<1> HIDE DEF n
<1>5. /\ call' = [op |-> DriverOp(prog.op), addr |-> prog.addr, len |-> n, src |-> prog.src,
                  step |-> "start"]
      /\ ret' = 0
  BY <1>2 DEF AskDriver, Dispatch, n
<1>6. /\ prog' \in Loops /\ prog' # NoProg /\ prog'.op = prog.op /\ prog'.addr = prog.addr
      /\ prog'.remain = prog.remain /\ prog'.src = prog.src /\ prog'.asked = n
      /\ prog'.next = prog.next
  BY <1>1, <1>2, <1>4 DEF Loops, NoProg
<1>7. /\ call' \in Calls /\ call' # NoCall /\ call'.op = DriverOp(prog.op)
      /\ call'.addr = prog.addr /\ call'.len = n /\ call'.src = prog.src /\ call'.step = "start"
  BY <1>2, <1>4, <1>5 DEF Calls, NoCall, DriverOp
<1>8. TypeInv'
  BY <1>1, <1>2, <1>5, <1>6, <1>7, ToolTypes DEF TypeInv
<1>9. ~Waiting' /\ ~Checking' /\ Edge' = prog.addr /\ Edge = prog.addr
  BY <1>1, <1>2, <1>3, <1>7 DEF Waiting, Checking, Edge
<1>10. Flow'
  BY <1>1, <1>2, <1>4, <1>6, <1>7, <1>9 DEF Flow, IsOpen
<1>11. Extent'
  <2>1. /\ LoopEnd' = prog.addr + prog.remain /\ PieceEnd' = prog.addr + n
        /\ End' = seg.offset + seg.size
    BY <1>1, <1>6 DEF LoopEnd, PieceEnd, End
  <2>2. (DriverOp(prog.op))' = DriverOp(prog.op) /\ WritingWords' = WritingWords
        /\ Programming' = Programming
    BY <1>1, <1>6 DEF WritingWords, Using, Programming, DriverOp
  <2>3. /\ LoopEnd = prog.addr + prog.remain /\ PieceEnd = prog.addr + prog.asked
        /\ End = seg.offset + seg.size
    BY DEF LoopEnd, PieceEnd, End
  <2> QED BY <1>1, <1>2, <1>4, <1>6, <1>7, <2>1, <2>2, <2>3 DEF Extent
<1>12. Check' /\ Reached' /\ InFlight'
  BY <1>9 DEF Check, Reached, InFlight
<1>13. Behind'
  <2>1. ~Checking
    BY <1>3 DEF Checking
  <2> QED BY <1>1, <1>2, <1>3, <1>6, <1>9, <2>1 DEF Behind, Programming, Underway, Target
<1>14. Ahead'
  <2>1. ~Returned
    BY <1>1 DEF Returned
  <2> QED BY <1>1, <1>2, <1>6, <1>9, <2>1 DEF Ahead
<1>15. Located' /\ FileLoaded' /\ Erased' /\ FileHeld' /\ Kept'
  BY <1>1, <1>6, InLoop
<1> QED BY <1>8, <1>10, <1>11, <1>12, <1>13, <1>14, <1>15 DEF IInv

(* The piece is done, or read back once more.                              *)
LEMMA NextPieceKeeps ==
  ASSUME IInv, Returned, ret = 0, prog' = Advanced,
         UNCHANGED <<flashVars, opts, pc, status, seg, buf, len, port, runs>>
  PROVE  IInv'
<1>1. /\ pc = "loop" /\ prog.asked > 0 /\ call = NoCall
      /\ UNCHANGED <<cells, chip, fdev, call, ret, opts, pc, status, seg, buf, len, port, runs>>
  BY DEF Returned, flashVars
<1>2. /\ prog \in Loops /\ prog # NoProg /\ status = 0 /\ IsOpen
      /\ TypeInv /\ Flow /\ Extent /\ Check /\ Reached /\ Behind /\ Ahead /\ InFlight
      /\ seg.offset \in Nat /\ seg.size \in Nat /\ len \in Nat
      /\ prog.addr \in Nat /\ prog.remain \in Nat /\ prog.asked \in Nat /\ prog.src \in Nat
      /\ prog.op \in {"erase", "write", "verify", "read"} /\ ~Waiting
  BY <1>1, LoopFacts
<1>3. prog.asked <= prog.remain
  BY <1>1, <1>2 DEF Extent
<1>4. prog' = [prog EXCEPT !.addr = @ + prog.asked, !.remain = @ - prog.asked,
                           !.src = @ + prog.asked, !.asked = 0, !.attempts = 3]
  BY DEF Advanced
<1>5. /\ prog' \in Loops /\ prog' # NoProg /\ prog'.op = prog.op
      /\ prog'.addr = prog.addr + prog.asked /\ prog'.remain = prog.remain - prog.asked
      /\ prog'.src = prog.src + prog.asked /\ prog'.asked = 0 /\ prog'.next = prog.next
  <2> DEFINE a == prog.addr + prog.asked
             r == prog.remain - prog.asked
             c == prog.src + prog.asked
  <2>1. a \in Nat /\ r \in Nat /\ c \in Nat
    BY <1>2, <1>3
  <2>2. prog' = [prog EXCEPT !.addr = a, !.remain = r, !.src = c, !.asked = 0, !.attempts = 3]
    BY <1>4
  <2> HIDE DEF a, r, c
  <2>3. /\ prog' \in Loops /\ prog'.op = prog.op /\ prog'.addr = a /\ prog'.remain = r
        /\ prog'.src = c /\ prog'.asked = 0 /\ prog'.next = prog.next
    <3>1. prog \in Loops
      BY <1>2
    <3> DEFINE p == [prog EXCEPT !.addr = a, !.remain = r]
               q == [p EXCEPT !.src = c, !.asked = 0]
    <3>2. /\ p \in Loops /\ p.op = prog.op /\ p.addr = a /\ p.remain = r /\ p.next = prog.next
      BY ONLY <2>1, <3>1 DEF Loops
    <3>3. prog' = [q EXCEPT !.attempts = 3]
      BY <2>2
    <3> HIDE DEF p
    <3>4. /\ q \in Loops /\ q.op = p.op /\ q.addr = p.addr /\ q.remain = p.remain
          /\ q.src = c /\ q.asked = 0 /\ q.next = p.next
      BY ONLY <2>1, <3>2 DEF Loops
    <3> HIDE DEF q
    <3>5. /\ prog' \in Loops /\ prog'.op = q.op /\ prog'.addr = q.addr /\ prog'.remain = q.remain
          /\ prog'.src = q.src /\ prog'.asked = q.asked /\ prog'.next = q.next
      BY ONLY <3>3, <3>4 DEF Loops
    <3> QED BY ONLY <3>2, <3>4, <3>5
  <2>4. prog' # NoProg
    BY <1>2, <2>3 DEF NoProg
  <2> QED BY <2>3, <2>4 DEF a, r, c
<1>6. TypeInv'
  BY <1>1, <1>2, <1>5, ToolTypes DEF TypeInv
<1>7. /\ ~Waiting' /\ ~Checking' /\ ~Checking /\ Edge' = prog.addr + prog.asked
      /\ Edge = prog.addr + prog.asked
  BY <1>1, <1>2, <1>5 DEF Waiting, Checking, Edge, PieceEnd
<1>8. Flow'
  BY <1>1, <1>2, <1>5, <1>7 DEF Flow, IsOpen
<1>9. Extent'
  <2>1. /\ LoopEnd' = prog.addr + prog.remain /\ PieceEnd' = prog.addr + prog.asked
        /\ End' = seg.offset + seg.size
    BY <1>1, <1>2, <1>5 DEF LoopEnd, PieceEnd, End
  <2>2. (DriverOp(prog.op))' = DriverOp(prog.op) /\ WritingWords' = WritingWords
        /\ Programming' = Programming
    BY <1>1, <1>5 DEF WritingWords, Using, Programming, DriverOp
  <2>3. /\ LoopEnd = prog.addr + prog.remain /\ PieceEnd = prog.addr + prog.asked
        /\ End = seg.offset + seg.size
    BY DEF LoopEnd, PieceEnd, End
  <2> QED BY <1>1, <1>2, <1>3, <1>5, <2>1, <2>2, <2>3 DEF Extent
<1>10. Check' /\ Reached' /\ InFlight'
  BY <1>7 DEF Check, Reached, InFlight
<1>11. Behind'
  BY <1>1, <1>2, <1>5, <1>7 DEF Behind, Programming, Underway, Target
<1>12. Ahead'
  BY <1>1, <1>2, <1>5, <1>7 DEF Ahead
<1>13. Located' /\ FileLoaded' /\ Erased' /\ FileHeld' /\ Kept'
  BY <1>1, <1>5, InLoop
<1> QED BY <1>6, <1>8, <1>9, <1>10, <1>11, <1>12, <1>13 DEF IInv

LEMMA ReadAgainKeeps ==
  ASSUME IInv, Returned, ret = 0, prog.attempts > 0, prog' = [prog EXCEPT !.attempts = @ - 1],
         UNCHANGED <<flashVars, opts, pc, status, seg, buf, len, port, runs>>
  PROVE  IInv'
<1>1. /\ pc = "loop" /\ prog.asked > 0 /\ call = NoCall
      /\ UNCHANGED <<cells, chip, fdev, call, ret, opts, pc, status, seg, buf, len, port, runs>>
  BY DEF Returned, flashVars
<1>2. /\ prog \in Loops /\ prog # NoProg /\ status = 0 /\ IsOpen
      /\ TypeInv /\ Flow /\ Extent /\ Check /\ Reached /\ Behind /\ Ahead /\ InFlight
      /\ prog.addr \in Nat /\ prog.remain \in Nat /\ prog.asked \in Nat /\ prog.src \in Nat
      /\ ~Waiting /\ prog.attempts \in 0 .. 3
  BY <1>1, LoopFacts
<1>3. /\ prog' \in Loops /\ prog' # NoProg /\ prog'.op = prog.op /\ prog'.addr = prog.addr
      /\ prog'.remain = prog.remain /\ prog'.src = prog.src /\ prog'.asked = prog.asked
      /\ prog'.next = prog.next
  BY <1>2 DEF Loops, NoProg
<1>4. TypeInv'
  BY <1>1, <1>2, <1>3, ToolTypes DEF TypeInv
<1>5. ~Waiting' /\ ~Checking' /\ ~Checking /\ Edge' = Edge
  BY <1>1, <1>2, <1>3 DEF Waiting, Checking, Edge, PieceEnd
<1>6. Flow'
  BY <1>1, <1>2, <1>3, <1>5 DEF Flow, IsOpen
<1>7. Extent'
  <2>1. LoopEnd' = LoopEnd /\ PieceEnd' = PieceEnd /\ End' = End
    BY <1>1, <1>3 DEF LoopEnd, PieceEnd, End
  <2>2. (DriverOp(prog.op))' = DriverOp(prog.op) /\ WritingWords' = WritingWords
        /\ Programming' = Programming
    BY <1>1, <1>3 DEF WritingWords, Using, Programming, DriverOp
  <2> QED BY <1>1, <1>2, <1>3, <2>1, <2>2 DEF Extent
<1>8. Check' /\ Reached' /\ InFlight'
  BY <1>5 DEF Check, Reached, InFlight
<1>9. Behind'
  BY <1>1, <1>2, <1>3, <1>5 DEF Behind, Programming, Underway, Target
<1>10. Ahead'
  BY <1>1, <1>2, <1>3, <1>5 DEF Ahead
<1>11. Located' /\ FileLoaded' /\ Erased' /\ FileHeld' /\ Kept'
  BY <1>1, <1>3, InLoop
<1> QED BY <1>4, <1>6, <1>7, <1>8, <1>9, <1>10, <1>11 DEF IInv

LEMMA LoopFails ==
  ASSUME IInv, Returned, prog' = NoProg, pc' = "err", status' = -1,
         UNCHANGED <<flashVars, opts, seg, buf, len, port, runs>>
  PROVE  IInv'
<1>1. /\ pc = "loop" /\ call = NoCall /\ TypeInv
      /\ UNCHANGED <<cells, chip, fdev, call, ret, opts, seg, buf, len, port, runs>>
  BY DEF Returned, flashVars, IInv
<1>2. ~Waiting
  BY <1>1, LoopFacts
<1>3. TypeInv'
  BY <1>1, ToolTypes DEF TypeInv
<1>4. Flow'
  BY <1>1, <1>2 DEF Flow, Places, WithDevice, Waiting
<1> QED BY <1>3, <1>4, Nowhere

(* A loop ends, or a read is given up; what it has done holds behind it.   *)
LEMMA LoopLeft ==
  ASSUME IInv, pc = "loop", call = NoCall, prog' = NoProg, pc' = prog.next,
         prog.remain = 0 \/ prog.op = "read",
         UNCHANGED <<flashVars, opts, status, seg, buf, len, port, runs>>
  PROVE  IInv'
<1>1. UNCHANGED <<cells, chip, fdev, call, ret, opts, status, seg, buf, len, port, runs>>
  BY DEF flashVars
<1>2. /\ status = 0 /\ IsOpen /\ TypeInv /\ Flow /\ Extent /\ Check /\ Behind
      /\ seg.offset \in Nat /\ seg.size \in Nat /\ len \in Nat
      /\ prog.addr \in Nat /\ prog.remain \in Nat /\ prog.asked \in Nat
      /\ prog.op \in {"erase", "write", "verify", "read"}
      /\ prog.next \in {"load", "program", "programmed", "save"} /\ ~Waiting
  BY LoopFacts
<1>3. Located /\ FileLoaded /\ Kept
  BY DEF IInv
<1>4. TypeInv'
  BY <1>1, <1>2, ToolTypes DEF TypeInv
<1>5. Programming =>
        /\ Wants("write") /\ opts.file.len <= len /\ len <= seg.size
        /\ (seg.offset + len) % fdev.eraseBlock = 0
        /\ buf = [i \in 0 .. seg.size - 1 |-> Wanted(i)]
  BY <1>3 DEF FileLoaded
<1>6. Flow'
  <2>1. Wants("write")' = Wants("write")
    BY <1>1 DEF Wants
  <2> QED BY <1>1, <1>2, <1>5, <2>1
          DEF Flow, Places, WithDevice, Waiting, IsOpen, Programming
<1>7. Located'
  BY <1>1, <1>2, <1>3 DEF Located, Wants, Whole, End, Using, ChipAddress, AddressLength,
                          WithSegment, WithDevice
<1>8. FileLoaded'
  <2>1. Wants("write")' = Wants("write") /\ (\A i : Wanted(i)' = Wanted(i))
    BY <1>1 DEF Wants, Wanted
  <2> SUFFICES ASSUME prog.next \in {"program", "programmed"}
               PROVE  /\ Wants("write")'
                      /\ opts'.file.len <= len' /\ len' <= seg'.size
                      /\ (seg'.offset + len') % fdev'.eraseBlock = 0
                      /\ buf' = [i \in 0 .. seg'.size - 1 |-> Wanted(i)']
    BY <1>2 DEF FileLoaded
  <2>2. buf' = [i \in 0 .. seg'.size - 1 |-> Wanted(i)']
    BY <1>1, <1>5, <2>1 DEF Programming
  <2> QED BY <1>1, <1>5, <2>1, <2>2 DEF Programming
<1>9. Reliable /\ Programming =>
        \A a \in seg.offset .. seg.offset + len - 1 : cells[a] = Target(a)
  <2> SUFFICES ASSUME Reliable, Programming, NEW a \in seg.offset .. seg.offset + len - 1
               PROVE  cells[a] = Target(a)
    OBVIOUS
  <2>1. prog.op # "read" /\ prog.asked = 0 /\ prog.addr = seg.offset + len
    BY <1>2 DEF Extent, Programming, LoopEnd
  <2>2. Edge = seg.offset + len
    BY <2>1 DEF Edge
  <2>3. cells[a] = Target(a) \/ Underway(a)
    BY <1>2, <2>2 DEF Behind
  <2>4. ~Underway(a)
    BY <1>2 DEF Underway, Checking
  <2> QED BY <2>3, <2>4
<1>10. Erased'
  BY <1>1, <1>9 DEF Erased, Programming, Target
<1>11. Reliable /\ prog.next = "programmed" =>
         \A i \in 0 .. len - 1 : cells[seg.offset + i] = Wanted(i)
  <2> SUFFICES ASSUME Reliable, prog.next = "programmed", NEW i \in 0 .. len - 1
               PROVE  cells[seg.offset + i] = Wanted(i)
    OBVIOUS
  <2>1. seg.offset + i \in seg.offset .. seg.offset + len - 1 /\ (seg.offset + i) - seg.offset = i
    BY <1>2
  <2>2. cells[seg.offset + i] = buf[i]
    BY <1>9, <2>1 DEF Programming, Target
  <2>3. i \in 0 .. seg.size - 1
    BY <1>2, <1>5 DEF Programming
  <2> QED BY <1>5, <2>2, <2>3 DEF Programming
<1>12. FileHeld'
  BY <1>1, <1>11 DEF FileHeld, ProgrammedIsFile, Wanted
<1>13. Kept'
  <2>1. Holds' = Holds /\ Wants("write")' = Wants("write")
    BY <1>1 DEF Holds, Wants
  <2>2. Reliable /\ prog.next = "programmed" => Holds
    <3> SUFFICES ASSUME Reliable, prog.next = "programmed", NEW i \in 0 .. opts.file.len - 1
                 PROVE  cells[seg.offset + i] = ImageByte(opts.file, i)
      BY DEF Holds
    <3>1. opts.file.len \in Nat
      BY <1>2, FileLengths
    <3>2. i \in 0 .. len - 1 /\ i < opts.file.len
      BY <1>2, <1>5, <3>1 DEF Programming
    <3> QED BY <1>11, <3>2 DEF Wanted
  <2> QED BY <1>1, <1>2, <1>3, <2>1, <2>2 DEF Kept, AfterWrite
<1>14. pc' # "loop"
  BY <1>2
<1> QED BY <1>4, <1>6, <1>7, <1>8, <1>10, <1>12, <1>13, <1>14, NoLoopNext DEF IInv

LEMMA ProgressKeeps ==
  ASSUME IInv, ProgressStep
  PROVE  IInv'
<1>1. CASE AskDriver
  BY <1>1, AskDriverKeeps
<1>2. CASE PieceFails
  <2>1. Returned /\ prog' = NoProg /\ pc = "loop" /\ call = NoCall
        /\ UNCHANGED <<flashVars, opts, seg, buf, len, port, runs>>
    BY <1>2 DEF PieceFails, Returned
  <2>2. CASE prog.op = "read"
    <3>1. pc' = prog.next /\ status' = status
      BY <1>2, <2>2 DEF PieceFails, Goto
    <3> QED BY <2>1, <2>2, <3>1, LoopLeft
  <2>3. CASE prog.op # "read"
    <3>1. pc' = "err" /\ status' = -1
      BY <1>2, <2>3 DEF PieceFails, Fail, Goto
    <3> QED BY <2>1, <3>1, LoopFails
  <2> QED BY <2>2, <2>3
<1>3. CASE PieceDone
  BY <1>3, NextPieceKeeps DEF PieceDone
<1>4. CASE VerifyPiece
  <2>1. Returned /\ ret = 0 /\ UNCHANGED <<flashVars, opts, seg, buf, len, port, runs>>
    BY <1>4 DEF VerifyPiece
  <2>2. \/ prog.attempts > 0 /\ prog' = [prog EXCEPT !.attempts = @ - 1] /\ UNCHANGED <<pc, status>>
        \/ prog' = Advanced /\ UNCHANGED <<pc, status>>
        \/ prog' = NoProg /\ pc' = "err" /\ status' = -1
    BY <1>4 DEF VerifyPiece, Fail, Goto
  <2> QED BY <2>1, <2>2, ReadAgainKeeps, NextPieceKeeps, LoopFails
<1>5. CASE LoopEnds
  <2>1. /\ pc = "loop" /\ prog.remain = 0 /\ prog' = NoProg /\ pc' = prog.next
        /\ UNCHANGED <<flashVars, opts, status, seg, buf, len, port, runs>>
    BY <1>5 DEF LoopEnds, Goto
  <2>2. Flow /\ Extent /\ prog.asked \in Nat
    BY <2>1, LoopFacts
  <2>3. call = NoCall
    BY <2>1, <2>2 DEF Flow, Extent
  <2> QED BY <2>1, <2>3, LoopLeft
<1> QED BY <1>1, <1>2, <1>3, <1>4, <1>5 DEF ProgressStep
-----------------------------------------------------------------------------
(* Calls of the drivers: the chip as it may change, and how a call ends.   *)
LEMMA CallTypes ==
  ASSUME TypeInv, UNCHANGED <<cells, fdev, opts, status, seg, len, prog, port, runs>>,
         call' = NoCall \/ call' \in Calls, ret' \in {0, -1},
         \/ chip' = chip
         \/ Using("bpi") /\ chip' \in BpiChips
         \/ /\ Using("spi") /\ chip' \in SpiChips
            /\ chip'.code = chip.code /\ chip'.answers = chip.answers
  PROVE  TypeInv'
<1>1. CASE chip' = chip
  BY <1>1, ToolTypes DEF TypeInv
<1>2. CASE Using("bpi") /\ chip' \in BpiChips
  <2>1. fdev = BpiDevice /\ chip.kind = "bpi" /\ chip'.kind = "bpi"
    BY <1>2, Devices DEF BpiChips
  <2> QED BY <1>2, <2>1 DEF TypeInv
<1>3. CASE /\ Using("spi") /\ chip' \in SpiChips
           /\ chip'.code = chip.code /\ chip'.answers = chip.answers
  <2>1. chip \in SpiChips /\ chip.kind = "spi" /\ chip'.kind = "spi" /\ chip.answers
        /\ fdev # Closed
    BY <1>3, Devices DEF SpiChips, IsOpen
  <2>2. chip.answers = (chip.code # 0) /\ fdev \in SpiDevices
    BY <2>1 DEF TypeInv, BpiChips
  <2>3. fdev' \in SpiDevices'
    BY <1>3, <2>2 DEF SpiDevices
  <2>4. chip'.answers = (chip'.code # 0)
    BY <1>3, <2>2, Zenon
  <2> QED BY <1>3, <2>1, <2>3, <2>4 DEF TypeInv
<1> QED BY <1>1, <1>2, <1>3

LEMMA CallEnds ==
  ASSUME IInv, call # NoCall, ~Waiting, ~Waiting', call' = NoCall, ret' \in {0, -1}, TypeInv',
         UNCHANGED <<cells, fdev, opts, pc, status, seg, len, prog, port, runs>>,
         buf' = buf \/ call.op = "read",
         ret' = 0 => call.op = "read" \/ (call.len = 0 /\ ~Checking)
  PROVE  IInv'
<1>1. /\ pc = "loop" /\ prog.asked > 0
      /\ call.addr \in Nat /\ call.len \in Nat
      /\ prog.addr <= call.addr /\ call.addr + call.len = prog.addr + prog.asked
      /\ call.op = "read" => prog.next = "save"
  BY CallFacts
<1>2. /\ IsOpen /\ TypeInv /\ Flow /\ Extent /\ Check /\ Behind /\ Ahead
      /\ seg.offset \in Nat /\ len \in Nat /\ prog.addr \in Nat /\ prog.asked \in Nat
      /\ prog # NoProg
  BY <1>1, LoopFacts
<1>3. ~Checking' /\ Edge' = IF ret' = 0 THEN prog.addr + prog.asked ELSE prog.addr
  BY <1>1 DEF Checking, Edge, PieceEnd
<1>4. Edge \in Int /\ call.addr <= Edge
  BY <1>1, <1>2 DEF Edge, Check
<1>5. Flow'
  BY <1>1, <1>2 DEF Flow, IsOpen
<1>6. Extent'
  <2>1. LoopEnd' = LoopEnd /\ PieceEnd' = PieceEnd /\ End' = End
    BY DEF LoopEnd, PieceEnd, End
  <2>2. (DriverOp(prog.op))' = DriverOp(prog.op) /\ WritingWords' = WritingWords
        /\ Programming' = Programming
    BY DEF WritingWords, Using, Programming, DriverOp
  <2> QED BY <1>2, <2>1, <2>2 DEF Extent
<1>7. Check' /\ Reached' /\ InFlight'
  BY <1>3 DEF Check, Reached, InFlight
<1>8. Behind'
  <2> SUFFICES ASSUME Reliable, Programming, NEW a \in seg.offset .. Edge' - 1
               PROVE  cells[a] = Target(a)' \/ Underway(a)'
    BY <1>1 DEF Behind, Programming
  <2>1. buf' = buf
    BY <1>1 DEF Programming
  <2>2. Target(a)' = Target(a)
    BY <2>1 DEF Target
  <2>3. CASE ret' = 0
    <3>1. call.len = 0 /\ ~Checking
      BY <1>1, <2>3 DEF Programming
    <3>2. Edge = prog.addr + prog.asked
      BY <1>1, <3>1 DEF Edge
    <3>3. cells[a] = Target(a) \/ Underway(a)
      BY <1>1, <1>2, <1>3, <2>3, <3>2 DEF Behind
    <3> QED BY <2>2, <3>1, <3>3 DEF Underway
  <2>4. CASE ret' # 0
    <3>1. a \in seg.offset .. Edge - 1 /\ a < call.addr
      BY <1>1, <1>2, <1>3, <1>4, <2>4
    <3>2. cells[a] = Target(a) \/ Underway(a)
      BY <1>1, <1>2, <3>1 DEF Behind
    <3>3. ~Underway(a)
      BY <1>1, <1>2, <3>1 DEF Underway
    <3> QED BY <2>2, <3>2, <3>3
  <2> QED BY <2>3, <2>4
<1>9. Ahead'
  <2> SUFFICES ASSUME Reliable, prog.next = "programmed", ~(Returned' /\ ret' # 0),
                      NEW a \in Edge' .. seg.offset + len - 1
               PROVE  cells[a] = FF
    BY DEF Ahead
  <2>1. ret' = 0
    BY <1>1 DEF Returned
  <2>2. call.len = 0 /\ ~Checking
    BY <1>1, <2>1
  <2>3. Edge = Edge'
    BY <1>1, <1>3, <2>1, <2>2 DEF Edge
  <2> QED BY <1>1, <1>2, <2>3 DEF Ahead, Returned
<1>10. Located' /\ FileLoaded' /\ Erased' /\ FileHeld' /\ Kept'
  BY <1>1, InLoop
<1> QED BY <1>5, <1>6, <1>7, <1>8, <1>9, <1>10 DEF IInv

LEMMA DeselectedChip ==
  ASSUME TypeInv, Using("bpi")
  PROVE  /\ Deselected(chip) \in BpiChips /\ Deselected(chip).busy = chip.busy
         /\ [Deselected(chip) EXCEPT !.err = TRUE] \in BpiChips
         /\ [Deselected(chip) EXCEPT !.err = TRUE].busy = chip.busy
<1>1. chip \in BpiChips
  BY Devices
<1>2. Deselected(chip) \in BpiChips /\ Deselected(chip).busy = chip.busy
  BY ONLY <1>1 DEF Deselected, ArrayMode, BpiChips
<1> DEFINE d == Deselected(chip)
<1> HIDE DEF d
<1>3. d \in BpiChips /\ d.busy = chip.busy
  BY <1>2 DEF d
<1>4. [d EXCEPT !.err = TRUE] \in BpiChips /\ [d EXCEPT !.err = TRUE].busy = d.busy
  BY ONLY <1>3 DEF BpiChips
<1> QED BY <1>3, <1>4 DEF d

LEMMA ACall ==
  ASSUME call.op \in {"read", "write", "erase"}
  PROVE  call # NoCall
BY DEF NoCall

LEMMA DriverReadKeeps ==
  ASSUME IInv, DriverRead
  PROVE  IInv'
<1>1. /\ call.op = "read" /\ ~Waiting /\ call' = NoCall /\ ret' = 0 /\ UNCHANGED <<cells, fdev>>
      /\ Using("spi") \/ Using("bpi")
      /\ \/ chip' = chip
         \/ Using("bpi") /\ chip' = Deselected(chip)
      /\ UNCHANGED <<opts, pc, status, seg, len, prog, port, runs>>
  BY DEF DriverRead, SpiRead, BpiRead, InCall, CallReturns, BpiReturn
<1>2. call # NoCall /\ TypeInv
  BY <1>1, ACall DEF IInv
<1>3. TypeInv' /\ ~Waiting'
  <2>1. CASE chip' = chip
    BY <1>1, <1>2, <2>1, CallTypes DEF Waiting
  <2>2. CASE Using("bpi") /\ chip' = Deselected(chip)
    BY <1>1, <1>2, <2>2, CallTypes, DeselectedChip DEF Waiting
  <2> QED BY <1>1, <2>1, <2>2
<1> QED BY <1>1, <1>2, <1>3, CallEnds

LEMMA SpiEndsKeep ==
  ASSUME IInv, UNCHANGED toolVars, WriteEnableFails \/ InvalidErase \/ SpiReturns
  PROVE  IInv'
<1>1. /\ Using("spi") /\ call.op \in {"write", "erase"} /\ ~Waiting
      /\ call' = NoCall /\ UNCHANGED <<cells, chip, fdev>>
      /\ ret' \in {0, -1} /\ (ret' = 0 => call.len = 0)
  BY DEF WriteEnableFails, ToEnable, InvalidErase, SpiReturns, InCall, CallReturns
<1>2. call # NoCall /\ TypeInv /\ Check /\ ~Checking
  <2>1. call # NoCall /\ TypeInv /\ Check
    BY <1>1, ACall DEF IInv
  <2> QED BY <1>1, <2>1, Devices DEF Check
<1>3. UNCHANGED <<opts, pc, status, seg, buf, len, prog, port, runs>>
  BY DEF toolVars
<1>4. TypeInv' /\ ~Waiting'
  BY <1>1, <1>2, <1>3, CallTypes DEF Waiting
<1> QED BY <1>1, <1>2, <1>3, <1>4, CallEnds

LEMMA BpiEndsKeep ==
  ASSUME IInv, UNCHANGED toolVars,
         EraseRefused \/ SectorUnlockFails \/ StatusFails \/ BpiReturns
  PROVE  IInv'
<1>1. /\ Using("bpi") /\ call.op \in {"write", "erase"}
      /\ call' = NoCall /\ UNCHANGED <<cells, fdev>>
      /\ ret' \in {0, -1} /\ (ret' = 0 => call.len = 0)
      /\ ~Waiting \/ call.len = 0
      /\ \/ chip' = Deselected(chip)
         \/ chip' = [Deselected(chip) EXCEPT !.err = TRUE]
         \/ chip' = [chip EXCEPT !.mode = ArrayMode, !.err = chip.set # "amd"]
  BY DEF EraseRefused, SectorUnlockFails, CanErase, StatusFails, BpiReturns, InCall, CallReturns, BpiReturn
<1>2. call # NoCall /\ TypeInv /\ Check /\ Reached
  BY <1>1, ACall DEF IInv
<1>3. call.len = 0 => ~Checking /\ ~Waiting
  <2>1. pc = "loop" /\ call.len \in Nat
    BY <1>2, CallFacts
  <2>2. call.len = 0 => ~Checking
    BY <1>2, <2>1 DEF Check
  <2>3. IsOpen
    BY <2>1, LoopFacts
  <2> QED BY <1>1, <1>2, <2>1, <2>2, <2>3 DEF Reached
<1>4. UNCHANGED <<opts, pc, status, seg, buf, len, prog, port, runs>>
  BY DEF toolVars
<1>5. chip' \in BpiChips /\ chip'.busy = chip.busy
  <2>1. CASE chip' = [chip EXCEPT !.mode = ArrayMode, !.err = chip.set # "amd"]
    <3>1. chip \in BpiChips
      BY <1>1, <1>2, Devices
    <3> DEFINE stays == chip.set # "amd"
    <3>2. stays \in BOOLEAN
      OBVIOUS
    <3>3. chip' = [chip EXCEPT !.mode = ArrayMode, !.err = stays]
      BY <2>1
    <3> HIDE DEF stays
    <3> QED BY ONLY <3>1, <3>2, <3>3 DEF ArrayMode, BpiChips
  <2>2. CASE chip' = Deselected(chip) \/ chip' = [Deselected(chip) EXCEPT !.err = TRUE]
    BY <1>1, <1>2, <2>2, DeselectedChip
  <2> QED BY <1>1, <2>1, <2>2
<1>6. TypeInv' /\ ~Waiting'
  BY <1>1, <1>2, <1>3, <1>4, <1>5, CallTypes DEF Waiting
<1> QED BY <1>1, <1>2, <1>3, <1>4, <1>6, CallEnds
-----------------------------------------------------------------------------
(* A call tells the chip to work on the next k addresses: an SPI call      *)
(* counts them at once, a BPI call when it has seen the status.            *)
LEMMA WorkStarts ==
  ASSUME IInv, call.op \in {"write", "erase"}, ~Waiting, Waiting', ~Checking, TypeInv',
         UNCHANGED <<cells, fdev, ret, opts, pc, status, seg, buf, len, prog, port, runs>>,
         NEW k \in Nat \ {0}, k <= call.len,
         chip'.busy.op = IF call.op = "erase" THEN "erase" ELSE "program",
         Touches(chip'.busy) \subseteq call.addr .. call.addr + k - 1,
         Programming => call.addr .. call.addr + k - 1 \subseteq Touches(chip'.busy),
         call.op = "write" =>
           \A a \in DOMAIN chip'.busy.data : chip'.busy.data[a] = buf[a - seg.offset],
         call'.op = call.op,
         \/ /\ Using("spi") /\ call'.step = "start"
            /\ call'.addr = call.addr + k /\ call'.len = call.len - k
            /\ call.op = "write" => call'.src = call.src + k
         \/ /\ Using("bpi") /\ call'.step = "check" /\ Count' = k
            /\ call'.addr = call.addr /\ call'.len = call.len /\ call'.src = call.src
            /\ call.op = "erase" => call.addr % 2 = 0
  PROVE  IInv'
<1>1. /\ call # NoCall /\ pc = "loop" /\ prog.asked > 0 /\ call.op = DriverOp(prog.op)
      /\ call.addr \in Nat /\ call.len \in Nat /\ call.src \in Nat
      /\ prog.addr <= call.addr /\ call.addr + call.len = prog.addr + prog.asked
      /\ prog.asked <= prog.remain /\ prog.addr + prog.remain <= seg.offset + seg.size
      /\ seg.offset <= prog.addr
      /\ call.op = "write" => /\ call.src = call.addr - seg.offset
                              /\ prog.next = "programmed" /\ prog.op \in {"write", "verify"}
      /\ call.op = "erase" => prog.op = "erase" /\ prog.next \in {"load", "program"}
      /\ Programming => prog.addr + prog.remain = seg.offset + len
      /\ Using("bpi") /\ call.op = "write" =>
           call.addr % 2 = 0 /\ (call.addr + call.len) % 2 = 0
  <2>1. call # NoCall
    BY ACall
  <2> QED BY <2>1, CallFacts
<1>2. /\ prog # NoProg /\ status = 0 /\ IsOpen
      /\ TypeInv /\ Flow /\ Extent /\ Check /\ Reached /\ Behind /\ Ahead /\ InFlight
      /\ seg.offset \in Nat /\ seg.size \in Nat /\ len \in Nat
      /\ prog.addr \in Nat /\ prog.remain \in Nat /\ prog.asked \in Nat
  BY <1>1, LoopFacts
<1>3. /\ call' # NoCall /\ ~(Using("spi") /\ Using("bpi")) /\ (Using("spi") \/ Using("bpi"))
      /\ Using("bpi") => call'.addr = call.addr
  BY <1>2, Devices DEF NoCall
<1>4. Edge = call.addr
  BY <1>1 DEF Edge
<1>5. Edge' = call.addr + k /\ (Checking' <=> Using("bpi"))
  <2>1. CASE Using("spi")
    <3>1. ~Checking'
      BY <1>3, <2>1 DEF Checking
    <3>2. call'.addr = call.addr + k
      BY <1>3, <2>1
    <3> QED BY <1>1, <1>3, <2>1, <3>1, <3>2 DEF Edge
  <2>2. CASE Using("bpi")
    <3>1. Checking'
      BY <1>3, <2>2 DEF Checking
    <3> QED BY <1>3, <2>2, <3>1 DEF Edge
  <2> QED BY <1>3, <2>1, <2>2
<1>6. Flow'
  BY <1>1, <1>2, <1>3 DEF Flow, IsOpen
<1>7. Extent'
  <2>1. LoopEnd' = LoopEnd /\ PieceEnd' = PieceEnd /\ End' = End
    BY DEF LoopEnd, PieceEnd, End
  <2>2. (DriverOp(prog.op))' = DriverOp(prog.op) /\ WritingWords' = WritingWords
        /\ Programming' = Programming
    BY DEF WritingWords, Using, Programming, DriverOp
  <2>3. /\ prog.addr <= call'.addr /\ call'.addr + call'.len = PieceEnd
        /\ call'.op = "write" => call'.src = call'.addr - seg.offset
        /\ WritingWords => call'.addr % 2 = 0
    BY <1>1, <1>2, <1>3 DEF PieceEnd, WritingWords
  <2> QED BY <1>2, <2>1, <2>2, <2>3 DEF Extent
<1>8. Check'
  BY <1>1, <1>3, <1>5 DEF Check, Using
<1>9. Reached'
  <2>1. Touches(chip'.busy) \subseteq seg.offset .. Edge' - 1
    BY <1>1, <1>2, <1>5
  <2>2. Using("bpi") => Touches(chip'.busy) \subseteq call'.addr .. Edge' - 1
    <3>1. Touches(chip'.busy) \subseteq call.addr .. Edge' - 1
      BY <1>1, <1>5
    <3> QED BY <1>3, <3>1
  <2>3. Touches(chip.busy)' = Touches(chip'.busy)
    BY DEF Touches
  <2>4. Using("bpi")' = Using("bpi")
    BY DEF Using
  <2> QED BY <1>5, <2>1, <2>2, <2>3, <2>4 DEF Reached
<1>10. Behind'
  <2> SUFFICES ASSUME Reliable, Programming, NEW a \in seg.offset .. Edge' - 1
               PROVE  cells[a] = Target(a)' \/ Underway(a)'
    BY DEF Behind, Programming
  <2>1. Target(a)' = Target(a)
    BY DEF Target
  <2>2. CASE a < call.addr
    <3>1. cells[a] = Target(a) \/ Underway(a)
      BY <1>1, <1>2, <1>4, <2>2 DEF Behind
    <3> QED BY <2>1, <3>1 DEF Underway
  <2>3. CASE a >= call.addr
    <3>1. a \in Touches(chip'.busy)
      BY <1>1, <1>2, <1>5, <2>3
    <3>2. Touches(chip.busy)' = Touches(chip'.busy)
      BY DEF Touches
    <3> QED BY <3>1, <3>2 DEF Underway
  <2> QED BY <1>1, <1>2, <2>2, <2>3
<1>11. ~Returned /\ ~Returned'
  BY <1>1, <1>3 DEF Returned
<1>12. Reliable /\ prog.next = "programmed" =>
         \A a \in call.addr .. seg.offset + len - 1 : cells[a] = FF
  BY <1>1, <1>2, <1>4, <1>11 DEF Ahead
<1>13. Ahead'
  <2> SUFFICES ASSUME Reliable, prog.next = "programmed", NEW a \in Edge' .. seg.offset + len - 1
               PROVE  cells[a] = FF
    BY DEF Ahead
  <2> QED BY <1>1, <1>2, <1>5, <1>12
<1>14. InFlight'
  <2> SUFFICES ASSUME Reliable, prog.next = "programmed", NEW a \in DOMAIN chip'.busy.data
               PROVE  chip'.busy.data[a] = Target(a)' /\ cells[a] = FF
    BY DEF InFlight
  <2>1. call.op = "write"
    BY <1>1
  <2>2. chip'.busy.data[a] = Target(a)'
    BY <2>1 DEF Target
  <2>3. a \in Touches(chip'.busy)
    BY <2>1 DEF Touches
  <2>4. a \in call.addr .. seg.offset + len - 1
    BY <1>1, <1>2, <2>3 DEF Programming
  <2> QED BY <1>12, <2>2, <2>4
<1>15. Located' /\ FileLoaded' /\ Erased' /\ FileHeld' /\ Kept'
  BY <1>1, InLoop
<1> QED BY <1>6, <1>7, <1>8, <1>9, <1>10, <1>13, <1>14, <1>15 DEF IInv

LEMMA WantedValues ==
  ASSUME IInv, pc = "loop", Programming, NEW i \in 0 .. seg.size - 1
  PROVE  buf[i] \in Values
<1>1. buf = [j \in 0 .. seg.size - 1 |-> Wanted(j)]
  BY DEF IInv, FileLoaded
<1>2. opts.file.len \in 0 .. Cells /\ seg.size \in Nat /\ Cells \in Nat
  BY FileLengths, LoopFacts, FlashDeviceAssumption
<1>3. Wanted(i) \in Values
  <2>1. CASE i < opts.file.len
    <3>1. i + 1 \in 1 .. Cells
      BY <1>2, <2>1
    <3>2. ImageByte(opts.file, i) \in {Junk, i + 1}
      BY DEF ImageByte
    <3> QED BY <2>1, <3>1, <3>2 DEF Wanted, Values
  <2>2. CASE ~(i < opts.file.len)
    BY <2>2 DEF Wanted, Values
  <2> QED BY <2>1, <2>2
<1> QED BY <1>1, <1>3

LEMMA ProgramOps ==
  ASSUME IInv, call.op = "write", NEW n \in Nat, n <= call.len, NEW data,
         data = [a \in call.addr .. call.addr + n - 1 |-> buf[a - seg.offset]]
  PROVE  [op |-> "program", data |-> data] \in ChipOps
<1>1. /\ pc = "loop" /\ Programming /\ call.addr \in Nat /\ call.len \in Nat
      /\ seg.offset <= call.addr /\ call.addr + call.len <= seg.offset + seg.size
      /\ seg.offset \in Nat /\ seg.size \in Nat
  <2>1. call # NoCall
    BY ACall
  <2>2. /\ pc = "loop" /\ call.addr \in Nat /\ call.len \in Nat
        /\ prog.addr <= call.addr /\ call.addr + call.len = prog.addr + prog.asked
        /\ prog.asked <= prog.remain /\ prog.addr + prog.remain <= seg.offset + seg.size
        /\ seg.offset <= prog.addr /\ prog.next = "programmed"
    BY <2>1, CallFacts
  <2>3. /\ prog.addr \in Nat /\ prog.asked \in Nat /\ prog.remain \in Nat
        /\ seg.offset \in Nat /\ seg.size \in Nat
    BY <2>2, LoopFacts
  <2>4. Programming
    BY <2>2 DEF Programming
  <2>5. call.addr + call.len <= seg.offset + seg.size
    BY <2>2, <2>3
  <2>6. seg.offset <= call.addr
    BY <2>2, <2>3
  <2> QED BY <2>2, <2>3, <2>4, <2>5, <2>6
<1>2. \A a \in call.addr .. call.addr + n - 1 : buf[a - seg.offset] \in Values
  <2> TAKE a \in call.addr .. call.addr + n - 1
  <2> DEFINE i == a - seg.offset
  <2>1. a \in Int /\ call.addr <= a /\ a <= call.addr + call.len - 1
    BY <1>1
  <2>2. i \in 0 .. seg.size - 1
    <3>1. seg.offset <= a /\ a <= seg.offset + seg.size - 1 /\ seg.offset \in Nat /\ seg.size \in Nat
      BY ONLY <1>1, <2>1
    <3> QED BY ONLY <2>1, <3>1
  <2> HIDE DEF i
  <2>3. buf[i] \in Values
    BY <1>1, <2>2, WantedValues
  <2> QED BY <2>3 DEF i
<1>3. call.addr .. call.addr + n - 1 \in SUBSET Int
  OBVIOUS
<1>4. data \in [call.addr .. call.addr + n - 1 -> Values]
  BY <1>2
<1>5. data \in Data
  BY <1>3, <1>4 DEF Data
<1> QED BY <1>5 DEF ChipOps

LEMMA PageProgramKeeps ==
  ASSUME IInv, UNCHANGED toolVars, PageProgram(buf)
  PROVE  IInv'
<1> DEFINE first == ChipAddress(call.addr)
           page == first - (first % PageSize)
           cell(i) == page + ((first + i) % PageSize)
           n == ToPageEnd
           sent == [i \in 0 .. n - 1 |-> buf[call.src + i]]
           data == [a \in {cell(i) : i \in 0 .. n - 1} |->
                      sent[CHOOSE i \in 0 .. n - 1 : cell(i) = a]]
           work == [op |-> "program", data |-> data]
<1>1. /\ Using("spi") /\ call.op = "write" /\ call.len > 0 /\ ~Waiting
      /\ chip' = [chip EXCEPT !.wel = FALSE, !.busy = work]
      /\ call' = [call EXCEPT !.addr = @ + n, !.len = @ - n, !.src = @ + n]
      /\ UNCHANGED <<cells, fdev, ret>>
  BY DEF PageProgram, InCall
<1>2. UNCHANGED <<opts, pc, status, seg, buf, len, prog, port, runs>>
  BY DEF toolVars
<1>3. /\ call # NoCall /\ pc = "loop" /\ call \in Calls
      /\ call.addr \in Nat /\ call.len \in Nat /\ call.src \in Nat
      /\ call.src = call.addr - seg.offset
      /\ seg.offset <= call.addr /\ call.addr + call.len <= seg.offset + seg.size
      /\ seg.offset \in Nat /\ seg.size \in Nat
  <2>1. call # NoCall
    BY <1>1, ACall
  <2>2. pc = "loop"
    BY <2>1, CallFacts
  <2> QED BY <1>1, <2>1, <2>2, CallFacts, LoopFacts
<1>4. TypeInv /\ Check /\ PageSize \in Nat \ {0} /\ chip \in SpiChips
  BY <1>1, <1>3, LoopFacts, SpiFlashAssumption, Devices
<1>5. first = call.addr
  <2>1. call.addr \in seg.offset .. End - 1
    BY <1>1, <1>3 DEF End
  <2> QED BY <1>1, <1>3, <2>1 DEF IInv, Located, WithSegment, WithDevice
<1>6. /\ n \in Nat \ {0} /\ n <= call.len
      /\ \A i \in 0 .. n - 1 : (call.addr % PageSize) + i < PageSize
  <2>1. call.addr % PageSize \in 0 .. PageSize - 1
    BY <1>3, <1>4, DivMod, Zenon
  <2> DEFINE r == call.addr % PageSize
  <2>2. r \in 0 .. PageSize - 1 /\ n = Least(call.len, PageSize - r)
    BY <2>1 DEF ToPageEnd
  <2> HIDE DEF r, n
  <2>3. n \in Nat \ {0} /\ n <= call.len /\ \A i \in 0 .. n - 1 : r + i < PageSize
    BY <1>1, <1>3, <1>4, <2>2 DEF Least
  <2> QED BY <2>3 DEF r
<1>7. \A i \in 0 .. n - 1 : cell(i) = call.addr + i
  <2> TAKE i \in 0 .. n - 1
  <2>1. (call.addr + i) % PageSize = (call.addr % PageSize) + i
    <3>1. i \in Nat /\ (call.addr % PageSize) + i < PageSize
      BY <1>6
    <3> QED BY <1>3, <1>4, <3>1, WithinPage
  <2>2. cell(i) = call.addr - (call.addr % PageSize) + ((call.addr + i) % PageSize)
    BY <1>5
  <2>3. call.addr % PageSize \in Int
    BY <1>3, <1>4
  <2> DEFINE r == call.addr % PageSize
  <2>4. cell(i) = call.addr - r + (r + i) /\ r \in Int
    BY <2>1, <2>2, <2>3
  <2> HIDE DEF r
  <2> QED BY <1>3, <2>4
<1>8. data = [a \in call.addr .. call.addr + n - 1 |-> buf[a - seg.offset]]
  <2> HIDE DEF n, cell
  <2>1. {cell(i) : i \in 0 .. n - 1} = call.addr .. call.addr + n - 1
    <3>1. \A i \in 0 .. n - 1 : cell(i) \in call.addr .. call.addr + n - 1
      BY <1>3, <1>6, <1>7
    <3>2. ASSUME NEW a \in call.addr .. call.addr + n - 1
          PROVE  \E i \in 0 .. n - 1 : a = cell(i)
      <4>1. a - call.addr \in 0 .. n - 1 /\ call.addr + (a - call.addr) = a
        BY <1>3, <1>6
      <4> QED BY <1>7, <4>1
    <3> QED BY <3>1, <3>2
  <2>2. ASSUME NEW a \in call.addr .. call.addr + n - 1
        PROVE  sent[CHOOSE i \in 0 .. n - 1 : cell(i) = a] = buf[a - seg.offset]
    <3> DEFINE c == CHOOSE i \in 0 .. n - 1 : cell(i) = a
    <3>1. a - call.addr \in 0 .. n - 1 /\ call.addr + (a - call.addr) = a
      BY <1>3, <1>6
    <3>2. \E i \in 0 .. n - 1 : cell(i) = a
      BY <1>7, <3>1
    <3>3. c \in 0 .. n - 1 /\ cell(c) = a
      BY <3>2
    <3> HIDE DEF c
    <3>4. c = a - call.addr
      BY <1>3, <1>7, <3>3
    <3>5. sent[c] = buf[call.src + c]
      BY <3>3
    <3>6. call.src + c = a - seg.offset
      BY <1>3, <1>6, <3>4
    <3> QED BY <3>5, <3>6 DEF c
  <2> QED BY <2>1, <2>2
<1> HIDE DEF data, n
<1>9. work \in ChipOps /\ work # Idle
  <2>1. work \in ChipOps
    BY <1>1, <1>6, <1>8, ProgramOps
  <2> QED BY <2>1 DEF Idle
<1>10. /\ chip' \in SpiChips /\ chip'.busy = work /\ chip'.code = chip.code
       /\ chip'.answers = chip.answers
  <2>1. chip \in SpiChips
    BY <1>4
  <2>2. chip' = [chip EXCEPT !.wel = FALSE, !.busy = work]
    BY <1>1
  <2> HIDE DEF work
  <2> QED BY ONLY <1>9, <2>1, <2>2 DEF SpiChips
<1>11. call' \in Calls /\ call'.addr = call.addr + n /\ call'.len = call.len - n
       /\ call'.src = call.src + n /\ call'.op = call.op /\ call'.step = call.step
  <2> DEFINE a == call.addr + n
             l == call.len - n
             s == call.src + n
  <2>1. a \in Nat /\ l \in Nat /\ s \in Nat
    BY <1>3, <1>6
  <2>2. call' = [call EXCEPT !.addr = a, !.len = l, !.src = s]
    BY <1>1
  <2>3. call \in Calls
    BY <1>3
  <2> HIDE DEF a, l, s
  <2>4. /\ call' \in Calls /\ call'.addr = a /\ call'.len = l /\ call'.src = s
        /\ call'.op = call.op /\ call'.step = call.step
    BY ONLY <2>1, <2>2, <2>3 DEF Calls
  <2> QED BY <2>4 DEF a, l, s
<1>12. ~Checking /\ call.step = "start"
  <2>1. ~Checking
    BY <1>1, <1>4, Devices DEF Check
  <2> QED BY <1>3, <2>1 DEF Checking, Calls
<1>13. TypeInv'
  <2>1. ret' \in {0, -1}
    BY <1>1, <1>4 DEF TypeInv
  <2> QED BY <1>1, <1>2, <1>4, <1>10, <1>11, <2>1, CallTypes
<1>14. /\ Waiting' /\ chip'.busy.op = "program" /\ chip'.busy.data = data
       /\ Touches(chip'.busy) = call.addr .. call.addr + n - 1
  <2>1. chip'.busy.op = "program" /\ chip'.busy.data = data
    BY <1>10
  <2>2. DOMAIN data = call.addr .. call.addr + n - 1
    BY <1>8
  <2>3. Waiting'
    BY <1>9, <1>10 DEF Waiting
  <2> QED BY <2>1, <2>2, <2>3 DEF Touches
<1>15. \A a \in DOMAIN chip'.busy.data : chip'.busy.data[a] = buf[a - seg.offset]
  BY <1>8, <1>14
<1> QED
  <2> HIDE DEF work
  <2> QED BY <1>1, <1>2, <1>6, <1>11, <1>12, <1>13, <1>14, <1>15, WorkStarts

LEMMA BlockEraseKeeps ==
  ASSUME IInv, UNCHANGED toolVars, BlockErase
  PROVE  IInv'
<1> DEFINE n == BlockAt(call.addr, call.len)
           first == ChipAddress(call.addr)
           block == {a \in Addresses : a \div n = first \div n}
           work == [op |-> "erase", block |-> block]
<1>1. /\ Using("spi") /\ call.op = "erase" /\ call.len > 0 /\ ~Waiting /\ n > 0
      /\ chip' = [chip EXCEPT !.wel = FALSE, !.busy = work]
      /\ call' = [call EXCEPT !.addr = @ + n, !.len = @ - Least(n, @)]
      /\ UNCHANGED <<cells, fdev, ret>>
  BY DEF BlockErase, InCall
<1>2. UNCHANGED <<opts, pc, status, seg, buf, len, prog, port, runs>>
  BY DEF toolVars
<1>3. /\ call # NoCall /\ pc = "loop" /\ call \in Calls
      /\ call.addr \in Nat /\ call.len \in Nat
      /\ seg.offset <= call.addr /\ call.addr + call.len <= seg.offset + seg.size
      /\ seg.offset \in Nat /\ seg.size \in Nat
  <2>1. call # NoCall
    BY <1>1, ACall
  <2>2. /\ pc = "loop" /\ call \in Calls /\ call.addr \in Nat /\ call.len \in Nat
        /\ prog.addr <= call.addr /\ call.addr + call.len = prog.addr + prog.asked
        /\ prog.asked <= prog.remain /\ prog.addr + prog.remain <= seg.offset + seg.size
        /\ seg.offset <= prog.addr
    BY <2>1, CallFacts
  <2>3. /\ prog.addr \in Nat /\ prog.asked \in Nat /\ prog.remain \in Nat
        /\ seg.offset \in Nat /\ seg.size \in Nat
    BY <2>2, LoopFacts
  <2> QED BY <2>1, <2>2, <2>3
<1>4. TypeInv /\ Check /\ chip \in SpiChips /\ SubsectorSize \in Nat \ {0} /\ SectorSize \in Nat \ {0}
  BY <1>1, <1>3, LoopFacts, SpiFlashAssumption, Devices
<1>5. first = call.addr
  <2>1. call.addr \in seg.offset .. End - 1
    BY <1>1, <1>3 DEF End
  <2> QED BY <1>1, <1>3, <2>1 DEF IInv, Located, WithSegment, WithDevice
<1>6. n \in Nat \ {0} /\ n <= call.len /\ call.addr % n = 0
  <2>1. CASE call.addr % SectorSize = 0 /\ call.len >= SectorSize
    <3>1. n = SectorSize
      BY <2>1 DEF BlockAt
    <3> HIDE DEF n
    <3> QED BY <1>3, <1>4, <2>1, <3>1
  <2>2. CASE ~(call.addr % SectorSize = 0 /\ call.len >= SectorSize)
    <3>1. n = SubsectorSize /\ call.addr % SubsectorSize = 0 /\ call.len >= SubsectorSize
      BY <1>1, <2>2 DEF BlockAt
    <3> HIDE DEF n
    <3> QED BY <1>3, <1>4, <3>1
  <2> QED BY <2>1, <2>2
<1> HIDE DEF n
<1>7. \A a \in Nat : a \div n = first \div n <=> a \in call.addr .. call.addr + n - 1
  BY <1>3, <1>5, <1>6, BlockOf
<1>8. block \subseteq call.addr .. call.addr + n - 1 /\ block \in SUBSET Int
  <2>1. Addresses \subseteq Nat
    BY FlashDeviceAssumption DEF Addresses
  <2>2. block \subseteq call.addr .. call.addr + n - 1
    BY <1>7, <2>1
  <2> HIDE DEF block
  <2>3. block \subseteq Int
    BY <2>2
  <2> QED BY <2>2, <2>3
<1>9. Programming => call.addr .. call.addr + n - 1 \subseteq block
  <2> SUFFICES ASSUME Programming, NEW a \in call.addr .. call.addr + n - 1
               PROVE  a \in block
    OBVIOUS
  <2>1. Wants("write")
    BY <1>3 DEF IInv, FileLoaded
  <2>2. seg.offset + seg.size <= Cells /\ Cells \in Nat
    BY <1>3, <2>1, FlashDeviceAssumption DEF IInv, Located, Whole, End, WithSegment, WithDevice
  <2>3. a \in Nat /\ a < Cells
    BY <1>3, <1>6, <2>2
  <2> QED BY <1>7, <2>2, <2>3 DEF Addresses
<1> HIDE DEF block
<1>10. work \in ChipOps /\ work # Idle /\ work.op = "erase" /\ work.block = block
  BY <1>8 DEF ChipOps, Idle
<1>11. /\ chip' \in SpiChips /\ chip'.busy = work /\ chip'.code = chip.code
       /\ chip'.answers = chip.answers
  <2>1. chip \in SpiChips
    BY <1>4
  <2>2. chip' = [chip EXCEPT !.wel = FALSE, !.busy = work]
    BY <1>1
  <2> HIDE DEF work
  <2> QED BY ONLY <1>10, <2>1, <2>2 DEF SpiChips
<1>12. call' \in Calls /\ call'.addr = call.addr + n /\ call'.len = call.len - n
       /\ call'.op = call.op /\ call'.step = call.step
  <2> DEFINE a == call.addr + n
             l == call.len - n
  <2>1. a \in Nat /\ l \in Nat /\ Least(n, call.len) = n
    BY <1>3, <1>6 DEF Least
  <2>2. call' = [call EXCEPT !.addr = a, !.len = l]
    BY <1>1, <2>1
  <2>3. call \in Calls
    BY <1>3
  <2> HIDE DEF a, l
  <2>4. /\ call' \in Calls /\ call'.addr = a /\ call'.len = l
        /\ call'.op = call.op /\ call'.step = call.step
    BY ONLY <2>1, <2>2, <2>3 DEF Calls
  <2> QED BY <2>4 DEF a, l
<1>13. ~Checking /\ call.step = "start"
  <2>1. ~Checking
    BY <1>1, <1>4, Devices DEF Check
  <2> QED BY <1>3, <2>1 DEF Checking, Calls
<1>14. TypeInv'
  <2>1. ret' \in {0, -1}
    BY <1>1, <1>4 DEF TypeInv
  <2> QED BY <1>1, <1>2, <1>4, <1>11, <1>12, <2>1, CallTypes
<1>15. Waiting' /\ chip'.busy.op = "erase" /\ Touches(chip'.busy) = block
  <2>1. chip'.busy.op = "erase" /\ chip'.busy.block = block
    BY <1>10, <1>11
  <2>2. Waiting'
    BY <1>10, <1>11 DEF Waiting
  <2> QED BY <2>1, <2>2 DEF Touches
<1> HIDE DEF work
<1> QED BY <1>1, <1>2, <1>6, <1>8, <1>9, <1>12, <1>13, <1>14, <1>15, WorkStarts

LEMMA WriteEnableKeeps ==
  ASSUME IInv, UNCHANGED toolVars, WriteEnable
  PROVE  IInv'
<1>1. /\ Using("spi") /\ call.op \in {"write", "erase"} /\ ~Waiting
      /\ chip' = [chip EXCEPT !.wel = TRUE] /\ UNCHANGED <<cells, fdev, call, ret>>
  BY DEF WriteEnable, ToEnable
<1>2. UNCHANGED <<opts, pc, status, seg, buf, len, prog, port, runs>>
  BY DEF toolVars
<1>3. pc = "loop"
  <2>1. call # NoCall
    BY <1>1, ACall
  <2> QED BY <2>1, CallFacts
<1>4. /\ TypeInv /\ Flow /\ Extent /\ Check /\ Behind /\ Ahead /\ chip \in SpiChips
      /\ ~Using("bpi")
  BY <1>1, <1>3, LoopFacts, Devices
<1>5. /\ chip' \in SpiChips /\ chip'.code = chip.code /\ chip'.answers = chip.answers
      /\ chip'.busy = chip.busy
  BY <1>1, <1>4 DEF SpiChips
<1>6. TypeInv'
  BY <1>1, <1>2, <1>4, <1>5, CallTypes DEF TypeInv
<1>7. ~Waiting' /\ ~Checking /\ ~Checking' /\ Edge' = Edge
  <2>1. ~Checking
    BY <1>4 DEF Check
  <2>2. ~Checking' /\ ~Waiting'
    BY <1>1, <1>5, <2>1 DEF Checking, Waiting
  <2> QED BY <1>1, <1>2, <2>1, <2>2 DEF Edge, PieceEnd
<1>8. Flow'
  BY <1>1, <1>2, <1>4, <1>7 DEF Flow, IsOpen, Wants
<1>9. Extent'
  BY <1>1, <1>2, <1>4 DEF Extent, LoopEnd, PieceEnd, End, WritingWords, Using, Programming, DriverOp
<1>10. Check' /\ Reached' /\ InFlight'
  BY <1>7 DEF Check, Reached, InFlight
<1>11. Behind'
  BY <1>1, <1>2, <1>4, <1>7 DEF Behind, Programming, Underway, Target
<1>12. Ahead'
  BY <1>1, <1>2, <1>4, <1>7 DEF Ahead, Returned
<1>13. Located' /\ FileLoaded' /\ Erased' /\ FileHeld' /\ Kept'
  BY <1>1, <1>2, <1>3, InLoop
<1> QED BY <1>6, <1>8, <1>9, <1>10, <1>11, <1>12, <1>13 DEF IInv
-----------------------------------------------------------------------------
(* The calls of the BPI driver.                                            *)
LEMMA BlockSizes ==
  ASSUME TypeInv, Using("bpi"), NEW a, RegionsAt(a) # {}
  PROVE  BlockSize(a) \in {4, 8}
<1> DEFINE k == CHOOSE j \in RegionsAt(a) : TRUE
<1>1. k \in RegionsAt(a)
  OBVIOUS
<1>2. fdev.regions = BpiRegions
  BY BpiGeometry
<1>3. RegionsAt(a) \subseteq {1, 2}
  BY <1>2 DEF RegionsAt, BpiRegions
<1>4. BpiRegions[1].size = 4 /\ BpiRegions[2].size = 8
  BY DEF BpiRegions
<1>5. BlockSize(a) = BpiRegions[k].size
  BY <1>2 DEF BlockSize
<1> HIDE DEF k
<1>6. k \in {1, 2}
  BY <1>1, <1>3
<1> QED BY <1>4, <1>5, <1>6

LEMMA BusyBpiChip ==
  ASSUME NEW c \in BpiChips, NEW work \in ChipOps
  PROVE  LET d == [c EXCEPT !.mode = "status", !.busy = work]
         IN  d \in BpiChips /\ d.busy = work
BY DEF BpiChips

LEMMA CheckedCall ==
  ASSUME NEW c \in Calls
  PROVE  LET d == [c EXCEPT !.step = "check"]
         IN  /\ d \in Calls /\ d.op = c.op /\ d.addr = c.addr /\ d.len = c.len /\ d.src = c.src
             /\ d.step = "check"
BY DEF Calls

(* What fits the write buffer's window is whole words.                     *)
LEMMA WindowIsWords ==
  ASSUME IInv, Using("bpi"), call.op = "write", call.len > 0
  PROVE  Segment \in {1, 2, 3, 4} /\ Segment <= call.len /\ Segment % 2 = 0
<1> DEFINE r == call.addr % 4
           l == call.len
           n == Segment
<1>1. /\ call.addr \in Nat /\ call.len \in Nat
      /\ call.addr % 2 = 0 /\ (call.addr + call.len) % 2 = 0
  <2>1. call # NoCall
    BY ACall
  <2> QED BY <2>1, CallFacts
<1>2. fdev.writeBuffer = 4
  BY BpiGeometry DEF IInv
<1>3. r \in {0, 2} /\ l % 2 = 0 /\ l \in Nat \ {0}
  BY <1>1
<1>4. n = IF l <= 4 - r THEN l ELSE 4 - r
  BY <1>2 DEF Segment, Least
<1> HIDE DEF r, l, n
<1>5. n \in {1, 2, 3, 4} /\ n <= l
  BY ONLY <1>3, <1>4
<1>6. n % 2 = 0
  BY ONLY <1>3, <1>4
<1> QED BY <1>5, <1>6 DEF l, n

LEMMA BufferedProgramKeeps ==
  ASSUME IInv, UNCHANGED toolVars, BufferedProgram(buf)
  PROVE  IInv'
<1> DEFINE halves == Segment \div 2
           first == WordOf(call.addr)
           programmed == {2 * (first + i) + odd : i \in 0 .. halves - 1, odd \in {0, 1}}
           data == [a \in programmed |-> buf[call.src + a - 2 * first]]
           work == [op |-> "program", data |-> data]
           n == Segment
<1>1. /\ Using("bpi") /\ call.op = "write" /\ call.len > 0 /\ ~Waiting /\ call.step = "start"
      /\ chip' = [chip EXCEPT !.mode = "status", !.busy = work]
      /\ call' = [call EXCEPT !.step = "check"]
      /\ UNCHANGED <<cells, fdev, ret>>
  BY DEF BufferedProgram, InCall
<1>2. UNCHANGED <<opts, pc, status, seg, buf, len, prog, port, runs>>
  BY DEF toolVars
<1>3. /\ call # NoCall /\ pc = "loop" /\ call \in Calls
      /\ call.addr \in Nat /\ call.len \in Nat /\ call.src = call.addr - seg.offset
      /\ call.addr % 2 = 0 /\ (call.addr + call.len) % 2 = 0
  <2>1. call # NoCall
    BY <1>1, ACall
  <2> QED BY <1>1, <2>1, CallFacts
<1>4. TypeInv /\ chip \in BpiChips /\ fdev.writeBuffer = 4 /\ seg.offset \in Nat
  BY <1>1, <1>3, LoopFacts, BpiGeometry, Devices
<1>5. n \in {1, 2, 3, 4} /\ n <= call.len /\ n % 2 = 0
  BY <1>1, WindowIsWords
<1> HIDE DEF n
<1>6. 2 * first = call.addr /\ first \in Nat /\ halves \in Nat /\ 2 * halves = n
  <2>1. first = call.addr \div 2 /\ halves = n \div 2
    BY DEF WordOf, n
  <2> HIDE DEF first, halves
  <2> QED BY <1>3, <1>5, <2>1
<1> HIDE DEF first, halves
<1>7. programmed = call.addr .. call.addr + n - 1
  <2>1. ASSUME NEW i \in 0 .. halves - 1, NEW odd \in {0, 1}
        PROVE  2 * (first + i) + odd \in call.addr .. call.addr + n - 1
    BY <1>3, <1>5, <1>6
  <2>2. ASSUME NEW a \in call.addr .. call.addr + n - 1
        PROVE  \E i \in 0 .. halves - 1, odd \in {0, 1} : a = 2 * (first + i) + odd
    <3> DEFINE i == (a - call.addr) \div 2
               odd == (a - call.addr) % 2
    <3>1. a - call.addr \in 0 .. n - 1
      BY <1>3, <1>5
    <3>2. /\ i \in Nat /\ odd \in {0, 1} /\ a - call.addr = 2 * i + odd
      <4> DEFINE d == a - call.addr
      <4>1. d \in Nat /\ i = d \div 2 /\ odd = d % 2
        BY <1>5, <3>1
      <4> HIDE DEF d, i, odd
      <4>2. i \in Nat /\ odd \in {0, 1} /\ d = 2 * i + odd
        BY ONLY <4>1
      <4> QED BY <4>2 DEF d
    <3> HIDE DEF i, odd
    <3>3. i \in 0 .. halves - 1
      BY <1>5, <1>6, <3>1, <3>2
    <3>4. a = 2 * (first + i) + odd
      BY <1>3, <1>6, <3>2
    <3> QED BY <3>2, <3>3, <3>4
  <2> QED BY <2>1, <2>2
<1> HIDE DEF programmed
<1>8. data = [a \in call.addr .. call.addr + n - 1 |-> buf[a - seg.offset]]
  <2>1. \A a \in call.addr .. call.addr + n - 1 : call.src + a - 2 * first = a - seg.offset
    BY <1>3, <1>4, <1>5, <1>6
  <2> QED BY <1>7, <2>1
<1> HIDE DEF data
<1>9. work \in ChipOps /\ work # Idle
  <2>1. work \in ChipOps
    BY <1>1, <1>5, <1>8, ProgramOps
  <2> QED BY <2>1 DEF Idle
<1>10. chip' \in BpiChips /\ chip'.busy = work
  BY <1>1, <1>4, <1>9, BusyBpiChip
<1>11. /\ call' \in Calls /\ call'.op = call.op /\ call'.addr = call.addr /\ call'.len = call.len
       /\ call'.src = call.src /\ call'.step = "check"
  BY <1>1, <1>3, CheckedCall
<1>12. ~Checking /\ Count' = n
  <2>1. Count' = Segment'
    BY <1>1, <1>11 DEF Count
  <2>2. Segment' = Segment
    BY <1>1, <1>11 DEF Segment
  <2> QED BY <1>1, <2>1, <2>2 DEF Checking, n
<1>13. TypeInv'
  <2>1. ret' \in {0, -1}
    BY <1>1, <1>4 DEF TypeInv
  <2> QED BY <1>1, <1>2, <1>4, <1>10, <1>11, <2>1, CallTypes
<1>14. /\ Waiting' /\ chip'.busy.op = "program" /\ chip'.busy.data = data
       /\ Touches(chip'.busy) = call.addr .. call.addr + n - 1
  <2>1. chip'.busy.op = "program" /\ chip'.busy.data = data
    BY <1>10
  <2>2. DOMAIN data = call.addr .. call.addr + n - 1
    BY <1>8
  <2>3. Waiting'
    BY <1>9, <1>10 DEF Waiting
  <2> QED BY <2>1, <2>2, <2>3 DEF Touches
<1>15. \A a \in DOMAIN chip'.busy.data : chip'.busy.data[a] = buf[a - seg.offset]
  BY <1>8, <1>14
<1>16. n \in Nat \ {0}
  BY <1>5
<1> HIDE DEF work
<1> QED BY <1>1, <1>2, <1>5, <1>11, <1>12, <1>13, <1>14, <1>15, <1>16, WorkStarts

LEMMA SectorEraseKeeps ==
  ASSUME IInv, UNCHANGED toolVars, SectorErase
  PROVE  IInv'
<1> DEFINE n == BlockSize(call.addr)
           first == 2 * WordOf(call.addr)
           work == [op |-> "erase", block |-> first .. first + n - 1]
<1>1. /\ Using("bpi") /\ call.op = "erase" /\ call.len > 0 /\ ~Waiting /\ call.step = "start"
      /\ RegionsAt(call.addr) # {} /\ call.addr % n = 0 /\ call.len >= n
      /\ chip' = [chip EXCEPT !.mode = "status", !.busy = work]
      /\ call' = [call EXCEPT !.step = "check"]
      /\ UNCHANGED <<cells, fdev, ret>>
  BY DEF SectorErase, CanErase, InCall
<1>2. UNCHANGED <<opts, pc, status, seg, buf, len, prog, port, runs>>
  BY DEF toolVars
<1>3. /\ call # NoCall /\ pc = "loop" /\ call \in Calls
      /\ call.addr \in Nat /\ call.len \in Nat
  <2>1. call # NoCall
    BY <1>1, ACall
  <2> QED BY <1>1, <2>1, CallFacts
<1>4. TypeInv /\ chip \in BpiChips /\ n \in {4, 8}
  BY <1>1, <1>3, LoopFacts, BlockSizes, Devices
<1>5. BlockSize(call.addr)' = BlockSize(call'.addr)
  BY <1>1 DEF BlockSize, RegionsAt
<1> HIDE DEF n
<1>6. first = call.addr /\ call.addr % 2 = 0
  BY <1>1, <1>3, <1>4 DEF WordOf
<1> HIDE DEF first
<1>7. work \in ChipOps /\ work # Idle /\ work.op = "erase"
      /\ work.block = call.addr .. call.addr + n - 1
  <2>1. work = [op |-> "erase", block |-> call.addr .. call.addr + n - 1]
    BY <1>6
  <2>2. call.addr .. call.addr + n - 1 \in SUBSET Int
    OBVIOUS
  <2> HIDE DEF work
  <2> QED BY <2>1, <2>2 DEF ChipOps, Idle
<1>8. chip' \in BpiChips /\ chip'.busy = work
  BY <1>1, <1>4, <1>7, BusyBpiChip
<1>9. /\ call' \in Calls /\ call'.op = call.op /\ call'.addr = call.addr /\ call'.len = call.len
      /\ call'.src = call.src /\ call'.step = "check"
  BY <1>1, <1>3, CheckedCall
<1>10. ~Checking /\ Count' = n
  <2>1. Count' = BlockSize(call'.addr)
    BY <1>1, <1>5, <1>9 DEF Count
  <2> QED BY <1>1, <1>9, <2>1 DEF Checking, n
<1>11. TypeInv'
  <2>1. ret' \in {0, -1}
    BY <1>1, <1>4 DEF TypeInv
  <2> QED BY <1>1, <1>2, <1>4, <1>8, <1>9, <2>1, CallTypes
<1>12. /\ Waiting' /\ chip'.busy.op = "erase"
       /\ Touches(chip'.busy) = call.addr .. call.addr + n - 1
  <2>1. chip'.busy.op = "erase" /\ chip'.busy.block = call.addr .. call.addr + n - 1
    BY <1>7, <1>8
  <2>2. Waiting'
    BY <1>7, <1>8 DEF Waiting
  <2> QED BY <2>1, <2>2 DEF Touches
<1>13. n \in Nat \ {0} /\ n <= call.len
  BY <1>1, <1>3, <1>4
<1> HIDE DEF work
<1> QED BY <1>1, <1>2, <1>6, <1>9, <1>10, <1>11, <1>12, <1>13, WorkStarts

LEMMA StatusGoodKeeps ==
  ASSUME IInv, UNCHANGED toolVars, StatusGood
  PROVE  IInv'
<1> DEFINE n == IF InCall("write") THEN Segment ELSE BlockSize(call.addr)
<1>1. /\ Using("bpi") /\ call.op \in {"write", "erase"} /\ call.step = "check" /\ ~Waiting
      /\ ~chip.err
      /\ call' = [call EXCEPT !.addr = @ + n, !.len = @ - n, !.src = @ + n, !.step = "start"]
      /\ UNCHANGED <<cells, chip, fdev, ret>>
  BY DEF StatusGood
<1>2. UNCHANGED <<opts, pc, status, seg, buf, len, prog, port, runs>>
  BY DEF toolVars
<1>3. /\ call # NoCall /\ pc = "loop" /\ call \in Calls /\ prog.asked > 0
      /\ call.op = DriverOp(prog.op)
      /\ call.addr \in Nat /\ call.len \in Nat /\ call.src \in Nat
      /\ prog.addr <= call.addr /\ call.addr + call.len = prog.addr + prog.asked
      /\ call.op = "write" => call.src = call.addr - seg.offset
      /\ call.op = "write" => call.addr % 2 = 0
  <2>1. call # NoCall
    BY <1>1, ACall
  <2> QED BY <1>1, <2>1, CallFacts
<1>4. /\ TypeInv /\ Flow /\ Extent /\ Check /\ Behind /\ Ahead /\ IsOpen
      /\ seg.offset \in Nat /\ prog.addr \in Nat /\ prog.asked \in Nat
      /\ prog.op \in {"erase", "write", "verify", "read"}
  BY <1>3, LoopFacts
<1>5. Checking /\ n = Count /\ n \in 1 .. call.len
  <2>1. Checking
    BY <1>1, <1>3 DEF Checking
  <2>2. n = Count
    BY <1>1 DEF Count, InCall
  <2> QED BY <1>4, <2>1, <2>2 DEF Check
<1>6. call.op = "write" => (call.addr + n) % 2 = 0
  <2> SUFFICES ASSUME call.op = "write" PROVE (call.addr + n) % 2 = 0
    OBVIOUS
  <2>1. n = Segment /\ call.len > 0
    BY <1>3, <1>5 DEF InCall
  <2>2. n \in {1, 2, 3, 4} /\ n % 2 = 0
    BY <1>1, <2>1, WindowIsWords
  <2> HIDE DEF n
  <2> QED BY <1>3, <2>2
<1> HIDE DEF n
<1>7. /\ call' \in Calls /\ call' # NoCall /\ call'.op = call.op /\ call'.step = "start"
      /\ call'.addr = call.addr + n /\ call'.len = call.len - n /\ call'.src = call.src + n
  <2> DEFINE a == call.addr + n
             l == call.len - n
             s == call.src + n
  <2>1. a \in Nat /\ l \in Nat /\ s \in Nat
    BY <1>3, <1>5
  <2>2. call' = [call EXCEPT !.addr = a, !.len = l, !.src = s, !.step = "start"]
    BY <1>1
  <2>3. call \in Calls
    BY <1>3
  <2> HIDE DEF a, l, s
  <2>4. /\ call' \in Calls /\ call'.addr = a /\ call'.len = l /\ call'.src = s
        /\ call'.op = call.op /\ call'.step = "start"
    BY ONLY <2>1, <2>2, <2>3 DEF Calls
  <2>5. call' # NoCall
    BY <1>1, <2>4 DEF NoCall
  <2> QED BY <2>4, <2>5 DEF a, l, s
<1>8. TypeInv'
  BY <1>1, <1>2, <1>4, <1>7, CallTypes DEF TypeInv
<1>9. ~Waiting' /\ ~Checking' /\ Edge' = call.addr + n /\ Edge = call.addr + n
  <2>1. ~Waiting' /\ ~Checking'
    BY <1>1, <1>7 DEF Waiting, Checking
  <2>2. Edge' = call.addr + n
    BY <1>3, <1>5, <1>7, <2>1 DEF Edge
  <2> QED BY <1>3, <1>5, <2>1, <2>2 DEF Edge
<1>10. Flow'
  BY <1>1, <1>2, <1>3, <1>4, <1>7, <1>9 DEF Flow, IsOpen, Wants
<1>11. Extent'
  <2>1. LoopEnd' = LoopEnd /\ PieceEnd' = PieceEnd /\ End' = End
    BY <1>2 DEF LoopEnd, PieceEnd, End
  <2>2. (DriverOp(prog.op))' = DriverOp(prog.op) /\ WritingWords' = WritingWords
        /\ Programming' = Programming
    BY <1>1, <1>2 DEF WritingWords, Using, Programming, DriverOp
  <2>3. /\ prog.addr <= call'.addr /\ call'.addr + call'.len = PieceEnd
        /\ call'.op = "write" => call'.src = call'.addr - seg.offset
        /\ WritingWords => call'.addr % 2 = 0
    BY <1>3, <1>4, <1>5, <1>6, <1>7 DEF PieceEnd, WritingWords
  <2> QED BY <1>2, <1>4, <2>1, <2>2, <2>3 DEF Extent
<1>12. Check' /\ Reached' /\ InFlight'
  BY <1>9 DEF Check, Reached, InFlight
<1>13. Behind'
  BY <1>1, <1>2, <1>4, <1>9 DEF Behind, Programming, Underway, Target
<1>14. Ahead'
  BY <1>1, <1>2, <1>3, <1>4, <1>7, <1>9 DEF Ahead, Returned
<1>15. Located' /\ FileLoaded' /\ Erased' /\ FileHeld' /\ Kept'
  BY <1>1, <1>2, <1>3, InLoop
<1> QED BY <1>8, <1>10, <1>11, <1>12, <1>13, <1>14, <1>15 DEF IInv

LEMMA DriverStepKeeps ==
  ASSUME IInv, DriverStep
  PROVE  IInv'
<1>1. UNCHANGED toolVars
  BY DEF DriverStep
<1>2. CASE SpiStep(buf)
  BY <1>1, <1>2, SpiEndsKeep, WriteEnableKeeps, PageProgramKeeps, BlockEraseKeeps DEF SpiStep
<1>3. CASE BpiStep(buf)
  BY <1>1, <1>3, BpiEndsKeep, BufferedProgramKeeps, SectorEraseKeeps, StatusGoodKeeps DEF BpiStep
<1> QED BY <1>2, <1>3 DEF DriverStep
-----------------------------------------------------------------------------
(* The chip ends what it was told to do, well or not.                      *)
LEMMA EdgeBounds ==
  ASSUME IInv, call # NoCall
  PROVE  /\ Edge \in Nat /\ seg.offset <= Edge /\ Edge <= seg.offset + seg.size
         /\ Programming => Edge <= seg.offset + len
<1>1. /\ pc = "loop" /\ call.addr \in Nat /\ call.len \in Nat
      /\ prog.addr <= call.addr /\ call.addr + call.len = prog.addr + prog.asked
      /\ prog.asked <= prog.remain /\ prog.addr + prog.remain <= seg.offset + seg.size
      /\ seg.offset <= prog.addr
      /\ Programming => prog.addr + prog.remain = seg.offset + len
  BY CallFacts
<1>2. /\ prog.addr \in Nat /\ prog.asked \in Nat /\ prog.remain \in Nat /\ len \in Nat
      /\ seg.offset \in Nat /\ seg.size \in Nat /\ Check
  BY <1>1, LoopFacts
<1>3. Edge \in Nat /\ call.addr <= Edge /\ Edge <= call.addr + call.len
  BY <1>1, <1>2 DEF Edge, Check
<1> HIDE DEF Programming
<1> QED BY ONLY <1>1, <1>2, <1>3

LEMMA DoneTypes ==
  ASSUME TypeInv, Waiting, NEW good \in BOOLEAN, Done(good),
         chip' = [chip EXCEPT !.busy = Idle, !.err = @ \/ ~good,
                              !.mode = IF ~good /\ chip.set = "amd" THEN "abort" ELSE @],
         UNCHANGED <<fdev, call, ret, opts, status, seg, len, prog, port, runs>>
  PROVE  TypeInv' /\ ~Waiting'
<1>1. /\ chip.busy \in ChipOps /\ Idle \in ChipOps
      /\ \/ chip.busy.op = "erase" /\ chip.busy.block \in SUBSET Int
         \/ chip.busy.op = "program" /\ chip.busy.data \in Data
  BY OpsAre
<1>2. cells \in [Addresses -> Values]
  BY DEF TypeInv
<1>3. cells' \in [Addresses -> Values]
  <2> DEFINE touched == IF chip.busy.op = "erase" THEN chip.busy.block ELSE DOMAIN chip.busy.data
             value(a) == IF ~good THEN Junk
                         ELSE IF chip.busy.op = "erase" THEN FF
                         ELSE Programmed(cells[a], chip.busy.data[a])
  <2>1. cells' = [a \in Addresses |-> IF a \in touched THEN value(a) ELSE cells[a]]
    BY DEF Done
  <2>2. ASSUME NEW a \in Addresses, a \in touched PROVE value(a) \in Values
    <3>1. CASE chip.busy.op = "erase" \/ ~good
      BY <3>1 DEF Values
    <3>2. CASE chip.busy.op = "program" /\ good
      <4>1. PICK D \in SUBSET Int : chip.busy.data \in [D -> Values]
        BY <1>1, <3>2 DEF Data
      <4>2. chip.busy.data[a] \in Values /\ cells[a] \in Values
        BY <1>2, <2>2, <3>2, <4>1
      <4>3. value(a) = Programmed(cells[a], chip.busy.data[a])
        BY <3>2
      <4>4. Programmed(cells[a], chip.busy.data[a]) \in {cells[a], chip.busy.data[a], Junk}
        BY DEF Programmed
      <4>5. Junk \in Values
        BY DEF Values
      <4> QED BY <4>2, <4>3, <4>4, <4>5
    <3> QED BY <1>1, <3>1, <3>2
  <2> HIDE DEF touched, value
  <2> QED BY <1>2, <2>1, <2>2
<1> DEFINE worn == chip.err \/ ~good
           shows == IF ~good /\ chip.set = "amd" THEN "abort" ELSE chip.mode
<1>4. chip' = [chip EXCEPT !.busy = Idle, !.err = worn, !.mode = shows]
  OBVIOUS
<1>5. /\ chip'.busy = Idle /\ chip'.kind = chip.kind
      /\ \/ /\ chip \in SpiChips /\ chip.answers = (chip.code # 0)
            /\ chip' \in SpiChips /\ chip'.answers = chip.answers /\ chip'.code = chip.code
         \/ chip \in BpiChips /\ chip' \in BpiChips
  <2>1. CASE chip \in SpiChips /\ chip.answers = (chip.code # 0)
    <3>1. chip \in SpiChips
      BY <2>1
    <3>2. worn \in BOOLEAN /\ shows = "array"
      BY <2>1 DEF SpiChips
    <3> HIDE DEF worn, shows
    <3>3. /\ chip' \in SpiChips /\ chip'.answers = chip.answers /\ chip'.code = chip.code
          /\ chip'.busy = Idle /\ chip'.kind = chip.kind
      BY ONLY <1>1, <1>4, <3>1, <3>2 DEF SpiChips
    <3> QED BY <2>1, <3>3
  <2>2. CASE chip \in BpiChips
    <3>1. worn \in BOOLEAN /\ shows \in {"array", "status", "sync", "abort"}
      BY <2>2 DEF BpiChips
    <3> HIDE DEF worn, shows
    <3>2. chip' \in BpiChips /\ chip'.busy = Idle /\ chip'.kind = chip.kind
      BY ONLY <1>1, <1>4, <2>2, <3>1 DEF BpiChips
    <3> QED BY <2>2, <3>2
  <2> QED BY <2>1, <2>2 DEF TypeInv
<1> HIDE DEF worn, shows
<1>6. \/ chip' \in SpiChips /\ chip'.answers = (chip'.code # 0)
      \/ chip' \in BpiChips
  BY <1>5
<1>7. \/ fdev' = Closed
      \/ chip'.kind = "spi" /\ chip'.answers /\ fdev' \in SpiDevices'
      \/ chip'.kind = "bpi" /\ fdev' = BpiDevice
  <2>1. CASE chip.kind = "spi" /\ chip.answers /\ fdev \in SpiDevices
    <3>1. chip'.answers = chip.answers /\ chip'.code = chip.code
      BY <1>5, <2>1 DEF BpiChips
    <3> QED BY <1>5, <2>1, <3>1 DEF SpiDevices
  <2> QED BY <1>5, <2>1 DEF TypeInv
<1>8. TypeInv'
  BY <1>3, <1>5, <1>6, <1>7 DEF TypeInv
<1> QED BY <1>5, <1>8 DEF Waiting

LEMMA ChipKeeps ==
  ASSUME IInv, Chip
  PROVE  IInv'
<1>1. PICK good \in {TRUE, chip.kind \notin WearOut} :
        /\ Done(good)
        /\ chip' = [chip EXCEPT !.busy = Idle, !.err = @ \/ ~good,
                                !.mode = IF ~good /\ chip.set = "amd" THEN "abort" ELSE @]
  BY DEF Chip, ChipDone
<1>2. /\ Waiting /\ good \in BOOLEAN
      /\ UNCHANGED <<fdev, call, ret, opts, pc, status, seg, buf, len, prog, port, runs>>
  BY DEF Chip, ChipDone, toolVars
<1>3. TypeInv /\ Flow
  BY DEF IInv
<1>4. TypeInv' /\ ~Waiting'
  BY <1>1, <1>2, <1>3, DoneTypes
<1>5. Flow'
  <2>1. IsOpen' = IsOpen /\ Wants("write")' = Wants("write")
    BY <1>2 DEF IsOpen, Wants
  <2> QED BY <1>2, <1>3, <1>4, <2>1 DEF Flow
<1>6. CASE ~IsOpen
  <2>1. NotOpened /\ Wants("write")' = Wants("write")
    BY <1>2, <1>3, <1>6 DEF Flow, Wants
  <2>2. pc \notin WithDevice /\ (Wants("write") => pc \in {"open", "exit", "err"} \/ status = -1)
    BY <2>1 DEF NotOpened, WithDevice
  <2>3. Located' /\ FileLoaded' /\ Erased' /\ FileHeld' /\ Kept'
    BY <1>2, <2>1, <2>2 DEF Located, FileLoaded, Erased, FileHeld, ProgrammedIsFile, Kept,
         AfterWrite, WithSegment, WithDevice
  <2> QED BY <1>2, <1>4, <1>5, <2>2, <2>3, NoLoopNext DEF IInv, WithDevice
<1>7. CASE call # NoCall
  <2> DEFINE touched == Touches(chip.busy)
             value(a) == IF ~good THEN Junk
                         ELSE IF chip.busy.op = "erase" THEN FF
                         ELSE Programmed(cells[a], chip.busy.data[a])
  <2>1. /\ pc = "loop" /\ call.op \in {"write", "erase"}
        /\ chip.busy.op = IF call.op = "erase" THEN "erase" ELSE "program"
        /\ call.op = "write" => prog.next = "programmed"
        /\ call.op = "erase" => prog.next \in {"load", "program"}
    BY <1>2, <1>3, <1>7, CallFacts, LoopFacts DEF Flow
  <2>2. /\ IsOpen /\ Extent /\ Check /\ Reached /\ Behind /\ Ahead /\ InFlight
        /\ seg.offset \in Nat /\ seg.size \in Nat /\ len \in Nat
    BY <2>1, LoopFacts
  <2>3. /\ Edge \in Nat /\ seg.offset <= Edge /\ Edge <= seg.offset + seg.size
        /\ Programming => Edge <= seg.offset + len
    BY <1>7, EdgeBounds
  <2>4. touched \subseteq seg.offset .. Edge - 1
    BY <1>2, <2>1, <2>2 DEF Reached
  <2>5. Checking' = Checking /\ Edge' = Edge
    <3>1. Checking' = Checking
      BY <1>2 DEF Checking
    <3>2. Count' = Count
      BY <1>2 DEF Count, BlockSize, RegionsAt, Segment
    <3> QED BY <1>2, <3>1, <3>2 DEF Edge, PieceEnd
  <2>6. Programming => \A a \in seg.offset .. seg.offset + len - 1 :
          a \in Addresses /\ cells'[a] = IF a \in touched THEN value(a) ELSE cells[a]
    <3> SUFFICES ASSUME Programming, NEW a \in seg.offset .. seg.offset + len - 1
                 PROVE  a \in Addresses /\ cells'[a] = IF a \in touched THEN value(a) ELSE cells[a]
      OBVIOUS
    <3>1. Wants("write") /\ len <= seg.size
      BY <2>1 DEF IInv, FileLoaded
    <3>2. seg.offset + seg.size <= Cells /\ Cells \in Nat
      BY <2>1, <3>1, FlashDeviceAssumption DEF IInv, Located, Whole, End, WithSegment, WithDevice
    <3>3. a \in Addresses
      BY <2>2, <3>1, <3>2 DEF Addresses
    <3>4. cells' = [x \in Addresses |-> IF x \in touched THEN value(x) ELSE cells[x]]
      BY <1>1 DEF Done, Touches
    <3> HIDE DEF touched, value
    <3> QED BY <3>3, <3>4
  <2>7. Extent'
    BY <1>2, <2>2 DEF Extent, LoopEnd, PieceEnd, End, WritingWords, Using, Programming, DriverOp
  <2>8. Check'
    <3>1. Count' = Count
      BY <1>2 DEF Count, BlockSize, RegionsAt, Segment
    <3> QED BY <1>2, <2>2, <2>5, <3>1 DEF Check, Using
  <2>9. Reached' /\ InFlight'
    BY <1>4 DEF Reached, InFlight
  <2>10. Behind'
    <3> SUFFICES ASSUME Reliable, Programming, NEW a \in seg.offset .. Edge - 1
                 PROVE  cells'[a] = Target(a)' \/ Underway(a)'
      BY <1>2, <2>5 DEF Behind, Programming
    <3>1. Target(a)' = Target(a)
      BY <1>2 DEF Target
    <3>2. cells'[a] = IF a \in touched THEN value(a) ELSE cells[a]
      BY <2>2, <2>3, <2>6
    <3>3. CASE a \notin touched
      <4>1. cells[a] = Target(a) \/ Underway(a)
        BY <2>1, <2>2 DEF Behind
      <4>2. Underway(a) => Checking /\ chip.err /\ a >= call.addr
        BY <3>3 DEF Underway
      <4>3. chip.err => chip'.err
        <5> DEFINE worn == chip.err \/ ~good
        <5>1. (chip \in SpiChips \/ chip \in BpiChips) /\ worn \in BOOLEAN
          BY <1>3 DEF TypeInv
        <5>2. chip'.err = worn
          BY <1>1, <5>1 DEF SpiChips, BpiChips
        <5> QED BY <5>2
      <4> QED BY <1>2, <2>5, <3>1, <3>2, <3>3, <4>1, <4>2, <4>3 DEF Underway
    <3>4. CASE a \in touched /\ good
      <4>1. CASE call.op = "erase"
        BY <2>1, <3>1, <3>2, <3>4, <4>1 DEF Target, Programming
      <4>2. CASE call.op = "write"
        <5>1. a \in DOMAIN chip.busy.data
          BY <2>1, <3>4, <4>2 DEF Touches
        <5>2. chip.busy.data[a] = Target(a) /\ cells[a] = FF
          BY <1>2, <2>1, <2>2, <4>2, <5>1 DEF InFlight
        <5>3. cells'[a] = Programmed(cells[a], chip.busy.data[a])
          BY <2>1, <3>2, <3>4, <4>2
        <5>4. cells'[a] = Target(a)
          BY <5>2, <5>3 DEF Programmed
        <5> QED BY <3>1, <5>4
      <4> QED BY <2>1, <4>1, <4>2
    <3>5. CASE a \in touched /\ ~good
      <4>1. chip.kind \in WearOut /\ chip.kind = "bpi"
        BY <1>1, <1>3, <3>5, FlashDeviceAssumption DEF Reliable
      <4>2. Using("bpi")
        BY <1>3, <2>2, <4>1, Devices
      <4>3. Checking /\ a >= call.addr
        BY <1>2, <2>1, <2>2, <3>5, <4>2 DEF Reached
      <4>4. chip'.err
        <5>1. chip \in BpiChips
          BY <1>3, <4>2, Devices
        <5>2. chip'.err = (chip.err \/ ~good)
          BY <1>1, <5>1 DEF BpiChips
        <5> QED BY <3>5, <5>2
      <4> QED BY <1>2, <2>5, <4>3, <4>4 DEF Underway
    <3> QED BY <1>2, <3>3, <3>4, <3>5
  <2>11. Ahead'
    <3> SUFFICES ASSUME Reliable, prog.next = "programmed",
                        NEW a \in Edge .. seg.offset + len - 1
                 PROVE  cells'[a] = FF
      BY <1>2, <2>5 DEF Ahead
    <3>1. cells[a] = FF
      BY <1>7, <2>1, <2>2 DEF Ahead, Returned
    <3>2. a \notin touched
      BY <2>3, <2>4
    <3>3. a \in seg.offset .. seg.offset + len - 1 /\ Programming
      BY <2>2, <2>3 DEF Programming
    <3> QED BY <2>6, <3>1, <3>2, <3>3
  <2>12. Located' /\ FileLoaded' /\ Erased' /\ FileHeld' /\ Kept'
    BY <1>2, <2>1, InLoop
  <2> QED BY <1>4, <1>5, <2>7, <2>8, <2>9, <2>10, <2>11, <2>12 DEF IInv
<1> QED BY <1>2, <1>3, <1>6, <1>7 DEF Flow
-----------------------------------------------------------------------------
(* Whatever main, the drivers and the chip do next, the loops stay where   *)
(* the invariant says they are.                                            *)
LEMMA StutterKeeps ==
  ASSUME IInv, UNCHANGED firmwareVars
  PROVE  IInv'
<1>1. UNCHANGED <<cells, chip, fdev, call, ret, opts, pc, status, seg, buf, len, prog, port, runs>>
  BY DEF firmwareVars, flashVars, toolVars
<1>2. TypeInv'
  BY <1>1 DEF IInv, TypeInv, SpiDevices
<1>3. Flow'
  BY <1>1 DEF IInv, Flow, NotOpened, IsOpen, Waiting, Wants
<1>4. Located'
  BY <1>1 DEF IInv, Located, Wants, Whole, End, Using, ChipAddress, AddressLength
<1>5. FileLoaded'
  <2>1. Wants("write")' = Wants("write") /\ (\A i : Wanted(i)' = Wanted(i))
    BY <1>1 DEF Wants, Wanted
  <2>2. [i \in 0 .. seg.size - 1 |-> Wanted(i)]' = [i \in 0 .. seg.size - 1 |-> Wanted(i)]
    BY <1>1, <2>1
  <2> QED BY <1>1, <2>1, <2>2 DEF IInv, FileLoaded, Programming
<1>6. Extent'
  BY <1>1 DEF IInv, Extent, LoopEnd, PieceEnd, End, WritingWords, Using, Programming, DriverOp
<1>7. Checking' = Checking /\ Count' = Count /\ Edge' = Edge /\ Waiting' = Waiting
  <2>1. Checking' = Checking /\ Waiting' = Waiting
    BY <1>1 DEF Checking, Waiting
  <2>2. Count' = Count
    BY <1>1 DEF Count, BlockSize, RegionsAt, Segment
  <2> QED BY <1>1, <2>1, <2>2 DEF Edge, PieceEnd
<1>8. Check'
  BY <1>1, <1>7 DEF IInv, Check, Using
<1>9. Reached'
  BY <1>1, <1>7 DEF IInv, Reached, Using, Touches, IsOpen
<1>10. Behind'
  BY <1>1, <1>7 DEF IInv, Behind, Programming, Underway, Target, Touches
<1>11. Ahead' /\ InFlight'
  BY <1>1, <1>7 DEF IInv, Ahead, InFlight, Returned, Target
<1>12. Erased'
  BY <1>1 DEF IInv, Erased
<1>13. FileHeld'
  BY <1>1 DEF IInv, FileHeld, ProgrammedIsFile
<1>14. Kept'
  BY <1>1 DEF IInv, Kept, Holds, Wants
<1> QED BY <1>2, <1>3, <1>4, <1>5, <1>6, <1>8, <1>9, <1>10, <1>11, <1>12, <1>13, <1>14 DEF IInv

LEMMA StepKeeps ==
  ASSUME IInv, FirmwareNext
  PROVE  IInv'
<1>1. CASE MainStep
  <2>1. CASE Aside
    BY <2>1, AsideKeeps
  <2>2. CASE OpenFlash
    BY <2>2, OpenFlashKeeps
  <2>3. CASE SelectSegment
    BY <2>3, SelectSegmentKeeps
  <2>4. CASE LoadFile
    BY <2>4, LoadFileKeeps
  <2>5. CASE StartErase \/ StartWrite \/ StartProgram \/ StartRead
    BY <2>5, StartsKeep
  <2>6. CASE SkipFlash
    BY <2>6, SkipFlashKeeps
  <2>7. CASE Exit
    BY <2>7, ExitKeeps
  <2> QED BY <1>1, <2>1, <2>2, <2>3, <2>4, <2>5, <2>6, <2>7 DEF MainStep, Aside
<1>2. CASE ProgressStep
  BY <1>2, ProgressKeeps
<1>3. CASE DriverStep
  BY <1>3, DriverStepKeeps
<1>4. CASE DriverRead
  BY <1>4, DriverReadKeeps
<1>5. CASE Kill
  BY <1>5, KillKeeps
<1>6. CASE RunAgain
  BY <1>6, RunAgainKeeps
<1>7. CASE Chip
  BY <1>7, ChipKeeps
<1> QED BY <1>1, <1>2, <1>3, <1>4, <1>5, <1>6, <1>7 DEF FirmwareNext

(* Main, the open device, the loops, the calls and the cells fit together  *)
(* after every step of every board, file and slot.                         *)
THEOREM FirmwareKeepsInvariant == FirmwareSpec => []IInv
<1>1. IInv /\ [FirmwareNext]_firmwareVars => IInv'
  BY StepKeeps, StutterKeeps
<1> QED BY <1>1, InitHolds, PTL DEF FirmwareSpec

LEMMA InvariantSelects == IInv => SelectedOnly
<1> SUFFICES ASSUME IInv, Waiting, IsOpen
             PROVE  Touches(chip.busy) \subseteq seg.offset .. seg.offset + seg.size - 1
  BY DEF SelectedOnly
<1>1. call # NoCall /\ Reached
  BY DEF IInv, Flow
<1>2. /\ Touches(chip.busy) \subseteq seg.offset .. Edge - 1
      /\ Edge \in Nat /\ Edge <= seg.offset + seg.size
  BY <1>1, EdgeBounds DEF Reached
<1>3. seg.offset \in Nat /\ seg.size \in Nat
  BY DEF IInv, TypeInv
<1> QED BY <1>2, <1>3

(* The chip is told to erase and to program in the segment that was asked  *)
(* for and nowhere else, whatever the length of the file, the loop and the *)
(* sizes of its pieces, pages and blocks (erase_progress and               *)
(* write_progress of vu13p-fw.c, flash_spi.c, flash_bpi.c).                *)
THEOREM OnlyTheSegmentIsTouched == FirmwareSpec => []SelectedOnly
BY FirmwareKeepsInvariant, InvariantSelects, PTL

(* "Programming succeeded!": the segment holds the file and nothing of an  *)
(* older image up to the end of the block, if the SPI chip of the board    *)
(* never fails: spi_flash_write and spi_flash_erase do not ask it.         *)
THEOREM ProgrammedHoldsFile ==
  ASSUME "spi" \notin WearOut
  PROVE  FirmwareSpec => []ProgrammedIsFile
<1>1. IInv => ProgrammedIsFile
  BY DEF IInv, FileHeld, Reliable
<1> QED BY <1>1, FirmwareKeepsInvariant, PTL

LEMMA InvariantBoots ==
  ASSUME "spi" \notin WearOut, IInv
  PROVE  BootsIntact
<1> SUFFICES ASSUME pc = "remove"
             PROVE  /\ status = 0 /\ (ret = 0 => ~Waiting)
                    /\ Wants("write") => ~Waiting /\ Holds
  BY DEF BootsIntact, Holds
<1>1. status = 0 /\ (Waiting => ret = -1 /\ ~Wants("write"))
  <2>1. TypeInv /\ Flow
    BY DEF IInv
  <2> QED BY <2>1, NoLoop DEF Flow, TypeInv, NotOpened
<1> QED BY <1>1 DEF IInv, Kept, AfterWrite, Reliable

(* When the FPGA is told to boot, nothing has failed but perhaps the open  *)
(* of a chip that a killed run has left busy, and then the run has written *)
(* nothing; after a write the chip is at rest and still holds the whole    *)
(* image. On the same condition on the SPI chip.                           *)
THEOREM BootsWhatWasWritten ==
  ASSUME "spi" \notin WearOut
  PROVE  FirmwareSpec => []BootsIntact
<1>1. IInv => BootsIntact
  BY InvariantBoots
<1> QED BY <1>1, FirmwareKeepsInvariant, PTL
=============================================================================
