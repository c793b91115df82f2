------------------------------ MODULE MemTest -------------------------------
(* The memory tests of lib/common/xil_testmem.c: Xil_TestMem8, 16 and 32,  *)
(* each once over a pointer and once over an extended address, on a memory *)
(* that may have one fault. Nothing else uses the block while it is        *)
(* tested, so one loop over it, of stores or of loads, is one step.        *)
EXTENDS Integers, FiniteSetsExt

CONSTANTS
  ByteBits,     \* bits of a byte: 8 in the code
  CountBits,    \* bits of the counter of bytes of the extended set: 32 in the code
  Base,         \* address of the block
  Size,         \* words of the memory from Base on
  Blocks,       \* the values of Words
  Patterns,     \* the values of Pattern
  Default,      \* bytes of a word -> the pattern used for Pattern = 0
  FaultyWords   \* words that may have a stuck bit

\* The memory holds the block, and the words that a walking test stores to.
ASSUME MemTestAssumption ==
  /\ {ByteBits, CountBits, Size, Base, 2 ^ CountBits} \subseteq Nat \ {0}
  /\ Blocks \subseteq 1 .. Size /\ 4 * ByteBits <= Size

VARIABLES
  fault,        \* what is wrong with the memory
  mem,          \* contents of its cells
  call,         \* the arguments of the test
  sub, round,   \* subtest and its starting pattern: 1 to 5, and j
  phase,        \* "idle", "fill", "check", "done"
  status        \* Status

memVars == <<fault, mem, call, sub, round, phase, status>>

-----------------------------------------------------------------------------
(* The memory: sound, a bit of a word stuck, two data lines tied together, *)
(* or an address line that does not reach it.                              *)
Words == 0 .. Size - 1
MaxBits == 4 * ByteBits
Faults == [kind : {"none"}]
     \cup [kind : {"stuck"}, at : FaultyWords, bit : 0 .. MaxBits - 1, to : {0, 1}]
     \cup {f \in [kind : {"tied"}, a : 0 .. MaxBits - 1, b : 0 .. MaxBits - 1] : f.a < f.b}
     \cup [kind : {"line"}, line : {k \in 0 .. 5 : 2 ^ k < Size}]

Bit(v, b) == (v \div 2 ^ b) % 2
WithBit(v, b, x) == v + (x - Bit(v, b)) * 2 ^ b

Cell(i) == IF fault.kind = "line" THEN WithBit(i, fault.line, 0) ELSE i

Load(i) ==
  LET v == mem[Cell(i)] IN
  CASE fault.kind = "stuck" /\ fault.at = i -> WithBit(v, fault.bit, fault.to)
    [] fault.kind = "tied" -> LET either == IF Bit(v, fault.a) + Bit(v, fault.b) > 0 THEN 1 ELSE 0
                              IN  WithBit(WithBit(v, fault.a, either), fault.b, either)
    [] OTHER -> v

\* val[i] stored at every location i of S, in their order
Store(S, val) ==
  mem' = [c \in Words |-> LET here == {i \in S : Cell(i) = c}
                          IN  IF here = {} THEN mem[c] ELSE val[Max(here)]]

-----------------------------------------------------------------------------
(* The values of the subtests. *)
Bits == call.bytes * ByteBits
Wrapped(v) == v % 2 ^ Bits
Not(v) == 2 ^ Bits - 1 - v

\* the extended set counts bytes in a u32, the other one words
LoopBound == IF call.extended THEN ((call.bytes * call.words) % 2 ^ CountBits) \div call.bytes
                              ELSE call.words

\* Mutants: a rotation that only shifts, Val not restored before the check
ShiftLeft(v) == Wrapped(v * 2)
IncrementGoesOn == [i \in Words |-> Wrapped(1 + i + (IF phase = "check" THEN LoopBound ELSE 0))]

RotateLeft(v) ==
  LET MsbMask == 2 ^ (Bits - 1)
      Shifted == Wrapped(v * 2)
  IN  IF v >= MsbMask THEN Shifted + 1 ELSE Shifted

Increment == [i \in Words |-> Wrapped(1 + i)]
WalkOnes == LET w[i \in Words] == IF i = 0 THEN 2 ^ round ELSE RotateLeft(w[i - 1]) IN w
WalkZeros == LET w[i \in Words] == IF i = 0 THEN Not(2 ^ round) ELSE Not(RotateLeft(Not(w[i - 1]))) IN w
InverseAddr == [i \in Words |-> Not(Wrapped(Base + i * call.bytes))]
FixedPattern == [i \in Words |-> IF call.pattern = 0 THEN Default[call.bytes] ELSE call.pattern]

Val == CASE sub = 1 -> Increment [] sub = 2 -> WalkOnes [] sub = 3 -> WalkZeros
         [] sub = 4 -> InverseAddr [] sub = 5 -> FixedPattern

Walks == sub \in {2, 3}

Locations == 0 .. (IF Walks THEN Bits ELSE LoopBound) - 1
Rounds == IF Walks THEN Bits ELSE 1
Selected == call.subtest \in {0, sub}

-----------------------------------------------------------------------------
MemInit ==
  /\ fault \in Faults
  /\ mem = [c \in Words |-> 0]
  /\ call = [bytes |-> 1, extended |-> FALSE, words |-> 1, pattern |-> 0, subtest |-> 0]
  /\ sub = 1 /\ round = 0 /\ phase = "idle" /\ status = 0

Fits(bytes) == CASE fault.kind = "stuck" -> fault.bit < bytes * ByteBits
                 [] fault.kind = "tied" -> fault.b < bytes * ByteBits
                 [] OTHER -> TRUE

Call(bytes, extended) ==
  /\ phase = "idle" /\ Fits(bytes)
  /\ \E words \in Blocks, pattern \in Patterns, subtest \in 0 .. 5 :
       call' = [bytes |-> bytes, extended |-> extended, words |-> words,
                pattern |-> pattern, subtest |-> subtest]
  /\ phase' = "fill"
  /\ UNCHANGED <<fault, mem, sub, round, status>>

Xil_TestMem8 == Call(1, FALSE)
Xil_TestMem16 == Call(2, FALSE)
Xil_TestMem32 == Call(4, FALSE)
Xil_TestMem8Extended == Call(1, TRUE)
Xil_TestMem16Extended == Call(2, TRUE)
Xil_TestMem32Extended == Call(4, TRUE)

Skip ==
  /\ phase = "fill" /\ sub <= 5 /\ ~Selected
  /\ sub' = sub + 1
  /\ UNCHANGED <<fault, mem, call, round, phase, status>>

Fill ==
  /\ phase = "fill" /\ sub <= 5 /\ Selected
  /\ Store(Locations, Val)
  /\ phase' = "check"
  /\ UNCHANGED <<fault, call, sub, round, status>>

Match ==
  /\ phase = "check" /\ \A i \in Locations : Load(i) = Val[i]
  /\ phase' = "fill"
  /\ IF round + 1 < Rounds THEN round' = round + 1 /\ sub' = sub
                           ELSE round' = 0 /\ sub' = sub + 1
  /\ UNCHANGED <<fault, mem, call, status>>

Mismatch ==
  /\ phase = "check" /\ \E i \in Locations : Load(i) # Val[i]
  /\ status' = -1 /\ phase' = "done"
  /\ UNCHANGED <<fault, mem, call, sub, round>>

Return ==
  /\ phase = "fill" /\ sub = 6
  /\ phase' = "done"
  /\ UNCHANGED <<fault, mem, call, sub, round, status>>

MemNext ==
  \/ Xil_TestMem8 \/ Xil_TestMem16 \/ Xil_TestMem32
  \/ Xil_TestMem8Extended \/ Xil_TestMem16Extended \/ Xil_TestMem32Extended
  \/ Skip \/ Fill \/ Match \/ Mismatch \/ Return

MemSpec == MemInit /\ [][MemNext]_memVars

-----------------------------------------------------------------------------
Passed(subtest) == phase = "done" /\ status = 0 /\ call.subtest \in {0, subtest}
Tested == 0 .. call.words - 1
Countable == call.extended => call.bytes * call.words < 2 ^ CountBits

\* Two locations of the block that are one cell and get different values
Mixed(val) == \E i, k \in Tested : Cell(i) = Cell(k) /\ val[i] # val[k]

\* A pass of a walking one or zero: every bit stuck in the words it walks over
\* and every pair of tied data lines is found.
BitsAreFound ==
  Passed(2) \/ Passed(3) =>
    /\ fault.kind # "tied"
    /\ fault.kind = "stuck" => fault.at >= Bits

\* A pass of the counter or of the inverse address: an address line that does
\* not reach the memory is found, unless their values repeat at its distance,
\* or the block has more bytes than the extended set's u32 counts.
LinesAreFound ==
  /\ Passed(1) /\ Countable => ~Mixed(Increment)
  /\ Passed(4) /\ Countable => ~Mixed(InverseAddr)

\* No test calls a sound memory faulty, whatever the size of the block: where
\* the values wrap, the fill and the check wrap alike.
SoundPasses == fault.kind = "none" => status = 0

\* What a verdict says, for every width, block and pattern.
VerdictIsRight == LinesAreFound /\ SoundPasses

\* "Words: length of the block" (xil_testmem.c:66): no test stores behind it.
BlockOnly ==
  fault.kind # "line" => \A i \in Words : i >= call.words => mem[i] = 0

=============================================================================
