----------------------------- MODULE IntcProofs -----------------------------
(***************************************************************************)
(* The interrupt controller driver: interrupts nest by rising priority,    *)
(* and a handler is entered for an enabled source of its own that waits    *)
(* for it, for programs that keep to the rules of SetNormal and of "all".  *)
(* The invariant says what the enable, mode and level registers have to do *)
(* with the table, the script and the stack of handlers.                   *)
(***************************************************************************)
EXTENDS Intc, SequenceTheorems, WellFoundedInduction, TLAPS

Pins == 0 .. W - 1
IdAt(c, p) == (c * W) + p
Regs == [isr : SUBSET Pins, ier : SUBSET Pins, imr : SUBSET Pins, me : BOOLEAN, hie : BOOLEAN,
         ilr : 0 .. W, vec : SUBSET Pins]
Frames == [c : Nat, status : SUBSET Pins, n : Nat,
           pc : {"scan", "body", "ret", "chained"}, ilr : 0 .. W]

Steps == {"config", "handler", "ref", "stub", "unref", "real", "simulation", "stop", "read", "on", "off",
          "onIf", "offIf", "vector", "mode", "modeOff", "vectors", "ack", "simulate", "trigger",
          "single", "all", "selfTest"}

TypeInv ==
  /\ sys \in Systems
  /\ hw \in [Ctrls -> Regs]
  /\ line \subseteq sys.level \cap due
  /\ drv \in [ready : BOOLEAN, started : BOOLEAN, static : Nat,
              opt : [Ctrls -> {"none", "single", "all"}]]
  /\ table \in [Ids -> [h : {"null", "stub", "own"}, ref : {"none", "intc", "own"}]]
  /\ main \in [script : Seq(Steps), id : Ids, was : BOOLEAN, cur : SUBSET Pins]
  /\ frames \in Seq(Frames)

(* The script that is left, and what its steps so far have brought about.  *)
Quiet == p0 \notin hw[c0].ier
Fresh == main.cur = hw[c0].ier
Wanted == main.id \in want
Fit == Wanted /\ Listened(main.id)
Kept0 == main.was => (~Quiet \/ Fit)
OfSource == main.id \in Sources
Left(s) == main.script = s

SetUp(m) ==
  \/ Left(<<"config", "handler", "ref", m, "read", "on">>) /\ (drv.started => Quiet)
  \/ Left(<<"handler", "ref", m, "read", "on">>) /\ drv.ready /\ Quiet
  \/ Left(<<"ref", m, "read", "on">>) /\ drv.ready /\ Quiet /\ table[main.id].h = "own"
  \/ Left(<<m, "read", "on">>) /\ drv.ready /\ Fit
ConnectLeft == (Left(<<"handler", "ref">>) \/ Left(<<"ref">>)) /\ drv.ready /\ Quiet
EnableLeft ==
  \/ Left(<<"read", "on">>) /\ drv.ready /\ Fit
  \/ Left(<<"on">>) /\ drv.ready /\ Fit /\ Fresh
DisableLeft ==
  \/ Left(<<"read", "off">>) \/ Left(<<"read", "off", "stub", "unref">>)
  \/ (Left(<<"off">>) \/ Left(<<"off", "stub", "unref">>)) /\ Fresh
  \/ (Left(<<"stub", "unref">>) \/ Left(<<"unref">>)) /\ Quiet
FastLeft ==
  /\ sys.fast /\ c0 = 0
  /\ \/ Left(<<"read", "read", "offIf", "vector", "mode", "read", "onIf">>) /\ ~main.was
     \/ Left(<<"read", "offIf", "vector", "mode", "read", "onIf">>) /\ (main.was => Wanted)
     \/ Left(<<"offIf", "vector", "mode", "read", "onIf">>) /\ (main.was => Wanted) /\ Fresh
     \/ Left(<<"vector", "mode", "read", "onIf">>) /\ (main.was => Wanted)
     \/ Left(<<"mode", "read", "onIf">>) /\ (main.was => Wanted) /\ p0 \in hw[0].vec
NormalLeft ==
  /\ sys.fast /\ c0 = 0 /\ ~main.was /\ Quiet
  /\ \/ /\ hw[0].imr \subseteq {p0}
        /\ \/ Left(<<"read", "read", "offIf", "modeOff", "vectors", "read", "onIf">>)
           \/ Left(<<"read", "offIf", "modeOff", "vectors", "read", "onIf">>)
           \/ Left(<<"offIf", "modeOff", "vectors", "read", "onIf">>) /\ Fresh
           \/ Left(<<"modeOff", "vectors", "read", "onIf">>)
     \/ Left(<<"vectors", "read", "onIf">>) /\ hw[0].imr = {}
OnAgain == Kept0 /\ (Left(<<"read", "onIf">>) \/ (Left(<<"onIf">>) /\ Fresh))
OneStep ==
  \/ Left(<<"ack">>) \/ Left(<<"simulate">>) \/ Left(<<"trigger">>)
  \/ Left(<<"real">>) \/ Left(<<"simulation">>) \/ Left(<<"stop">>)
  \/ Left(<<"single">>) \/ (Left(<<"all">>) /\ ~sys.ilr) \/ Left(<<"selfTest">>)

ScriptInv ==
  \/ Left(<<>>)
  \/ \E m \in {"real", "simulation"} : OfSource /\ Wanted /\ SetUp(m)
  \/ OfSource /\ (ConnectLeft \/ EnableLeft)
  \/ drv.ready /\ OfSource /\ (DisableLeft \/ FastLeft \/ NormalLeft)
  \/ drv.ready /\ OnAgain
  \/ drv.ready /\ OneStep

(* The registers: what is enabled is wanted and has somebody to serve it;  *)
(* fast pins have a vector.                                                *)
Resetting == main.script # <<>> /\ Head(main.script) = "config" /\ ~drv.started
EnableInv ==
  \A id \in Ids : Pin(id) \in hw[Ctrl(id)].ier =>
     Resetting \/ Chained(Ctrl(id), Pin(id)) \/ (id \in want /\ Listened(id))
ModeInv ==
  /\ hw[0].imr \subseteq hw[0].vec
  /\ ~sys.fast => hw[0].imr = {}
  /\ hw[0].me => drv.started
  /\ drv.started => drv.ready
  /\ sys.ilr /\ drv.ready => drv.opt[0] = "single"

(* The stack: nested handlers of the first controller on top of a chain    *)
(* that goes down the controllers. Each keeps the level it came at.        *)
Bottom == Len(frames) - drv.static
Chosen(f) ==
  f.pc # "scan" => /\ f.n \in f.status /\ \A q \in f.status : f.n <= q
                   /\ f.pc = "chained" <=> Chained(f.c, f.n)
Reads(f) == f.status \subseteq hw[f.c].ier /\ (f.c = 0 => f.status \cap hw[0].imr = {})
OnStack(f, i, len, bottom) ==
  /\ f.c = (IF i < bottom THEN 0 ELSE len - i)
  /\ f.pc = "chained" <=> i > bottom
  /\ i > 1 => f.pc # "scan"
Stack ==
  /\ Bottom \in 0 .. Len(frames)
  /\ drv.static < sys.ctrls
  /\ ~sys.ilr => Bottom <= 1
  /\ \A i \in 1 .. Len(frames) : /\ OnStack(frames[i], i, Len(frames), Bottom)
                                 /\ Chosen(frames[i]) /\ Reads(frames[i])
  /\ frames # <<>> => drv.started

Levels ==
  /\ \A i \in 1 .. Len(frames) :
       LET f == frames[i]
       IN  /\ f.ilr = (IF i < Bottom THEN frames[i + 1].n ELSE W)
           /\ i < Bottom /\ f.pc # "scan" => f.n < f.ilr
           /\ i < Bottom /\ f.pc = "scan" => \E q \in f.status : q < f.ilr
           /\ \A k \in i + 1 .. Bottom : f.ilr <= frames[k].n
  /\ hw[0].ilr = IF frames = <<>> THEN W
                 ELSE IF sys.ilr /\ top.pc \in {"body", "ret"} THEN top.n ELSE top.ilr

(* What is latched or read waits, but for what a handler has just served.  *)
InService(id) == \E i \in 1 .. Len(frames) : frames[i].pc = "ret" /\ IdOf(frames[i]) = id
ToServe(f) ==
  {p \in f.status : /\ p < f.ilr
                    /\ f.pc = "body" => f.n <= p
                    /\ f.pc \in {"ret", "chained"} => f.n < p}
DueInv ==
  /\ \A id \in sys.level : Pin(id) \in hw[Ctrl(id)].isr => id \in due \/ InService(id)
  /\ \A i \in 1 .. Len(frames) : \A p \in ToServe(frames[i]) :
        IdAt(frames[i].c, p) \in sys.level => IdAt(frames[i].c, p) \in due

IInv == TypeInv /\ ScriptInv /\ EnableInv /\ ModeInv /\ Stack /\ Levels /\ DueInv
-----------------------------------------------------------------------------
(* Identifiers and pins.                                                   *)
LEMMA SystemFacts ==
  ASSUME sys \in Systems
  PROVE  /\ sys.ctrls \in 1 .. 3 /\ sys.ilr \in BOOLEAN /\ sys.fast \in BOOLEAN
         /\ W \in Nat \ {0} /\ 0 \in Ctrls /\ 0 \in Ids
         /\ Sources \subseteq Ids
         /\ sys.level \subseteq Ids /\ sys.level \cap sys.edge = {}
<1>1. sys \in Shapes /\ W \in Nat \ {0}
  BY IntcCoreAssumption
<1>2. sys.ctrls \in 1 .. 3 /\ sys.ilr \in BOOLEAN /\ sys.fast \in BOOLEAN
  BY <1>1 DEF Shapes
<1>3. 0 \in Ctrls
  BY <1>2 DEF Ctrls
<1>4. 0 \in Ids
  <2>1. W * sys.ctrls \in {W, W + W, W + W + W}
    BY <1>1, <1>2
  <2> QED BY <1>1, <2>1 DEF Ids
<1>5. Sources \subseteq Ids /\ sys.level \subseteq Ids /\ sys.level \cap sys.edge = {}
  BY IntcCoreAssumption DEF Ids, Sources
<1> QED BY <1>1, <1>2, <1>3, <1>4, <1>5

LEMMA IdFacts ==
  ASSUME sys \in Systems, NEW id \in Ids
  PROVE  Ctrl(id) \in Ctrls /\ Pin(id) \in Pins /\ IdAt(Ctrl(id), Pin(id)) = id
<1>1. W \in Nat \ {0} /\ sys.ctrls \in Nat
  BY SystemFacts
<1> DEFINE n == sys.ctrls
<1>2. id \in Nat /\ id \in 0 .. (W * n) - 1
  BY <1>1 DEF Ids
<1> HIDE DEF n
<1>3. n \in Nat
  BY <1>1 DEF n
<1>4. id \div W \in 0 .. n - 1
  BY <1>1, <1>2, <1>3
<1>5. id % W \in 0 .. W - 1 /\ ((id \div W) * W) + (id % W) = id
  BY <1>1, <1>2
<1> QED BY <1>4, <1>5 DEF Ctrl, Pin, Ctrls, Pins, IdAt, n

LEMMA IdAtFacts ==
  ASSUME sys \in Systems, NEW c \in Ctrls, NEW p \in Pins
  PROVE  IdAt(c, p) \in Ids /\ Ctrl(IdAt(c, p)) = c /\ Pin(IdAt(c, p)) = p
<1>1. W \in Nat \ {0} /\ sys.ctrls \in 1 .. 3
  BY SystemFacts
<1>2. c \in Nat /\ c \in 0 .. sys.ctrls - 1 /\ p \in 0 .. W - 1
  BY <1>1 DEF Ctrls, Pins
<1>3. ((c * W) + p) \div W = c /\ ((c * W) + p) % W = p
  BY <1>1, <1>2
<1>4. (c * W) + p \in 0 .. (W * sys.ctrls) - 1
  <2>1. c = 0 \/ c = 1 \/ c = 2
    BY <1>1, <1>2
  <2>2. sys.ctrls = 1 \/ sys.ctrls = 2 \/ sys.ctrls = 3
    BY <1>1
  <2>3. c * W \in {0, W, W + W} /\ (c = 0 => c * W = 0) /\ (c = 1 => c * W = W) /\ (c = 2 => c * W = W + W)
    BY <2>1, <1>1
  <2>4. /\ sys.ctrls = 1 => W * sys.ctrls = W
        /\ sys.ctrls = 2 => W * sys.ctrls = W + W
        /\ sys.ctrls = 3 => W * sys.ctrls = W + W + W
    BY <2>2, <1>1
  <2> QED BY <1>1, <1>2, <2>1, <2>2, <2>3, <2>4
<1> QED BY <1>3, <1>4 DEF IdAt, Ids, Ctrl, Pin

(* No device is on the pin of a chained controller.                        *)
LEMMA SourcesAreNotChained ==
  ASSUME sys \in Systems, NEW id \in Sources
  PROVE  ~Chained(Ctrl(id), Pin(id))
<1>1. W \in Nat \ {0} /\ sys.ctrls \in 1 .. 3 /\ id \in Ids
  BY SystemFacts
<1>2. Ctrl(id) \in Ctrls /\ IdAt(Ctrl(id), Pin(id)) = id
  BY <1>1, IdFacts
<1> SUFFICES ASSUME Chained(Ctrl(id), Pin(id)) PROVE FALSE
  OBVIOUS
<1>3. Ctrl(id) + 1 \in 1 .. sys.ctrls - 1 /\ Ctrl(id) \in {0, 1}
  BY <1>1, <1>2 DEF Chained, Ctrls
<1>4. id = (Ctrl(id) * W) + (W - 1)
  BY <1>2 DEF Chained, IdAt
<1>5. id = (W * (Ctrl(id) + 1)) - 1
  BY <1>1, <1>3, <1>4
<1> QED BY <1>3, <1>5, IntcCoreAssumption DEF Sources

(* What settling changes: latched pins, by devices and the next controller. *)
LEMMA SettledIs ==
  ASSUME sys.ctrls \in 1 .. 3, NEW h, NEW held
  PROVE  LET s == Settled(h, held)
         IN  /\ s = [c \in Ctrls |-> s[c]]
             /\ \A c \in Ctrls :
                  s[c] = Latched(h[c], FromDevices(held, c) \cup
                                       IF c + 1 \in Ctrls THEN FromNext(s[c + 1]) ELSE {})
<1> DEFINE step(c, pins) == Latched(h[c], FromDevices(held, c) \cup pins)
           last == sys.ctrls - 1
           s2 == step(2, {})
           s1 == step(1, IF last = 2 THEN FromNext(s2) ELSE {})
           s0 == step(0, IF last >= 1 THEN FromNext(s1) ELSE {})
           t == [c \in Ctrls |-> IF c = 0 THEN s0 ELSE IF c = 1 THEN s1 ELSE s2]
           body(s) == [c \in Ctrls |-> step(c, IF c + 1 \in Ctrls THEN FromNext(s[c + 1]) ELSE {})]
<1>1. t = body(t)
  <2> HIDE DEF step
  <2>1. \A c \in Ctrls : c + 1 \in Ctrls => t[c + 1] = (IF c = 0 THEN s1 ELSE s2)
    BY DEF Ctrls
  <2>2. ASSUME NEW c \in Ctrls PROVE t[c] = body(t)[c]
    <3>1. CASE c = 0
      BY <3>1, <2>1 DEF Ctrls
    <3>2. CASE c = 1
      BY <3>2, <2>1 DEF Ctrls
    <3>3. CASE c = 2
      BY <3>3 DEF Ctrls
    <3> QED BY <3>1, <3>2, <3>3, <2>2 DEF Ctrls
  <2> QED BY <2>2
<1> HIDE DEF t
<1>2. Settled(h, held) = body(Settled(h, held))
  <2> DEFINE S == CHOOSE s : s = body(s)
  <2>1. S = body(S)
    BY <1>1
  <2> QED BY <2>1 DEF Settled
<1> DEFINE r == Settled(h, held)
<1> HIDE DEF r
<1>3. r = body(r)
  BY <1>2 DEF r
<1> HIDE DEF step
<1>4. r = [c \in Ctrls |-> r[c]] /\ \A c \in Ctrls : r[c] = body(r)[c]
  BY <1>3
<1> QED BY <1>4 DEF step, r

LEMMA SettledFacts ==
  ASSUME sys \in Systems, NEW h \in [Ctrls -> Regs], NEW held \in SUBSET Ids,
         NEW s, s = Settled(h, held)
  PROVE  /\ s \in [Ctrls -> Regs]
         /\ \A c \in Ctrls :
              /\ s[c].ier = h[c].ier /\ s[c].imr = h[c].imr /\ s[c].vec = h[c].vec
              /\ s[c].me = h[c].me /\ s[c].hie = h[c].hie /\ s[c].ilr = h[c].ilr
              /\ h[c].isr \subseteq s[c].isr
              /\ \A p \in s[c].isr : p \in h[c].isr \/ Chained(c, p)
                                      \/ \E id \in held : Ctrl(id) = c /\ Pin(id) = p
<1> DEFINE pins(c) == FromDevices(held, c) \cup IF c + 1 \in Ctrls THEN FromNext(Settled(h, held)[c + 1])
                                                ELSE {}
<1>1. s = [c \in Ctrls |-> s[c]] /\ \A c \in Ctrls : s[c] = Latched(h[c], pins(c))
  <2>1. sys.ctrls \in 1 .. 3
    BY SystemFacts
  <2> QED BY ONLY <2>1, SettledIs, s = Settled(h, held)
<1>2. ASSUME NEW c \in Ctrls
      PROVE  /\ pins(c) \in SUBSET Pins
             /\ \A p \in pins(c) : Chained(c, p) \/ \E id \in held : Ctrl(id) = c /\ Pin(id) = p
  <2>1. \A p \in FromDevices(held, c) : p \in Pins /\ \E id \in held : Ctrl(id) = c /\ Pin(id) = p
    BY IdFacts DEF FromDevices
  <2>2. W - 1 \in Pins
    BY SystemFacts DEF Pins
  <2>3. c + 1 \in Ctrls => Chained(c, W - 1)
    BY SystemFacts DEF Chained, Ctrls
  <2>4. \A r : FromNext(r) \subseteq {W - 1}
    BY DEF FromNext
  <2> QED BY <2>1, <2>2, <2>3, <2>4
<1> HIDE DEF pins
<1>3. ASSUME NEW c \in Ctrls
      PROVE  LET r == Latched(h[c], pins(c))
             IN  /\ r \in Regs
                 /\ r.ier = h[c].ier /\ r.imr = h[c].imr /\ r.vec = h[c].vec
                 /\ r.me = h[c].me /\ r.hie = h[c].hie /\ r.ilr = h[c].ilr
                 /\ h[c].isr \subseteq r.isr /\ r.isr \subseteq h[c].isr \cup pins(c)
  <2>1. h[c] \in Regs /\ pins(c) \in SUBSET Pins
    BY <1>2
  <2>2. h[c].isr \cup pins(c) \in SUBSET Pins
    BY <2>1 DEF Regs
  <2> QED BY <2>1, <2>2 DEF Latched, Regs
<1>4. \A c \in Ctrls : s[c] = Latched(h[c], pins(c))
  BY <1>1
<1>5. s \in [Ctrls -> Regs]
  BY <1>1, <1>3
<1>6. ASSUME NEW c \in Ctrls, NEW p \in s[c].isr
      PROVE  p \in h[c].isr \/ Chained(c, p) \/ \E id \in held : Ctrl(id) = c /\ Pin(id) = p
  BY <1>2, <1>3, <1>4
<1> QED BY <1>3, <1>4, <1>5, <1>6
-----------------------------------------------------------------------------
(* What the head of a script says of the rest of it.                       *)
LEMMA SetUpHeads == ScriptInv =>
  /\ At("config") => \E m \in {"real", "simulation"} :
       /\ Left(<<"config", "handler", "ref", m, "read", "on">>)
       /\ OfSource /\ Wanted /\ (drv.started => Quiet)
  /\ At("handler") =>
       /\ drv.ready /\ OfSource /\ Quiet
       /\ \/ Left(<<"handler", "ref">>)
          \/ \E m \in {"real", "simulation"} :
               Wanted /\ Left(<<"handler", "ref", m, "read", "on">>)
  /\ At("ref") =>
       /\ drv.ready /\ OfSource /\ Quiet
       /\ \/ Left(<<"ref">>)
          \/ \E m \in {"real", "simulation"} :
               Wanted /\ table[main.id].h = "own" /\ Left(<<"ref", m, "read", "on">>)
<1> USE DEF At, ScriptInv, SetUp, ConnectLeft, EnableLeft, DisableLeft, FastLeft, NormalLeft,
            OnAgain, OneStep, Left
<1>1. ScriptInv /\ At("config") => \E m \in {"real", "simulation"} :
       /\ Left(<<"config", "handler", "ref", m, "read", "on">>)
       /\ OfSource /\ Wanted /\ (drv.started => Quiet)
  OBVIOUS
<1>2. ScriptInv /\ At("handler") =>
       /\ drv.ready /\ OfSource /\ Quiet
       /\ \/ Left(<<"handler", "ref">>)
          \/ \E m \in {"real", "simulation"} :
               Wanted /\ Left(<<"handler", "ref", m, "read", "on">>)
  OBVIOUS
<1>3. ScriptInv /\ At("ref") =>
       /\ drv.ready /\ OfSource /\ Quiet
       /\ \/ Left(<<"ref">>)
          \/ \E m \in {"real", "simulation"} :
               Wanted /\ table[main.id].h = "own" /\ Left(<<"ref", m, "read", "on">>)
  OBVIOUS
<1> QED BY ONLY <1>1, <1>2, <1>3

LEMMA StartHeads ==
  ASSUME ScriptInv, NEW m \in {"real", "simulation"}, At(m)
  PROVE  drv.ready /\ (Left(<<m>>) \/ (OfSource /\ Left(<<m, "read", "on">>) /\ Fit))
BY DEF At, ScriptInv, SetUp, ConnectLeft, EnableLeft, DisableLeft, FastLeft, NormalLeft,
       OnAgain, OneStep, Left

LEMMA ReadHeads == ScriptInv /\ At("read") =>
  /\ drv.ready
  /\ \/ OfSource /\ Left(<<"read", "on">>) /\ Fit
     \/ OfSource /\ (Left(<<"read", "off">>) \/ Left(<<"read", "off", "stub", "unref">>))
     \/ /\ OfSource /\ FastLeft
        /\ \/ Left(<<"read", "read", "offIf", "vector", "mode", "read", "onIf">>)
           \/ Left(<<"read", "offIf", "vector", "mode", "read", "onIf">>)
     \/ /\ OfSource /\ NormalLeft
        /\ \/ Left(<<"read", "read", "offIf", "modeOff", "vectors", "read", "onIf">>)
           \/ Left(<<"read", "offIf", "modeOff", "vectors", "read", "onIf">>)
     \/ Left(<<"read", "onIf">>) /\ Kept0
BY DEF At, ScriptInv, SetUp, ConnectLeft, EnableLeft, DisableLeft, FastLeft, NormalLeft,
       OnAgain, OneStep, Left

LEMMA SwitchHeads == ScriptInv =>
  /\ At("on") => Left(<<"on">>) /\ drv.ready /\ OfSource /\ Fit /\ Fresh
  /\ At("off") => /\ drv.ready /\ OfSource /\ Fresh
                  /\ (Left(<<"off">>) \/ Left(<<"off", "stub", "unref">>))
  /\ At("stub") => Left(<<"stub", "unref">>) /\ drv.ready /\ OfSource /\ Quiet
  /\ At("unref") => Left(<<"unref">>) /\ drv.ready /\ OfSource /\ Quiet
  /\ At("onIf") => Left(<<"onIf">>) /\ drv.ready /\ Kept0 /\ Fresh
  /\ At("offIf") =>
       /\ drv.ready /\ OfSource /\ Fresh
       /\ \/ FastLeft /\ Left(<<"offIf", "vector", "mode", "read", "onIf">>)
          \/ NormalLeft /\ Left(<<"offIf", "modeOff", "vectors", "read", "onIf">>)
<1> USE DEF At, ScriptInv, SetUp, ConnectLeft, EnableLeft, DisableLeft, FastLeft, NormalLeft,
            OnAgain, OneStep, Left
<1>1. ScriptInv /\ At("on") => Left(<<"on">>) /\ drv.ready /\ OfSource /\ Fit /\ Fresh
  OBVIOUS
<1>2. ScriptInv /\ At("off") => /\ drv.ready /\ OfSource /\ Fresh
                               /\ (Left(<<"off">>) \/ Left(<<"off", "stub", "unref">>))
  OBVIOUS
<1>3. ScriptInv /\ At("stub") => Left(<<"stub", "unref">>) /\ drv.ready /\ OfSource /\ Quiet
  OBVIOUS
<1>4. ScriptInv /\ At("unref") => Left(<<"unref">>) /\ drv.ready /\ OfSource /\ Quiet
  OBVIOUS
<1>5. ScriptInv /\ At("onIf") => Left(<<"onIf">>) /\ drv.ready /\ Kept0 /\ Fresh
  OBVIOUS
<1>6. ScriptInv /\ At("offIf") =>
       /\ drv.ready /\ OfSource /\ Fresh
       /\ \/ FastLeft /\ Left(<<"offIf", "vector", "mode", "read", "onIf">>)
          \/ NormalLeft /\ Left(<<"offIf", "modeOff", "vectors", "read", "onIf">>)
  OBVIOUS
<1> QED BY ONLY <1>1, <1>2, <1>3, <1>4, <1>5, <1>6

LEMMA ModeHeads == ScriptInv =>
  /\ At("vector") => /\ drv.ready /\ OfSource /\ FastLeft
                     /\ Left(<<"vector", "mode", "read", "onIf">>)
  /\ At("mode") => /\ drv.ready /\ OfSource /\ FastLeft /\ p0 \in hw[0].vec
                   /\ Left(<<"mode", "read", "onIf">>)
  /\ At("modeOff") => /\ drv.ready /\ OfSource /\ NormalLeft
                      /\ Left(<<"modeOff", "vectors", "read", "onIf">>)
  /\ At("vectors") => /\ drv.ready /\ OfSource /\ NormalLeft /\ hw[0].imr = {}
                      /\ Left(<<"vectors", "read", "onIf">>)
<1> USE DEF At, ScriptInv, SetUp, ConnectLeft, EnableLeft, DisableLeft, FastLeft, NormalLeft,
            OnAgain, OneStep, Left
<1>1. ScriptInv /\ At("vector") => /\ drv.ready /\ OfSource /\ FastLeft
                                  /\ Left(<<"vector", "mode", "read", "onIf">>)
  OBVIOUS
<1>2. ScriptInv /\ At("mode") => /\ drv.ready /\ OfSource /\ FastLeft /\ p0 \in hw[0].vec
                                /\ Left(<<"mode", "read", "onIf">>)
  OBVIOUS
<1>3. ScriptInv /\ At("modeOff") => /\ drv.ready /\ OfSource /\ NormalLeft
                                   /\ Left(<<"modeOff", "vectors", "read", "onIf">>)
  OBVIOUS
<1>4. ScriptInv /\ At("vectors") => /\ drv.ready /\ OfSource /\ NormalLeft /\ hw[0].imr = {}
                                   /\ Left(<<"vectors", "read", "onIf">>)
  OBVIOUS
<1> QED BY ONLY <1>1, <1>2, <1>3, <1>4

LEMMA OneStepHeads ==
  ASSUME ScriptInv,
         NEW a \in {"ack", "simulate", "trigger", "stop", "single", "all", "selfTest"}, At(a)
  PROVE  drv.ready /\ Left(<<a>>) /\ (a = "all" => ~sys.ilr)
BY DEF At, ScriptInv, SetUp, ConnectLeft, EnableLeft, DisableLeft, FastLeft, NormalLeft,
       OnAgain, OneStep, Left
-----------------------------------------------------------------------------
(* A step of the program: no handler is running.                           *)
Mains == [script : Seq(Steps), id : Ids, was : BOOLEAN, cur : SUBSET Pins]

(* The rest of a script of so many steps.                                  *)
LEMMA Tails ==
  ASSUME NEW s
  PROVE  /\ \A a : s = <<a>> => Len(s) = 1
         /\ \A a, b : s = <<a, b>> => Len(s) # 1 /\ Tail(s) = <<b>>
         /\ \A a, b, c : s = <<a, b, c>> => Len(s) # 1 /\ Tail(s) = <<b, c>>
         /\ \A a, b, c, d : s = <<a, b, c, d>> => Len(s) # 1 /\ Tail(s) = <<b, c, d>>
         /\ \A a, b, c, d, e : s = <<a, b, c, d, e>> => Len(s) # 1 /\ Tail(s) = <<b, c, d, e>>
         /\ \A a, b, c, d, e, f : s = <<a, b, c, d, e, f>> => Len(s) # 1 /\ Tail(s) = <<b, c, d, e, f>>
         /\ \A a, b, c, d, e, f, g : s = <<a, b, c, d, e, f, g>> => Len(s) # 1 /\ Tail(s) = <<b, c, d, e, f, g>>
<1>1. ASSUME NEW a, s = <<a>> PROVE Len(s) = 1
  BY <1>1
<1>2. ASSUME NEW a, NEW b, s = <<a, b>>
      PROVE  Len(s) # 1 /\ Tail(s) = <<b>>
  BY <1>2
<1>3. ASSUME NEW a, NEW b, NEW c, s = <<a, b, c>>
      PROVE  Len(s) # 1 /\ Tail(s) = <<b, c>>
  BY <1>3
<1>4. ASSUME NEW a, NEW b, NEW c, NEW d, s = <<a, b, c, d>>
      PROVE  Len(s) # 1 /\ Tail(s) = <<b, c, d>>
  BY <1>4
<1>5. ASSUME NEW a, NEW b, NEW c, NEW d, NEW e, s = <<a, b, c, d, e>>
      PROVE  Len(s) # 1 /\ Tail(s) = <<b, c, d, e>>
  BY <1>5
<1>6. ASSUME NEW a, NEW b, NEW c, NEW d, NEW e, NEW f, s = <<a, b, c, d, e, f>>
      PROVE  Len(s) # 1 /\ Tail(s) = <<b, c, d, e, f>>
  BY <1>6
<1>7. ASSUME NEW a, NEW b, NEW c, NEW d, NEW e, NEW f, NEW g, s = <<a, b, c, d, e, f, g>>
      PROVE  Len(s) # 1 /\ Tail(s) = <<b, c, d, e, f, g>>
  BY <1>7
<1> QED BY ONLY <1>1, <1>2, <1>3, <1>4, <1>5, <1>6, <1>7

LEMMA Scripts ==
  ASSUME NEW S, NEW a \in S, NEW b \in S, NEW c \in S, NEW d \in S, NEW e \in S,
         NEW f \in S, NEW g \in S
  PROVE  /\ <<a>> \in Seq(S) /\ <<a, b>> \in Seq(S) /\ <<a, b, c, d>> \in Seq(S)
         /\ <<a, b, c, d, e, f>> \in Seq(S) /\ <<a, b, c, d, e, f, g>> \in Seq(S)
OBVIOUS

LEMMA DoneFacts ==
  ASSUME sys \in Systems, NEW m \in Mains, m.script # <<>>
  PROVE  /\ Done(m) \in Mains
         /\ Len(m.script) = 1 => Done(m).script = <<>>
         /\ Len(m.script) # 1 => /\ Done(m).script = Tail(m.script)
                                /\ Done(m).id = m.id /\ Done(m).was = m.was /\ Done(m).cur = m.cur
<1>1. Idle \in Mains /\ Idle.script = <<>>
  BY SystemFacts DEF Idle, Mains
<1>2. CASE Len(m.script) = 1
  BY <1>1, <1>2 DEF Done
<1>3. CASE Len(m.script) # 1
  <2>1. Tail(m.script) \in Seq(Steps)
    BY DEF Mains
  <2> QED BY <1>3, <2>1 DEF Done, Mains
<1> QED BY <1>2, <1>3

LEMMA RestKeepsStack ==
  ASSUME TypeInv, Stack, Levels, DueInv, frames = <<>>,
         sys' = sys, frames' = frames, drv'.static = drv.static, hw'[0].ilr = hw[0].ilr,
         \A id \in sys.level : Pin(id) \in hw'[Ctrl(id)].isr => id \in due'
  PROVE  Stack' /\ Levels' /\ DueInv'
<1>1. Len(frames) = 0 /\ Len(frames') = 0 /\ frames' = <<>>
  OBVIOUS
<1>2. drv.static = 0
  BY <1>1 DEF TypeInv, Stack, Bottom
<1>3. Stack'
  BY <1>1, <1>2, SystemFacts DEF TypeInv, Stack, Bottom
<1>4. Levels'
  BY <1>1, <1>2 DEF Levels, Bottom
<1>5. DueInv'
  BY <1>1 DEF DueInv
<1> QED BY <1>3, <1>4, <1>5

(* Nothing latched is due to nobody when no handler runs, settling keeps   *)
(* it so.                                                                  *)
LEMMA SettledDue ==
  ASSUME sys \in Systems, NEW h \in [Ctrls -> Regs], NEW held \in SUBSET sys.level,
         NEW s, s = Settled(h, held), NEW d, held \subseteq d,
         NEW id \in sys.level, Pin(id) \in s[Ctrl(id)].isr, Pin(id) \notin h[Ctrl(id)].isr
  PROVE  id \in d
<1>1. id \in Sources /\ id \in Ids /\ held \subseteq Ids
  BY SystemFacts DEF Sources
<1>2. ~Chained(Ctrl(id), Pin(id)) /\ Ctrl(id) \in Ctrls
  BY <1>1, SourcesAreNotChained, IdFacts
<1>3. PICK i \in held : Ctrl(i) = Ctrl(id) /\ Pin(i) = Pin(id)
  BY <1>1, <1>2, SettledFacts
<1>4. i = id
  BY <1>1, <1>3, IdFacts
<1> QED BY <1>3, <1>4

LEMMA RestDue ==
  ASSUME TypeInv, DueInv, frames = <<>>, NEW id \in sys.level, Pin(id) \in hw[Ctrl(id)].isr
  PROVE  id \in due
BY DEF DueInv, InService

(* A handler connected for the source of a script is heard while nothing   *)
(* of the set-up changes.                                                  *)
SetupSame ==
  /\ sys' = sys /\ table' = table /\ want' = want
  /\ drv'.ready = drv.ready /\ drv'.started = drv.started /\ drv'.opt = drv.opt
  /\ \A c \in Ctrls : /\ hw'[c].ier = hw[c].ier /\ hw'[c].imr = hw[c].imr
                      /\ hw'[c].vec = hw[c].vec /\ hw'[c].me = hw[c].me

LEMMA ListenedSame ==
  ASSUME TypeInv, sys' = sys, table' = table, hw'[0].imr = hw[0].imr
  PROVE  \A id \in Ids : Listened(id)' <=> Listened(id)
BY SystemFacts DEF TypeInv, Listened, Own, Ctrl, Pin

LEMMA EnableSame ==
  ASSUME TypeInv, EnableInv, ~Resetting, sys' = sys, table' = table, want' = want,
         hw'[0].imr = hw[0].imr, \A c \in Ctrls : hw'[c].ier = hw[c].ier
  PROVE  EnableInv'
<1>1. Ids' = Ids
  BY DEF Ids
<1>2. sys \in Systems
  BY DEF TypeInv
<1>3. \A id \in Ids : Listened(id)' <=> Listened(id)
  BY ListenedSame
<1>4. ASSUME NEW id \in Ids, (Pin(id) \in hw[Ctrl(id)].ier)'
      PROVE  (Chained(Ctrl(id), Pin(id)) \/ (id \in want /\ Listened(id)))'
  <2>1. Ctrl(id) \in Ctrls
    BY <1>2, IdFacts
  <2>2. Pin(id) \in hw[Ctrl(id)].ier
    BY <1>4, <2>1 DEF Ctrl, Pin
  <2>3. Chained(Ctrl(id), Pin(id)) \/ (id \in want /\ Listened(id))
    BY <2>2 DEF EnableInv
  <2> QED BY <2>3, <1>3 DEF Chained, Ctrl, Pin
<1> QED BY <1>1, <1>4 DEF EnableInv

LEMMA ModeSame ==
  ASSUME TypeInv, ModeInv, SetupSame
  PROVE  ModeInv'
<1>1. 0 \in Ctrls
  BY SystemFacts DEF TypeInv
<1> QED BY <1>1 DEF ModeInv, SetupSame

LEMMA QuietOrWanted ==
  ASSUME TypeInv, EnableInv, ~Resetting, OfSource, ~Quiet
  PROVE  Wanted /\ Listened(main.id)
<1>1. sys \in Systems /\ main.id \in Ids
  BY DEF TypeInv
<1>2. ~Chained(Ctrl(main.id), Pin(main.id))
  BY <1>1, SourcesAreNotChained DEF OfSource
<1> QED BY <1>1, <1>2 DEF EnableInv, Quiet, c0, p0, Wanted

LEMMA Advances ==
  ASSUME TypeInv, sys' = sys, NEW m \in Mains, m.script = main.script, main.script # <<>>,
         main' = Done(m)
  PROVE  /\ main' \in Mains
         /\ Len(main.script) = 1 => main'.script = <<>>
         /\ Len(main.script) # 1 => /\ main'.script = Tail(main.script)
                                   /\ main'.id = m.id /\ main'.was = m.was /\ main'.cur = m.cur
<1>1. sys \in Systems /\ m.script # <<>>
  BY DEF TypeInv
<1>2. /\ Done(m) \in Mains
      /\ Len(m.script) = 1 => Done(m).script = <<>>
      /\ Len(m.script) # 1 => /\ Done(m).script = Tail(m.script)
                             /\ Done(m).id = m.id /\ Done(m).was = m.was /\ Done(m).cur = m.cur
  BY <1>1, DoneFacts
<1> QED BY ONLY <1>2, m.script = main.script, main' = Done(m)

LEMMA MainType ==
  ASSUME TypeInv
  PROVE  /\ sys \in Systems /\ main \in Mains /\ main.id \in Ids
         /\ c0 \in Ctrls /\ p0 \in Pins /\ IdAt(c0, p0) = main.id
<1>1. sys \in Systems /\ main \in Mains /\ main.id \in Ids
  BY DEF TypeInv, Mains
<1>2. c0 \in Ctrls /\ p0 \in Pins /\ IdAt(c0, p0) = main.id
  BY <1>1, IdFacts DEF c0, p0
<1> QED BY <1>1, <1>2

(* Registers are written, and the pins settle.                             *)
LEMMA WriteFacts ==
  ASSUME TypeInv, NEW h \in [Ctrls -> Regs], hw' = Settled(h, line),
         line \subseteq due', \A id \in sys.level : Pin(id) \in h[Ctrl(id)].isr => id \in due'
  PROVE  /\ hw' \in [Ctrls -> Regs]
         /\ \A c \in Ctrls : /\ hw'[c].ier = h[c].ier /\ hw'[c].imr = h[c].imr
                             /\ hw'[c].vec = h[c].vec /\ hw'[c].me = h[c].me
                             /\ hw'[c].hie = h[c].hie /\ hw'[c].ilr = h[c].ilr
         /\ \A id \in sys.level : Pin(id) \in hw'[Ctrl(id)].isr => id \in due'
<1>1. sys \in Systems /\ line \in SUBSET sys.level /\ line \in SUBSET Ids
  BY SystemFacts DEF TypeInv
<1> DEFINE s == Settled(h, line)
<1>2. s = Settled(h, line)
  OBVIOUS
<1> HIDE DEF s
<1>3. hw' = s
  BY <1>2
<1>4. /\ s \in [Ctrls -> Regs]
      /\ \A c \in Ctrls :
           /\ s[c].ier = h[c].ier /\ s[c].imr = h[c].imr /\ s[c].vec = h[c].vec
           /\ s[c].me = h[c].me /\ s[c].hie = h[c].hie /\ s[c].ilr = h[c].ilr
  BY <1>1, <1>2, SettledFacts
<1>5. ASSUME NEW id \in sys.level, Pin(id) \in s[Ctrl(id)].isr
      PROVE  id \in due'
  <2>1. CASE Pin(id) \in h[Ctrl(id)].isr
    BY <2>1
  <2>2. CASE Pin(id) \notin h[Ctrl(id)].isr
    BY <1>1, <1>2, <1>5, <2>2, SettledDue
  <2> QED BY <2>1, <2>2
<1> QED BY <1>3, <1>4, <1>5

(* A script goes on for a set-up that stays as it is.                      *)
LEMMA GoesOn ==
  ASSUME TypeInv, SetupSame, main'.id = main.id
  PROVE  /\ (Quiet' <=> Quiet) /\ (Fit' <=> Fit) /\ (Wanted' <=> Wanted)
         /\ (OfSource' <=> OfSource) /\ c0' = c0 /\ p0' = p0
<1>1. \A id \in Ids : Listened(id)' <=> Listened(id)
  <2>1. 0 \in Ctrls
    BY MainType, SystemFacts
  <2> QED BY <2>1, ListenedSame DEF SetupSame
<1>2. c0' = c0 /\ p0' = p0 /\ main.id \in Ids /\ c0 \in Ctrls
  BY MainType DEF c0, p0, Ctrl, Pin
<1> QED BY <1>1, <1>2 DEF Quiet, Fit, Wanted, OfSource, Sources, SetupSame

(* An entry of the table changes only while its source is disabled.        *)
LEMMA EnableTable ==
  ASSUME TypeInv, EnableInv, ~Resetting, Quiet, NEW e, table' = [table EXCEPT ![main.id] = e],
         sys' = sys, want' = want, hw' = hw
  PROVE  EnableInv'
<1>1. Ids' = Ids
  BY DEF Ids
<1>2. ASSUME NEW id \in Ids, (Pin(id) \in hw[Ctrl(id)].ier)'
      PROVE  (Chained(Ctrl(id), Pin(id)) \/ (id \in want /\ Listened(id)))'
  <2>1. Pin(id) \in hw[Ctrl(id)].ier
    BY <1>2 DEF Ctrl, Pin
  <2>2. id # main.id
    BY <2>1 DEF Quiet, c0, p0
  <2>3. table'[id] = table[id]
    BY <2>2 DEF TypeInv
  <2>4. Chained(Ctrl(id), Pin(id)) \/ (id \in want /\ Listened(id))
    BY <2>1 DEF EnableInv
  <2> QED BY <2>3, <2>4 DEF Chained, Ctrl, Pin, Listened, Own
<1> QED BY <1>1, <1>2 DEF EnableInv

LEMMA NotResetting ==
  ASSUME NEW a, At(a), a # "config"
  PROVE  ~Resetting
BY DEF At, Resetting

LEMMA ReadIerKeeps == IInv /\ ReadIer => IInv'
<1> SUFFICES ASSUME IInv, ReadIer PROVE IInv'
  OBVIOUS
<1> DEFINE m == [main EXCEPT !.cur = hw[c0].ier, !.was = @ \/ p0 \in hw[c0].ier]
<1>1. UNCHANGED <<hw, line, due, drv, table, sys, frames, want>> /\ main' = Done(m)
  BY DEF ReadIer, Advance
<1>2. frames = <<>> /\ main.script # <<>> /\ At("read")
  BY DEF ReadIer, At
<1> USE DEF IInv
<1>3. sys \in Systems /\ main \in Mains /\ c0 \in Ctrls /\ p0 \in Pins
  BY IdFacts DEF TypeInv, Mains, c0, p0
<1>4. m \in Mains /\ m.script = main.script /\ m.id = main.id /\ m.cur = hw[c0].ier
      /\ (m.was <=> main.was \/ ~Quiet)
  <2>1. hw[c0].ier \in SUBSET Pins
    BY <1>3 DEF TypeInv, Regs
  <2>2. (p0 \in hw[c0].ier) \in BOOLEAN /\ (main.was \/ p0 \in hw[c0].ier) \in BOOLEAN
    OBVIOUS
  <2> QED BY <1>3, <2>1, <2>2 DEF Mains, Quiet
<1> HIDE DEF m
<1>5. /\ main' \in Mains
      /\ Len(main.script) # 1 =>
           /\ main'.script = Tail(main.script) /\ main'.id = main.id
           /\ main'.cur = hw[c0].ier /\ (main'.was <=> main.was \/ ~Quiet)
  BY <1>1, <1>2, <1>3, <1>4, DoneFacts
<1>6. TypeInv'
  BY <1>1, <1>5 DEF TypeInv, Ctrls, Ids, Mains
<1>7. \A id \in Ids : Listened(id)' <=> Listened(id)
  BY <1>1, ListenedSame DEF TypeInv
<1>12. ~Resetting
  BY <1>2 DEF Resetting, At
<1>8. ScriptInv'
  <2> DEFINE kept == /\ main'.id = main.id /\ (Quiet' <=> Quiet) /\ (Fit' <=> Fit) /\ Fresh'
                     /\ (Wanted' <=> Wanted) /\ (OfSource' <=> OfSource) /\ (c0 = 0 <=> c0' = 0)
                     /\ p0' = p0 /\ (main'.was <=> main.was \/ ~Quiet)
  <2>1. Len(main.script) # 1 => kept
    <3> SUFFICES ASSUME Len(main.script) # 1 PROVE kept
      OBVIOUS
    <3>1. main'.id = main.id /\ main'.cur = hw[c0].ier /\ (main'.was <=> main.was \/ ~Quiet)
      BY <1>5
    <3>2. c0' = c0 /\ p0' = p0
      BY <3>1 DEF c0, p0, Ctrl, Pin
    <3>3. main.id \in Ids
      BY DEF TypeInv
    <3> QED BY <1>1, <1>7, <3>1, <3>2, <3>3
            DEF Quiet, Fit, Fresh, Wanted, OfSource, Sources
  <2> HIDE DEF kept
  <2>2. Len(main.script) # 1 => main'.script = Tail(main.script)
    BY <1>5
  <2>3. drv.ready /\ drv' = drv
    BY <1>1, <1>2, ReadHeads
  <2>4. CASE OfSource /\ Left(<<"read", "on">>) /\ Fit
    <3>1. main'.script = <<"on">> /\ kept
      BY <2>1, <2>2, <2>4, Tails DEF Left
    <3> QED BY <3>1, <2>3, <2>4 DEF kept, ScriptInv, EnableLeft, Left
  <2>5. CASE OfSource /\ (Left(<<"read", "off">>) \/ Left(<<"read", "off", "stub", "unref">>))
    <3>1. (main'.script = <<"off">> \/ main'.script = <<"off", "stub", "unref">>) /\ kept
      <4>1. CASE Left(<<"read", "off">>)
        BY <2>1, <2>2, <4>1, Tails DEF Left
      <4>2. CASE Left(<<"read", "off", "stub", "unref">>)
        BY <2>1, <2>2, <4>2, Tails DEF Left
      <4> QED BY <2>5, <4>1, <4>2
    <3> QED BY <3>1, <2>3, <2>5 DEF kept, ScriptInv, DisableLeft, Left
  <2>6. CASE /\ OfSource /\ FastLeft
             /\ \/ Left(<<"read", "read", "offIf", "vector", "mode", "read", "onIf">>)
                \/ Left(<<"read", "offIf", "vector", "mode", "read", "onIf">>)
    <3>1. ~Quiet => Wanted
      BY <1>12, <2>6, QuietOrWanted
    <3>2. main.was => Wanted
      BY <2>6 DEF FastLeft, Left
    <3>3. /\ \/ main'.script = <<"read", "offIf", "vector", "mode", "read", "onIf">>
             \/ main'.script = <<"offIf", "vector", "mode", "read", "onIf">>
          /\ kept
      <4>1. CASE Left(<<"read", "read", "offIf", "vector", "mode", "read", "onIf">>)
        BY <2>1, <2>2, <4>1, Tails DEF Left
      <4>2. CASE Left(<<"read", "offIf", "vector", "mode", "read", "onIf">>)
        BY <2>1, <2>2, <4>2, Tails DEF Left
      <4> QED BY <2>6, <4>1, <4>2
    <3>4. sys.fast /\ c0 = 0
      BY <2>6 DEF FastLeft
    <3>5. FastLeft'
      BY <1>1, <3>1, <3>2, <3>3, <3>4 DEF kept, FastLeft, Left
    <3> QED BY <3>3, <3>5, <2>3, <2>6 DEF kept, ScriptInv
  <2>7. CASE /\ OfSource /\ NormalLeft
             /\ \/ Left(<<"read", "read", "offIf", "modeOff", "vectors", "read", "onIf">>)
                \/ Left(<<"read", "offIf", "modeOff", "vectors", "read", "onIf">>)
    <3>1. /\ \/ main'.script = <<"read", "offIf", "modeOff", "vectors", "read", "onIf">>
             \/ main'.script = <<"offIf", "modeOff", "vectors", "read", "onIf">>
          /\ kept
      <4>1. CASE Left(<<"read", "read", "offIf", "modeOff", "vectors", "read", "onIf">>)
        BY <2>1, <2>2, <4>1, Tails DEF Left
      <4>2. CASE Left(<<"read", "offIf", "modeOff", "vectors", "read", "onIf">>)
        BY <2>1, <2>2, <4>2, Tails DEF Left
      <4> QED BY <2>7, <4>1, <4>2
    <3>2. sys.fast /\ c0 = 0 /\ ~main.was /\ Quiet /\ hw[0].imr \subseteq {p0}
      BY <2>7 DEF NormalLeft, Left
    <3>3. NormalLeft'
      BY <1>1, <3>1, <3>2 DEF kept, NormalLeft, Left
    <3> QED BY <3>1, <3>3, <2>3, <2>7 DEF kept, ScriptInv
  <2>8. CASE Left(<<"read", "onIf">>) /\ Kept0
    <3>1. main'.script = <<"onIf">> /\ kept
      BY <2>1, <2>2, <2>8, Tails DEF Left
    <3> QED BY <3>1, <2>3, <2>8 DEF kept, ScriptInv, OnAgain, Left, Kept0
  <2> QED BY <1>2, <2>4, <2>5, <2>6, <2>7, <2>8, ReadHeads
<1>9. EnableInv'
  BY <1>1, <1>12, EnableSame
<1>10. ModeInv'
  BY <1>1, ModeSame DEF SetupSame
<1>11. Stack' /\ Levels' /\ DueInv'
  BY <1>1, <1>2, RestKeepsStack, RestDue
<1> QED BY <1>6, <1>8, <1>9, <1>10, <1>11

LEMMA ConnectKeeps == IInv /\ (Connect \/ Disconnect) => IInv'
<1> SUFFICES ASSUME IInv, Connect \/ Disconnect PROVE IInv'
  OBVIOUS
<1> USE DEF IInv
<1> PICK a \in {"handler", "ref", "stub", "unref"} :
      At(a) /\ Advance(main)
      /\ Stores(CASE a = "handler" -> [table[main.id] EXCEPT !.h = "own"]
                  [] a = "ref" -> [table[main.id] EXCEPT !.ref = "own"]
                  [] a = "stub" -> [table[main.id] EXCEPT !.h = "stub"]
                  [] a = "unref" -> [table[main.id] EXCEPT !.ref = "intc"])
  BY DEF Connect, Disconnect
<1> DEFINE e == CASE a = "handler" -> [table[main.id] EXCEPT !.h = "own"]
                  [] a = "ref" -> [table[main.id] EXCEPT !.ref = "own"]
                  [] a = "stub" -> [table[main.id] EXCEPT !.h = "stub"]
                  [] a = "unref" -> [table[main.id] EXCEPT !.ref = "intc"]
<1>1. /\ UNCHANGED <<sys, hw, line, due, drv, frames, want>>
      /\ main' = Done(main) /\ table' = [table EXCEPT ![main.id] = e]
  BY DEF Stores, Advance
<1>2. frames = <<>> /\ main.script # <<>> /\ ~Resetting
  BY NotResetting DEF At
<1>3. sys \in Systems /\ main \in Mains /\ main.id \in Ids
  BY MainType
<1>4. /\ main' \in Mains
      /\ Len(main.script) = 1 => main'.script = <<>>
      /\ Len(main.script) # 1 => main'.script = Tail(main.script) /\ main'.id = main.id
  BY <1>1, <1>2, <1>3, Advances
<1>5. drv.ready /\ OfSource /\ Quiet
  BY SetUpHeads, SwitchHeads
<1>6. e \in [h : {"null", "stub", "own"}, ref : {"none", "intc", "own"}]
      /\ (a = "handler" => e.h = "own")
      /\ (a = "ref" => e.ref = "own" /\ e.h = table[main.id].h)
  BY <1>3 DEF TypeInv
<1> HIDE DEF e
<1>7. TypeInv'
  <2>1. table' \in [Ids -> [h : {"null", "stub", "own"}, ref : {"none", "intc", "own"}]]
    BY <1>1, <1>6 DEF TypeInv
  <2> QED BY <1>1, <1>4, <2>1 DEF TypeInv, Ctrls, Ids, Mains
<1>8. ScriptInv'
  <2> DEFINE kept == /\ main'.id = main.id /\ Quiet' /\ OfSource' /\ (Wanted' <=> Wanted)
                     /\ table'[main.id] = e /\ main'.script = Tail(main.script)
  <2>1. Len(main.script) # 1 => kept
    <3> SUFFICES ASSUME Len(main.script) # 1 PROVE kept
      OBVIOUS
    <3>1. c0' = c0 /\ p0' = p0 /\ main'.id = main.id /\ table'[main.id] = e
      BY <1>1, <1>3, <1>4 DEF c0, p0, Ctrl, Pin, TypeInv
    <3> QED BY <1>1, <1>4, <1>5, <3>1 DEF Quiet, OfSource, Sources, Wanted
  <2> HIDE DEF kept
  <2>2. drv'.ready
    BY <1>1, <1>5
  <2>3. CASE Left(<<a>>)
    <3>1. main'.script = <<>>
      BY <1>4, <2>3, Tails DEF Left
    <3> QED BY <3>1 DEF ScriptInv, Left
  <2>4. CASE Left(<<"handler", "ref">>)
    <3>1. main'.script = <<"ref">> /\ kept
      BY <2>1, <2>4, Tails DEF Left, kept
    <3> QED BY <3>1, <2>2 DEF kept, ScriptInv, ConnectLeft, Left
  <2>5. CASE Left(<<"stub", "unref">>)
    <3>1. main'.script = <<"unref">> /\ kept
      BY <2>1, <2>5, Tails DEF Left, kept
    <3> QED BY <3>1, <2>2 DEF kept, ScriptInv, DisableLeft, Left
  <2>6. ASSUME NEW m \in {"real", "simulation"}, a = "handler", Wanted,
               Left(<<"handler", "ref", m, "read", "on">>)
        PROVE  ScriptInv'
    <3>1. main'.script = <<"ref", m, "read", "on">> /\ kept
      BY <2>1, <2>6, Tails DEF Left, kept
    <3>2. table'[main'.id].h = "own"
      BY <3>1, <1>6, <2>6 DEF kept
    <3>3. SetUp(m)'
      BY <3>1, <3>2, <2>2 DEF kept, SetUp, Left
    <3> QED BY <3>1, <3>3, <2>6 DEF kept, ScriptInv
  <2>7. ASSUME NEW m \in {"real", "simulation"}, a = "ref", Wanted, table[main.id].h = "own",
               Left(<<"ref", m, "read", "on">>)
        PROVE  ScriptInv'
    <3>1. main'.script = <<m, "read", "on">> /\ kept
      BY <2>1, <2>7, Tails DEF Left, kept
    <3>2. table'[main'.id] = Own
      BY <3>1, <1>6, <2>7 DEF kept, Own
    <3>3. Fit'
      BY <3>1, <3>2, <2>7 DEF kept, Fit, Listened, Own
    <3>4. SetUp(m)'
      BY <3>1, <3>3, <2>2 DEF SetUp, Left
    <3> QED BY <3>1, <3>4, <2>7 DEF kept, ScriptInv
  <2>8. CASE a = "handler"
    BY <2>8, <2>4, <2>6, SetUpHeads
  <2>9. CASE a = "ref"
    BY <2>9, <2>3, <2>7, SetUpHeads
  <2>10. CASE a \in {"stub", "unref"}
    BY <2>10, <2>3, <2>5, SwitchHeads
  <2> QED BY <2>8, <2>9, <2>10
<1>9. EnableInv'
  BY <1>1, <1>2, <1>5, EnableTable
<1>10. ModeInv'
  BY <1>1 DEF ModeInv
<1>11. Stack' /\ Levels' /\ DueInv'
  BY <1>1, <1>2, RestKeepsStack, RestDue
<1> QED BY <1>7, <1>8, <1>9, <1>10, <1>11

(* A step that writes one enable or mode register and settles the pins.    *)
LEMMA RegisterStep ==
  ASSUME TypeInv, Stack, Levels, DueInv, main.script # <<>>, frames = <<>>,
         NEW r \in Regs, r.isr = hw[c0].isr, r.ilr = hw[c0].ilr,
         hw' = Settled([hw EXCEPT ![c0] = r], line),
         UNCHANGED <<line, due, drv, table, sys, frames>>, want' \subseteq want,
         NEW m \in Mains, m.script = main.script, main' = Done(m)
  PROVE  /\ TypeInv' /\ Stack' /\ Levels' /\ DueInv'
         /\ \A c \in Ctrls :
              LET x == IF c = c0 THEN r ELSE hw[c]
              IN  /\ hw'[c].ier = x.ier /\ hw'[c].imr = x.imr /\ hw'[c].vec = x.vec
                  /\ hw'[c].me = x.me /\ hw'[c].hie = x.hie /\ hw'[c].ilr = x.ilr
<1> DEFINE h == [hw EXCEPT ![c0] = r]
<1>1. c0 \in Ctrls /\ sys \in Systems /\ 0 \in Ctrls
  BY MainType, SystemFacts
<1>2. /\ h \in [Ctrls -> Regs] /\ h[c0] = r /\ \A c \in Ctrls : c # c0 => h[c] = hw[c]
      /\ \A c \in Ctrls : h[c].isr = hw[c].isr /\ h[c].ilr = hw[c].ilr
  BY <1>1 DEF TypeInv
<1>3. hw' = Settled(h, line)
  OBVIOUS
<1> HIDE DEF h
<1>4. \A id \in sys.level : Pin(id) \in h[Ctrl(id)].isr => id \in due'
  BY <1>1, <1>2, RestDue, IdFacts, SystemFacts
<1>5. line \subseteq due'
  BY DEF TypeInv
<1>6. /\ hw' \in [Ctrls -> Regs]
      /\ \A c \in Ctrls :
           /\ hw'[c].ier = h[c].ier /\ hw'[c].imr = h[c].imr /\ hw'[c].vec = h[c].vec
           /\ hw'[c].me = h[c].me /\ hw'[c].hie = h[c].hie /\ hw'[c].ilr = h[c].ilr
      /\ \A id \in sys.level : Pin(id) \in hw'[Ctrl(id)].isr => id \in due'
  BY <1>2, <1>3, <1>4, <1>5, WriteFacts
<1>7. main' \in Mains
  BY Advances
<1>8. TypeInv'
  BY <1>6, <1>7 DEF TypeInv, Ctrls, Ids, Mains
<1>9. Stack' /\ Levels' /\ DueInv'
  BY <1>1, <1>2, <1>6, RestKeepsStack
<1>10. \A c \in Ctrls :
         LET x == IF c = c0 THEN r ELSE hw[c]
         IN  /\ hw'[c].ier = x.ier /\ hw'[c].imr = x.imr /\ hw'[c].vec = x.vec
             /\ hw'[c].me = x.me /\ hw'[c].hie = x.hie /\ hw'[c].ilr = x.ilr
  <2> TAKE c \in Ctrls
  <2>1. h[c] = IF c = c0 THEN r ELSE hw[c]
    BY <1>2
  <2> QED BY <2>1, <1>6
<1> QED BY <1>8, <1>9, <1>10

(* The enable register of the controller of the script's source gets or    *)
(* loses its pin.                                                          *)
LEMMA SwitchStep ==
  ASSUME IInv, main.script # <<>>, frames = <<>>, ~Resetting, Fresh,
         NEW on \in SUBSET {p0},
         hw' = Settled([hw EXCEPT ![c0].ier = (main.cur \ {p0}) \cup on], line),
         on # {} => Fit \/ ~Quiet, want' = want \/ (on = {} /\ want' = want \ {main.id}),
         UNCHANGED <<line, due, drv, table, sys, frames>>, main' = Done(main)
  PROVE  /\ TypeInv' /\ Stack' /\ Levels' /\ DueInv' /\ EnableInv' /\ ModeInv'
         /\ hw'[c0].ier = (hw[c0].ier \ {p0}) \cup on
         /\ \A c \in Ctrls : hw'[c].imr = hw[c].imr /\ hw'[c].vec = hw[c].vec /\ hw'[c].me = hw[c].me
<1> USE DEF IInv
<1> DEFINE r == [hw[c0] EXCEPT !.ier = (main.cur \ {p0}) \cup on]
<1>1. c0 \in Ctrls /\ p0 \in Pins /\ main \in Mains /\ sys \in Systems /\ main.id \in Ids /\ 0 \in Ctrls
  BY MainType, SystemFacts
<1>2. hw[c0] \in Regs
  BY <1>1 DEF TypeInv
<1>3. (main.cur \ {p0}) \cup on \in SUBSET Pins
  BY <1>1 DEF Mains
<1>4. /\ r \in Regs /\ r.isr = hw[c0].isr /\ r.ilr = hw[c0].ilr
      /\ r.ier = (hw[c0].ier \ {p0}) \cup on
      /\ r.imr = hw[c0].imr /\ r.vec = hw[c0].vec /\ r.me = hw[c0].me
  BY <1>2, <1>3 DEF Regs, Fresh
<1>5. [hw EXCEPT ![c0].ier = (main.cur \ {p0}) \cup on] = [hw EXCEPT ![c0] = r]
  BY <1>1 DEF TypeInv
<1> HIDE DEF r
<1>6. want' \subseteq want
  OBVIOUS
<1>7. /\ TypeInv' /\ Stack' /\ Levels' /\ DueInv'
      /\ \A c \in Ctrls :
           LET x == IF c = c0 THEN r ELSE hw[c]
           IN  /\ hw'[c].ier = x.ier /\ hw'[c].imr = x.imr /\ hw'[c].vec = x.vec
               /\ hw'[c].me = x.me /\ hw'[c].hie = x.hie /\ hw'[c].ilr = x.ilr
  BY <1>1, <1>4, <1>5, <1>6, RegisterStep
<1>8. /\ hw'[c0].ier = (hw[c0].ier \ {p0}) \cup on
      /\ \A c \in Ctrls : /\ hw'[c].imr = hw[c].imr /\ hw'[c].vec = hw[c].vec /\ hw'[c].me = hw[c].me
                          /\ c # c0 => hw'[c].ier = hw[c].ier
  BY <1>1, <1>4, <1>7
<1>9. ModeInv'
  BY <1>1, <1>8 DEF ModeInv
<1>10. \A id \in Ids : Listened(id)' <=> Listened(id)
  BY <1>1, <1>8, ListenedSame
<1>11. EnableInv'
  <2>1. Ids' = Ids
    BY DEF Ids
  <2>2. ASSUME NEW id \in Ids, (Pin(id) \in hw[Ctrl(id)].ier)'
        PROVE  (Chained(Ctrl(id), Pin(id)) \/ (id \in want /\ Listened(id)))'
    <3>1. Ctrl(id) \in Ctrls /\ IdAt(Ctrl(id), Pin(id)) = id /\ IdAt(c0, p0) = main.id
      BY <1>1, IdFacts, MainType
    <3>2. Pin(id) \in hw'[Ctrl(id)].ier
      BY <2>2 DEF Ctrl, Pin
    <3>3. CASE id = main.id
      <4>1. Ctrl(id) = c0 /\ Pin(id) = p0
        BY <3>3 DEF c0, p0
      <4>2. on # {}
        BY <3>2, <4>1, <1>8
      <4>3. Chained(c0, p0) \/ (id \in want /\ Listened(id))
        <5>1. CASE Fit
          BY <5>1, <3>3 DEF Fit, Wanted
        <5>2. CASE ~Quiet
          BY <5>2, <3>3, <1>1 DEF Quiet, EnableInv, c0, p0
        <5> QED BY <4>2, <5>1, <5>2
      <4> QED BY <4>1, <4>2, <4>3, <1>10 DEF Chained, Ctrl, Pin
    <3>4. CASE id # main.id
      <4>1. ~(Ctrl(id) = c0 /\ Pin(id) = p0)
        BY <3>1, <3>4
      <4>2. Pin(id) \in hw[Ctrl(id)].ier
        BY <3>1, <3>2, <4>1, <1>8
      <4>3. Chained(Ctrl(id), Pin(id)) \/ (id \in want /\ Listened(id))
        BY <4>2 DEF EnableInv
      <4> QED BY <4>3, <3>4, <1>10 DEF Chained, Ctrl, Pin
    <3> QED BY <3>3, <3>4
  <2> QED BY <2>1, <2>2 DEF EnableInv
<1> QED BY <1>7, <1>8, <1>9, <1>11

LEMMA EnableKeeps == IInv /\ Enable => IInv'
<1> SUFFICES ASSUME IInv, Enable PROVE IInv'
  OBVIOUS
<1> USE DEF IInv
<1>1. PICK a \in {"on", "onIf"} : At(a) /\ (a = "onIf" => main.was)
  BY DEF Enable
<1>2. Left(<<a>>) /\ Fresh /\ (Fit \/ ~Quiet)
  BY <1>1, SwitchHeads DEF Kept0
<1>3. frames = <<>> /\ main.script # <<>> /\ ~Resetting
  BY <1>1, NotResetting DEF At
<1>4. /\ UNCHANGED <<line, due, drv, table, sys, frames, want>> /\ main' = Done(main)
      /\ hw' = Settled([hw EXCEPT ![c0].ier = main.cur \cup {p0}], line)
  BY DEF Enable, Writes, Advance
<1>5. main.cur \cup {p0} = (main.cur \ {p0}) \cup {p0}
  OBVIOUS
<1>6. TypeInv' /\ Stack' /\ Levels' /\ DueInv' /\ EnableInv' /\ ModeInv'
  <2> DEFINE on == {p0}
  <2>1. on \in SUBSET {p0} /\ hw' = Settled([hw EXCEPT ![c0].ier = (main.cur \ {p0}) \cup on], line)
    BY <1>4, <1>5
  <2> HIDE DEF on
  <2> QED BY <1>2, <1>3, <1>4, <2>1, SwitchStep
<1>7. main'.script = <<>>
  BY <1>2, <1>3, <1>4, MainType, Advances, Tails DEF Left
<1>8. ScriptInv'
  BY <1>7 DEF ScriptInv, Left
<1> QED BY <1>6, <1>8

LEMMA DisableKeeps == IInv /\ Disable => IInv'
<1> SUFFICES ASSUME IInv, Disable PROVE IInv'
  OBVIOUS
<1> USE DEF IInv
<1>1. PICK a \in {"off", "offIf"} : At(a) /\ (a = "offIf" => main.was)
  BY DEF Disable
<1>2. frames = <<>> /\ main.script # <<>> /\ ~Resetting
  BY <1>1, NotResetting DEF At
<1>3. /\ UNCHANGED <<line, due, drv, table, sys, frames>> /\ main' = Done(main)
      /\ want' = IF At("off") THEN want \ {main.id} ELSE want
      /\ hw' = Settled([hw EXCEPT ![c0].ier = main.cur \ {p0}], line)
  BY DEF Disable, Writes
<1>4. drv.ready /\ OfSource /\ Fresh
  BY <1>1, SwitchHeads
<1>5. /\ TypeInv' /\ Stack' /\ Levels' /\ DueInv' /\ EnableInv' /\ ModeInv'
      /\ hw'[c0].ier = hw[c0].ier \ {p0}
      /\ \A c \in Ctrls : hw'[c].imr = hw[c].imr /\ hw'[c].vec = hw[c].vec
  <2> DEFINE on == {}
  <2>1. on \in SUBSET {p0} /\ on = {} /\ main.cur \ {p0} = (main.cur \ {p0}) \cup on
    OBVIOUS
  <2>2. hw' = Settled([hw EXCEPT ![c0].ier = (main.cur \ {p0}) \cup on], line)
    BY <1>3, <2>1
  <2> HIDE DEF on
  <2>3. want' = want \/ (on = {} /\ want' = want \ {main.id})
    BY <1>3, <2>1
  <2> QED BY <1>2, <1>3, <1>4, <2>1, <2>2, <2>3, SwitchStep
<1>6. /\ Len(main.script) = 1 => main'.script = <<>>
      /\ Len(main.script) # 1 => /\ main'.script = Tail(main.script)
                                /\ main'.id = main.id /\ main'.was = main.was
  BY <1>2, <1>3, MainType, Advances
<1>7. Len(main.script) # 1 =>
        /\ main'.id = main.id /\ main'.was = main.was /\ c0' = c0 /\ p0' = p0
        /\ Quiet' /\ OfSource' /\ drv'.ready /\ (a = "offIf" => (Wanted' <=> Wanted))
  <2> SUFFICES ASSUME Len(main.script) # 1
               PROVE  /\ main'.id = main.id /\ main'.was = main.was /\ c0' = c0 /\ p0' = p0
                      /\ Quiet' /\ OfSource' /\ drv'.ready /\ (a = "offIf" => (Wanted' <=> Wanted))
    OBVIOUS
  <2>1. main'.id = main.id /\ main'.was = main.was /\ c0' = c0 /\ p0' = p0
    BY <1>6 DEF c0, p0, Ctrl, Pin
  <2>2. a = "offIf" => want' = want
    BY <1>1, <1>3 DEF At
  <2> QED BY <1>3, <1>4, <1>5, <2>1, <2>2 DEF Quiet, OfSource, Sources, Wanted
<1>8. ScriptInv'
  <2>1. CASE Left(<<"off">>)
    <3>1. main'.script = <<>>
      BY <1>6, <2>1, Tails DEF Left
    <3> QED BY <3>1 DEF ScriptInv, Left
  <2>2. CASE Left(<<"off", "stub", "unref">>)
    <3>1. main'.script = <<"stub", "unref">> /\ Len(main.script) # 1
      BY <1>6, <2>2, Tails DEF Left
    <3> QED BY <3>1, <1>7 DEF ScriptInv, DisableLeft, Left
  <2>3. CASE a = "offIf" /\ FastLeft /\ Left(<<"offIf", "vector", "mode", "read", "onIf">>)
    <3>1. main'.script = <<"vector", "mode", "read", "onIf">> /\ Len(main.script) # 1
      BY <1>6, <2>3, Tails DEF Left
    <3>2. sys.fast /\ c0 = 0 /\ (main.was => Wanted)
      BY <2>3 DEF FastLeft, Left
    <3>3. FastLeft'
      BY <3>1, <3>2, <2>3, <1>3, <1>7 DEF FastLeft, Left
    <3> QED BY <3>1, <3>3, <1>7 DEF ScriptInv
  <2>4. ~(a = "offIf" /\ NormalLeft)
    BY <1>1 DEF NormalLeft
  <2> QED BY <1>1, <2>1, <2>2, <2>3, <2>4, SwitchHeads
<1> QED BY <1>5, <1>8

LEMMA NotEnabledKeeps == IInv /\ NotEnabled => IInv'
<1> SUFFICES ASSUME IInv, NotEnabled PROVE IInv'
  OBVIOUS
<1> USE DEF IInv
<1>1. PICK a \in {"onIf", "offIf"} : At(a) /\ ~main.was
  BY DEF NotEnabled
<1>2. frames = <<>> /\ main.script # <<>> /\ ~Resetting
  BY <1>1, NotResetting DEF At
<1>3. UNCHANGED <<hw, line, due, drv, table, sys, frames, want>> /\ main' = Done(main)
  BY DEF NotEnabled, Advance
<1>4. /\ main' \in Mains
      /\ Len(main.script) = 1 => main'.script = <<>>
      /\ Len(main.script) # 1 => /\ main'.script = Tail(main.script)
                                /\ main'.id = main.id /\ main'.was = main.was
  BY <1>2, <1>3, MainType, Advances
<1>5. SetupSame
  BY <1>3 DEF SetupSame
<1>6. TypeInv'
  BY <1>3, <1>4 DEF TypeInv, Ctrls, Ids, Mains
<1>7. EnableInv' /\ ModeInv'
  BY <1>2, <1>3, <1>5, EnableSame, ModeSame
<1>8. Stack' /\ Levels' /\ DueInv'
  BY <1>2, <1>3, RestKeepsStack, RestDue
<1>9. ScriptInv'
  <2>1. Len(main.script) # 1 =>
          /\ main'.id = main.id /\ main'.was = main.was /\ (Quiet' <=> Quiet)
          /\ (OfSource' <=> OfSource) /\ c0' = c0 /\ p0' = p0
    BY <1>4, <1>5, GoesOn
  <2>2. CASE Left(<<"onIf">>)
    <3>1. main'.script = <<>>
      BY <1>4, <2>2, Tails DEF Left
    <3> QED BY <3>1 DEF ScriptInv, Left
  <2>3. CASE /\ drv.ready /\ OfSource /\ FastLeft
             /\ Left(<<"offIf", "vector", "mode", "read", "onIf">>)
    <3>1. main'.script = <<"vector", "mode", "read", "onIf">> /\ Len(main.script) # 1
      BY <1>4, <2>3, Tails DEF Left
    <3>2. sys.fast /\ c0 = 0
      BY <2>3 DEF FastLeft
    <3>3. FastLeft'
      BY <3>1, <3>2, <1>1, <1>3, <2>1 DEF FastLeft, Left
    <3> QED BY <3>1, <3>3, <2>1, <2>3, <1>3 DEF ScriptInv
  <2>4. CASE /\ drv.ready /\ OfSource /\ NormalLeft
             /\ Left(<<"offIf", "modeOff", "vectors", "read", "onIf">>)
    <3>1. main'.script = <<"modeOff", "vectors", "read", "onIf">> /\ Len(main.script) # 1
      BY <1>4, <2>4, Tails DEF Left
    <3>2. sys.fast /\ c0 = 0 /\ Quiet /\ hw[0].imr \subseteq {p0}
      BY <2>4 DEF NormalLeft, Left
    <3>3. NormalLeft'
      BY <3>1, <3>2, <1>1, <1>3, <2>1 DEF NormalLeft, Left
    <3> QED BY <3>1, <3>3, <2>1, <2>4, <1>3 DEF ScriptInv
  <2> QED BY <1>1, <2>2, <2>3, <2>4, SwitchHeads
<1> QED BY <1>6, <1>7, <1>8, <1>9

(* A step of the fast or normal mode of a source of the first controller.  *)
LEMMA ModeStep ==
  ASSUME IInv, main.script # <<>>, frames = <<>>, ~Resetting, c0 = 0, drv.ready, sys.fast,
         NEW imr \in SUBSET Pins, NEW vec \in SUBSET Pins, imr \subseteq vec,
         \A p \in hw[0].imr \ imr : p = p0 /\ Quiet,
         hw' = Settled([hw EXCEPT ![0].imr = imr, ![0].vec = vec], line),
         NEW m \in Mains, m.script = main.script, main' = Done(m),
         UNCHANGED <<line, due, drv, table, sys, frames, want>>
  PROVE  /\ TypeInv' /\ Stack' /\ Levels' /\ DueInv' /\ EnableInv' /\ ModeInv'
         /\ hw'[0].imr = imr /\ hw'[0].vec = vec /\ hw'[0].ier = hw[0].ier
         /\ \A c \in Ctrls : hw'[c].ier = hw[c].ier
<1> USE DEF IInv
<1> DEFINE r == [hw[0] EXCEPT !.imr = imr, !.vec = vec]
<1>1. 0 \in Ctrls /\ p0 \in Pins /\ sys \in Systems /\ main.id \in Ids
  BY MainType, SystemFacts
<1>2. hw[0] \in Regs
  BY <1>1 DEF TypeInv
<1>3. /\ r \in Regs /\ r.isr = hw[0].isr /\ r.ilr = hw[0].ilr /\ r.ier = hw[0].ier
      /\ r.imr = imr /\ r.vec = vec /\ r.me = hw[0].me
  BY <1>2 DEF Regs
<1>4. [hw EXCEPT ![0].imr = imr, ![0].vec = vec] = [hw EXCEPT ![c0] = r]
  BY <1>1 DEF TypeInv
<1> HIDE DEF r
<1>5. /\ TypeInv' /\ Stack' /\ Levels' /\ DueInv'
      /\ \A c \in Ctrls :
           LET x == IF c = c0 THEN r ELSE hw[c]
           IN  /\ hw'[c].ier = x.ier /\ hw'[c].imr = x.imr /\ hw'[c].vec = x.vec
               /\ hw'[c].me = x.me /\ hw'[c].hie = x.hie /\ hw'[c].ilr = x.ilr
  BY <1>1, <1>3, <1>4, RegisterStep
<1>6. /\ hw'[0].imr = imr /\ hw'[0].vec = vec /\ hw'[0].me = hw[0].me
      /\ hw'[0].ier = hw[0].ier
      /\ \A c \in Ctrls : hw'[c].ier = hw[c].ier
  <2>1. /\ hw'[0].imr = r.imr /\ hw'[0].vec = r.vec /\ hw'[0].me = r.me /\ hw'[0].ier = r.ier
    BY <1>1, <1>5
  <2>2. \A c \in Ctrls : c # 0 => hw'[c].ier = hw[c].ier
    BY <1>5
  <2> QED BY <1>3, <2>1, <2>2
<1>7. ModeInv'
  BY <1>6 DEF ModeInv
<1>8. EnableInv'
  <2>1. Ids' = Ids
    BY DEF Ids
  <2>2. ASSUME NEW id \in Ids, (Pin(id) \in hw[Ctrl(id)].ier)'
        PROVE  (Chained(Ctrl(id), Pin(id)) \/ (id \in want /\ Listened(id)))'
    <3>1. Ctrl(id) \in Ctrls
      BY <1>1, IdFacts
    <3>2. Pin(id) \in hw[Ctrl(id)].ier
      BY <2>2, <3>1, <1>6 DEF Ctrl, Pin
    <3>3. Chained(Ctrl(id), Pin(id)) \/ (id \in want /\ Listened(id))
      BY <3>2 DEF EnableInv
    <3>4. CASE Ctrl(id) = 0 /\ Pin(id) \in hw[0].imr
      <4>1. ~(Pin(id) = p0 /\ Quiet)
        BY <3>2, <3>4 DEF Quiet
      <4>2. Pin(id) \in imr
        BY <3>4, <4>1
      <4> QED BY <3>3, <3>4, <4>2, <1>6 DEF Chained, Ctrl, Pin, Listened
    <3>5. CASE ~(Ctrl(id) = 0 /\ Pin(id) \in hw[0].imr)
      BY <3>3, <3>5 DEF Chained, Ctrl, Pin, Listened, Own
    <3> QED BY <3>4, <3>5
  <2> QED BY <2>1, <2>2 DEF EnableInv
<1> QED BY <1>5, <1>6, <1>7, <1>8

LEMMA FastKeeps == IInv /\ Fast => IInv'
<1> SUFFICES ASSUME IInv, Fast PROVE IInv'
  OBVIOUS
<1> USE DEF IInv
<1>1. /\ UNCHANGED <<line, due, drv, table, sys, frames, want>> /\ main' = Done(main)
      /\ \/ At("vector") /\ hw' = Settled([hw EXCEPT ![c0].vec = @ \cup {p0}], line)
         \/ At("mode") /\ hw' = Settled([hw EXCEPT ![c0].imr = @ \cup {p0}], line)
  BY DEF Fast, Writes, Advance
<1>2. frames = <<>> /\ main.script # <<>> /\ ~Resetting
  BY <1>1, NotResetting DEF At
<1>3. drv.ready /\ OfSource /\ FastLeft
  BY <1>1, ModeHeads
<1>4. sys.fast /\ c0 = 0 /\ main.was \in BOOLEAN
  BY <1>3 DEF FastLeft, TypeInv
<1>5. /\ 0 \in Ctrls /\ p0 \in Pins /\ hw[0].imr \in SUBSET Pins /\ hw[0].vec \in SUBSET Pins
      /\ main \in Mains /\ main.id \in Ids
  BY MainType, SystemFacts DEF TypeInv, Regs
<1>6. /\ Len(main.script) = 1 => main'.script = <<>>
      /\ Len(main.script) # 1 => /\ main'.script = Tail(main.script)
                                /\ main'.id = main.id /\ main'.was = main.was
  BY <1>1, <1>2, <1>5, Advances
<1>7. CASE At("vector")
  <2> DEFINE imr == hw[0].imr
             vec == hw[0].vec \cup {p0}
  <2>1. Left(<<"vector", "mode", "read", "onIf">>)
    BY <1>7, ModeHeads
  <2>2. ~At("mode")
    BY <1>7 DEF At
  <2>3. hw' = Settled([hw EXCEPT ![0].imr = imr, ![0].vec = vec], line)
    <3>1. [hw EXCEPT ![0].imr = imr, ![0].vec = vec] = [hw EXCEPT ![0].vec = @ \cup {p0}]
      BY <1>5 DEF TypeInv, Regs
    <3> QED BY <1>1, <1>4, <2>2, <3>1
  <2>4. imr \in SUBSET Pins /\ vec \in SUBSET Pins /\ imr \subseteq vec /\ hw[0].imr \ imr = {}
    BY <1>5 DEF ModeInv
  <2>5. p0 \in vec
    OBVIOUS
  <2> HIDE DEF imr, vec
  <2>6. /\ TypeInv' /\ Stack' /\ Levels' /\ DueInv' /\ EnableInv' /\ ModeInv'
        /\ hw'[0].vec = vec
    BY <1>1, <1>2, <1>3, <1>4, <1>5, <2>3, <2>4, ModeStep
  <2>7. main'.script = <<"mode", "read", "onIf">> /\ Len(main.script) # 1
    BY <1>6, <2>1, Tails DEF Left
  <2>8. /\ main'.was = main.was /\ c0' = 0 /\ p0' = p0 /\ OfSource' /\ drv'.ready
        /\ (Wanted' <=> Wanted)
    BY <1>1, <1>3, <1>4, <1>6, <2>7 DEF c0, p0, Ctrl, Pin, OfSource, Sources, Wanted
  <2>9. main.was => Wanted
    BY <1>3, <2>1 DEF FastLeft, Left
  <2>10. FastLeft'
    BY <1>1, <1>4, <2>5, <2>6, <2>7, <2>8, <2>9 DEF FastLeft, Left
  <2> QED BY <2>6, <2>8, <2>10 DEF ScriptInv
<1>8. CASE At("mode")
  <2> DEFINE imr == hw[0].imr \cup {p0}
             vec == hw[0].vec
  <2>1. Left(<<"mode", "read", "onIf">>) /\ p0 \in hw[0].vec
    BY <1>8, ModeHeads
  <2>2. ~At("vector")
    BY <1>8 DEF At
  <2>3. hw' = Settled([hw EXCEPT ![0].imr = imr, ![0].vec = vec], line)
    <3>1. [hw EXCEPT ![0].imr = imr, ![0].vec = vec] = [hw EXCEPT ![0].imr = @ \cup {p0}]
      BY <1>5 DEF TypeInv, Regs
    <3> QED BY <1>1, <1>4, <2>2, <3>1
  <2>4. imr \in SUBSET Pins /\ vec \in SUBSET Pins /\ imr \subseteq vec /\ hw[0].imr \ imr = {}
    BY <1>5, <2>1 DEF ModeInv
  <2>5. p0 \in imr
    OBVIOUS
  <2> HIDE DEF imr, vec
  <2>6. /\ TypeInv' /\ Stack' /\ Levels' /\ DueInv' /\ EnableInv' /\ ModeInv'
        /\ hw'[0].imr = imr
    BY <1>1, <1>2, <1>3, <1>4, <1>5, <2>3, <2>4, ModeStep
  <2>7. main'.script = <<"read", "onIf">> /\ Len(main.script) # 1
    BY <1>6, <2>1, Tails DEF Left
  <2>8. /\ main'.was = main.was /\ c0' = 0 /\ p0' = p0 /\ drv'.ready /\ main'.id = main.id
        /\ (Wanted' <=> Wanted)
    BY <1>1, <1>3, <1>4, <1>6, <2>7 DEF c0, p0, Ctrl, Pin, Wanted
  <2>9. main.was => Wanted
    BY <1>3, <2>1 DEF FastLeft, Left
  <2>10. Listened(main.id)'
    BY <2>5, <2>6, <2>8, <1>4 DEF Listened, c0, p0
  <2>11. Kept0'
    BY <2>8, <2>9, <2>10 DEF Kept0, Fit
  <2> QED BY <2>6, <2>7, <2>8, <2>11 DEF ScriptInv, OnAgain, Left
<1> QED BY <1>1, <1>7, <1>8

LEMMA NormalKeeps == IInv /\ Normal => IInv'
<1> SUFFICES ASSUME IInv, Normal PROVE IInv'
  OBVIOUS
<1> USE DEF IInv
<1> DEFINE m == [main EXCEPT !.was = @ /\ W \in Ids, !.id = IF W \in Ids THEN W ELSE @]
<1>1. /\ UNCHANGED <<line, due, drv, table, sys, frames, want>>
      /\ \/ /\ At("modeOff") /\ hw' = Settled([hw EXCEPT ![c0].imr = @ \ {p0}], line)
            /\ main' = Done(main)
         \/ /\ At("vectors") /\ hw' = Settled([hw EXCEPT ![c0].vec = {}], line)
            /\ main' = Done(m)
  BY DEF Normal, Writes, Advance
<1>2. frames = <<>> /\ main.script # <<>> /\ ~Resetting
  BY <1>1, NotResetting DEF At
<1>3. drv.ready /\ OfSource /\ NormalLeft
  BY <1>1, ModeHeads
<1>4. sys.fast /\ c0 = 0 /\ ~main.was /\ Quiet
  BY <1>3 DEF NormalLeft
<1>5. /\ 0 \in Ctrls /\ p0 \in Pins /\ hw[0].imr \in SUBSET Pins /\ hw[0].vec \in SUBSET Pins
      /\ main \in Mains /\ main.id \in Ids
  BY MainType, SystemFacts DEF TypeInv, Regs
<1>6. CASE At("modeOff")
  <2> DEFINE imr == hw[0].imr \ {p0}
             vec == hw[0].vec
  <2>1. Left(<<"modeOff", "vectors", "read", "onIf">>)
    BY <1>6, ModeHeads
  <2>2. main' = Done(main) /\ hw[0].imr \subseteq {p0}
    BY <1>1, <1>3, <1>6, <2>1 DEF At, NormalLeft, Left
  <2>3. hw' = Settled([hw EXCEPT ![0].imr = imr, ![0].vec = vec], line)
    <3>1. [hw EXCEPT ![0].imr = imr, ![0].vec = vec] = [hw EXCEPT ![0].imr = @ \ {p0}]
      BY <1>5 DEF TypeInv, Regs
    <3> QED BY <1>1, <1>4, <1>6, <3>1 DEF At
  <2>4. /\ imr \in SUBSET Pins /\ vec \in SUBSET Pins /\ imr \subseteq vec /\ imr = {}
        /\ \A p \in hw[0].imr \ imr : p = p0 /\ Quiet
    BY <1>4, <1>5, <2>2 DEF ModeInv
  <2> HIDE DEF imr, vec
  <2>6. /\ TypeInv' /\ Stack' /\ Levels' /\ DueInv' /\ EnableInv' /\ ModeInv'
        /\ hw'[0].imr = {} /\ hw'[0].ier = hw[0].ier
    BY <1>1, <1>2, <1>3, <1>4, <1>5, <2>2, <2>3, <2>4, ModeStep
  <2>7. /\ main'.script = <<"vectors", "read", "onIf">>
        /\ main'.id = main.id /\ main'.was = main.was
    BY <1>2, <1>5, <1>1, <2>1, <2>2, Advances, Tails DEF Left
  <2>8. /\ ~main'.was /\ c0' = 0 /\ p0' = p0 /\ OfSource' /\ drv'.ready /\ Quiet' /\ sys'.fast
    BY <1>1, <1>3, <1>4, <2>6, <2>7 DEF c0, p0, Ctrl, Pin, OfSource, Sources, Quiet
  <2>9. NormalLeft'
    BY <2>6, <2>7, <2>8 DEF NormalLeft, Left
  <2> QED BY <2>6, <2>8, <2>9 DEF ScriptInv
<1>7. CASE At("vectors")
  <2> DEFINE imr == hw[0].imr
             vec == {}
  <2>1. Left(<<"vectors", "read", "onIf">>) /\ hw[0].imr = {}
    BY <1>7, ModeHeads
  <2>2. main' = Done(m)
    BY <1>1, <1>7 DEF At
  <2>3. hw' = Settled([hw EXCEPT ![0].imr = imr, ![0].vec = vec], line)
    <3>1. [hw EXCEPT ![0].imr = imr, ![0].vec = vec] = [hw EXCEPT ![0].vec = {}]
      BY <1>5 DEF TypeInv, Regs
    <3> QED BY <1>1, <1>4, <1>7, <3>1 DEF At
  <2>4. imr \in SUBSET Pins /\ vec \in SUBSET Pins /\ imr \subseteq vec /\ hw[0].imr \ imr = {}
    BY <1>5, <2>1
  <2> HIDE DEF imr, vec
  <2>5. m \in Mains /\ m.script = main.script /\ m.was = FALSE
    BY <1>4, <1>5 DEF Mains
  <2> HIDE DEF m
  <2>6. TypeInv' /\ Stack' /\ Levels' /\ DueInv' /\ EnableInv' /\ ModeInv'
    BY <1>1, <1>2, <1>3, <1>4, <1>5, <2>2, <2>3, <2>4, <2>5, ModeStep
  <2>7. main'.script = <<"read", "onIf">> /\ ~main'.was
    BY <1>1, <1>2, <2>1, <2>2, <2>5, Advances, Tails DEF Left
  <2> QED BY <1>1, <1>3, <2>6, <2>7 DEF ScriptInv, OnAgain, Kept0, Left
<1> QED BY <1>1, <1>6, <1>7

(* A step that touches neither an enable nor a mode register.              *)
LEMMA PlainStep ==
  ASSUME IInv, main.script # <<>>, frames = <<>>, ~Resetting,
         hw' \in [Ctrls -> Regs],
         \A c \in Ctrls : /\ hw'[c].ier = hw[c].ier /\ hw'[c].imr = hw[c].imr
                          /\ hw'[c].vec = hw[c].vec /\ hw'[c].ilr = hw[c].ilr,
         line \subseteq due', \A id \in sys.level : Pin(id) \in hw'[Ctrl(id)].isr => id \in due',
         UNCHANGED <<line, table, sys, frames, want>>,
         drv' \in [ready : BOOLEAN, started : BOOLEAN, static : Nat,
                   opt : [Ctrls -> {"none", "single", "all"}]],
         drv'.static = drv.static, main' = Done(main)
  PROVE  /\ TypeInv' /\ EnableInv' /\ Stack' /\ Levels' /\ DueInv'
         /\ Len(main.script) = 1 => ScriptInv'
<1> USE DEF IInv
<1>1. 0 \in Ctrls /\ sys \in Systems
  BY MainType, SystemFacts
<1>2. main' \in Mains /\ (Len(main.script) = 1 => main'.script = <<>>)
  BY MainType, Advances
<1>3. TypeInv'
  BY <1>2 DEF TypeInv, Ctrls, Ids, Mains
<1>4. EnableInv'
  BY <1>1, EnableSame
<1>5. Stack' /\ Levels' /\ DueInv'
  BY <1>1, RestKeepsStack
<1> QED BY <1>2, <1>3, <1>4, <1>5 DEF ScriptInv, Left

(* The same, when the pins settle after it.                                *)
LEMMA PlainWrite ==
  ASSUME IInv, main.script # <<>>, frames = <<>>, ~Resetting,
         NEW h \in [Ctrls -> Regs], hw' = Settled(h, line),
         \A c \in Ctrls : /\ h[c].ier = hw[c].ier /\ h[c].imr = hw[c].imr
                          /\ h[c].vec = hw[c].vec /\ h[c].ilr = hw[c].ilr,
         line \subseteq due', \A id \in sys.level : Pin(id) \in h[Ctrl(id)].isr => id \in due',
         UNCHANGED <<line, table, sys, frames, want>>,
         drv' \in [ready : BOOLEAN, started : BOOLEAN, static : Nat,
                   opt : [Ctrls -> {"none", "single", "all"}]],
         drv'.static = drv.static, main' = Done(main)
  PROVE  /\ TypeInv' /\ EnableInv' /\ Stack' /\ Levels' /\ DueInv'
         /\ Len(main.script) = 1 => ScriptInv'
         /\ \A c \in Ctrls : /\ hw'[c].ier = h[c].ier /\ hw'[c].imr = h[c].imr
                             /\ hw'[c].vec = h[c].vec /\ hw'[c].me = h[c].me
<1>1. TypeInv
  BY DEF IInv
<1>2. /\ hw' \in [Ctrls -> Regs]
      /\ \A c \in Ctrls : /\ hw'[c].ier = h[c].ier /\ hw'[c].imr = h[c].imr
                          /\ hw'[c].vec = h[c].vec /\ hw'[c].me = h[c].me
                          /\ hw'[c].hie = h[c].hie /\ hw'[c].ilr = h[c].ilr
      /\ \A id \in sys.level : Pin(id) \in hw'[Ctrl(id)].isr => id \in due'
  BY <1>1, WriteFacts
<1>3. \A c \in Ctrls : /\ hw'[c].ier = hw[c].ier /\ hw'[c].imr = hw[c].imr
                       /\ hw'[c].vec = hw[c].vec /\ hw'[c].ilr = hw[c].ilr
  BY <1>2
<1> QED BY <1>2, <1>3, PlainStep

(* Steps that latch or clear bits of the status registers.                 *)
Latches == Acknowledge \/ Trigger \/ SelfTest \/ Simulate

LEMMA LatchesKeep == IInv /\ Latches => IInv'
<1> SUFFICES ASSUME IInv, Latches PROVE IInv'
  OBVIOUS
<1> USE DEF IInv
<1>1. PICK a \in {"ack", "simulate", "trigger", "selfTest"} : At(a)
  BY DEF Latches, Acknowledge, Trigger, SelfTest, Simulate
<1>2. /\ UNCHANGED <<line, drv, table, sys, frames, want>> /\ main' = Done(main)
      /\ frames = <<>> /\ main.script # <<>> /\ ~Resetting
  <2>1. UNCHANGED <<line, drv, table>> /\ Advance(main)
    BY DEF Latches, Acknowledge, Trigger, SelfTest, Simulate, Writes
  <2> QED BY <1>1, <2>1, NotResetting DEF Advance, At
<1>3. Left(<<a>>)
  BY <1>1, OneStepHeads
<1>4. Len(main.script) = 1
  BY <1>3, Tails DEF Left
<1>5. /\ sys \in Systems /\ 0 \in Ctrls /\ c0 \in Ctrls /\ p0 \in Pins
      /\ IdAt(c0, p0) = main.id /\ hw \in [Ctrls -> Regs] /\ line \subseteq due
      /\ drv' \in [ready : BOOLEAN, started : BOOLEAN, static : Nat,
                   opt : [Ctrls -> {"none", "single", "all"}]]
  BY <1>2, MainType, SystemFacts DEF TypeInv
<1>6. ASSUME NEW id \in sys.level
      PROVE  /\ Ctrl(id) \in Ctrls /\ Pin(id) \in Pins /\ ~Chained(Ctrl(id), Pin(id))
             /\ Pin(id) \in hw[Ctrl(id)].isr => id \in due
             /\ Ctrl(id) = c0 /\ Pin(id) = p0 => id = main.id
  <2>1. id \in Ids /\ id \in Sources
    BY <1>5, SystemFacts DEF Sources
  <2>2. Ctrl(id) \in Ctrls /\ Pin(id) \in Pins /\ IdAt(Ctrl(id), Pin(id)) = id
    BY <1>5, <2>1, IdFacts
  <2>3. ~Chained(Ctrl(id), Pin(id))
    BY <1>5, <2>1, SourcesAreNotChained
  <2>4. Pin(id) \in hw[Ctrl(id)].isr => id \in due
    BY <1>2, RestDue
  <2>5. ASSUME Ctrl(id) = c0, Pin(id) = p0 PROVE id = main.id
    BY ONLY <2>2, <2>5, <1>5
  <2> QED BY <2>2, <2>3, <2>4, <2>5
<1>8. /\ TypeInv' /\ EnableInv' /\ Stack' /\ Levels' /\ DueInv' /\ ScriptInv'
      /\ \A c \in Ctrls : hw'[c].imr = hw[c].imr /\ hw'[c].vec = hw[c].vec /\ hw'[c].me = hw[c].me
  <2>1. CASE Acknowledge
    <3> DEFINE h == Acked(hw, c0, {p0})
    <3>1. /\ h \in [Ctrls -> Regs]
          /\ \A c \in Ctrls : /\ h[c].ier = hw[c].ier /\ h[c].imr = hw[c].imr
                              /\ h[c].vec = hw[c].vec /\ h[c].ilr = hw[c].ilr
                              /\ h[c].me = hw[c].me /\ h[c].isr \subseteq hw[c].isr
          /\ p0 \notin h[c0].isr
      BY <1>5 DEF Acked, Regs
    <3>2. hw' = Settled(h, line) /\ due' = due \ ({main.id} \ line)
      BY <2>1 DEF Acknowledge, Writes
    <3> HIDE DEF h
    <3>3. line \subseteq due'
      BY <1>5, <3>2
    <3>4. ASSUME NEW id \in sys.level, Pin(id) \in h[Ctrl(id)].isr PROVE id \in due'
      <4>1. id \in due
        BY <1>6, <3>1, <3>4
      <4>2. id # main.id
        BY <3>1, <3>4 DEF c0, p0
      <4> QED BY <3>2, <4>1, <4>2
    <3>5. drv'.static = drv.static
      BY <1>2
    <3> QED BY <1>2, <1>4, <1>5, <3>1, <3>2, <3>3, <3>4, <3>5, PlainWrite
  <2>2. CASE Trigger
    <3> DEFINE h == [hw EXCEPT ![c0].isr = @ \cup {p0}]
    <3>1. /\ h \in [Ctrls -> Regs]
          /\ \A c \in Ctrls : /\ h[c].ier = hw[c].ier /\ h[c].imr = hw[c].imr
                              /\ h[c].vec = hw[c].vec /\ h[c].ilr = hw[c].ilr
                              /\ h[c].me = hw[c].me
                              /\ \A p \in h[c].isr : p \in hw[c].isr \/ (c = c0 /\ p = p0)
      BY <1>5 DEF Regs
    <3>2. hw' = Settled(h, line) /\ due' = due \cup {main.id}
      BY <2>2 DEF Trigger, Writes
    <3> HIDE DEF h
    <3>3. line \subseteq due'
      BY <1>5, <3>2
    <3>4. ASSUME NEW id \in sys.level, Pin(id) \in h[Ctrl(id)].isr PROVE id \in due'
      BY <1>6, <3>1, <3>2, <3>4
    <3>5. drv'.static = drv.static
      BY <1>2
    <3> QED BY <1>2, <1>4, <1>5, <3>1, <3>2, <3>3, <3>4, <3>5, PlainWrite
  <2>3. CASE SelfTest
    <3> DEFINE h == Acked(hw, 0, 0 .. W - 1)
    <3>1. /\ h \in [Ctrls -> Regs]
          /\ \A c \in Ctrls : /\ h[c].ier = hw[c].ier /\ h[c].imr = hw[c].imr
                              /\ h[c].vec = hw[c].vec /\ h[c].ilr = hw[c].ilr
                              /\ h[c].me = hw[c].me /\ h[c].isr \subseteq hw[c].isr
          /\ h[0].isr = {}
      BY <1>5 DEF Acked, Regs, Pins
    <3>2. hw' = Settled(h, line) /\ due' = {id \in due : Ctrl(id) # 0 \/ id \in line}
      BY <2>3 DEF SelfTest, Writes
    <3> HIDE DEF h
    <3>3. line \subseteq due'
      BY <1>5, <3>2
    <3>4. ASSUME NEW id \in sys.level, Pin(id) \in h[Ctrl(id)].isr PROVE id \in due'
      BY <1>6, <3>1, <3>2, <3>4
    <3>5. drv'.static = drv.static
      BY <1>2
    <3> QED BY <1>2, <1>4, <1>5, <3>1, <3>2, <3>3, <3>4, <3>5, PlainWrite
  <2>4. CASE Simulate
    <3> DEFINE pins(c) == IF c = c0 THEN {p0} ELSE IF c < c0 THEN {W - 1} ELSE {}
    <3>1. \/ hw' = hw /\ due' = due
          \/ /\ hw' = [c \in Ctrls |-> [hw[c] EXCEPT !.isr = @ \cup pins(c)]]
             /\ due' = due \cup {main.id}
      BY <2>4 DEF Simulate
    <3>2. \A c \in Ctrls : pins(c) \in SUBSET Pins
      BY <1>5, SystemFacts DEF Pins
    <3>3. \A c \in Ctrls : \A p \in pins(c) : (c = c0 /\ p = p0) \/ Chained(c, p)
      BY <1>5, SystemFacts DEF Ctrls, Chained
    <3> HIDE DEF pins
    <3>4. /\ hw' \in [Ctrls -> Regs]
          /\ \A c \in Ctrls : /\ hw'[c].ier = hw[c].ier /\ hw'[c].imr = hw[c].imr
                              /\ hw'[c].vec = hw[c].vec /\ hw'[c].ilr = hw[c].ilr
                              /\ hw'[c].me = hw[c].me
      <4>1. CASE hw' = hw
        BY <1>5, <4>1
      <4>2. CASE hw' = [c \in Ctrls |-> [hw[c] EXCEPT !.isr = @ \cup pins(c)]]
        <5>1. ASSUME NEW c \in Ctrls
              PROVE  LET r == [hw[c] EXCEPT !.isr = @ \cup pins(c)]
                     IN  /\ r \in Regs /\ r.ier = hw[c].ier /\ r.imr = hw[c].imr
                         /\ r.vec = hw[c].vec /\ r.ilr = hw[c].ilr /\ r.me = hw[c].me
          <6>1. hw[c] \in Regs /\ pins(c) \in SUBSET Pins
            BY <1>5, <3>2
          <6> QED BY <6>1 DEF Regs
        <5> QED BY <4>2, <5>1
      <4> QED BY <3>1, <4>1, <4>2
    <3>5. line \subseteq due'
      BY <1>5, <3>1
    <3>6. ASSUME NEW id \in sys.level, Pin(id) \in hw'[Ctrl(id)].isr PROVE id \in due'
      <4>1. CASE hw' = hw /\ due' = due
        BY <4>1, <3>6, <1>6
      <4>2. CASE /\ hw' = [c \in Ctrls |-> [hw[c] EXCEPT !.isr = @ \cup pins(c)]]
                 /\ due' = due \cup {main.id}
        <5>1. Pin(id) \in hw[Ctrl(id)].isr \/ Pin(id) \in pins(Ctrl(id))
          <6>1. hw[Ctrl(id)] \in Regs /\ Ctrl(id) \in Ctrls
            BY <1>5, <1>6
          <6> QED BY <4>2, <3>6, <6>1 DEF Regs
        <5> QED BY <5>1, <4>2, <3>3, <1>6
      <4> QED BY <3>1, <4>1, <4>2
    <3>7. drv'.static = drv.static
      BY <1>2
    <3> QED BY <1>2, <1>4, <1>5, <3>4, <3>5, <3>6, <3>7, PlainStep
  <2> QED BY <2>1, <2>2, <2>3, <2>4 DEF Latches
<1>9. ModeInv'
  BY <1>2, <1>5, <1>8 DEF ModeInv
<1> QED BY <1>8, <1>9

LEMMA OptionsKeep == IInv /\ Options => IInv'
<1> SUFFICES ASSUME IInv, Options PROVE IInv'
  OBVIOUS
<1> USE DEF IInv
<1>1. PICK a \in {"single", "all"} : At(a) /\ drv' = [drv EXCEPT !.opt = [c \in Ctrls |-> a]]
  BY DEF Options, At
<1>2. /\ UNCHANGED <<hw, line, due, table, sys, frames, want>> /\ main' = Done(main)
      /\ frames = <<>> /\ main.script # <<>> /\ ~Resetting
  BY <1>1, NotResetting DEF Options, Advance, At
<1>3. drv.ready /\ Left(<<a>>) /\ (a = "all" => ~sys.ilr)
  BY <1>1, OneStepHeads
<1>4. Len(main.script) = 1 /\ 0 \in Ctrls
  BY <1>3, Tails, MainType, SystemFacts DEF Left
<1>5. /\ drv' \in [ready : BOOLEAN, started : BOOLEAN, static : Nat,
                   opt : [Ctrls -> {"none", "single", "all"}]]
      /\ drv'.static = drv.static /\ drv'.opt[0] = a
      /\ drv'.ready = drv.ready /\ drv'.started = drv.started
  BY <1>1, <1>4 DEF TypeInv
<1>6. TypeInv' /\ EnableInv' /\ Stack' /\ Levels' /\ DueInv' /\ ScriptInv'
  <2>1. hw' \in [Ctrls -> Regs] /\ line \subseteq due'
    BY <1>2 DEF TypeInv
  <2>2. \A c \in Ctrls : /\ hw'[c].ier = hw[c].ier /\ hw'[c].imr = hw[c].imr
                         /\ hw'[c].vec = hw[c].vec /\ hw'[c].ilr = hw[c].ilr
    BY <1>2
  <2>3. \A id \in sys.level : Pin(id) \in hw'[Ctrl(id)].isr => id \in due'
    BY <1>2, RestDue
  <2> QED BY <1>2, <1>4, <1>5, <2>1, <2>2, <2>3, PlainStep
<1>7. ModeInv'
  BY <1>1, <1>2, <1>3, <1>5 DEF ModeInv
<1> QED BY <1>6, <1>7

LEMMA StopKeeps == IInv /\ Stop => IInv'
<1> SUFFICES ASSUME IInv, Stop PROVE IInv'
  OBVIOUS
<1> USE DEF IInv
<1> DEFINE h == [hw EXCEPT ![0].me = FALSE]
<1>1. /\ UNCHANGED <<line, due, table, sys, frames, want>> /\ main' = Done(main)
      /\ frames = <<>> /\ main.script # <<>> /\ ~Resetting
      /\ drv' = [drv EXCEPT !.started = FALSE] /\ hw' = Settled(h, line)
  BY NotResetting DEF Stop, Advance, At
<1>2. Left(<<"stop">>) /\ Len(main.script) = 1 /\ 0 \in Ctrls
  <2>1. Left(<<"stop">>)
    BY OneStepHeads DEF Stop
  <2> QED BY <2>1, Tails, MainType, SystemFacts DEF Left
<1>3. /\ drv' \in [ready : BOOLEAN, started : BOOLEAN, static : Nat,
                   opt : [Ctrls -> {"none", "single", "all"}]]
      /\ drv'.static = drv.static /\ ~drv'.started /\ drv'.ready = drv.ready /\ drv'.opt = drv.opt
  BY <1>1 DEF TypeInv
<1>4. /\ h \in [Ctrls -> Regs] /\ h[0].me = FALSE
      /\ \A c \in Ctrls : /\ h[c].ier = hw[c].ier /\ h[c].imr = hw[c].imr
                          /\ h[c].vec = hw[c].vec /\ h[c].ilr = hw[c].ilr
                          /\ h[c].isr = hw[c].isr
  <2> DEFINE r == [hw[0] EXCEPT !.me = FALSE]
  <2>1. hw \in [Ctrls -> Regs] /\ hw[0] \in Regs
    BY <1>2 DEF TypeInv
  <2>2. /\ r \in Regs /\ r.me = FALSE /\ r.ier = hw[0].ier /\ r.imr = hw[0].imr
        /\ r.vec = hw[0].vec /\ r.ilr = hw[0].ilr /\ r.isr = hw[0].isr
    BY <2>1 DEF Regs
  <2>3. h = [hw EXCEPT ![0] = r]
    BY <2>1
  <2> HIDE DEF r, h
  <2> QED BY <1>2, <2>1, <2>2, <2>3
<1> HIDE DEF h
<1>5. /\ TypeInv' /\ EnableInv' /\ Stack' /\ Levels' /\ DueInv' /\ ScriptInv'
      /\ \A c \in Ctrls : /\ hw'[c].ier = h[c].ier /\ hw'[c].imr = h[c].imr
                          /\ hw'[c].vec = h[c].vec /\ hw'[c].me = h[c].me
  <2>1. line \subseteq due'
    BY <1>1 DEF TypeInv
  <2>2. ASSUME NEW id \in sys.level, Pin(id) \in h[Ctrl(id)].isr PROVE id \in due'
    <3>1. Ctrl(id) \in Ctrls
      BY MainType, SystemFacts, IdFacts
    <3>2. Pin(id) \in hw[Ctrl(id)].isr /\ due' = due /\ frames = <<>>
      BY <3>1, <2>2, <1>1, <1>4
    <3> QED BY <3>2, RestDue
  <2>3. \A c \in Ctrls : /\ h[c].ier = hw[c].ier /\ h[c].imr = hw[c].imr
                        /\ h[c].vec = hw[c].vec /\ h[c].ilr = hw[c].ilr
    BY ONLY <1>4
  <2>4. \A id \in sys.level : Pin(id) \in h[Ctrl(id)].isr => id \in due'
    BY ONLY <2>2
  <2>5. /\ UNCHANGED <<line, table, sys, frames, want>> /\ main' = Done(main)
        /\ frames = <<>> /\ main.script # <<>> /\ ~Resetting /\ hw' = Settled(h, line)
    BY <1>1
  <2> HIDE DEF IInv
  <2>6. /\ TypeInv' /\ EnableInv' /\ Stack' /\ Levels' /\ DueInv'
        /\ Len(main.script) = 1 => ScriptInv'
        /\ \A c \in Ctrls : /\ hw'[c].ier = h[c].ier /\ hw'[c].imr = h[c].imr
                            /\ hw'[c].vec = h[c].vec /\ hw'[c].me = h[c].me
    BY ONLY IInv, <1>3, <1>4, <2>1, <2>3, <2>4, <2>5, PlainWrite
  <2> QED BY <1>2, <2>6
<1>6. ModeInv'
  <2>1. sys' = sys /\ hw'[0].imr = hw[0].imr /\ hw'[0].vec = hw[0].vec /\ ~hw'[0].me
    BY <1>1, <1>2, <1>4, <1>5
  <2> QED BY <1>3, <2>1 DEF ModeInv
<1> QED BY <1>5, <1>6

LEMMA StartKeeps == IInv /\ Start => IInv'
<1> SUFFICES ASSUME IInv, Start PROVE IInv'
  OBVIOUS
<1> USE DEF IInv
<1> DEFINE h == [c \in Ctrls |-> [hw[c] EXCEPT !.me = TRUE, !.hie = @ \/ At("real")]]
<1>1. PICK a \in {"real", "simulation"} : At(a)
  BY DEF Start
<1>2. /\ UNCHANGED <<line, due, table, sys, frames, want>> /\ main' = Done(main)
      /\ frames = <<>> /\ main.script # <<>> /\ ~Resetting
      /\ drv' = [drv EXCEPT !.started = TRUE] /\ hw' = Settled(h, line)
  BY <1>1, NotResetting DEF Start, Advance, At
<1>3. drv.ready /\ (Left(<<a>>) \/ (OfSource /\ Left(<<a, "read", "on">>) /\ Fit))
  BY <1>1, StartHeads
<1>4. /\ drv' \in [ready : BOOLEAN, started : BOOLEAN, static : Nat,
                   opt : [Ctrls -> {"none", "single", "all"}]]
      /\ drv'.static = drv.static /\ drv'.started
      /\ drv'.ready = drv.ready /\ drv'.opt = drv.opt
  BY <1>2 DEF TypeInv
<1>5. /\ h \in [Ctrls -> Regs]
      /\ \A c \in Ctrls : /\ h[c].ier = hw[c].ier /\ h[c].imr = hw[c].imr
                          /\ h[c].vec = hw[c].vec /\ h[c].ilr = hw[c].ilr
                          /\ h[c].isr = hw[c].isr
  <2>1. ASSUME NEW c \in Ctrls
        PROVE  LET r == [hw[c] EXCEPT !.me = TRUE, !.hie = @ \/ At("real")]
               IN  /\ r \in Regs /\ r.ier = hw[c].ier /\ r.imr = hw[c].imr
                   /\ r.vec = hw[c].vec /\ r.ilr = hw[c].ilr /\ r.isr = hw[c].isr
    <3>1. hw[c] \in Regs /\ (hw[c].hie \/ At("real")) \in BOOLEAN
      BY DEF TypeInv
    <3> QED BY <3>1 DEF Regs
  <2> QED BY <2>1
<1> HIDE DEF h
<1>6. /\ TypeInv' /\ EnableInv' /\ Stack' /\ Levels' /\ DueInv'
      /\ Len(main.script) = 1 => ScriptInv'
      /\ \A c \in Ctrls : /\ hw'[c].ier = h[c].ier /\ hw'[c].imr = h[c].imr
                          /\ hw'[c].vec = h[c].vec
  <2>1. line \subseteq due'
    BY <1>2 DEF TypeInv
  <2>2. ASSUME NEW id \in sys.level, Pin(id) \in h[Ctrl(id)].isr PROVE id \in due'
    <3>1. Ctrl(id) \in Ctrls
      BY MainType, SystemFacts, IdFacts
    <3>2. Pin(id) \in hw[Ctrl(id)].isr /\ due' = due /\ frames = <<>>
      BY <3>1, <2>2, <1>2, <1>5
    <3> QED BY <3>2, RestDue
  <2>3. \A c \in Ctrls : /\ h[c].ier = hw[c].ier /\ h[c].imr = hw[c].imr
                        /\ h[c].vec = hw[c].vec /\ h[c].ilr = hw[c].ilr
    BY ONLY <1>5
  <2>4. \A id \in sys.level : Pin(id) \in h[Ctrl(id)].isr => id \in due'
    BY ONLY <2>2
  <2>5. /\ UNCHANGED <<line, table, sys, frames, want>> /\ main' = Done(main)
        /\ frames = <<>> /\ main.script # <<>> /\ ~Resetting /\ hw' = Settled(h, line)
    BY <1>2
  <2> HIDE DEF IInv
  <2>6. /\ TypeInv' /\ EnableInv' /\ Stack' /\ Levels' /\ DueInv'
        /\ Len(main.script) = 1 => ScriptInv'
        /\ \A c \in Ctrls : /\ hw'[c].ier = h[c].ier /\ hw'[c].imr = h[c].imr
                            /\ hw'[c].vec = h[c].vec /\ hw'[c].me = h[c].me
    BY ONLY IInv, <1>4, <1>5, <2>1, <2>3, <2>4, <2>5, PlainWrite
  <2> QED BY <1>2, <2>6
<1>7. 0 \in Ctrls
  BY MainType, SystemFacts
<1>8. ModeInv'
  <2>1. sys' = sys /\ hw'[0].imr = hw[0].imr /\ hw'[0].vec = hw[0].vec
    BY <1>2, <1>5, <1>6, <1>7
  <2> QED BY <1>3, <1>4, <2>1 DEF ModeInv
<1>9. ScriptInv'
  <2>1. CASE Left(<<a>>)
    BY <2>1, <1>6, Tails DEF Left
  <2>2. CASE OfSource /\ Left(<<a, "read", "on">>) /\ Fit
    <3>1. main'.script = <<"read", "on">> /\ main'.id = main.id
      BY <1>2, <2>2, MainType, Advances, Tails DEF Left
    <3>2. \A id \in Ids : Listened(id)' <=> Listened(id)
      BY <1>2, <1>5, <1>6, <1>7, ListenedSame
    <3>3. Fit' /\ OfSource'
      BY <1>2, <2>2, <3>1, <3>2, MainType DEF Fit, Wanted, OfSource, Sources
    <3> QED BY <1>3, <1>4, <3>1, <3>3 DEF ScriptInv, EnableLeft, Left
  <2> QED BY <1>3, <2>1, <2>2
<1> QED BY <1>6, <1>8, <1>9

(* The set-up of the controllers leaves nothing enabled or latched but     *)
(* what comes from the controllers behind and from the devices' lines.     *)
LEMMA ConfigKeeps == IInv /\ Config => IInv'
<1> SUFFICES ASSUME IInv, Config PROVE IInv'
  OBVIOUS
<1> USE DEF IInv
<1>1. /\ At("config") /\ UNCHANGED <<line, sys, frames, want>> /\ main' = Done(main)
      /\ frames = <<>> /\ main.script # <<>>
  BY DEF Config, Advance, At
<1>2. PICK m \in {"real", "simulation"} :
        /\ Left(<<"config", "handler", "ref", m, "read", "on">>)
        /\ OfSource /\ Wanted /\ (drv.started => Quiet)
  BY <1>1, SetUpHeads
<1>3. /\ main' \in Mains /\ main'.id = main.id
      /\ main'.script = <<"handler", "ref", m, "read", "on">>
  BY <1>1, <1>2, MainType, Advances, Tails DEF Left
<1>4. c0' = c0 /\ p0' = p0 /\ OfSource' /\ Wanted'
  BY <1>1, <1>2, <1>3 DEF c0, p0, Ctrl, Pin, OfSource, Sources, Wanted
<1>5. /\ sys \in Systems /\ 0 \in Ctrls /\ c0 \in Ctrls /\ hw \in [Ctrls -> Regs] /\ line \subseteq due
      /\ W - 1 \in Pins /\ W \in Nat \ {0} /\ sys.ctrls \in 1 .. 3 /\ sys.fast \in BOOLEAN
      /\ line \in SUBSET sys.level /\ sys.level \subseteq Ids
  BY MainType, SystemFacts DEF TypeInv, Pins
<1>6. Quiet' /\ drv'.ready => ScriptInv'
  <2> SUFFICES ASSUME Quiet', drv'.ready PROVE ScriptInv'
    OBVIOUS
  <2>1. SetUp(m)'
    BY <1>3 DEF SetUp, Left
  <2> QED BY <1>4, <2>1 DEF ScriptInv
<1>7. CASE drv.started
  <2>1. UNCHANGED <<hw, due, drv, table>>
    BY <1>7 DEF Config, Refused
  <2>2. ~Resetting
    BY <1>7 DEF Resetting
  <2>3. TypeInv'
    BY <1>1, <1>3, <2>1 DEF TypeInv, Ctrls, Ids, Mains
  <2>4. ScriptInv'
    BY <1>2, <1>4, <1>6, <1>7, <2>1 DEF Quiet, ModeInv
  <2>5. EnableInv'
    BY <1>1, <2>1, <2>2, EnableSame
  <2>6. ModeInv'
    BY <1>1, <2>1 DEF ModeInv
  <2>7. Stack' /\ Levels' /\ DueInv'
    BY <1>1, <2>1, RestKeepsStack, RestDue
  <2> QED BY <2>3, <2>4, <2>5, <2>6, <2>7
<1>8. CASE ~drv.started
  <2> DEFINE h1 == [hw EXCEPT ![0] = Primary(@)]
             s1 == Settled(h1, line)
             h2 == InitializeSlaves(s1)
  <2>1. /\ hw' = Settled(h2, line) /\ due' = line
        /\ drv' = [drv EXCEPT !.ready = TRUE, !.opt[0] = "single"]
        /\ table' = [id \in Ids |-> Initialized(table[id])]
    BY <1>8 DEF Config, Refused
  <2>2. /\ h1 \in [Ctrls -> Regs] /\ h1[0].isr = {} /\ ~h1[0].me
        /\ h1[0].ier = IF sys.ctrls > 1 THEN {W - 1} ELSE {}
        /\ h1[0].ilr = hw[0].ilr /\ h1[0].imr = {} /\ h1[0].vec \in SUBSET Pins
    <3> DEFINE r == Primary(hw[0])
    <3>1. hw[0] \in Regs /\ (~sys.fast => hw[0].imr = {})
      BY <1>5 DEF ModeInv
    <3>2. /\ r \in Regs /\ r.isr = {} /\ ~r.me
          /\ r.ier = IF sys.ctrls > 1 THEN {W - 1} ELSE {}
          /\ r.ilr = hw[0].ilr /\ r.imr = {} /\ r.vec \in SUBSET Pins
      <4>1. CASE sys.fast
        BY <3>1, <1>5, <4>1 DEF Primary, Regs
      <4>2. CASE ~sys.fast
        BY <3>1, <1>5, <4>2 DEF Primary, Regs
      <4> QED BY <4>1, <4>2
    <3> HIDE DEF r
    <3>3. h1 = [hw EXCEPT ![0] = r]
      BY <1>5 DEF r
    <3> QED BY <1>5, <3>2, <3>3
  <2>3. s1 = Settled(h1, line) /\ line \in SUBSET Ids
    BY <1>5
  <2> HIDE DEF h1
  <2> HIDE DEF s1
  <2>4. /\ s1 \in [Ctrls -> Regs]
        /\ s1[0].ier = h1[0].ier /\ s1[0].imr = {} /\ ~s1[0].me /\ s1[0].ilr = hw[0].ilr
        /\ \A p \in s1[0].isr : Chained(0, p) \/ \E id \in line : Ctrl(id) = 0 /\ Pin(id) = p
    <3>1. /\ s1 \in [Ctrls -> Regs]
          /\ \A c \in Ctrls :
               /\ s1[c].ier = h1[c].ier /\ s1[c].imr = h1[c].imr
               /\ s1[c].me = h1[c].me /\ s1[c].ilr = h1[c].ilr
               /\ \A p \in s1[c].isr : p \in h1[c].isr \/ Chained(c, p)
                                        \/ \E id \in line : Ctrl(id) = c /\ Pin(id) = p
      BY <1>5, <2>2, <2>3, SettledFacts
    <3> QED BY <1>5, <2>2, <3>1
  <2>5. /\ h2 \in [Ctrls -> Regs] /\ h2[0] = s1[0]
        /\ \A c \in Ctrls : /\ c # 0 => h2[c].isr = {}
                            /\ \A p \in h2[c].ier : Chained(c, p)
    <3>1. ASSUME NEW c \in Ctrls
          PROVE  LET r == [s1[c] EXCEPT !.me = FALSE, !.isr = {},
                                        !.ier = IF c = sys.ctrls - 1 THEN {} ELSE {W - 1}]
                 IN  r \in Regs /\ r.isr = {} /\ \A p \in r.ier : Chained(c, p)
      <4>1. s1[c] \in Regs /\ (IF c = sys.ctrls - 1 THEN {} ELSE {W - 1}) \in SUBSET Pins
        BY <1>5, <2>4
      <4>2. \A p \in (IF c = sys.ctrls - 1 THEN {} ELSE {W - 1}) : Chained(c, p)
        BY <1>5 DEF Chained, Ctrls
      <4> QED BY <4>1, <4>2 DEF Regs
    <3>2. \A p \in s1[0].ier : Chained(0, p)
      BY <1>5, <2>2, <2>4 DEF Chained
    <3> QED BY <1>5, <2>4, <3>1, <3>2 DEF InitializeSlaves
  <2> HIDE DEF h2
  <2>6. line \subseteq due'
    BY <2>1
  <2>7. ASSUME NEW id \in sys.level, Pin(id) \in h2[Ctrl(id)].isr PROVE id \in due'
    <3>1. id \in Ids /\ id \in Sources /\ Ctrl(id) \in Ctrls /\ ~Chained(Ctrl(id), Pin(id))
      BY <1>5, SystemFacts, IdFacts, SourcesAreNotChained DEF Sources
    <3>2. Ctrl(id) = 0
      BY <2>5, <2>7, <3>1
    <3>3. PICK i \in line : Ctrl(i) = 0 /\ Pin(i) = Pin(id)
      BY <2>4, <2>5, <2>7, <3>1, <3>2
    <3>4. i = id
      BY <1>5, <3>1, <3>2, <3>3, IdFacts
    <3> QED BY <2>1, <3>3, <3>4
  <2>8. /\ hw' \in [Ctrls -> Regs]
        /\ \A c \in Ctrls : /\ hw'[c].ier = h2[c].ier /\ hw'[c].imr = h2[c].imr
                            /\ hw'[c].vec = h2[c].vec /\ hw'[c].me = h2[c].me
                            /\ hw'[c].ilr = h2[c].ilr
        /\ \A id \in sys.level : Pin(id) \in hw'[Ctrl(id)].isr => id \in due'
    BY <2>1, <2>5, <2>6, <2>7, WriteFacts
  <2>9. /\ drv' \in [ready : BOOLEAN, started : BOOLEAN, static : Nat,
                     opt : [Ctrls -> {"none", "single", "all"}]]
        /\ drv'.static = drv.static /\ ~drv'.started /\ drv'.ready /\ drv'.opt[0] = "single"
    <3> DEFINE opt == [drv.opt EXCEPT ![0] = "single"]
    <3>1. opt \in [Ctrls -> {"none", "single", "all"}] /\ opt[0] = "single"
      BY <1>5 DEF TypeInv
    <3>2. drv' = [drv EXCEPT !.ready = TRUE, !.opt = opt]
      BY <2>1 DEF TypeInv
    <3> HIDE DEF opt
    <3> QED BY <1>8, <3>1, <3>2 DEF TypeInv
  <2>10. table' \in [Ids -> [h : {"null", "stub", "own"}, ref : {"none", "intc", "own"}]]
    BY <2>1 DEF TypeInv, Initialized
  <2>11. TypeInv'
    BY <1>1, <1>3, <1>5, <2>1, <2>8, <2>9, <2>10 DEF TypeInv, Ctrls, Ids, Mains
  <2>12. ScriptInv'
    <3>1. ~Chained(c0, p0)
      BY <1>2, <1>5, SourcesAreNotChained DEF OfSource, c0, p0
    <3>2. Quiet'
      BY <1>4, <1>5, <2>5, <2>8, <3>1 DEF Quiet
    <3> QED BY <1>6, <2>9, <3>2
  <2>13. EnableInv'
    <3>1. Ids' = Ids
      BY <1>1 DEF Ids
    <3>2. ASSUME NEW id \in Ids, (Pin(id) \in hw[Ctrl(id)].ier)'
          PROVE  Chained(Ctrl(id), Pin(id))'
      <4>1. Ctrl(id) \in Ctrls
        BY <1>5, IdFacts
      <4>2. Pin(id) \in h2[Ctrl(id)].ier
        BY <2>8, <3>2, <4>1 DEF Ctrl, Pin
      <4> QED BY <1>1, <2>5, <4>1, <4>2 DEF Chained, Ctrl, Pin
    <3> QED BY <3>1, <3>2 DEF EnableInv
  <2>14. ModeInv'
    <3>1. hw'[0].imr = {} /\ ~hw'[0].me
      BY <1>5, <2>4, <2>5, <2>8
    <3> QED BY <2>9, <3>1 DEF ModeInv
  <2>15. Stack' /\ Levels' /\ DueInv'
    <3>1. hw'[0].ilr = hw[0].ilr
      BY <1>5, <2>4, <2>5, <2>8
    <3> QED BY <1>1, <2>8, <2>9, <3>1, RestKeepsStack
  <2> QED BY <2>11, <2>12, <2>13, <2>14, <2>15
<1> QED BY <1>7, <1>8

LEMMA ScriptKeeps == IInv /\ Script => IInv'
BY ConfigKeeps, StartKeeps, StopKeeps, ConnectKeeps, ReadIerKeeps, EnableKeeps, DisableKeeps,
   NotEnabledKeeps, FastKeeps, NormalKeeps, OptionsKeep, LatchesKeep DEF Script, Latches
-----------------------------------------------------------------------------
(* A call begins: a script for a source, and what the program wants grows, *)
(* or is set anew by a set-up that resets the controllers.                 *)
LEMMA CallStep ==
  ASSUME IInv, NEW script \in Seq(Steps), NEW id \in Ids, NEW wants, Call(script, id, wants),
         want \subseteq wants \/ (Head(script) = "config" /\ script # <<>> /\ ~drv.started)
  PROVE  /\ TypeInv' /\ EnableInv' /\ ModeInv' /\ Stack' /\ Levels' /\ DueInv'
         /\ main'.script = script /\ main'.id = id /\ main'.was = FALSE /\ want' = wants
         /\ c0' = Ctrl(id) /\ p0' = Pin(id) /\ UNCHANGED <<core, drv, table>> /\ ~Resetting
         /\ \A i \in Ids : Listened(i)' <=> Listened(i)
<1> USE DEF IInv
<1>1. /\ main = Idle /\ frames = <<>> /\ frames' = <<>> /\ want' = wants
      /\ main' = [Idle EXCEPT !.script = script, !.id = id]
      /\ UNCHANGED <<sys, hw, line, due, drv, table>>
  BY DEF Call, core
<1>2. /\ main' \in Mains /\ main'.script = script /\ main'.id = id /\ main'.was = FALSE
      /\ main.script = <<>>
  BY <1>1 DEF Idle, Mains
<1>3. ~Resetting
  BY <1>2 DEF Resetting
<1>4. TypeInv'
  BY <1>1, <1>2 DEF TypeInv, Ctrls, Ids, Mains
<1>5. 0 \in Ctrls
  BY MainType, SystemFacts
<1>6. \A i \in Ids : Listened(i)' <=> Listened(i)
  BY <1>1, ListenedSame
<1>7. EnableInv'
  <2>1. CASE want \subseteq wants
    <3>1. Ids' = Ids
      BY <1>1 DEF Ids
    <3>2. ASSUME NEW i \in Ids, (Pin(i) \in hw[Ctrl(i)].ier)'
          PROVE  (Chained(Ctrl(i), Pin(i)) \/ (i \in want /\ Listened(i)))'
      <4>1. Pin(i) \in hw[Ctrl(i)].ier
        BY <1>1, <3>2 DEF Ctrl, Pin
      <4>2. Chained(Ctrl(i), Pin(i)) \/ (i \in want /\ Listened(i))
        BY <1>3, <4>1 DEF EnableInv
      <4> QED BY <1>1, <1>6, <2>1, <4>2 DEF Chained, Ctrl, Pin
    <3> QED BY <3>1, <3>2 DEF EnableInv
  <2>2. CASE Head(script) = "config" /\ script # <<>> /\ ~drv.started
    <3>1. Resetting'
      BY <1>1, <1>2, <2>2 DEF Resetting
    <3> QED BY <3>1 DEF EnableInv
  <2> QED BY <2>1, <2>2
<1>8. ModeInv'
  BY <1>1 DEF ModeInv
<1>9. Stack' /\ Levels' /\ DueInv'
  BY <1>1, RestKeepsStack, RestDue
<1>10. c0' = Ctrl(id) /\ p0' = Pin(id)
  BY <1>2 DEF c0, p0, Ctrl, Pin
<1> QED BY <1>1, <1>2, <1>3, <1>4, <1>6, <1>7, <1>8, <1>9, <1>10 DEF core

LEMMA SetupCallKeeps ==
  ASSUME IInv, NEW id \in Sources, XSetupInterruptSystem(id)
  PROVE  IInv'
<1> USE DEF IInv
<1>1. PICK m \in {"real", "simulation"} :
        /\ id \notin want
        /\ Call(<<"config", "handler", "ref", m, "read", "on">>, id,
                (IF drv.started THEN want ELSE {}) \cup {id})
  BY DEF XSetupInterruptSystem
<1> DEFINE script == <<"config", "handler", "ref", m, "read", "on">>
           wants == (IF drv.started THEN want ELSE {}) \cup {id}
<1>2. /\ script \in Seq(Steps) /\ script # <<>> /\ Head(script) = "config"
      /\ script = <<"config", "handler", "ref", m, "read", "on">>
  <2>1. m \in Steps /\ {"config", "handler", "ref", "read", "on"} \subseteq Steps
    BY DEF Steps
  <2> QED BY <2>1, Scripts
<1>3. id \in wants /\ (want \subseteq wants \/ ~drv.started)
  OBVIOUS
<1>4. Call(script, id, wants)
  BY <1>1
<1> HIDE DEF script, wants
<1>5. id \in Ids /\ sys \in Systems
  BY MainType, SystemFacts
<1>6. /\ TypeInv' /\ EnableInv' /\ ModeInv' /\ Stack' /\ Levels' /\ DueInv'
      /\ main'.script = script /\ main'.id = id /\ want' = wants
      /\ c0' = Ctrl(id) /\ p0' = Pin(id) /\ UNCHANGED <<core, drv, table>> /\ ~Resetting
  BY <1>2, <1>3, <1>4, <1>5, CallStep
<1>7. Pin(id) \notin hw[Ctrl(id)].ier
  BY <1>1, <1>5, <1>6, SourcesAreNotChained DEF EnableInv
<1>8. Quiet' /\ OfSource' /\ Wanted'
  BY <1>3, <1>6, <1>7 DEF Quiet, OfSource, Sources, Wanted, core
<1>9. SetUp(m)'
  BY <1>2, <1>6, <1>8 DEF SetUp, Left
<1> QED BY <1>6, <1>8, <1>9 DEF ScriptInv

(* The scripts of the calls on a source, each with what it may assume.     *)
LEMMA SourceCallKeeps ==
  ASSUME IInv, drv.ready, NEW id \in Sources, NEW script, NEW wants, Call(script, id, wants),
         want \subseteq wants,
         \/ script = <<"handler", "ref">> /\ id \notin want
         \/ script = <<"read", "on">> /\ Listened(id) /\ id \in wants
         \/ script \in {<<"read", "off">>, <<"read", "off", "stub", "unref">>}
         \/ script \in {<<"ack">>, <<"simulate">>, <<"trigger">>}
         \/ /\ script = <<"read", "read", "offIf", "vector", "mode", "read", "onIf">>
            /\ sys.fast /\ Ctrl(id) = 0
         \/ /\ script = <<"read", "read", "offIf", "modeOff", "vectors", "read", "onIf">>
            /\ sys.fast /\ Ctrl(id) = 0 /\ hw[0].imr \subseteq {Pin(id)} /\ id \notin want
  PROVE  IInv'
<1> USE DEF IInv
<1>1. script \in Seq(Steps)
  <2>1. {"handler", "ref", "read", "on", "off", "stub", "unref", "offIf", "onIf"} \subseteq Steps
    BY DEF Steps
  <2>2. {"vector", "mode", "modeOff", "vectors", "ack", "simulate", "trigger"} \subseteq Steps
    BY DEF Steps
  <2>3. /\ <<"handler", "ref">> \in Seq(Steps) /\ <<"read", "on">> \in Seq(Steps)
        /\ <<"read", "off">> \in Seq(Steps) /\ <<"read", "off", "stub", "unref">> \in Seq(Steps)
        /\ <<"ack">> \in Seq(Steps) /\ <<"simulate">> \in Seq(Steps)
        /\ <<"trigger">> \in Seq(Steps)
    BY <2>1, <2>2
  <2>4. /\ <<"read", "read", "offIf", "vector", "mode", "read", "onIf">> \in Seq(Steps)
        /\ <<"read", "read", "offIf", "modeOff", "vectors", "read", "onIf">> \in Seq(Steps)
    BY <2>1, <2>2
  <2> QED BY <2>3, <2>4
<1>2. id \in Ids /\ sys \in Systems
  BY MainType, SystemFacts
<1>3. /\ TypeInv' /\ EnableInv' /\ ModeInv' /\ Stack' /\ Levels' /\ DueInv'
      /\ main'.script = script /\ main'.id = id /\ main'.was = FALSE /\ want' = wants
      /\ c0' = Ctrl(id) /\ p0' = Pin(id) /\ UNCHANGED <<core, drv, table>> /\ ~Resetting
      /\ \A i \in Ids : Listened(i)' <=> Listened(i)
  BY <1>1, <1>2, CallStep
<1>4. OfSource' /\ drv'.ready /\ sys' = sys /\ hw' = hw
  BY <1>3 DEF OfSource, Sources, core
<1>5. id \notin want => Quiet'
  <2> SUFFICES ASSUME id \notin want PROVE Quiet'
    OBVIOUS
  <2>1. Pin(id) \notin hw[Ctrl(id)].ier
    BY <1>2, <1>3, SourcesAreNotChained DEF EnableInv
  <2> QED BY <1>3, <1>4, <2>1 DEF Quiet
<1>6. ScriptInv'
  <2>1. CASE script = <<"handler", "ref">> /\ id \notin want
    BY <2>1, <1>3, <1>4, <1>5 DEF ScriptInv, ConnectLeft, Left
  <2>2. CASE script = <<"read", "on">> /\ Listened(id) /\ id \in wants
    <3>1. Fit'
      BY <2>2, <1>2, <1>3 DEF Fit, Wanted
    <3> QED BY <2>2, <3>1, <1>3, <1>4 DEF ScriptInv, EnableLeft, Left
  <2>3. CASE script \in {<<"read", "off">>, <<"read", "off", "stub", "unref">>}
    BY <2>3, <1>3, <1>4 DEF ScriptInv, DisableLeft, Left
  <2>4. CASE script \in {<<"ack">>, <<"simulate">>, <<"trigger">>}
    BY <2>4, <1>3, <1>4 DEF ScriptInv, OneStep, Left
  <2>5. CASE /\ script = <<"read", "read", "offIf", "vector", "mode", "read", "onIf">>
             /\ sys.fast /\ Ctrl(id) = 0
    BY <2>5, <1>3, <1>4 DEF ScriptInv, FastLeft, Left
  <2>6. CASE /\ script = <<"read", "read", "offIf", "modeOff", "vectors", "read", "onIf">>
             /\ sys.fast /\ Ctrl(id) = 0 /\ hw[0].imr \subseteq {Pin(id)} /\ id \notin want
    BY <2>6, <1>3, <1>4, <1>5 DEF ScriptInv, NormalLeft, Left
  <2> QED BY <2>1, <2>2, <2>3, <2>4, <2>5, <2>6
<1> QED BY <1>3, <1>6

LEMMA CallOnKeeps ==
  ASSUME IInv, Careful, NEW id \in Sources, CallOn(id)
  PROVE  IInv'
<1> DEFINE fast == <<"read", "read", "offIf", "vector", "mode", "read", "onIf">>
           normal == <<"read", "read", "offIf", "modeOff", "vectors", "read", "onIf">>
<1>1. drv.ready
  BY DEF CallOn
<1>2. \/ id \notin want /\ Call(<<"handler", "ref">>, id, want)
      \/ Listened(id) /\ Call(<<"read", "on">>, id, want \cup {id})
      \/ Call(<<"read", "off">>, id, want)
      \/ Call(<<"read", "off", "stub", "unref">>, id, want)
      \/ Call(<<"ack">>, id, want) \/ Call(<<"simulate">>, id, want)
      \/ Call(<<"trigger">>, id, want)
      \/ sys.fast /\ Ctrl(id) = 0 /\ Call(fast, id, want)
      \/ /\ sys.fast /\ Ctrl(id) = 0 /\ hw[0].imr \subseteq {Pin(id)} /\ id \notin want
         /\ Call(normal, id, want)
  BY DEF CallOn
<1>3. CASE id \notin want /\ Call(<<"handler", "ref">>, id, want)
  BY <1>1, <1>3, SourceCallKeeps
<1>4. CASE Listened(id) /\ Call(<<"read", "on">>, id, want \cup {id})
  BY <1>1, <1>4, SourceCallKeeps
<1>5. CASE Call(<<"read", "off">>, id, want)
  BY <1>1, <1>5, SourceCallKeeps
<1>6. CASE Call(<<"read", "off", "stub", "unref">>, id, want)
  BY <1>1, <1>6, SourceCallKeeps
<1>7. CASE Call(<<"ack">>, id, want)
  BY <1>1, <1>7, SourceCallKeeps
<1>8. CASE Call(<<"simulate">>, id, want)
  BY <1>1, <1>8, SourceCallKeeps
<1>9. CASE Call(<<"trigger">>, id, want)
  BY <1>1, <1>9, SourceCallKeeps
<1>10. CASE sys.fast /\ Ctrl(id) = 0 /\ Call(fast, id, want)
  BY <1>1, <1>10, SourceCallKeeps
<1>11. CASE /\ sys.fast /\ Ctrl(id) = 0 /\ hw[0].imr \subseteq {Pin(id)} /\ id \notin want
            /\ Call(normal, id, want)
  BY <1>1, <1>11, SourceCallKeeps
<1> QED BY <1>2, <1>3, <1>4, <1>5, <1>6, <1>7, <1>8, <1>9, <1>10, <1>11

LEMMA CallAnyKeeps ==
  ASSUME IInv, Careful, CallAny
  PROVE  IInv'
<1> USE DEF IInv
<1>1. PICK a \in {"real", "simulation", "stop", "single", "all", "selfTest"} :
        Call(<<a>>, 0, want) /\ (a = "all" => ~sys.ilr)
  BY DEF CallAny
<1>2. drv.ready /\ 0 \in Ids /\ <<a>> \in Seq(Steps)
  <2>1. a \in Steps
    BY DEF Steps
  <2> QED BY <2>1, MainType, SystemFacts DEF CallAny
<1>3. /\ TypeInv' /\ EnableInv' /\ ModeInv' /\ Stack' /\ Levels' /\ DueInv'
      /\ main'.script = <<a>> /\ UNCHANGED <<core, drv>>
  BY <1>1, <1>2, CallStep
<1>4. ScriptInv'
  BY <1>1, <1>2, <1>3 DEF ScriptInv, OneStep, Left, core
<1> QED BY <1>3, <1>4

LEMMA CallsKeep == IInv /\ Careful /\ Calls => IInv'
BY SetupCallKeeps, CallOnKeeps, CallAnyKeeps DEF Calls
-----------------------------------------------------------------------------
(* The stack of handlers as a sequence.                                    *)
LEMMA LowestFacts ==
  ASSUME NEW s \in SUBSET Nat, s # {}
  PROVE  Lowest(s) \in s /\ \A q \in s : Lowest(s) <= q
<1>1. PICK x \in s : \A y \in s : ~(<<y, x>> \in OpToRel(<, Nat))
  BY NatLessThanWellFounded, WFMin
<1>2. \A y \in s : x <= y
  <2> TAKE y \in s
  <2>1. x \in Nat /\ y \in Nat
    OBVIOUS
  <2>2. ~(y < x)
    BY <1>1, <2>1 DEF OpToRel
  <2> QED BY ONLY <2>1, <2>2
<1> QED BY ONLY <1>2 DEF Lowest

LEMMA PushFacts ==
  ASSUME NEW S, NEW s \in Seq(S), NEW f \in S, NEW t, t = <<f>> \o s
  PROVE  /\ t \in Seq(S) /\ Len(t) = Len(s) + 1 /\ t[1] = f /\ t # <<>>
         /\ \A i \in 2 .. Len(s) + 1 : t[i] = s[i - 1]
OBVIOUS

LEMMA TopFacts ==
  ASSUME NEW S, NEW s \in Seq(S), s # <<>>, NEW f \in S, NEW t, t = <<f>> \o Tail(s)
  PROVE  /\ t \in Seq(S) /\ Len(t) = Len(s) /\ t[1] = f /\ t # <<>>
         /\ \A i \in 2 .. Len(s) : t[i] = s[i]
<1>1. Tail(s) \in Seq(S) /\ Len(Tail(s)) = Len(s) - 1 /\ \A i \in 1 .. Len(s) - 1 : Tail(s)[i] = s[i + 1]
  OBVIOUS
<1> QED BY <1>1

LEMMA PushTopFacts ==
  ASSUME NEW S, NEW s \in Seq(S), s # <<>>, NEW f \in S, NEW g \in S, NEW t, t = <<g, f>> \o Tail(s)
  PROVE  /\ t \in Seq(S) /\ Len(t) = Len(s) + 1 /\ t[1] = g /\ t[2] = f /\ t # <<>>
         /\ \A i \in 3 .. Len(s) + 1 : t[i] = s[i - 1]
<1>1. Tail(s) \in Seq(S) /\ Len(Tail(s)) = Len(s) - 1 /\ \A i \in 1 .. Len(s) - 1 : Tail(s)[i] = s[i + 1]
  OBVIOUS
<1> QED BY <1>1

LEMMA PopFacts ==
  ASSUME NEW S, NEW s \in Seq(S), s # <<>>, NEW t, t = Tail(s)
  PROVE  /\ t \in Seq(S) /\ Len(t) = Len(s) - 1
         /\ \A i \in 1 .. Len(s) - 1 : t[i] = s[i + 1]
BY HeadTailProperties

LEMMA FrameFacts ==
  ASSUME TypeInv, Stack, NEW i \in 1 .. Len(frames)
  PROVE  /\ frames[i] \in Frames /\ frames[i].c \in Ctrls
         /\ OnStack(frames[i], i, Len(frames), Bottom)
         /\ Chosen(frames[i]) /\ Reads(frames[i])
         /\ Bottom \in 0 .. Len(frames) /\ Len(frames) \in Nat /\ drv.static = Len(frames) - Bottom
<1>1. /\ frames[i] \in Frames /\ OnStack(frames[i], i, Len(frames), Bottom)
      /\ Chosen(frames[i]) /\ Reads(frames[i])
      /\ Bottom \in 0 .. Len(frames) /\ Len(frames) \in Nat /\ drv.static < sys.ctrls
  BY DEF TypeInv, Stack
<1>2. drv.static \in Nat /\ drv.static = Len(frames) - Bottom
  BY <1>1 DEF TypeInv, Bottom
<1>3. sys.ctrls \in 1 .. 3
  BY SystemFacts DEF TypeInv
<1>4. frames[i].c \in Ctrls
  BY <1>1, <1>2, <1>3 DEF OnStack, Ctrls
<1> QED BY <1>1, <1>2, <1>4

LEMMA TopOf ==
  ASSUME TypeInv, frames # <<>>
  PROVE  top = frames[1] /\ 1 \in 1 .. Len(frames) /\ Len(frames) \in Nat
<1>1. Len(frames) \in Nat \ {0}
  BY EmptySeq, LenProperties DEF TypeInv
<1> QED BY <1>1 DEF top

(* A handler that serves has a higher priority than all it interrupted.    *)
LEMMA TopPriority ==
  ASSUME TypeInv, Stack, Levels, top.pc # "scan",
         NEW k \in 2 .. Len(frames), frames[k].pc # "chained"
  PROVE  top.n < frames[k].n
<1>1. frames # <<>> /\ 1 \in 1 .. Len(frames) /\ k \in 1 .. Len(frames) /\ Len(frames) \in Nat
  BY DEF TypeInv
<1>2. top = frames[1]
  BY <1>1, TopOf
<1>3. Bottom \in 0 .. Len(frames) /\ k <= Bottom
  BY <1>1, FrameFacts DEF OnStack
<1>5. top.n < top.ilr /\ top.ilr <= frames[k].n
  BY <1>1, <1>2, <1>3 DEF Levels
<1>6. top.n \in Nat /\ top.ilr \in Nat /\ frames[k].n \in Nat
  <2>1. frames[1] \in Frames /\ frames[k] \in Frames
    BY <1>1, FrameFacts
  <2>2. W \in Nat
    BY SystemFacts DEF TypeInv
  <2> QED BY <1>2, <2>1, <2>2 DEF Frames
<1> QED BY <1>5, <1>6

(* A step of a handler or a device leaves the program's side as it is.     *)
LEMMA ProgramSame ==
  ASSUME IInv, UNCHANGED <<sys, table, main, want>>, hw' \in [Ctrls -> Regs],
         \A c \in Ctrls : /\ hw'[c].ier = hw[c].ier /\ hw'[c].imr = hw[c].imr
                          /\ hw'[c].vec = hw[c].vec /\ hw'[c].me = hw[c].me,
         line' \subseteq sys.level \cap due', NEW static \in Nat,
         drv' = [drv EXCEPT !.static = static], frames' \in Seq(Frames)
  PROVE  TypeInv' /\ ScriptInv' /\ EnableInv' /\ ModeInv'
<1> USE DEF IInv
<1>1. /\ drv' \in [ready : BOOLEAN, started : BOOLEAN, static : Nat,
                   opt : [Ctrls -> {"none", "single", "all"}]]
      /\ drv'.ready = drv.ready /\ drv'.started = drv.started /\ drv'.opt = drv.opt
  BY DEF TypeInv
<1>2. TypeInv'
  BY <1>1 DEF TypeInv, Ctrls, Ids, Regs, Frames, Pins
<1>3. SetupSame
  BY <1>1 DEF SetupSame
<1>4. 0 \in Ctrls /\ c0 \in Ctrls /\ sys \in Systems
  BY MainType, SystemFacts
<1>5. /\ (Quiet' <=> Quiet) /\ (Fit' <=> Fit) /\ (Wanted' <=> Wanted)
      /\ (OfSource' <=> OfSource) /\ c0' = c0 /\ p0' = p0
  BY <1>3, GoesOn
<1>6. (Fresh' <=> Fresh) /\ hw'[0].imr = hw[0].imr /\ hw'[0].vec = hw[0].vec
  BY <1>4, <1>5 DEF Fresh
<1>7. ScriptInv'
  <2>1. \A m \in {"real", "simulation"} : SetUp(m) => SetUp(m)'
    BY <1>1, <1>5 DEF SetUp, Left
  <2>2. ConnectLeft => ConnectLeft'
    BY <1>1, <1>5 DEF ConnectLeft, Left
  <2>3. EnableLeft => EnableLeft'
    BY <1>1, <1>5, <1>6 DEF EnableLeft, Left
  <2>4. DisableLeft => DisableLeft'
    BY <1>5, <1>6 DEF DisableLeft, Left
  <2>5. FastLeft => FastLeft'
    BY <1>5, <1>6 DEF FastLeft, Left
  <2>6. NormalLeft => NormalLeft'
    BY <1>5, <1>6 DEF NormalLeft, Left
  <2>7. OnAgain => OnAgain'
    BY <1>5, <1>6 DEF OnAgain, Kept0, Left
  <2>8. OneStep => OneStep'
    BY DEF OneStep, Left
  <2>9. Left(<<>>) => Left(<<>>)'
    BY DEF Left
  <2> QED BY <1>1, <1>5, <2>1, <2>2, <2>3, <2>4, <2>5, <2>6, <2>7, <2>8, <2>9 DEF ScriptInv
<1>8. EnableInv'
  <2>1. CASE Resetting
    <3>1. Resetting'
      BY <1>1, <2>1 DEF Resetting
    <3> QED BY <3>1 DEF EnableInv
  <2>2. CASE ~Resetting
    BY <1>4, <2>2, EnableSame
  <2> QED BY <2>1, <2>2
<1>9. ModeInv'
  BY <1>3, ModeSame
<1> QED BY <1>2, <1>7, <1>8, <1>9

(* The stack after a step that leaves what is enabled.                     *)
LEMMA StackStep ==
  ASSUME TypeInv, Stack, UNCHANGED sys, frames' \in Seq(Frames), drv'.static \in Nat,
         \A c \in Ctrls : hw'[c].ier = hw[c].ier /\ hw'[c].imr = hw[c].imr,
         drv'.static < sys.ctrls, Bottom' \in 0 .. Len(frames'), ~sys.ilr => Bottom' <= 1,
         drv'.started,
         \A i \in 1 .. Len(frames') : /\ OnStack(frames'[i], i, Len(frames'), Bottom')
                                      /\ Chosen(frames'[i]) /\ Reads(frames'[i])
  PROVE  Stack'
<1>1. 0 \in Ctrls /\ sys.ctrls \in 1 .. 3
  BY SystemFacts DEF TypeInv
<1>2. Bottom' = Len(frames') - drv'.static
  BY DEF Bottom
<1>3. ASSUME NEW i \in 1 .. Len(frames')
      PROVE  /\ OnStack(frames[i], i, Len(frames), Bottom)'
             /\ Chosen(frames[i])' /\ Reads(frames[i])'
  <2> DEFINE f == frames'[i]
  <2>1. OnStack(f, i, Len(frames'), Bottom') /\ Chosen(f) /\ Reads(f) /\ Len(frames') \in Nat
    OBVIOUS
  <2> HIDE DEF f
  <2>2. f.c \in Ctrls
    BY ONLY <1>1, <1>2, <2>1, <1>3, drv'.static \in Nat, drv'.static < sys.ctrls, Bottom' \in 0 .. Len(frames')
    DEF OnStack, Ctrls
  <2>3. OnStack(f, i, Len(frames'), Bottom')
    BY <2>1
  <2>4. /\ f.pc # "scan" => /\ f.n \in f.status /\ \A q \in f.status : f.n <= q
                            /\ f.pc = "chained" <=> (f.n = W - 1 /\ f.c < sys'.ctrls - 1)
        /\ f.status \subseteq hw'[f.c].ier /\ (f.c = 0 => f.status \cap hw'[0].imr = {})
    BY <1>1, <2>1, <2>2 DEF Chosen, Reads, Chained
  <2> QED BY <2>3, <2>4 DEF f, OnStack, Chosen, Reads, Chained
<1> QED BY <1>3 DEF Stack

LEMMA SameFrames ==
  ASSUME TypeInv, Stack, Levels, UNCHANGED <<sys, frames, drv>>,
         \A c \in Ctrls : /\ hw'[c].ier = hw[c].ier /\ hw'[c].imr = hw[c].imr
                          /\ hw'[c].ilr = hw[c].ilr
  PROVE  Stack' /\ Levels'
<1>1. 0 \in Ctrls /\ Bottom' = Bottom
  BY SystemFacts DEF TypeInv, Bottom
<1>2. Stack'
  <2>1. CASE frames = <<>>
    BY <1>1, <2>1 DEF Stack
  <2>2. CASE frames # <<>>
    BY <1>1, <2>2, StackStep DEF TypeInv, Stack
  <2> QED BY <2>1, <2>2
<1>3. Levels'
  BY <1>1 DEF Levels, top
<1> QED BY <1>2, <1>3

(* What settling latches for a device is on its line.                      *)
LEMMA SettlesDue ==
  ASSUME sys \in Systems, NEW h \in [Ctrls -> Regs], line' \subseteq sys.level,
         hw' = Settled(h, line')
  PROVE  /\ hw' \in [Ctrls -> Regs]
         /\ \A c \in Ctrls : /\ hw'[c].ier = h[c].ier /\ hw'[c].imr = h[c].imr
                             /\ hw'[c].vec = h[c].vec /\ hw'[c].me = h[c].me
                             /\ hw'[c].ilr = h[c].ilr /\ h[c].isr \subseteq hw'[c].isr
         /\ \A id \in sys.level : Pin(id) \in hw'[Ctrl(id)].isr =>
               Pin(id) \in h[Ctrl(id)].isr \/ id \in line'
<1> DEFINE held == line'
           s == Settled(h, held)
<1>1. held \in SUBSET sys.level /\ held \in SUBSET Ids
  BY SystemFacts
<1>2. s = Settled(h, held) /\ hw' = s
  OBVIOUS
<1> HIDE DEF held, s
<1>3. /\ s \in [Ctrls -> Regs]
      /\ \A c \in Ctrls : /\ s[c].ier = h[c].ier /\ s[c].imr = h[c].imr
                          /\ s[c].vec = h[c].vec /\ s[c].me = h[c].me
                          /\ s[c].ilr = h[c].ilr /\ h[c].isr \subseteq s[c].isr
  BY <1>1, <1>2, SettledFacts
<1>4. ASSUME NEW id \in sys.level, Pin(id) \in s[Ctrl(id)].isr, Pin(id) \notin h[Ctrl(id)].isr
      PROVE  id \in held
  BY <1>1, <1>2, <1>4, SettledDue
<1> QED BY <1>2, <1>3, <1>4 DEF held

LEMMA LevelFacts ==
  ASSUME TypeInv, NEW id \in sys.level
  PROVE  /\ id \in Ids /\ Ctrl(id) \in Ctrls /\ Pin(id) \in Pins /\ IdAt(Ctrl(id), Pin(id)) = id
         /\ ~Chained(Ctrl(id), Pin(id)) /\ id \notin sys.edge
<1>1. sys \in Systems /\ id \in Ids /\ id \in Sources
  BY SystemFacts DEF TypeInv, Sources
<1>2. Ctrl(id) \in Ctrls /\ Pin(id) \in Pins /\ IdAt(Ctrl(id), Pin(id)) = id
  BY <1>1, IdFacts
<1> QED BY <1>1, <1>2, SystemFacts, SourcesAreNotChained

(* The innermost handler goes on, where it is.                             *)
LEMMA TopGoesOn ==
  ASSUME TypeInv, Stack, frames # <<>>, NEW g \in Frames, frames' = <<g>> \o Tail(frames),
         g.c = top.c, g.status \subseteq top.status, Chosen(g),
         g.pc # "chained", top.pc # "chained", UNCHANGED <<sys, drv>>,
         \A c \in Ctrls : hw'[c].ier = hw[c].ier /\ hw'[c].imr = hw[c].imr
  PROVE  /\ Stack' /\ frames' \in Seq(Frames) /\ Len(frames') = Len(frames)
         /\ Bottom' = Bottom /\ Bottom \in 1 .. Len(frames)
         /\ frames'[1] = g /\ top' = g /\ top = frames[1] /\ frames' # <<>>
         /\ Len(frames) \in Nat /\ 1 \in 1 .. Len(frames)
         /\ \A i \in 2 .. Len(frames) : frames'[i] = frames[i]
<1>1. top = frames[1] /\ 1 \in 1 .. Len(frames) /\ Len(frames) \in Nat
  BY TopOf
<1>2. /\ frames' \in Seq(Frames) /\ Len(frames') = Len(frames) /\ frames'[1] = g /\ frames' # <<>>
      /\ \A i \in 2 .. Len(frames) : frames'[i] = frames[i]
  BY TopFacts DEF TypeInv
<1>3. Bottom' = Bottom
  BY <1>2 DEF Bottom
<1>4. Bottom \in 1 .. Len(frames)
  BY <1>1, FrameFacts DEF OnStack
<1>5. ASSUME NEW i \in 1 .. Len(frames')
      PROVE  /\ OnStack(frames'[i], i, Len(frames'), Bottom')
             /\ Chosen(frames'[i]) /\ Reads(frames'[i])
  <2>1. CASE i = 1
    <3>1. OnStack(top, 1, Len(frames), Bottom) /\ Reads(top)
      BY <1>1, FrameFacts
    <3>2. OnStack(g, 1, Len(frames), Bottom)
      BY <1>4, <3>1 DEF OnStack
    <3>3. Reads(g)
      BY <3>1 DEF Reads
    <3> QED BY <1>2, <1>3, <2>1, <3>2, <3>3
  <2>2. CASE i # 1
    <3>1. i \in 2 .. Len(frames) /\ i \in 1 .. Len(frames)
      BY <1>1, <1>2, <2>2
    <3>2. OnStack(frames[i], i, Len(frames), Bottom) /\ Chosen(frames[i]) /\ Reads(frames[i])
      BY <3>1, FrameFacts
    <3> QED BY <1>2, <1>3, <3>1, <3>2
  <2> QED BY <2>1, <2>2
<1>6. Stack'
  <2>1. drv.static \in Nat /\ drv.static < sys.ctrls /\ drv.started /\ (~sys.ilr => Bottom <= 1)
    BY DEF TypeInv, Stack
  <2> QED BY <1>2, <1>3, <1>4, <1>5, <2>1, StackStep
<1>7. top' = g
  BY <1>2 DEF top
<1> QED BY <1>1, <1>2, <1>3, <1>4, <1>6, <1>7

(* A handler that chose a pin runs, or has run, its body.                  *)
LEMMA BodyFacts ==
  ASSUME IInv, frames # <<>>, top.pc \in {"body", "ret"}
  PROVE  /\ top \in Frames /\ top.c \in Ctrls /\ top.n \in Pins /\ top.n \in top.status
         /\ top.n < top.ilr /\ IdOf(top) \in Ids
         /\ Ctrl(IdOf(top)) = top.c /\ Pin(IdOf(top)) = top.n
         /\ IdOf(top) = IdAt(top.c, top.n) /\ ~Chained(top.c, top.n)
         /\ drv.started /\ drv.ready /\ 1 \in 1 .. Len(frames) /\ top = frames[1]
         /\ \A k \in 2 .. Len(frames) : \A p \in ToServe(frames[k]) :
               ~(frames[k].c = top.c /\ p = top.n)
<1> USE DEF IInv
<1>1. top = frames[1] /\ 1 \in 1 .. Len(frames) /\ Len(frames) \in Nat
  BY TopOf
<1>2. /\ top \in Frames /\ top.c \in Ctrls /\ Chosen(top) /\ Bottom \in 1 .. Len(frames)
      /\ W \in Nat \ {0} /\ sys \in Systems
  BY <1>1, FrameFacts, SystemFacts DEF TypeInv, OnStack
<1>3. top.n \in top.status /\ top.n \in Pins /\ ~Chained(top.c, top.n)
  BY <1>2 DEF Chosen, Frames
<1>4. /\ IdOf(top) \in Ids /\ Ctrl(IdOf(top)) = top.c /\ Pin(IdOf(top)) = top.n
      /\ IdOf(top) = IdAt(top.c, top.n)
  <2>1. IdOf(top) = IdAt(top.c, top.n)
    BY DEF IdOf, IdAt
  <2> QED BY <1>2, <1>3, <2>1, IdAtFacts
<1>5. top.n < top.ilr
  <2>1. CASE 1 < Bottom
    BY <1>1, <2>1 DEF Levels
  <2>2. CASE ~(1 < Bottom)
    BY <1>1, <1>2, <1>3, <2>2 DEF Levels, Pins
  <2> QED BY <2>1, <2>2
<1>6. drv.started /\ drv.ready
  BY DEF Stack, ModeInv
<1>7. ASSUME NEW k \in 2 .. Len(frames), NEW p \in ToServe(frames[k]),
             frames[k].c = top.c, p = top.n
      PROVE  FALSE
  <2>1. /\ k \in 1 .. Len(frames) /\ frames[k] \in Frames /\ Chosen(frames[k])
        /\ frames[k].pc # "scan"
    BY <1>1, FrameFacts DEF OnStack
  <2>2. p \in Pins /\ frames[k].n \in Pins /\ frames[k].n <= p
    BY <2>1 DEF ToServe, Frames, Chosen, Pins
  <2>3. CASE frames[k].pc = "chained"
    <3>1. frames[k].n = W - 1 /\ frames[k].n < p
      BY <1>7, <2>1, <2>3 DEF Chosen, Chained, ToServe
    <3> QED BY <1>2, <2>2, <3>1 DEF Pins
  <2>4. CASE frames[k].pc # "chained"
    BY <1>2, <1>3, <1>7, <2>2, <2>4, TopPriority DEF Pins
  <2> QED BY <2>3, <2>4
<1> QED BY <1>1, <1>2, <1>3, <1>4, <1>5, <1>6, <1>7

LEMMA BodyKeeps == IInv /\ Body => IInv'
<1> SUFFICES ASSUME IInv, Body PROVE IInv'
  OBVIOUS
<1> USE DEF IInv
<1> DEFINE id == IdOf(top)
           g == [top EXCEPT !.pc = "ret"]
<1>1. /\ frames # <<>> /\ top.pc = "body" /\ frames' = <<g>> \o Tail(frames)
      /\ hw' = Settled(hw, line') /\ UNCHANGED <<sys, drv, table, main, want>>
  BY DEF Body
<1>2. \/ line' = line \ {id} /\ due' = due \ {id}
      \/ line' = line /\ due' = due
  BY DEF Body
<1>3. /\ top \in Frames /\ top.c \in Ctrls /\ top.n \in Pins /\ top.n \in top.status
      /\ top.n < top.ilr /\ id = IdAt(top.c, top.n) /\ top = frames[1] /\ 1 \in 1 .. Len(frames)
      /\ \A k \in 2 .. Len(frames) : \A p \in ToServe(frames[k]) :
            ~(frames[k].c = top.c /\ p = top.n)
  BY <1>1, BodyFacts
<1>4. /\ g \in Frames /\ g.c = top.c /\ g.status = top.status /\ g.n = top.n /\ g.ilr = top.ilr
      /\ g.pc = "ret" /\ IdOf(g) = id
  BY <1>3 DEF Frames, IdOf
<1>5. Chosen(g)
  <2>1. Chosen(top)
    BY <1>3, FrameFacts
  <2> QED BY <1>1, <1>4, <2>1 DEF Chosen
<1> HIDE DEF id, g
<1>6. sys \in Systems /\ 0 \in Ctrls /\ line' \subseteq sys.level /\ hw \in [Ctrls -> Regs]
  BY <1>2, SystemFacts DEF TypeInv
<1>7. /\ hw' \in [Ctrls -> Regs]
      /\ \A c \in Ctrls : /\ hw'[c].ier = hw[c].ier /\ hw'[c].imr = hw[c].imr
                          /\ hw'[c].vec = hw[c].vec /\ hw'[c].me = hw[c].me
                          /\ hw'[c].ilr = hw[c].ilr
      /\ \A i \in sys.level : Pin(i) \in hw'[Ctrl(i)].isr =>
            Pin(i) \in hw[Ctrl(i)].isr \/ i \in line'
  BY <1>1, <1>6, SettlesDue
<1>8. /\ Stack' /\ frames' \in Seq(Frames) /\ Len(frames') = Len(frames)
      /\ Bottom' = Bottom /\ Bottom \in 1 .. Len(frames)
      /\ frames'[1] = g /\ top' = g /\ frames' # <<>> /\ Len(frames) \in Nat
      /\ \A i \in 2 .. Len(frames) : frames'[i] = frames[i]
  BY <1>1, <1>4, <1>5, <1>7, TopGoesOn
<1>9. line' \subseteq sys.level \cap due'
  BY <1>2 DEF TypeInv
<1>10. TypeInv' /\ ScriptInv' /\ EnableInv' /\ ModeInv'
  <2>1. drv.static \in Nat /\ drv' = [drv EXCEPT !.static = drv.static]
    BY <1>1 DEF TypeInv
  <2> QED BY <1>1, <1>7, <1>8, <1>9, <2>1, ProgramSame
<1>11. \A i \in 1 .. Len(frames) : frames'[i].n = frames[i].n /\ frames'[i].ilr = frames[i].ilr
                                   /\ frames'[i].c = frames[i].c /\ frames'[i].status = frames[i].status
                                   /\ (frames'[i].pc = "scan" <=> frames[i].pc = "scan")
  <2> TAKE i \in 1 .. Len(frames)
  <2>1. CASE i = 1
    BY <1>1, <1>3, <1>4, <1>8, <2>1
  <2>2. CASE i # 1
    BY <1>8, <2>2
  <2> QED BY <2>1, <2>2
<1>12. Levels'
  <2>1. hw'[0].ilr = IF sys.ilr THEN g.n ELSE g.ilr
    BY <1>1, <1>4, <1>6, <1>7 DEF Levels
  <2>2. \A i \in 1 .. Len(frames') : i < Bottom' => i + 1 \in 1 .. Len(frames)
    BY <1>8
  <2>3. \A i \in 1 .. Len(frames') : \A k \in i + 1 .. Bottom' : k \in 1 .. Len(frames)
    BY <1>8
  <2>4. ASSUME NEW i \in 1 .. Len(frames')
        PROVE  LET f == frames'[i]
               IN  /\ f.ilr = (IF i < Bottom' THEN frames'[i + 1].n ELSE W)
                   /\ i < Bottom' /\ f.pc # "scan" => f.n < f.ilr
                   /\ i < Bottom' /\ f.pc = "scan" => \E q \in f.status : q < f.ilr
                   /\ \A k \in i + 1 .. Bottom' : f.ilr <= frames'[k].n
    BY <1>8, <1>11, <2>2, <2>3 DEF Levels
  <2> QED BY <1>1, <1>4, <1>8, <2>1, <2>4 DEF Levels
<1>13. \A i \in 1 .. Len(frames') : \A p \in ToServe(frames'[i]) :
         IdAt(frames'[i].c, p) \in sys.level => IdAt(frames'[i].c, p) \in due'
  <2> SUFFICES ASSUME NEW i \in 1 .. Len(frames'), NEW p \in ToServe(frames'[i]),
                      IdAt(frames'[i].c, p) \in sys.level
               PROVE  IdAt(frames'[i].c, p) \in due'
    OBVIOUS
  <2>1. i \in 1 .. Len(frames) /\ frames'[i].c = frames[i].c /\ frames[i].c \in Ctrls
        /\ frames[i] \in Frames
    BY <1>8, <1>11, FrameFacts
  <2>2. p \in ToServe(frames[i]) /\ p \in Pins /\ ~(frames[i].c = top.c /\ p = top.n)
    <3>1. CASE i = 1
      <4>1. p \in g.status /\ p < g.ilr /\ g.n < p /\ p \in Pins
        BY <1>4, <1>8, <3>1 DEF ToServe, Frames
      <4> QED BY <1>1, <1>3, <1>4, <3>1, <4>1 DEF ToServe, Pins
    <3>2. CASE i # 1
      <4>1. frames'[i] = frames[i] /\ i \in 2 .. Len(frames)
        BY <1>8, <3>2
      <4> QED BY <1>3, <2>1, <4>1 DEF ToServe, Frames
    <3> QED BY <3>1, <3>2
  <2>3. IdAt(frames[i].c, p) \in due
    BY <2>1, <2>2 DEF DueInv
  <2>4. IdAt(frames[i].c, p) # id
    BY <1>3, <1>6, <2>1, <2>2, IdAtFacts
  <2> QED BY <1>2, <2>1, <2>3, <2>4
<1>14. ASSUME NEW i \in sys.level, Pin(i) \in hw'[Ctrl(i)].isr
       PROVE  i \in due' \/ InService(i)'
  <2>1. i = id => InService(i)'
    BY <1>4, <1>8 DEF InService, IdOf
  <2>2. InService(i) => InService(i)'
    <3> SUFFICES ASSUME InService(i) PROVE InService(i)'
      OBVIOUS
    <3>1. PICK k \in 1 .. Len(frames) : frames[k].pc = "ret" /\ IdOf(frames[k]) = i
      BY DEF InService
    <3>2. k # 1
      BY <1>1, <1>3, <3>1
    <3>3. frames'[k] = frames[k]
      BY <1>8, <3>2
    <3> QED BY <1>8, <3>1, <3>3 DEF InService, IdOf
  <2>3. i \in line' => i \in due'
    BY <1>9
  <2>4. Pin(i) \in hw[Ctrl(i)].isr => i \in due \/ InService(i)
    BY DEF DueInv
  <2> QED BY <1>2, <1>7, <1>14, <2>1, <2>2, <2>3, <2>4
<1>15. DueInv'
  <2>1. sys' = sys
    BY <1>1
  <2> QED BY <1>13, <1>14, <2>1 DEF DueInv, ToServe, IdAt, Pin, Ctrl
<1> QED BY <1>8, <1>10, <1>12, <1>15

(* The innermost handler returns to the one it interrupted.                *)
LEMMA TopReturns ==
  ASSUME TypeInv, Stack, Levels, frames # <<>>, frames' = Tail(frames), UNCHANGED sys,
         \A c \in Ctrls : hw'[c].ier = hw[c].ier /\ hw'[c].imr = hw[c].imr,
         NEW static \in Nat, drv' = [drv EXCEPT !.static = static],
         static = IF top.pc = "chained" THEN drv.static - 1 ELSE drv.static,
         hw'[0].ilr = top.ilr, sys.ilr \/ top.ilr = W,
         Bottom > 1 => top.pc # "scan"
  PROVE  /\ Stack' /\ Levels' /\ frames' \in Seq(Frames) /\ Len(frames') = Len(frames) - 1
         /\ \A i \in 1 .. Len(frames) - 1 : frames'[i] = frames[i + 1]
<1>1. top = frames[1] /\ 1 \in 1 .. Len(frames) /\ Len(frames) \in Nat /\ sys \in Systems
  BY TopOf DEF TypeInv
<1>2. /\ frames' \in Seq(Frames) /\ Len(frames') = Len(frames) - 1
      /\ \A i \in 1 .. Len(frames) - 1 : frames'[i] = frames[i + 1]
  BY PopFacts DEF TypeInv
<1>3. /\ Bottom \in 0 .. Len(frames) /\ drv.static = Len(frames) - Bottom
      /\ (top.pc = "chained" <=> Bottom = 0)
  <2>1. /\ OnStack(top, 1, Len(frames), Bottom)
        /\ Bottom \in 0 .. Len(frames) /\ drv.static = Len(frames) - Bottom
    BY <1>1, FrameFacts
  <2> QED BY ONLY <1>1, <2>1 DEF OnStack
<1>4. drv'.static = static /\ drv'.started = drv.started
  BY DEF TypeInv
<1>5. Bottom' = IF Bottom = 0 THEN 0 ELSE Bottom - 1
  BY <1>1, <1>2, <1>3, <1>4 DEF Bottom
<1>6. ASSUME NEW i \in 1 .. Len(frames')
      PROVE  /\ i + 1 \in 1 .. Len(frames) /\ frames'[i] = frames[i + 1]
             /\ OnStack(frames'[i], i, Len(frames'), Bottom')
             /\ Chosen(frames'[i]) /\ Reads(frames'[i])
  <2>1. i + 1 \in 1 .. Len(frames) /\ frames'[i] = frames[i + 1]
    BY <1>1, <1>2
  <2>2. OnStack(frames[i + 1], i + 1, Len(frames), Bottom) /\ Chosen(frames[i + 1]) /\ Reads(frames[i + 1])
    BY <2>1, FrameFacts
  <2>3. /\ (i < Bottom' <=> i + 1 < Bottom) /\ (i > Bottom' <=> i + 1 > Bottom)
        /\ Len(frames') - i = Len(frames) - (i + 1) /\ i + 1 > 1
    BY ONLY <1>1, <1>2, <1>3, <1>5, <2>1
  <2>4. OnStack(frames[i + 1], i, Len(frames'), Bottom')
    BY ONLY <2>2, <2>3 DEF OnStack
  <2> QED BY <2>1, <2>2, <2>4
<1>7. Stack'
  <2>1. drv.static < sys.ctrls /\ drv.started /\ (~sys.ilr => Bottom <= 1) /\ drv.static \in Nat
    BY DEF TypeInv, Stack
  <2>2. static < sys.ctrls /\ Bottom' \in 0 .. Len(frames') /\ (~sys.ilr => Bottom' <= 1)
    BY <1>1, <1>2, <1>3, <1>5, <2>1, SystemFacts
  <2> QED BY <1>2, <1>4, <1>6, <2>1, <2>2, StackStep
<1>8. Levels'
  <2>1. ASSUME NEW i \in 1 .. Len(frames')
        PROVE  LET f == frames'[i]
               IN  /\ f.ilr = (IF i < Bottom' THEN frames'[i + 1].n ELSE W)
                   /\ i < Bottom' /\ f.pc # "scan" => f.n < f.ilr
                   /\ i < Bottom' /\ f.pc = "scan" => \E q \in f.status : q < f.ilr
                   /\ \A k \in i + 1 .. Bottom' : f.ilr <= frames'[k].n
    <3>1. i + 1 \in 1 .. Len(frames) /\ frames'[i] = frames[i + 1]
      BY <1>6
    <3>2. i < Bottom' => i + 1 < Bottom /\ frames'[i + 1] = frames[i + 2]
      BY <1>1, <1>2, <1>3, <1>5, <3>1
    <3>3. ~(i < Bottom') => ~(i + 1 < Bottom)
      BY <1>1, <1>3, <1>5, <3>1
    <3>4. \A k \in i + 1 .. Bottom' : k + 1 \in i + 2 .. Bottom /\ frames'[k] = frames[k + 1]
      BY <1>1, <1>2, <1>3, <1>5, <3>1
    <3>5. LET f == frames[i + 1]
          IN  /\ f.ilr = (IF i + 1 < Bottom THEN frames[i + 2].n ELSE W)
              /\ i + 1 < Bottom /\ f.pc # "scan" => f.n < f.ilr
              /\ i + 1 < Bottom /\ f.pc = "scan" => \E q \in f.status : q < f.ilr
              /\ \A k \in i + 2 .. Bottom : f.ilr <= frames[k].n
      BY <1>1, <3>1 DEF Levels
    <3> QED BY <3>1, <3>2, <3>3, <3>4, <3>5
  <2>2. hw'[0].ilr = IF frames' = <<>> THEN W
                     ELSE IF sys.ilr /\ top'.pc \in {"body", "ret"} THEN top'.n ELSE top'.ilr
    <3>1. top.ilr = (IF 1 < Bottom THEN frames[2].n ELSE W)
      BY <1>1 DEF Levels
    <3>2. CASE frames' = <<>>
      <4>1. Len(frames) = 1
        <5>1. Len(frames') = 0
          BY ONLY <3>2
        <5> QED BY ONLY <1>1, <1>2, <5>1
      <4>2. ~(1 < Bottom)
        BY <4>1, <1>3
      <4> QED BY <3>1, <3>2, <4>2
    <3>3. CASE frames' # <<>>
      <4>1. Len(frames') # 0
        BY <1>2, <3>3, EmptySeq
      <4>2. 2 \in 1 .. Len(frames) /\ frames'[1] = frames[2]
        BY <1>1, <1>2, <4>1
      <4>3. top' = frames[2]
        BY <3>3, <4>2 DEF top
      <4>4. OnStack(frames[2], 2, Len(frames), Bottom) /\ frames[2] \in Frames
        BY <4>2, FrameFacts
      <4>5. CASE 1 < Bottom
        <5>1. frames[2].pc \in {"body", "ret"} /\ sys.ilr
          BY <1>3, <4>4, <4>5, SystemFacts, <1>1 DEF OnStack, Frames, Stack
        <5> QED BY <3>1, <3>3, <4>3, <4>5, <5>1
      <4>6. CASE ~(1 < Bottom)
        <5>1. frames[2].pc = "chained"
          BY <1>3, <4>4, <4>6 DEF OnStack
        <5>2. frames[2].ilr = W
          BY <1>3, <4>2, <4>6 DEF Levels
        <5> QED BY <3>1, <3>3, <4>3, <4>6, <5>1, <5>2
      <4> QED BY <4>5, <4>6
    <3> QED BY <3>2, <3>3
  <2>3. sys' = sys
    OBVIOUS
  <2> QED BY <2>1, <2>2, <2>3 DEF Levels
<1> QED BY <1>2, <1>7, <1>8

LEMMA LeaveKeeps == IInv /\ Leave => IInv'
<1> SUFFICES ASSUME IInv, Leave PROVE IInv'
  OBVIOUS
<1> USE DEF IInv
<1>1. /\ frames # <<>> /\ top.pc = "scan" /\ top.status = {} /\ frames' = Tail(frames)
      /\ UNCHANGED <<sys, hw, line, due, drv, table, main, want>>
  BY DEF Leave, core
<1>2. top = frames[1] /\ 1 \in 1 .. Len(frames) /\ Len(frames) \in Nat
  BY <1>1, TopOf
<1>3. ~(1 < Bottom)
  BY <1>1, <1>2 DEF Levels
<1>4. top.ilr = W /\ hw'[0].ilr = top.ilr
  BY <1>1, <1>2, <1>3 DEF Levels
<1>5. Bottom \in 0 .. Len(frames) /\ drv.static \in Nat /\ drv' = [drv EXCEPT !.static = drv.static]
  BY <1>1, <1>2, FrameFacts DEF TypeInv
<1>6. /\ Stack' /\ Levels' /\ frames' \in Seq(Frames) /\ Len(frames') = Len(frames) - 1
      /\ \A i \in 1 .. Len(frames) - 1 : frames'[i] = frames[i + 1]
  BY <1>1, <1>3, <1>4, <1>5, TopReturns
<1>7. TypeInv' /\ ScriptInv' /\ EnableInv' /\ ModeInv'
  <2>1. hw' \in [Ctrls -> Regs] /\ line' \subseteq sys.level \cap due'
    BY <1>1 DEF TypeInv
  <2> QED BY <1>1, <1>5, <1>6, <2>1, ProgramSame
<1>8. DueInv'
  <2>1. ASSUME NEW i \in sys.level, InService(i) PROVE InService(i)'
    <3>1. PICK k \in 1 .. Len(frames) : frames[k].pc = "ret" /\ IdOf(frames[k]) = i
      BY <2>1 DEF InService
    <3>2. k - 1 \in 1 .. Len(frames) - 1
      BY <1>1, <1>2, <3>1
    <3>3. frames'[k - 1] = frames[k] /\ k - 1 \in 1 .. Len(frames')
      BY <1>2, <1>6, <3>2
    <3> QED BY <3>1, <3>3 DEF InService, IdOf
  <2>2. ASSUME NEW i \in 1 .. Len(frames') PROVE i + 1 \in 1 .. Len(frames) /\ frames'[i] = frames[i + 1]
    BY <1>2, <1>6
  <2> QED BY <1>1, <2>1, <2>2 DEF DueInv, ToServe, IdAt, Pin, Ctrl
<1> QED BY <1>6, <1>7, <1>8

(* A device's event: a line, or a pulse.                                   *)
LEMMA DeviceKeeps == IInv /\ Device => IInv'
<1> SUFFICES ASSUME IInv, Device PROVE IInv'
  OBVIOUS
<1> USE DEF IInv
<1>1. PICK id \in Sources : Event(id)
  BY DEF Device
<1>2. UNCHANGED <<sys, drv, table, main, frames, want>>
  BY DEF Device
<1>3. sys \in Systems /\ id \in Ids /\ hw \in [Ctrls -> Regs] /\ frames \in Seq(Frames)
  BY SystemFacts DEF TypeInv
<1>4. Ctrl(id) \in Ctrls /\ Pin(id) \in Pins /\ IdAt(Ctrl(id), Pin(id)) = id
  BY <1>3, IdFacts
<1> DEFINE h == IF id \in sys.edge /\ line' = line
                THEN [hw EXCEPT ![Ctrl(id)].isr = @ \cup {Pin(id)}] ELSE hw
<1>5. /\ due' = due \cup {id} /\ line' \subseteq sys.level \cap due' /\ line \subseteq line'
      /\ hw' = Settled(h, line')
  <2>1. sys.level \cap sys.edge = {} /\ line \subseteq sys.level \cap due
    BY <1>3, SystemFacts DEF TypeInv
  <2>2. CASE id \in sys.level \ line /\ line' = line \cup {id}
    <3>1. due' = due \cup {id} /\ hw' = Settled(hw, line')
      BY <1>1, <2>1, <2>2 DEF Event
    <3> QED BY <2>1, <2>2, <3>1
  <2>3. CASE id \in sys.edge /\ line' = line
    <3>1. /\ due' = due \cup {id}
          /\ hw' = Settled([hw EXCEPT ![Ctrl(id)].isr = @ \cup {Pin(id)}], line)
      BY <1>1, <2>1, <2>3 DEF Event
    <3> QED BY <2>1, <2>3, <3>1
  <2> QED BY <1>1, <2>2, <2>3 DEF Event
<1>6. /\ h \in [Ctrls -> Regs]
      /\ \A c \in Ctrls : /\ h[c].ier = hw[c].ier /\ h[c].imr = hw[c].imr
                          /\ h[c].vec = hw[c].vec /\ h[c].ilr = hw[c].ilr /\ h[c].me = hw[c].me
                          /\ \A p \in h[c].isr : p \in hw[c].isr \/ (c = Ctrl(id) /\ p = Pin(id))
  BY <1>3, <1>4 DEF Regs
<1> HIDE DEF h
<1>7. /\ hw' \in [Ctrls -> Regs]
      /\ \A c \in Ctrls : /\ hw'[c].ier = h[c].ier /\ hw'[c].imr = h[c].imr
                          /\ hw'[c].vec = h[c].vec /\ hw'[c].me = h[c].me
                          /\ hw'[c].ilr = h[c].ilr
      /\ \A i \in sys.level : Pin(i) \in hw'[Ctrl(i)].isr =>
            Pin(i) \in h[Ctrl(i)].isr \/ i \in line'
  BY <1>3, <1>5, <1>6, SettlesDue
<1>8. \A c \in Ctrls : /\ hw'[c].ier = hw[c].ier /\ hw'[c].imr = hw[c].imr
                       /\ hw'[c].vec = hw[c].vec /\ hw'[c].me = hw[c].me
                       /\ hw'[c].ilr = hw[c].ilr
  BY <1>6, <1>7
<1>9. TypeInv' /\ ScriptInv' /\ EnableInv' /\ ModeInv'
  <2>1. drv.static \in Nat /\ drv' = [drv EXCEPT !.static = drv.static]
    BY <1>2 DEF TypeInv
  <2> QED BY <1>2, <1>3, <1>5, <1>7, <1>8, <2>1, ProgramSame
<1>10. Stack' /\ Levels'
  BY <1>2, <1>8, SameFrames
<1>11. ASSUME NEW i \in sys.level, Pin(i) \in hw'[Ctrl(i)].isr
       PROVE  i \in due' \/ InService(i)
  <2>1. Ctrl(i) \in Ctrls /\ IdAt(Ctrl(i), Pin(i)) = i
    BY LevelFacts
  <2>2. Pin(i) \in hw[Ctrl(i)].isr \/ i = id \/ i \in line'
    BY <1>4, <1>6, <1>7, <1>11, <2>1
  <2> QED BY <1>5, <2>2 DEF DueInv
<1>12. DueInv'
  BY <1>2, <1>5, <1>11 DEF DueInv, InService, IdOf, ToServe, IdAt, Ctrl, Pin
<1> QED BY <1>9, <1>10, <1>12

(* A handler begins: on the first controller, above what it interrupts.    *)
LEMMA EntersAbove ==
  ASSUME IInv, Interruptible, drv.started, NEW f \in Frames, frames' = <<f>> \o frames,
         f.c = 0, f.pc = "scan", f.ilr = hw[0].ilr, Reads(f),
         \E q \in f.status : q < f.ilr,
         UNCHANGED <<sys, drv>>,
         \A c \in Ctrls : /\ hw'[c].ier = hw[c].ier /\ hw'[c].imr = hw[c].imr
                          /\ hw'[c].ilr = hw[c].ilr
  PROVE  /\ Stack' /\ Levels' /\ frames' \in Seq(Frames) /\ Len(frames') = Len(frames) + 1
         /\ frames'[1] = f /\ Len(frames) \in Nat
         /\ \A i \in 2 .. Len(frames) + 1 : frames'[i] = frames[i - 1]
         /\ \A k \in 1 .. Len(frames) : frames[k].pc = "ret" => f.ilr <= frames[k].n
<1> USE DEF IInv
<1>1. /\ frames' \in Seq(Frames) /\ Len(frames') = Len(frames) + 1 /\ frames'[1] = f
      /\ frames' # <<>> /\ Len(frames) \in Nat
      /\ \A i \in 2 .. Len(frames) + 1 : frames'[i] = frames[i - 1]
  BY PushFacts DEF TypeInv
<1>2. Bottom' = Bottom + 1 /\ Bottom \in 0 .. Len(frames)
  BY <1>1 DEF Bottom, Stack, TypeInv
<1>3. /\ frames = <<>> => Len(frames) = 0 /\ Bottom = 0 /\ f.ilr = W
      /\ frames # <<>> => /\ sys.ilr /\ top = frames[1] /\ 1 \in 1 .. Len(frames)
                          /\ top.pc \in {"body", "ret"} /\ f.ilr = top.n /\ Bottom >= 1
  <2>1. CASE frames = <<>>
    <3>1. Len(frames) = 0
      BY ONLY <2>1
    <3> QED BY <1>2, <2>1, <3>1 DEF Levels
  <2>2. CASE frames # <<>>
    <3>1. sys.ilr /\ top.pc \in {"body", "ret"}
      BY <2>2 DEF Interruptible
    <3>2. top = frames[1] /\ 1 \in 1 .. Len(frames)
      BY <2>2, TopOf
    <3>3. OnStack(top, 1, Len(frames), Bottom)
      BY <3>2, FrameFacts
    <3> QED BY <1>2, <2>2, <3>1, <3>2, <3>3 DEF OnStack, Levels
  <2> QED BY <2>1, <2>2
<1>4. ASSUME NEW k \in 1 .. Len(frames), k <= Bottom
      PROVE  f.ilr <= frames[k].n
  <2>1. /\ frames # <<>> /\ frames[k] \in Frames /\ top \in Frames
        /\ frames[k].pc # "chained"
    BY <1>1, <1>2, <1>3, <1>4, FrameFacts DEF OnStack
  <2>2. f.ilr = top.n /\ top = frames[1] /\ top.pc # "scan" /\ top.n \in Nat
    BY <1>3, <2>1 DEF Frames
  <2>3. CASE k = 1
    BY <2>2, <2>3
  <2>4. CASE k # 1
    <3>1. top.n < frames[k].n
      BY <1>1, <1>4, <2>1, <2>2, <2>4, TopPriority
    <3> QED BY <2>1, <2>2, <3>1 DEF Frames
  <2> QED BY <2>3, <2>4
<1>5. \A k \in 1 .. Len(frames) : frames[k].pc = "ret" => f.ilr <= frames[k].n
  BY <1>1, <1>2, <1>4, FrameFacts DEF OnStack
<1>6. ASSUME NEW i \in 1 .. Len(frames')
      PROVE  /\ OnStack(frames'[i], i, Len(frames'), Bottom')
             /\ Chosen(frames'[i]) /\ Reads(frames'[i])
  <2>1. CASE i = 1
    <3>1. OnStack(f, 1, Len(frames'), Bottom')
      BY <1>1, <1>2, <1>3 DEF OnStack
    <3> QED BY <1>1, <2>1, <3>1 DEF Chosen
  <2>2. CASE i # 1
    <3>1. /\ i - 1 \in 1 .. Len(frames) /\ frames'[i] = frames[i - 1]
          /\ (i < Bottom' <=> i - 1 < Bottom) /\ (i > Bottom' <=> i - 1 > Bottom)
          /\ Len(frames') - i = Len(frames) - (i - 1)
      BY <1>1, <1>2, <2>2
    <3>2. /\ OnStack(frames[i - 1], i - 1, Len(frames), Bottom)
          /\ Chosen(frames[i - 1]) /\ Reads(frames[i - 1])
      BY <3>1, FrameFacts
    <3>3. frames[i - 1].pc # "scan"
      <4>1. CASE i - 1 = 1
        <5>1. frames # <<>>
          BY <3>1, <1>1, <4>1
        <5> QED BY <1>3, <4>1, <5>1
      <4>2. CASE i - 1 # 1
        BY <3>1, <3>2, <4>2 DEF OnStack
      <4> QED BY <4>1, <4>2
    <3>4. OnStack(frames[i - 1], i, Len(frames'), Bottom')
      BY ONLY <3>1, <3>2, <3>3 DEF OnStack
    <3> QED BY <3>1, <3>2, <3>4
  <2> QED BY <2>1, <2>2
<1>7. Stack'
  <2>1. drv.static \in Nat /\ drv.static < sys.ctrls
    BY DEF TypeInv, Stack
  <2>2. Bottom' \in 0 .. Len(frames') /\ (~sys.ilr => Bottom' <= 1)
    BY <1>1, <1>2, <1>3
  <2> QED BY <1>1, <1>6, <2>1, <2>2, StackStep
<1>8. ASSUME NEW i \in 1 .. Len(frames')
      PROVE  LET g == frames'[i]
             IN  /\ g.ilr = (IF i < Bottom' THEN frames'[i + 1].n ELSE W)
                 /\ i < Bottom' /\ g.pc # "scan" => g.n < g.ilr
                 /\ i < Bottom' /\ g.pc = "scan" => \E q \in g.status : q < g.ilr
                 /\ \A k \in i + 1 .. Bottom' : g.ilr <= frames'[k].n
  <2>1. CASE i = 1
    <3>1. f.ilr = (IF 1 < Bottom' THEN frames'[2].n ELSE W)
      <4>1. CASE frames = <<>>
        <5>1. ~(1 < Bottom') /\ f.ilr = W
          BY ONLY <1>2, <1>3, <4>1
        <5> QED BY ONLY <5>1
      <4>2. CASE frames # <<>>
        <5>1. frames'[2] = frames[1] /\ 1 < Bottom'
          BY ONLY <1>1, <1>2, <1>3, <4>2
        <5> QED BY <1>3, <4>2, <5>1
      <4> QED BY <4>1, <4>2
    <3>2. ASSUME NEW k \in 2 .. Bottom' PROVE f.ilr <= frames'[k].n
      <4>1. k - 1 \in 1 .. Len(frames) /\ k - 1 <= Bottom /\ frames'[k] = frames[k - 1]
        BY <1>1, <1>2
      <4> QED BY <1>4, <4>1
    <3>3. frames'[i] = f /\ i + 1 = 2
      BY <1>1, <2>1
    <3> QED BY ONLY <2>1, <3>1, <3>2, <3>3, f.pc = "scan", \E q \in f.status : q < f.ilr
  <2>2. CASE i # 1
    <3>1. /\ i - 1 \in 1 .. Len(frames) /\ frames'[i] = frames[i - 1]
          /\ (i < Bottom' <=> i - 1 < Bottom)
      BY <1>1, <1>2, <2>2
    <3>2. i < Bottom' => frames'[i + 1] = frames[i]
      BY <1>1, <1>2, <3>1
    <3>3. \A k \in i + 1 .. Bottom' : k - 1 \in i .. Bottom /\ frames'[k] = frames[k - 1]
      BY <1>1, <1>2, <3>1
    <3>4. LET g == frames[i - 1]
          IN  /\ g.ilr = (IF i - 1 < Bottom THEN frames[(i - 1) + 1].n ELSE W)
              /\ i - 1 < Bottom /\ g.pc # "scan" => g.n < g.ilr
              /\ i - 1 < Bottom /\ g.pc = "scan" => \E q \in g.status : q < g.ilr
              /\ \A k \in (i - 1) + 1 .. Bottom : g.ilr <= frames[k].n
      BY <3>1 DEF Levels
    <3> DEFINE g == frames[i - 1]
    <3>5. (i - 1) + 1 = i
      BY <3>1
    <3>6. g.ilr = (IF i < Bottom' THEN frames'[i + 1].n ELSE W)
      BY ONLY <3>1, <3>2, <3>4, <3>5
    <3>7. \A k \in i + 1 .. Bottom' : g.ilr <= frames'[k].n
      BY ONLY <3>3, <3>4, <3>5
    <3>8. /\ i < Bottom' /\ g.pc # "scan" => g.n < g.ilr
          /\ i < Bottom' /\ g.pc = "scan" => \E q \in g.status : q < g.ilr
      BY ONLY <3>1, <3>4
    <3> HIDE DEF g
    <3>9. frames'[i] = g
      BY <3>1 DEF g
    <3> QED BY ONLY <3>6, <3>7, <3>8, <3>9
  <2> QED BY <2>1, <2>2
<1>9. Levels'
  <2>1. top' = f /\ hw'[0].ilr = f.ilr /\ sys' = sys
    <3>1. 0 \in Ctrls
      BY MainType, SystemFacts
    <3> QED BY <1>1, <3>1 DEF top
  <2> QED BY <1>1, <1>8, <2>1 DEF Levels
<1> QED BY <1>1, <1>5, <1>7, <1>9

(* A handler in service is in service after others have been put above it. *)
LEMMA StaysInService ==
  ASSUME NEW d \in Nat, NEW i, InService(i),
         \A k \in 1 .. Len(frames) : frames[k].pc = "ret" =>
            k + d \in 1 .. Len(frames') /\ frames'[k + d] = frames[k]
  PROVE  InService(i)'
<1>1. PICK k \in 1 .. Len(frames) : frames[k].pc = "ret" /\ IdOf(frames[k]) = i
  BY DEF InService
<1>2. k + d \in 1 .. Len(frames') /\ frames'[k + d] = frames[k]
  BY <1>1
<1> QED BY <1>1, <1>2 DEF InService, IdOf

LEMMA EnterFacts ==
  ASSUME IInv, Enter, NEW p, p = Lowest(Asserted(hw[0]))
  PROVE  /\ p \in Pins /\ p \in hw[0].isr \cap hw[0].ier /\ p < hw[0].ilr
         /\ drv.started /\ Interruptible
         /\ p \in Ids /\ Ctrl(p) = 0 /\ Pin(p) = p /\ IdAt(0, p) = p
         /\ UNCHANGED <<sys, drv, table, main, want>>
         /\ \/ /\ p \in hw[0].imr
               /\ line' = line \ {p} /\ due' = due \ {p} /\ frames' = frames
               /\ hw' = Settled(Acked(hw, 0, {p}), line')
            \/ /\ p \notin hw[0].imr
               /\ line' = line /\ due' = due /\ hw' = Settled(hw, line')
               /\ \/ Status(hw', 0) = {} /\ frames' = frames
                  \/ Status(hw', 0) # {} /\ frames' = <<Frame(hw', 0)>> \o frames
<1> USE DEF IInv
<1>1. 0 \in Ctrls /\ sys \in Systems /\ hw[0] \in Regs /\ W \in Nat \ {0}
  BY SystemFacts DEF TypeInv
<1>2. Asserted(hw[0]) # {} /\ hw[0].me
  BY DEF Enter, Irq
<1>3. Asserted(hw[0]) \in SUBSET Nat
  BY <1>1 DEF Asserted, Regs, Pins
<1>4. p \in Asserted(hw[0])
  BY <1>2, <1>3, LowestFacts
<1>5. p \in Pins /\ p \in hw[0].isr \cap hw[0].ier /\ p < hw[0].ilr
  BY <1>1, <1>4 DEF Asserted, Regs
<1>6. IdAt(0, p) = p
  BY <1>1, <1>5 DEF IdAt, Pins
<1>7. p \in Ids /\ Ctrl(p) = 0 /\ Pin(p) = p
  BY <1>1, <1>5, <1>6, IdAtFacts
<1>8. p \in hw[0].imr => p \in hw[0].vec
  BY DEF ModeInv
<1>9. drv.started /\ Interruptible
  BY <1>2 DEF ModeInv, Enter
<1>10. UNCHANGED <<sys, drv, table, main, want>>
  BY DEF Enter
<1> DEFINE own == p \in hw[0].imr /\ p \in hw[0].vec
<1>13. /\ line' = IF own THEN line \ {p} ELSE line
       /\ due' = IF own THEN due \ {p} ELSE due
       /\ hw' = Settled(IF p \in hw[0].imr THEN Acked(hw, 0, {p}) ELSE hw, line')
       /\ frames' = IF own \/ Status(hw', 0) = {} THEN frames ELSE <<Frame(hw', 0)>> \o frames
  BY Zenon DEF Enter
<1> DEFINE h == IF p \in hw[0].imr THEN Acked(hw, 0, {p}) ELSE hw
           new == <<Frame(hw', 0)>> \o frames
           none == Status(hw', 0) = {}
<1>14. (p \in hw[0].imr => h = Acked(hw, 0, {p})) /\ (p \notin hw[0].imr => h = hw)
  OBVIOUS
<1>15. hw' = Settled(h, line') /\ frames' = IF own \/ none THEN frames ELSE new
  BY <1>13
<1> HIDE DEF h, new, none
<1>11. CASE p \in hw[0].imr
  <2>1. own /\ h = Acked(hw, 0, {p})
    BY <1>8, <1>11, <1>14
  <2>2. line' = line \ {p} /\ due' = due \ {p} /\ frames' = frames /\ hw' = Settled(h, line')
    BY ONLY <1>13, <1>15, <2>1
  <2> QED BY <1>5, <1>6, <1>7, <1>9, <1>10, <1>11, <2>1, <2>2
<1>12. CASE p \notin hw[0].imr
  <2>1. ~own /\ h = hw
    BY <1>12, <1>14
  <2>2. /\ line' = line /\ due' = due /\ hw' = Settled(h, line')
        /\ frames' = IF none THEN frames ELSE new
    BY ONLY <1>13, <1>15, <2>1
  <2>3. \/ none /\ frames' = frames
        \/ ~none /\ frames' = new
    BY ONLY <2>2
  <2> QED BY <1>5, <1>6, <1>7, <1>9, <1>10, <1>12, <2>1, <2>2, <2>3 DEF new, none
<1> QED BY <1>11, <1>12

LEMMA EnterKeeps == IInv /\ Enter => IInv'
<1> SUFFICES ASSUME IInv, Enter PROVE IInv'
  OBVIOUS
<1> USE DEF IInv
<1> DEFINE p == Lowest(Asserted(hw[0]))
<1>1. /\ p \in Pins /\ p \in hw[0].isr \cap hw[0].ier /\ p < hw[0].ilr
      /\ drv.started /\ Interruptible
      /\ p \in Ids /\ Ctrl(p) = 0 /\ Pin(p) = p /\ IdAt(0, p) = p
      /\ UNCHANGED <<sys, drv, table, main, want>>
      /\ \/ /\ p \in hw[0].imr
            /\ line' = line \ {p} /\ due' = due \ {p} /\ frames' = frames
            /\ hw' = Settled(Acked(hw, 0, {p}), line')
         \/ /\ p \notin hw[0].imr
            /\ line' = line /\ due' = due /\ hw' = Settled(hw, line')
            /\ \/ Status(hw', 0) = {} /\ frames' = frames
               \/ Status(hw', 0) # {} /\ frames' = <<Frame(hw', 0)>> \o frames
  BY EnterFacts
<1> HIDE DEF p
<1> DEFINE h == IF p \in hw[0].imr THEN Acked(hw, 0, {p}) ELSE hw
<1>2. sys \in Systems /\ 0 \in Ctrls /\ hw \in [Ctrls -> Regs] /\ W \in Nat \ {0}
  BY SystemFacts DEF TypeInv
<1>3. /\ h \in [Ctrls -> Regs]
      /\ \A c \in Ctrls : /\ h[c].ier = hw[c].ier /\ h[c].imr = hw[c].imr
                          /\ h[c].vec = hw[c].vec /\ h[c].ilr = hw[c].ilr
                          /\ h[c].me = hw[c].me /\ h[c].isr \subseteq hw[c].isr
      /\ p \in hw[0].imr => p \notin h[0].isr
      /\ p \notin hw[0].imr => h = hw
  BY <1>2 DEF Acked, Regs
<1>4. hw' = Settled(h, line') /\ line' \subseteq sys.level \cap due' /\ line' \subseteq sys.level
  BY <1>1 DEF TypeInv
<1> HIDE DEF h
<1>5. /\ hw' \in [Ctrls -> Regs]
      /\ \A c \in Ctrls : /\ hw'[c].ier = h[c].ier /\ hw'[c].imr = h[c].imr
                          /\ hw'[c].vec = h[c].vec /\ hw'[c].me = h[c].me
                          /\ hw'[c].ilr = h[c].ilr /\ h[c].isr \subseteq hw'[c].isr
      /\ \A i \in sys.level : Pin(i) \in hw'[Ctrl(i)].isr =>
            Pin(i) \in h[Ctrl(i)].isr \/ i \in line'
  BY <1>2, <1>3, <1>4, SettlesDue
<1>6. \A c \in Ctrls : /\ hw'[c].ier = hw[c].ier /\ hw'[c].imr = hw[c].imr
                       /\ hw'[c].vec = hw[c].vec /\ hw'[c].me = hw[c].me
                       /\ hw'[c].ilr = hw[c].ilr
  BY <1>3, <1>5
<1>7. frames' \in Seq(Frames) => TypeInv' /\ ScriptInv' /\ EnableInv' /\ ModeInv'
  <2>1. drv.static \in Nat /\ drv' = [drv EXCEPT !.static = drv.static]
    BY <1>1 DEF TypeInv
  <2> QED BY <1>1, <1>4, <1>5, <1>6, <2>1, ProgramSame
<1>8. ASSUME NEW i \in sys.level, Pin(i) \in hw'[Ctrl(i)].isr
      PROVE  i \in due' \/ InService(i)
  <2>1. i \in due' \/ Pin(i) \in h[Ctrl(i)].isr
    BY <1>4, <1>5, <1>8
  <2>2. Ctrl(i) \in Ctrls /\ IdAt(Ctrl(i), Pin(i)) = i
    BY LevelFacts
  <2>3. Pin(i) \in h[Ctrl(i)].isr => i \in due \/ InService(i)
    BY <1>3, <2>2 DEF DueInv
  <2>4. Pin(i) \in h[Ctrl(i)].isr /\ p \in hw[0].imr => i # p
    BY <1>1, <1>3
  <2> QED BY <1>1, <2>1, <2>3, <2>4
<1>9. ASSUME NEW k \in 1 .. Len(frames), NEW q \in ToServe(frames[k]),
             IdAt(frames[k].c, q) \in sys.level
      PROVE  IdAt(frames[k].c, q) \in due'
  <2>1. /\ frames[k] \in Frames /\ frames[k].c \in Ctrls /\ Reads(frames[k])
        /\ q \in frames[k].status /\ q \in Pins
    BY FrameFacts DEF ToServe, Frames
  <2>2. IdAt(frames[k].c, q) \in due
    BY <1>9 DEF DueInv
  <2>3. p \in hw[0].imr => IdAt(frames[k].c, q) # p
    <3> SUFFICES ASSUME p \in hw[0].imr, IdAt(frames[k].c, q) = p PROVE FALSE
      OBVIOUS
    <3>1. frames[k].c = 0 /\ q = p
      BY <1>1, <1>2, <2>1, IdAtFacts
    <3> QED BY <2>1, <3>1 DEF Reads
  <2> QED BY <1>1, <2>2, <2>3
<1>10. CASE frames' = frames
  <2>1. Stack' /\ Levels'
    BY <1>1, <1>6, <1>10, SameFrames
  <2>2. DueInv'
    BY <1>1, <1>8, <1>9, <1>10 DEF DueInv, InService, IdOf, ToServe, IdAt, Ctrl, Pin
  <2> QED BY <1>7, <1>10, <2>1, <2>2 DEF TypeInv
<1>11. CASE /\ p \notin hw[0].imr /\ Status(hw', 0) # {}
            /\ frames' = <<Frame(hw', 0)>> \o frames
  <2> DEFINE f == Frame(hw', 0)
             st == Status(hw', 0)
  <2>1. /\ st \in SUBSET Pins /\ st \subseteq hw[0].ier /\ st \subseteq hw'[0].isr
        /\ st \cap hw[0].imr = {}
    <3>1. /\ hw'[0] \in Regs /\ hw'[0].ier = hw[0].ier /\ hw'[0].imr = hw[0].imr
      BY <1>2, <1>5, <1>6
    <3>2. ~sys.fast => hw[0].imr = {}
      BY DEF ModeInv
    <3> QED BY <3>1, <3>2 DEF Status, Regs
  <2>2. p \in st
    <3>1. p \in hw'[0].isr /\ p \in hw'[0].ier /\ p \notin hw'[0].imr
      BY <1>1, <1>2, <1>3, <1>5, <1>6, <1>11
    <3> QED BY <3>1 DEF Status
  <2> HIDE DEF st
  <2>3. /\ f \in Frames /\ f.c = 0 /\ f.pc = "scan" /\ f.ilr = hw[0].ilr /\ f.status = st
    <3>1. f = [c |-> 0, status |-> st, n |-> 0, pc |-> "scan", ilr |-> hw'[0].ilr]
      BY DEF Frame, st
    <3>2. hw'[0].ilr = hw[0].ilr /\ hw'[0].ilr \in 0 .. W
      BY <1>2, <1>5, <1>6 DEF Regs
    <3> QED BY <2>1, <3>1, <3>2 DEF Frames
  <2>4. frames' = <<f>> \o frames
    BY <1>11
  <2> HIDE DEF f
  <2>5. Reads(f) /\ \E q \in f.status : q < f.ilr
    BY <1>1, <2>1, <2>2, <2>3 DEF Reads
  <2>6. /\ Stack' /\ Levels' /\ frames' \in Seq(Frames) /\ Len(frames') = Len(frames) + 1
        /\ frames'[1] = f /\ Len(frames) \in Nat
        /\ \A i \in 2 .. Len(frames) + 1 : frames'[i] = frames[i - 1]
        /\ \A k \in 1 .. Len(frames) : frames[k].pc = "ret" => f.ilr <= frames[k].n
    BY <1>1, <1>6, <2>3, <2>4, <2>5, EntersAbove
  <2>7. due' = due
    BY <1>1, <1>11
  <2>8. ASSUME NEW i, InService(i) PROVE InService(i)'
    <3>1. \A k \in 1 .. Len(frames) : k + 1 \in 1 .. Len(frames') /\ frames'[k + 1] = frames[k]
      BY <2>6
    <3>2. 1 \in Nat
      OBVIOUS
    <3> QED BY <2>8, <3>1, <3>2, StaysInService
  <2>9. ASSUME NEW q \in ToServe(f), IdAt(0, q) \in sys.level PROVE IdAt(0, q) \in due'
    <3>1. q \in st /\ q \in Pins /\ q < f.ilr
      BY <2>1, <2>3 DEF ToServe
    <3>2. Ctrl(IdAt(0, q)) = 0 /\ Pin(IdAt(0, q)) = q
      BY <1>2, <3>1, IdAtFacts
    <3>3. IdAt(0, q) \in due' \/ InService(IdAt(0, q))
      BY <1>8, <2>1, <2>9, <3>1, <3>2
    <3>4. ~InService(IdAt(0, q))
      <4> SUFFICES ASSUME NEW k \in 1 .. Len(frames), frames[k].pc = "ret",
                          IdOf(frames[k]) = IdAt(0, q)
                   PROVE  FALSE
        BY DEF InService
      <4>1. /\ frames[k] \in Frames /\ frames[k].c \in Ctrls /\ Chosen(frames[k])
            /\ f.ilr <= frames[k].n
        BY <2>6, FrameFacts
      <4>2. frames[k].n \in Pins
        BY <4>1 DEF Chosen, Frames
      <4>3. IdOf(frames[k]) = IdAt(frames[k].c, frames[k].n)
        BY DEF IdOf, IdAt
      <4>4. frames[k].n = q
        BY <1>2, <3>2, <4>1, <4>2, <4>3, IdAtFacts
      <4> QED BY <1>2, <2>3, <3>1, <4>1, <4>2, <4>4 DEF Frames, Pins
    <3> QED BY <3>3, <3>4
  <2>10. ASSUME NEW k \in 1 .. Len(frames'), NEW q \in ToServe(frames'[k]),
                IdAt(frames'[k].c, q) \in sys.level
         PROVE  IdAt(frames'[k].c, q) \in due'
    <3>1. CASE k = 1
      BY <2>3, <2>6, <2>9, <2>10, <3>1
    <3>2. CASE k # 1
      <4>1. k - 1 \in 1 .. Len(frames) /\ frames'[k] = frames[k - 1]
        BY <2>6, <3>2
      <4> QED BY <1>9, <2>10, <4>1
    <3> QED BY <3>1, <3>2
  <2>11. DueInv'
    BY <1>1, <1>8, <2>8, <2>10 DEF DueInv, ToServe, IdAt, Ctrl, Pin
  <2> QED BY <1>7, <2>6, <2>11
<1> QED BY <1>1, <1>10, <1>11
(* The next pin of a scan: the lowest one, above what was interrupted.     *)
LEMMA ScanFacts ==
  ASSUME IInv, frames # <<>>, top.pc = "scan", top.status # {}, NEW n, n = Lowest(top.status)
  PROVE  /\ top \in Frames /\ top.c \in Ctrls /\ n \in top.status /\ n \in Pins
         /\ \A q \in top.status : n <= q
         /\ top = frames[1] /\ 1 \in 1 .. Len(frames) /\ Len(frames) \in Nat
         /\ Bottom \in 1 .. Len(frames) /\ n < top.ilr /\ hw[0].ilr = top.ilr
         /\ ~sys.ilr => top.ilr = W
         /\ Chained(top.c, n) => Bottom = 1 /\ top.ilr = W
<1> USE DEF IInv
<1>1. /\ top = frames[1] /\ 1 \in 1 .. Len(frames) /\ Len(frames) \in Nat
      /\ 0 \in Ctrls /\ W \in Nat \ {0}
  BY TopOf, SystemFacts DEF TypeInv
<1>2. top \in Frames /\ top.c \in Ctrls /\ Bottom \in 1 .. Len(frames) /\ Reads(top)
  BY <1>1, FrameFacts DEF OnStack
<1>3. top.status \in SUBSET Pins /\ top.status \in SUBSET Nat
  BY <1>1, <1>2 DEF Frames, Pins
<1>4. n \in top.status /\ n \in Pins /\ \A q \in top.status : n <= q
  BY <1>3, LowestFacts
<1>5. /\ top.ilr = (IF 1 < Bottom THEN frames[2].n ELSE W)
      /\ 1 < Bottom => \E q \in top.status : q < top.ilr
  BY <1>1 DEF Levels
<1>6. top.ilr \in 0 .. W
  BY <1>2 DEF Frames
<1>7. n < top.ilr
  <2>1. CASE 1 < Bottom
    <3>1. PICK q \in top.status : q < top.ilr
      BY <1>5, <2>1
    <3>2. q \in Nat /\ n \in Nat /\ n <= q
      BY <1>3, <1>4, <3>1
    <3> QED BY <1>1, <1>6, <3>1, <3>2
  <2>2. CASE ~(1 < Bottom)
    <3>1. top.ilr = W
      BY ONLY <1>5, <2>2
    <3> QED BY <1>1, <1>4, <3>1 DEF Pins
  <2> QED BY <2>1, <2>2
<1>8. hw[0].ilr = top.ilr
  BY DEF Levels
<1>9. ~sys.ilr => top.ilr = W
  <2>1. ~sys.ilr => Bottom <= 1
    BY DEF Stack
  <2> QED BY <1>1, <1>2, <1>5, <2>1
<1>10. ASSUME Chained(top.c, n) PROVE ~(1 < Bottom)
  <2> SUFFICES ASSUME 1 < Bottom PROVE FALSE
    OBVIOUS
  <2>1. 2 \in 1 .. Len(frames) /\ frames[2].pc # "scan"
    BY <1>1, <1>2, FrameFacts DEF OnStack
  <2>2. frames[2].n \in Pins
    BY <2>1, FrameFacts DEF Chosen, Frames
  <2>3. n < frames[2].n
    BY <1>5, <1>7
  <2>4. n = W - 1
    BY <1>10 DEF Chained
  <2> QED BY <1>1, <2>2, <2>3, <2>4 DEF Pins
<1>11. Chained(top.c, n) => Bottom = 1 /\ top.ilr = W
  <2>1. CASE 1 < Bottom
    BY <1>10, <2>1
  <2>2. CASE ~(1 < Bottom)
    <3>1. top.ilr = W
      BY ONLY <1>5, <2>2
    <3>2. Bottom = 1
      BY ONLY <1>1, <1>2, <2>2
    <3> QED BY ONLY <3>1, <3>2
  <2> QED BY <2>1, <2>2
<1> QED BY <1>1, <1>2, <1>4, <1>7, <1>8, <1>9, <1>11

(* What writes to the level register and acknowledges change.              *)
LEMMA LevelWrite ==
  ASSUME TypeInv, NEW k \in [Ctrls -> Regs], NEW n \in 0 .. W,
         NEW h, sys.ilr => h = [k EXCEPT ![0] = [k[0] EXCEPT !.ilr = n]], ~sys.ilr => h = k
  PROVE  /\ h \in [Ctrls -> Regs]
         /\ \A d \in Ctrls : /\ h[d].ier = k[d].ier /\ h[d].imr = k[d].imr
                             /\ h[d].vec = k[d].vec /\ h[d].me = k[d].me
                             /\ h[d].isr = k[d].isr
         /\ h[0].ilr = IF sys.ilr THEN n ELSE k[0].ilr
<1>1. 0 \in Ctrls
  BY SystemFacts DEF TypeInv
<1>2. CASE sys.ilr
  <2>1. h = [k EXCEPT ![0] = [k[0] EXCEPT !.ilr = n]]
    BY <1>2
  <2>2. k[0] \in Regs
    BY <1>1
  <2> QED BY <1>1, <1>2, <2>1, <2>2 DEF Regs
<1>3. CASE ~sys.ilr
  BY <1>1, <1>3
<1> QED BY <1>2, <1>3

LEMMA AckWrite ==
  ASSUME NEW k \in [Ctrls -> Regs], NEW c \in Ctrls, NEW a, NEW r, r = Acked(k, c, a)
  PROVE  /\ r \in [Ctrls -> Regs] /\ r[c].isr \cap a = {}
         /\ \A d \in Ctrls : /\ r[d].ier = k[d].ier /\ r[d].imr = k[d].imr
                             /\ r[d].vec = k[d].vec /\ r[d].me = k[d].me
                             /\ r[d].isr \subseteq k[d].isr /\ r[d].ilr = k[d].ilr
<1> DEFINE x == [k[c] EXCEPT !.isr = k[c].isr \ a]
<1>1. r = [k EXCEPT ![c] = x]
  BY DEF Acked
<1>2. k[c] \in Regs /\ k[c].isr \ a \in SUBSET Pins
  BY DEF Regs
<1>3. /\ x \in Regs /\ x.isr = k[c].isr \ a /\ x.ier = k[c].ier /\ x.imr = k[c].imr
      /\ x.vec = k[c].vec /\ x.me = k[c].me /\ x.ilr = k[c].ilr
  BY <1>2 DEF Regs
<1> HIDE DEF x
<1> QED BY <1>1, <1>3

LEMMA ServeBodyKeeps ==
  ASSUME IInv, frames # <<>>, top.pc = "scan", top.status # {},
         NEW n, n = Lowest(top.status), ~Chained(top.c, n),
         frames' = <<[top EXCEPT !.n = n, !.pc = "body"]>> \o Tail(frames),
         NEW k \in [Ctrls -> Regs], hw' = Settled(k, line),
         \A d \in Ctrls : /\ k[d].ier = hw[d].ier /\ k[d].imr = hw[d].imr
                          /\ k[d].vec = hw[d].vec /\ k[d].me = hw[d].me
                          /\ k[d].isr \subseteq hw[d].isr,
         k[0].ilr = IF sys.ilr THEN n ELSE hw[0].ilr,
         UNCHANGED <<sys, line, due, drv, table, main, want>>
  PROVE  IInv'
<1> USE DEF IInv
<1> DEFINE g == [top EXCEPT !.n = n, !.pc = "body"]
<1>1. /\ top \in Frames /\ top.c \in Ctrls /\ n \in top.status /\ n \in Pins
      /\ \A q \in top.status : n <= q
      /\ top = frames[1] /\ 1 \in 1 .. Len(frames) /\ Len(frames) \in Nat
      /\ Bottom \in 1 .. Len(frames) /\ n < top.ilr /\ hw[0].ilr = top.ilr
  BY ScanFacts
<1>2. sys \in Systems /\ 0 \in Ctrls /\ W \in Nat \ {0} /\ hw \in [Ctrls -> Regs]
  BY SystemFacts DEF TypeInv
<1>3. /\ g \in Frames /\ g.c = top.c /\ g.status = top.status /\ g.ilr = top.ilr
      /\ g.n = n /\ g.pc = "body"
  <2>1. n \in Nat /\ top \in Frames
    BY <1>1, <1>2 DEF Pins
  <2> QED BY ONLY <2>1 DEF Frames, g
<1>4. frames' = <<g>> \o Tail(frames)
  OBVIOUS
<1> HIDE DEF g
<1>5. Chosen(g)
  BY <1>1, <1>3 DEF Chosen
<1>6. line' \subseteq sys.level \cap due' /\ line' \subseteq sys.level /\ hw' = Settled(k, line')
  BY DEF TypeInv
<1>7. /\ hw' \in [Ctrls -> Regs]
      /\ \A c \in Ctrls : /\ hw'[c].ier = k[c].ier /\ hw'[c].imr = k[c].imr
                          /\ hw'[c].vec = k[c].vec /\ hw'[c].me = k[c].me
                          /\ hw'[c].ilr = k[c].ilr
      /\ \A i \in sys.level : Pin(i) \in hw'[Ctrl(i)].isr =>
            Pin(i) \in k[Ctrl(i)].isr \/ i \in line'
  BY <1>2, <1>6, SettlesDue
<1>8. \A c \in Ctrls : /\ hw'[c].ier = hw[c].ier /\ hw'[c].imr = hw[c].imr
                       /\ hw'[c].vec = hw[c].vec /\ hw'[c].me = hw[c].me
  BY <1>7
<1>9. /\ Stack' /\ frames' \in Seq(Frames) /\ Len(frames') = Len(frames)
      /\ Bottom' = Bottom /\ frames'[1] = g /\ top' = g /\ frames' # <<>>
      /\ \A i \in 2 .. Len(frames) : frames'[i] = frames[i]
  <2>1. g.pc # "chained" /\ top.pc # "chained" /\ g.status \subseteq top.status
    BY <1>3
  <2> QED BY <1>3, <1>4, <1>5, <1>8, <2>1, TopGoesOn
<1>10. TypeInv' /\ ScriptInv' /\ EnableInv' /\ ModeInv'
  <2>1. drv.static \in Nat /\ drv' = [drv EXCEPT !.static = drv.static]
    BY DEF TypeInv
  <2> QED BY <1>6, <1>7, <1>8, <1>9, <2>1, ProgramSame
<1>11. ASSUME NEW i \in 1 .. Len(frames')
       PROVE  LET f == frames'[i]
              IN  /\ f.ilr = (IF i < Bottom' THEN frames'[i + 1].n ELSE W)
                  /\ i < Bottom' /\ f.pc # "scan" => f.n < f.ilr
                  /\ i < Bottom' /\ f.pc = "scan" => \E q \in f.status : q < f.ilr
                  /\ \A j \in i + 1 .. Bottom' : f.ilr <= frames'[j].n
  <2>1. /\ i \in 1 .. Len(frames) /\ frames'[i].ilr = frames[i].ilr
        /\ i < Bottom => frames'[i + 1].n = frames[i + 1].n
        /\ \A j \in i + 1 .. Bottom : frames'[j].n = frames[j].n
    <3>1. i \in 1 .. Len(frames) /\ frames'[i].ilr = frames[i].ilr
      <4>1. CASE i = 1
        BY <1>1, <1>3, <1>9, <4>1
      <4>2. CASE i # 1
        BY <1>9, <4>2
      <4> QED BY <4>1, <4>2
    <3>2. \A j \in i + 1 .. Bottom : frames'[j] = frames[j]
      BY <1>1, <1>9, <3>1
    <3>3. i < Bottom => frames'[i + 1] = frames[i + 1]
      BY <1>1, <1>9, <3>1
    <3> QED BY <3>1, <3>2, <3>3
  <2>2. /\ frames[i].ilr = (IF i < Bottom THEN frames[i + 1].n ELSE W)
        /\ i < Bottom /\ frames[i].pc # "scan" => frames[i].n < frames[i].ilr
        /\ i < Bottom /\ frames[i].pc = "scan" => \E q \in frames[i].status : q < frames[i].ilr
        /\ \A j \in i + 1 .. Bottom : frames[i].ilr <= frames[j].n
    BY <2>1 DEF Levels
  <2>3. /\ frames'[i].ilr = (IF i < Bottom' THEN frames'[i + 1].n ELSE W)
        /\ \A j \in i + 1 .. Bottom' : frames'[i].ilr <= frames'[j].n
    BY ONLY <1>9, <2>1, <2>2
  <2>4. /\ i < Bottom' /\ frames'[i].pc # "scan" => frames'[i].n < frames'[i].ilr
        /\ i < Bottom' /\ frames'[i].pc = "scan" => \E q \in frames'[i].status : q < frames'[i].ilr
    <3>1. CASE i = 1
      BY <1>1, <1>3, <1>9, <3>1
    <3>2. CASE i # 1
      <4>1. frames'[i] = frames[i]
        BY <1>9, <2>1, <3>2
      <4> QED BY ONLY <1>9, <2>2, <4>1
    <3> QED BY <3>1, <3>2
  <2> QED BY <2>3, <2>4
<1>12. Levels'
  <2>1. hw'[0].ilr = IF sys.ilr THEN g.n ELSE g.ilr
    BY <1>1, <1>2, <1>3, <1>7
  <2>2. sys' = sys
    OBVIOUS
  <2> QED BY <1>3, <1>9, <1>11, <2>1, <2>2 DEF Levels
<1>13. ASSUME NEW i \in 1 .. Len(frames'), NEW p \in ToServe(frames'[i])
       PROVE  i \in 1 .. Len(frames) /\ frames'[i].c = frames[i].c /\ p \in ToServe(frames[i])
  <2>1. CASE i = 1
    <3>1. p \in g.status /\ p < g.ilr
      BY <1>9, <1>13, <2>1 DEF ToServe
    <3> QED BY <1>1, <1>3, <1>9, <2>1, <3>1 DEF ToServe
  <2>2. CASE i # 1
    BY <1>9, <1>13, <2>2
  <2> QED BY <2>1, <2>2
<1>14. ASSUME NEW i \in sys.level, Pin(i) \in hw'[Ctrl(i)].isr
       PROVE  i \in due \/ InService(i)
  <2>1. Ctrl(i) \in Ctrls
    BY LevelFacts
  <2>2. Pin(i) \in hw[Ctrl(i)].isr \/ i \in line'
    BY <1>7, <1>14, <2>1
  <2> QED BY <1>6, <2>2 DEF DueInv
<1>15. ASSUME NEW i, InService(i) PROVE InService(i)'
  <2>1. \A j \in 1 .. Len(frames) : frames[j].pc = "ret" =>
           j + 0 \in 1 .. Len(frames') /\ frames'[j + 0] = frames[j]
    BY <1>1, <1>9
  <2>2. 0 \in Nat
    OBVIOUS
  <2> QED BY <1>15, <2>1, <2>2, StaysInService
<1>16. DueInv'
  BY <1>13, <1>14, <1>15 DEF DueInv, ToServe, IdAt, Ctrl, Pin
<1> QED BY <1>9, <1>10, <1>12, <1>16
LEMMA ServeChainKeeps ==
  ASSUME IInv, frames # <<>>, top.pc = "scan", top.status # {},
         NEW n, n = Lowest(top.status), Chained(top.c, n),
         frames' = <<Frame(hw, drv.static + 1), [top EXCEPT !.n = n, !.pc = "chained"]>> \o Tail(frames),
         drv' = [drv EXCEPT !.static = @ + 1],
         UNCHANGED <<sys, hw, line, due, table, main, want>>
  PROVE  IInv'
<1> USE DEF IInv
<1> DEFINE f == Frame(hw, drv.static + 1)
           g == [top EXCEPT !.n = n, !.pc = "chained"]
<1>1. /\ top \in Frames /\ top.c \in Ctrls /\ n \in top.status /\ n \in Pins
      /\ \A q \in top.status : n <= q
      /\ top = frames[1] /\ 1 \in 1 .. Len(frames) /\ Len(frames) \in Nat
      /\ hw[0].ilr = top.ilr /\ Bottom = 1 /\ top.ilr = W
  BY ScanFacts
<1>2. /\ sys \in Systems /\ 0 \in Ctrls /\ W \in Nat \ {0} /\ hw \in [Ctrls -> Regs]
      /\ sys.ctrls \in 1 .. 3 /\ frames \in Seq(Frames)
  BY SystemFacts DEF TypeInv
<1>3. drv.static \in Nat /\ drv.static = Len(frames) - 1 /\ top.c = Len(frames) - 1
  <2>1. OnStack(top, 1, Len(frames), Bottom) /\ drv.static = Len(frames) - Bottom
    BY <1>1, FrameFacts
  <2>2. drv.static \in Nat
    BY DEF TypeInv
  <2> QED BY ONLY <1>1, <2>1, <2>2 DEF OnStack
<1>4. drv.static + 1 \in Ctrls /\ Len(frames) < sys.ctrls /\ drv.static + 1 = Len(frames)
  <2>1. top.c < sys.ctrls - 1
    BY DEF Chained
  <2> QED BY ONLY <1>1, <1>2, <1>3, <2>1 DEF Ctrls
<1>5. /\ g \in Frames /\ g.c = top.c /\ g.status = top.status /\ g.ilr = top.ilr
      /\ g.n = n /\ g.pc = "chained"
  <2>1. n \in Nat /\ top \in Frames
    BY <1>1, <1>2 DEF Pins
  <2> QED BY ONLY <2>1 DEF Frames, g
<1> DEFINE c == drv.static + 1
           st == Status(hw, c)
<1>6. st \in SUBSET Pins /\ st \subseteq hw[c].ier /\ st \subseteq hw[c].isr
  <2>1. hw[c] \in Regs
    BY <1>2, <1>4
  <2> QED BY <2>1 DEF Status, Regs
<1> HIDE DEF st
<1>7. /\ f \in Frames /\ f.c = c /\ f.status = st /\ f.pc = "scan" /\ f.ilr = W
  <2>1. f = [c |-> c, status |-> st, n |-> 0, pc |-> "scan", ilr |-> hw[0].ilr]
    BY DEF Frame, st
  <2>2. c \in Nat /\ hw[0].ilr = W /\ W \in 0 .. W
    BY <1>1, <1>2, <1>3
  <2> QED BY <1>6, <2>1, <2>2 DEF Frames
<1>8. frames' = <<f, g>> \o Tail(frames)
  OBVIOUS
<1> HIDE DEF f, g
<1>9. /\ frames' \in Seq(Frames) /\ Len(frames') = Len(frames) + 1
      /\ frames'[1] = f /\ frames'[2] = g /\ frames' # <<>>
      /\ \A i \in 3 .. Len(frames) + 1 : frames'[i] = frames[i - 1]
  BY <1>2, <1>5, <1>7, <1>8, PushTopFacts
<1>10. /\ drv'.static = c /\ drv'.started = drv.started /\ drv.started
       /\ c \in Nat /\ drv' = [drv EXCEPT !.static = c]
  <2>1. drv.started
    BY DEF Stack
  <2>2. c \in Nat /\ drv' = [drv EXCEPT !.static = c]
    BY <1>3
  <2> HIDE DEF c
  <2>3. drv'.static = c /\ drv'.started = drv.started
    BY <2>2 DEF TypeInv
  <2> QED BY <2>1, <2>2, <2>3
<1>11. Bottom' = 1
  BY <1>1, <1>4, <1>9, <1>10 DEF Bottom
<1>12. ASSUME NEW i \in 2 .. Len(frames)
       PROVE  frames[i].pc = "chained" /\ i \in 1 .. Len(frames)
  <2>1. i \in 1 .. Len(frames) /\ i > 1
    BY <1>1
  <2> QED BY <1>1, <2>1, FrameFacts DEF OnStack
<1>13. ASSUME NEW i \in 1 .. Len(frames')
       PROVE  /\ i = 1 \/ i = 2 \/ (i \in 3 .. Len(frames) + 1 /\ i - 1 \in 2 .. Len(frames))
              /\ i \in 3 .. Len(frames) + 1 => frames'[i] = frames[i - 1]
  BY <1>1, <1>9
<1>14. ASSUME NEW i \in 1 .. Len(frames')
       PROVE  /\ OnStack(frames'[i], i, Len(frames'), Bottom')
              /\ Chosen(frames'[i]) /\ Reads(frames'[i])
  <2>1. CASE i = 1
    <3>1. OnStack(f, 1, Len(frames'), Bottom')
      BY <1>1, <1>4, <1>7, <1>9, <1>11 DEF OnStack
    <3>2. c # 0
      BY <1>3
    <3>3. Chosen(f) /\ Reads(f)
      BY <1>6, <1>7, <3>2 DEF Chosen, Reads
    <3> QED BY <1>9, <2>1, <3>1, <3>3
  <2>2. CASE i = 2
    <3>1. OnStack(g, 2, Len(frames'), Bottom')
      BY <1>1, <1>3, <1>5, <1>9, <1>11 DEF OnStack
    <3>2. Chosen(g)
      BY <1>1, <1>5 DEF Chosen
    <3>3. Reads(top)
      BY <1>1, FrameFacts
    <3>4. Reads(g)
      BY <1>5, <3>3 DEF Reads
    <3> QED BY <1>9, <2>2, <3>1, <3>2, <3>4
  <2>3. CASE i \in 3 .. Len(frames) + 1 /\ i - 1 \in 2 .. Len(frames)
    <3>1. frames[i - 1].pc = "chained" /\ i - 1 \in 1 .. Len(frames) /\ frames'[i] = frames[i - 1]
      BY <1>12, <1>13, <2>3
    <3>2. OnStack(frames[i - 1], i - 1, Len(frames), Bottom) /\ Chosen(frames[i - 1]) /\ Reads(frames[i - 1])
      BY <3>1, FrameFacts
    <3>3. OnStack(frames[i - 1], i, Len(frames'), Bottom')
      BY ONLY <1>1, <1>9, <1>11, <2>3, <3>1, <3>2 DEF OnStack
    <3> QED BY <3>1, <3>2, <3>3
  <2> QED BY <1>13, <2>1, <2>2, <2>3
<1>15. Stack'
  <2>1. /\ drv'.static \in Nat /\ drv'.static < sys.ctrls /\ Bottom' \in 0 .. Len(frames')
        /\ ~sys.ilr => Bottom' <= 1
    BY <1>1, <1>4, <1>9, <1>10, <1>11
  <2>2. \A d \in Ctrls : hw'[d].ier = hw[d].ier /\ hw'[d].imr = hw[d].imr
    OBVIOUS
  <2> QED BY <1>9, <1>10, <1>14, <2>1, <2>2, StackStep
<1>16. ASSUME NEW i \in 1 .. Len(frames') PROVE frames'[i].ilr = W
  <2>1. CASE i = 1
    BY <1>7, <1>9, <2>1
  <2>2. CASE i = 2
    BY <1>1, <1>5, <1>9, <2>2
  <2>3. CASE i \in 3 .. Len(frames) + 1 /\ i - 1 \in 2 .. Len(frames)
    <3>1. i - 1 \in 1 .. Len(frames) /\ ~(i - 1 < Bottom) /\ frames'[i] = frames[i - 1]
      BY <1>1, <1>12, <1>13, <2>3
    <3> QED BY <3>1 DEF Levels
  <2> QED BY <1>13, <2>1, <2>2, <2>3
<1>17. Levels'
  <2>1. \A i \in 1 .. Len(frames') : ~(i < Bottom') /\ \A k \in i + 1 .. Bottom' : FALSE
    BY <1>9, <1>11
  <2>2. top' = f /\ hw'[0].ilr = W /\ sys' = sys
    BY <1>1, <1>9 DEF top
  <2> QED BY <1>7, <1>9, <1>16, <2>1, <2>2 DEF Levels
<1>18. TypeInv' /\ ScriptInv' /\ EnableInv' /\ ModeInv'
  <2>1. hw' \in [Ctrls -> Regs] /\ line' \subseteq sys.level \cap due'
    BY <1>2 DEF TypeInv
  <2>2. \A d \in Ctrls : /\ hw'[d].ier = hw[d].ier /\ hw'[d].imr = hw[d].imr
                         /\ hw'[d].vec = hw[d].vec /\ hw'[d].me = hw[d].me
    OBVIOUS
  <2> QED BY <1>9, <1>10, <2>1, <2>2, ProgramSame
<1>19. ASSUME NEW i \in sys.level, Pin(i) \in hw[Ctrl(i)].isr PROVE i \in due
  <2>1. ~InService(i)
    <3>1. \A k \in 1 .. Len(frames) : frames[k].pc # "ret"
      <4> TAKE k \in 1 .. Len(frames)
      <4>1. k = 1 \/ k \in 2 .. Len(frames)
        BY <1>1
      <4> QED BY <1>1, <1>12, <4>1
    <3> QED BY <3>1 DEF InService
  <2> QED BY <1>19, <2>1 DEF DueInv
<1>20. ASSUME NEW i \in 1 .. Len(frames'), NEW p \in ToServe(frames'[i]),
              IdAt(frames'[i].c, p) \in sys.level
       PROVE  IdAt(frames'[i].c, p) \in due
  <2>1. CASE i = 1
    <3>1. p \in st /\ p \in Pins /\ frames'[i].c = c
      BY <1>6, <1>7, <1>9, <1>20, <2>1 DEF ToServe
    <3>2. Ctrl(IdAt(c, p)) = c /\ Pin(IdAt(c, p)) = p
      BY <1>2, <1>4, <3>1, IdAtFacts
    <3> QED BY <1>6, <1>19, <1>20, <3>1, <3>2
  <2>2. CASE i = 2
    <3>1. p \in g.status /\ p < g.ilr /\ frames'[i].c = g.c
      BY <1>9, <1>20, <2>2 DEF ToServe
    <3>2. p \in ToServe(frames[1]) /\ frames'[i].c = frames[1].c
      BY <1>1, <1>5, <3>1 DEF ToServe
    <3> QED BY <1>1, <1>20, <3>2 DEF DueInv
  <2>3. CASE i \in 3 .. Len(frames) + 1 /\ i - 1 \in 2 .. Len(frames)
    <3>1. i - 1 \in 1 .. Len(frames) /\ frames'[i] = frames[i - 1]
      BY <1>12, <1>13, <2>3
    <3> QED BY <1>20, <3>1 DEF DueInv
  <2> QED BY <1>13, <2>1, <2>2, <2>3
<1>21. DueInv'
  BY <1>19, <1>20 DEF DueInv, ToServe, IdAt, Ctrl, Pin
<1> QED BY <1>15, <1>17, <1>18, <1>21

LEMMA ServeKeeps == IInv /\ Serve => IInv'
<1> SUFFICES ASSUME IInv, Serve PROVE IInv'
  OBVIOUS
<1> DEFINE n == Lowest(top.status)
           h == IF sys.ilr THEN [hw EXCEPT ![0].ilr = n] ELSE hw
           r == Acked(h, top.c, {n})
<1>1. /\ frames # <<>> /\ top.pc = "scan" /\ top.status # {}
      /\ UNCHANGED <<sys, line, due, table, main, want>>
  BY DEF Serve
<1>2. \/ /\ Chained(top.c, n)
         /\ frames' = <<Frame(hw, drv.static + 1), [top EXCEPT !.n = n, !.pc = "chained"]>> \o Tail(frames)
         /\ drv' = [drv EXCEPT !.static = @ + 1]
         /\ UNCHANGED hw
      \/ /\ ~Chained(top.c, n)
         /\ frames' = <<[top EXCEPT !.n = n, !.pc = "body"]>> \o Tail(frames)
         /\ hw' = Settled(r, line) \/ hw' = Settled(h, line)
         /\ UNCHANGED drv
  BY Zenon DEF Serve
<1>3. TypeInv /\ top.c \in Ctrls /\ n \in Pins
  BY <1>1, ScanFacts DEF IInv
<1>4. \A x \in {h, r} :
         /\ x \in [Ctrls -> Regs]
         /\ \A d \in Ctrls : /\ x[d].ier = hw[d].ier /\ x[d].imr = hw[d].imr
                             /\ x[d].vec = hw[d].vec /\ x[d].me = hw[d].me
                             /\ x[d].isr \subseteq hw[d].isr
         /\ x[0].ilr = IF sys.ilr THEN n ELSE hw[0].ilr
  <2>1. n \in 0 .. W /\ 0 \in Ctrls /\ hw \in [Ctrls -> Regs]
    BY <1>3, SystemFacts DEF Pins, TypeInv
  <2>2. /\ sys.ilr => h = [hw EXCEPT ![0] = [hw[0] EXCEPT !.ilr = n]]
        /\ ~sys.ilr => h = hw
        /\ r = Acked(h, top.c, {n})
    OBVIOUS
  <2> HIDE DEF h, r, n
  <2>3. /\ h \in [Ctrls -> Regs]
        /\ \A d \in Ctrls : /\ h[d].ier = hw[d].ier /\ h[d].imr = hw[d].imr
                            /\ h[d].vec = hw[d].vec /\ h[d].me = hw[d].me
                            /\ h[d].isr = hw[d].isr
        /\ h[0].ilr = IF sys.ilr THEN n ELSE hw[0].ilr
    BY ONLY <1>3, <2>1, <2>2, LevelWrite
  <2>4. /\ r \in [Ctrls -> Regs]
        /\ \A d \in Ctrls : /\ r[d].ier = h[d].ier /\ r[d].imr = h[d].imr
                            /\ r[d].vec = h[d].vec /\ r[d].me = h[d].me
                            /\ r[d].isr \subseteq h[d].isr /\ r[d].ilr = h[d].ilr
    <3>1. h \in [Ctrls -> Regs] /\ top.c \in Ctrls /\ r = Acked(h, top.c, {n})
      BY <1>3, <2>2, <2>3
    <3> DEFINE P(k, c, a, x) ==
          /\ x \in [Ctrls -> Regs] /\ x[c].isr \cap a = {}
          /\ \A d \in Ctrls : /\ x[d].ier = k[d].ier /\ x[d].imr = k[d].imr
                              /\ x[d].vec = k[d].vec /\ x[d].me = k[d].me
                              /\ x[d].isr \subseteq k[d].isr /\ x[d].ilr = k[d].ilr
    <3>2. ASSUME NEW k \in [Ctrls -> Regs], NEW c \in Ctrls, NEW a, NEW x, x = Acked(k, c, a)
          PROVE  P(k, c, a, x)
      BY ONLY <3>2, AckWrite
    <3>3. P(h, top.c, {n}, r)
      <4> HIDE DEF P
      <4> QED BY ONLY <3>1, <3>2
    <3> QED BY <3>3
  <2>5. /\ \A d \in Ctrls : /\ r[d].ier = hw[d].ier /\ r[d].imr = hw[d].imr
                            /\ r[d].vec = hw[d].vec /\ r[d].me = hw[d].me
                            /\ r[d].isr \subseteq hw[d].isr
        /\ r[0].ilr = h[0].ilr
    BY ONLY <2>1, <2>3, <2>4
  <2>6. r[0].ilr = IF sys.ilr THEN n ELSE hw[0].ilr
    BY ONLY <2>3, <2>5
  <2>7. \A x : x \in {h, r} => x = h \/ x = r
    OBVIOUS
  <2> QED BY ONLY <2>3, <2>4, <2>5, <2>6, <2>7
<1> HIDE DEF h, r, n
<1>5. n = Lowest(top.status)
  BY DEF n
<1>6. CASE Chained(top.c, n)
  BY <1>1, <1>2, <1>5, <1>6, ServeChainKeeps
<1>7. CASE ~Chained(top.c, n)
  <2>1. PICK k \in {h, r} : hw' = Settled(k, line)
    BY <1>2, <1>7
  <2>2. /\ k \in [Ctrls -> Regs]
        /\ \A d \in Ctrls : /\ k[d].ier = hw[d].ier /\ k[d].imr = hw[d].imr
                            /\ k[d].vec = hw[d].vec /\ k[d].me = hw[d].me
                            /\ k[d].isr \subseteq hw[d].isr
        /\ k[0].ilr = IF sys.ilr THEN n ELSE hw[0].ilr
    BY ONLY <1>4
  <2>3. UNCHANGED drv /\ frames' = <<[top EXCEPT !.n = n, !.pc = "body"]>> \o Tail(frames)
    BY <1>2, <1>7
  <2> QED BY <1>1, <1>5, <1>7, <2>1, <2>2, <2>3, ServeBodyKeeps
<1> QED BY <1>6, <1>7
(* A handler has served its pin: the level comes back, and what is latched *)
(* is due or in service further down.                                      *)
LEMMA ReturnFacts ==
  ASSUME IInv, Return
  PROVE  /\ frames # <<>> /\ top.pc \in {"ret", "chained"}
         /\ top \in Frames /\ top.c \in Ctrls /\ top.n \in top.status /\ top.n \in Pins
         /\ \A q \in top.status : top.n <= q
         /\ top = frames[1] /\ 1 \in 1 .. Len(frames) /\ Len(frames) \in Nat
         /\ ~sys.ilr => top.ilr = W
         /\ hw' \in [Ctrls -> Regs] /\ hw'[0].ilr = top.ilr
         /\ \A d \in Ctrls : /\ hw'[d].ier = hw[d].ier /\ hw'[d].imr = hw[d].imr
                             /\ hw'[d].vec = hw[d].vec /\ hw'[d].me = hw[d].me
         /\ \A i \in sys.level : Pin(i) \in hw'[Ctrl(i)].isr =>
               i \in due \/ \E k \in 2 .. Len(frames) : frames[k].pc = "ret" /\ IdOf(frames[k]) = i
         /\ UNCHANGED <<sys, line, due, table, main, want>>
         /\ drv' = [drv EXCEPT !.static = IF top.pc = "chained" THEN drv.static - 1 ELSE drv.static]
         /\ \/ frames' = Tail(frames)
            \/ /\ drv.opt[top.c] # "single"
               /\ frames' = <<[top EXCEPT !.status = top.status \ {top.n}, !.pc = "scan"]>> \o Tail(frames)
<1> USE DEF IInv
<1> DEFINE n == top.n
           ok == top.pc = "ret" /\ AckBefore(IdOf(top))
           acked == IF ok THEN hw ELSE Acked(hw, top.c, {n})
           back == IF sys.ilr THEN [acked EXCEPT ![0].ilr = RestoredLevel(top)] ELSE acked
           g == [top EXCEPT !.status = top.status \ {n}, !.pc = "scan"]
           ends == drv.opt[top.c] = "single" \/ top.status \ {n} = {}
<1>1. /\ frames # <<>> /\ top.pc \in {"ret", "chained"} /\ UNCHANGED <<sys, line, due, table, main, want>>
      /\ drv' = IF top.pc = "chained" THEN [drv EXCEPT !.static = @ - 1] ELSE drv
  BY DEF Return
<1>2. hw' = Settled(back, line) /\ frames' = IF ends THEN Tail(frames) ELSE <<g>> \o Tail(frames)
  BY Zenon DEF Return
<1>3. /\ top = frames[1] /\ 1 \in 1 .. Len(frames) /\ Len(frames) \in Nat
      /\ 0 \in Ctrls /\ W \in Nat \ {0} /\ sys \in Systems /\ hw \in [Ctrls -> Regs]
  BY <1>1, TopOf, SystemFacts DEF TypeInv
<1>4. /\ top \in Frames /\ top.c \in Ctrls /\ Chosen(top) /\ Bottom \in 0 .. Len(frames)
  BY <1>3, FrameFacts
<1>5. top.n \in top.status /\ top.n \in Pins /\ \A q \in top.status : top.n <= q
  BY <1>1, <1>4 DEF Chosen, Frames
<1>6. \/ frames' = Tail(frames)
      \/ drv.opt[top.c] # "single" /\ frames' = <<g>> \o Tail(frames)
  <2> HIDE DEF g
  <2> QED BY <1>2
<1>7. drv' = [drv EXCEPT !.static = IF top.pc = "chained" THEN drv.static - 1 ELSE drv.static]
  <2>1. CASE top.pc = "chained"
    BY <1>1, <2>1
  <2>2. CASE top.pc # "chained"
    BY <1>1, <2>2 DEF TypeInv
  <2> QED BY <2>1, <2>2
<1>8. top.ilr \in 0 .. W /\ (~sys.ilr => top.ilr = W /\ hw[0].ilr = top.ilr)
  <2>1. top.ilr = (IF 1 < Bottom THEN frames[2].n ELSE W)
    BY <1>3 DEF Levels
  <2>2. ~sys.ilr => Bottom <= 1
    BY DEF Stack
  <2>3. ~sys.ilr => hw[0].ilr = top.ilr
    BY <1>1 DEF Levels
  <2>4. Bottom <= 1 => ~(1 < Bottom)
    BY <1>3, <1>4
  <2> QED BY <1>4, <2>1, <2>2, <2>3, <2>4 DEF Frames
<1>9. /\ acked \in [Ctrls -> Regs]
      /\ \A d \in Ctrls : /\ acked[d].ier = hw[d].ier /\ acked[d].imr = hw[d].imr
                          /\ acked[d].vec = hw[d].vec /\ acked[d].me = hw[d].me
                          /\ acked[d].isr \subseteq hw[d].isr /\ acked[d].ilr = hw[d].ilr
      /\ ~ok => n \notin acked[top.c].isr
  <2>1. CASE ok
    BY <1>3, <2>1
  <2>2. CASE ~ok
    <3> DEFINE a == {n}
    <3>1. acked = Acked(hw, top.c, a) /\ n \in a
      BY <2>2
    <3> HIDE DEF a, acked
    <3> QED BY <1>3, <1>4, <2>2, <3>1, AckWrite
  <2> QED BY <2>1, <2>2
<1>10. back = (IF sys.ilr THEN [acked EXCEPT ![0].ilr = top.ilr] ELSE acked)
  BY DEF RestoredLevel
<1> HIDE DEF acked, back
<1>11. /\ back \in [Ctrls -> Regs]
       /\ \A d \in Ctrls : /\ back[d].ier = hw[d].ier /\ back[d].imr = hw[d].imr
                           /\ back[d].vec = hw[d].vec /\ back[d].me = hw[d].me
                           /\ back[d].isr = acked[d].isr
       /\ back[0].ilr = top.ilr
  <2>1. /\ back \in [Ctrls -> Regs]
        /\ \A d \in Ctrls : /\ back[d].ier = acked[d].ier /\ back[d].imr = acked[d].imr
                            /\ back[d].vec = acked[d].vec /\ back[d].me = acked[d].me
                            /\ back[d].isr = acked[d].isr
        /\ back[0].ilr = IF sys.ilr THEN top.ilr ELSE acked[0].ilr
    <3> DEFINE old == top.ilr
    <3>1. /\ TypeInv /\ old \in 0 .. W /\ acked \in [Ctrls -> Regs]
          /\ sys.ilr => back = [acked EXCEPT ![0] = [acked[0] EXCEPT !.ilr = old]]
          /\ ~sys.ilr => back = acked
      BY <1>8, <1>9, <1>10
    <3> HIDE DEF old
    <3>2. /\ back \in [Ctrls -> Regs]
          /\ \A d \in Ctrls : /\ back[d].ier = acked[d].ier /\ back[d].imr = acked[d].imr
                              /\ back[d].vec = acked[d].vec /\ back[d].me = acked[d].me
                              /\ back[d].isr = acked[d].isr
          /\ back[0].ilr = IF sys.ilr THEN old ELSE acked[0].ilr
      BY ONLY <3>1, LevelWrite
    <3> QED BY <3>2 DEF old
  <2>2. back[0].ilr = top.ilr
    BY <1>3, <1>8, <1>9, <2>1
  <2> QED BY <1>9, <2>1, <2>2
<1>12. hw' = Settled(back, line') /\ line' \subseteq sys.level /\ line' \subseteq due
  BY <1>1, <1>2 DEF TypeInv
<1>13. /\ hw' \in [Ctrls -> Regs]
       /\ \A d \in Ctrls : /\ hw'[d].ier = back[d].ier /\ hw'[d].imr = back[d].imr
                           /\ hw'[d].vec = back[d].vec /\ hw'[d].me = back[d].me
                           /\ hw'[d].ilr = back[d].ilr
       /\ \A i \in sys.level : Pin(i) \in hw'[Ctrl(i)].isr =>
             Pin(i) \in back[Ctrl(i)].isr \/ i \in line'
  BY <1>3, <1>11, <1>12, SettlesDue
<1>14. hw'[0].ilr = top.ilr
  BY <1>3, <1>11, <1>13
<1>15. \A d \in Ctrls : /\ hw'[d].ier = hw[d].ier /\ hw'[d].imr = hw[d].imr
                        /\ hw'[d].vec = hw[d].vec /\ hw'[d].me = hw[d].me
  BY <1>11, <1>13
<1>16. ASSUME NEW i \in sys.level, Pin(i) \in hw'[Ctrl(i)].isr, i \notin due
       PROVE  \E m \in 2 .. Len(frames) : frames[m].pc = "ret" /\ IdOf(frames[m]) = i
  <2>1. Ctrl(i) \in Ctrls /\ i \notin sys.edge
    BY LevelFacts
  <2>2. Pin(i) \in acked[Ctrl(i)].isr
    BY <1>11, <1>12, <1>13, <1>16, <2>1
  <2>3. InService(i)
    BY <1>9, <1>16, <2>1, <2>2 DEF DueInv
  <2>4. PICK m \in 1 .. Len(frames) : frames[m].pc = "ret" /\ IdOf(frames[m]) = i
    BY <2>3 DEF InService
  <2>5. m # 1
    <3> SUFFICES ASSUME m = 1 PROVE FALSE
      OBVIOUS
    <3>1. top.pc = "ret" /\ IdOf(top) = i
      BY <1>3, <2>4
    <3>2. Ctrl(i) = top.c /\ Pin(i) = n
      BY <1>1, <3>1, BodyFacts
    <3>3. ~ok
      BY <2>1, <3>1 DEF AckBefore
    <3> QED BY <1>9, <2>2, <3>2, <3>3
  <2>6. m \in 2 .. Len(frames)
    BY <1>3, <2>5
  <2> QED BY <2>4, <2>6
<1> HIDE DEF ok, ends
<1> QED BY <1>1, <1>3, <1>4, <1>5, <1>6, <1>7, <1>8, <1>13, <1>14, <1>15, <1>16

(* It is over, and the one it interrupted goes on.                         *)
LEMMA PopKeeps ==
  ASSUME IInv, Return, frames' = Tail(frames)
  PROVE  IInv'
<1> USE DEF IInv
<1> DEFINE static == IF top.pc = "chained" THEN drv.static - 1 ELSE drv.static
<1>1. /\ frames # <<>> /\ top.pc \in {"ret", "chained"}
      /\ top = frames[1] /\ 1 \in 1 .. Len(frames) /\ Len(frames) \in Nat
      /\ ~sys.ilr => top.ilr = W
      /\ hw' \in [Ctrls -> Regs] /\ hw'[0].ilr = top.ilr
      /\ \A d \in Ctrls : /\ hw'[d].ier = hw[d].ier /\ hw'[d].imr = hw[d].imr
                          /\ hw'[d].vec = hw[d].vec /\ hw'[d].me = hw[d].me
      /\ \A i \in sys.level : Pin(i) \in hw'[Ctrl(i)].isr =>
            i \in due \/ \E k \in 2 .. Len(frames) : frames[k].pc = "ret" /\ IdOf(frames[k]) = i
      /\ UNCHANGED <<sys, line, due, table, main, want>>
      /\ drv' = [drv EXCEPT !.static = static]
  BY ReturnFacts
<1>2. static \in Nat
  <2>1. /\ OnStack(top, 1, Len(frames), Bottom) /\ drv.static = Len(frames) - Bottom
        /\ Bottom \in 0 .. Len(frames)
    BY <1>1, FrameFacts
  <2>2. drv.static \in Nat
    BY DEF TypeInv
  <2>3. top.pc = "chained" => Bottom = 0
    BY ONLY <1>1, <2>1 DEF OnStack
  <2> QED BY ONLY <1>1, <2>1, <2>2, <2>3
<1> DEFINE new == static
<1>3. new \in Nat /\ new = (IF top.pc = "chained" THEN drv.static - 1 ELSE drv.static)
      /\ drv' = [drv EXCEPT !.static = new]
  BY <1>1, <1>2
<1> HIDE DEF static, new
<1>4. /\ Stack' /\ Levels' /\ frames' \in Seq(Frames) /\ Len(frames') = Len(frames) - 1
      /\ \A i \in 1 .. Len(frames) - 1 : frames'[i] = frames[i + 1]
  <2>1. (sys.ilr \/ top.ilr = W) /\ (Bottom > 1 => top.pc # "scan")
    BY <1>1
  <2> QED BY <1>1, <1>3, <2>1, TopReturns
<1>5. TypeInv' /\ ScriptInv' /\ EnableInv' /\ ModeInv'
  <2>1. line' \subseteq sys.level \cap due'
    BY <1>1 DEF TypeInv
  <2> QED BY <1>1, <1>3, <1>4, <2>1, ProgramSame
<1>6. ASSUME NEW i \in sys.level, Pin(i) \in hw'[Ctrl(i)].isr
      PROVE  i \in due' \/ InService(i)'
  <2> SUFFICES ASSUME NEW k \in 2 .. Len(frames), frames[k].pc = "ret", IdOf(frames[k]) = i
               PROVE  InService(i)'
    BY <1>1, <1>6
  <2>1. k - 1 \in 1 .. Len(frames') /\ frames'[k - 1] = frames[k]
    BY <1>1, <1>4
  <2> QED BY <2>1 DEF InService, IdOf
<1>7. ASSUME NEW i \in 1 .. Len(frames') PROVE i + 1 \in 1 .. Len(frames) /\ frames'[i] = frames[i + 1]
  BY <1>1, <1>4
<1>8. DueInv'
  BY <1>1, <1>6, <1>7 DEF DueInv, ToServe, IdAt, Pin, Ctrl
<1> QED BY <1>4, <1>5, <1>8
(* It goes on with the rest of its status.                                 *)
LEMMA RestKeeps ==
  ASSUME IInv, Return, drv.opt[top.c] # "single",
         frames' = <<[top EXCEPT !.status = top.status \ {top.n}, !.pc = "scan"]>> \o Tail(frames)
  PROVE  IInv'
<1> USE DEF IInv
<1> DEFINE static == IF top.pc = "chained" THEN drv.static - 1 ELSE drv.static
           rest == top.status \ {top.n}
           g == [top EXCEPT !.status = rest, !.pc = "scan"]
<1>1. /\ frames # <<>> /\ top.pc \in {"ret", "chained"}
      /\ top \in Frames /\ top.n \in top.status /\ \A q \in top.status : top.n <= q
      /\ top = frames[1] /\ 1 \in 1 .. Len(frames) /\ Len(frames) \in Nat
      /\ hw' \in [Ctrls -> Regs] /\ hw'[0].ilr = top.ilr
      /\ \A d \in Ctrls : /\ hw'[d].ier = hw[d].ier /\ hw'[d].imr = hw[d].imr
                          /\ hw'[d].vec = hw[d].vec /\ hw'[d].me = hw[d].me
      /\ \A i \in sys.level : Pin(i) \in hw'[Ctrl(i)].isr =>
            i \in due \/ \E k \in 2 .. Len(frames) : frames[k].pc = "ret" /\ IdOf(frames[k]) = i
      /\ UNCHANGED <<sys, line, due, table, main, want>>
      /\ drv' = [drv EXCEPT !.static = static]
  BY ReturnFacts
<1>2. /\ OnStack(top, 1, Len(frames), Bottom) /\ Reads(top) /\ drv.static = Len(frames) - Bottom
      /\ Bottom \in 0 .. Len(frames)
  BY <1>1, FrameFacts
<1>3. ~(1 < Bottom)
  <2> SUFFICES ASSUME 1 < Bottom PROVE FALSE
    OBVIOUS
  <2>1. top.c = 0
    BY <1>2 DEF OnStack
  <2>2. sys.ilr /\ drv.ready
    <3>1. ~sys.ilr => Bottom <= 1
      BY DEF Stack
    <3>2. drv.started
      BY <1>1 DEF Stack
    <3> QED BY <1>1, <1>2, <3>1, <3>2 DEF ModeInv
  <2> QED BY <2>1, <2>2 DEF ModeInv
<1>4. Bottom \in {0, 1} /\ static = Len(frames) - 1 /\ static \in Nat
  <2>1. top.pc = "chained" <=> 1 > Bottom
    BY <1>2 DEF OnStack
  <2>2. Bottom \in {0, 1}
    BY ONLY <1>1, <1>2, <1>3
  <2> QED BY ONLY <1>1, <1>2, <2>1, <2>2
<1>5. /\ g \in Frames /\ g.c = top.c /\ g.status = rest /\ g.pc = "scan" /\ g.ilr = top.ilr
      /\ g.n = top.n
  <2>1. rest \in SUBSET Pins
    BY <1>1 DEF Frames
  <2> HIDE DEF rest
  <2> QED BY <1>1, <2>1 DEF Frames
<1>6. frames' = <<g>> \o Tail(frames)
  OBVIOUS
<1>7. rest \subseteq top.status /\ top.n \notin rest
  OBVIOUS
<1> HIDE DEF g, rest, static
<1>8. /\ frames' \in Seq(Frames) /\ Len(frames') = Len(frames) /\ frames'[1] = g /\ frames' # <<>>
      /\ \A i \in 2 .. Len(frames) : frames'[i] = frames[i]
  BY <1>1, <1>5, <1>6, TopFacts DEF TypeInv
<1>9. drv'.static = static /\ drv'.started /\ top' = g
  <2>1. drv.started
    BY <1>1 DEF Stack
  <2> QED BY <1>1, <1>8, <2>1 DEF TypeInv, top
<1>10. Bottom' = 1
  BY <1>1, <1>4, <1>8, <1>9 DEF Bottom
<1>11. ASSUME NEW i \in 1 .. Len(frames')
       PROVE  /\ OnStack(frames'[i], i, Len(frames'), Bottom')
              /\ Chosen(frames'[i]) /\ Reads(frames'[i])
  <2>1. CASE i = 1
    <3>1. OnStack(g, 1, Len(frames'), Bottom')
      BY <1>1, <1>2, <1>3, <1>5, <1>8, <1>10 DEF OnStack
    <3>2. Chosen(g) /\ Reads(g)
      BY <1>2, <1>5, <1>7 DEF Chosen, Reads
    <3> QED BY <1>8, <2>1, <3>1, <3>2
  <2>2. CASE i # 1
    <3>1. i \in 2 .. Len(frames) /\ i \in 1 .. Len(frames) /\ frames'[i] = frames[i]
      BY <1>1, <1>8, <2>2
    <3>2. OnStack(frames[i], i, Len(frames), Bottom) /\ Chosen(frames[i]) /\ Reads(frames[i])
      BY <3>1, FrameFacts
    <3>3. OnStack(frames[i], i, Len(frames'), Bottom')
      BY ONLY <1>1, <1>4, <1>8, <1>10, <3>1, <3>2 DEF OnStack
    <3> QED BY <3>1, <3>2, <3>3
  <2> QED BY <2>1, <2>2
<1>12. Stack'
  <2>1. drv.static < sys.ctrls /\ drv.static \in Nat /\ sys.ctrls \in 1 .. 3
    BY SystemFacts DEF Stack, TypeInv
  <2>2. /\ drv'.static \in Nat /\ drv'.static < sys.ctrls /\ Bottom' \in 0 .. Len(frames')
        /\ ~sys.ilr => Bottom' <= 1
    BY <1>1, <1>2, <1>4, <1>8, <1>9, <1>10, <2>1
  <2> QED BY <1>1, <1>8, <1>9, <1>11, <2>2, StackStep
<1>13. ASSUME NEW i \in 1 .. Len(frames') PROVE frames'[i].ilr = W
  <2>1. i \in 1 .. Len(frames) /\ ~(i < Bottom)
    BY <1>1, <1>4, <1>8
  <2>2. frames[i].ilr = W
    BY <2>1 DEF Levels
  <2>3. i = 1 \/ i \in 2 .. Len(frames)
    BY ONLY <1>1, <2>1
  <2> QED BY <1>1, <1>5, <1>8, <2>2, <2>3
<1>14. Levels'
  <2>1. \A i \in 1 .. Len(frames') : ~(i < Bottom') /\ \A k \in i + 1 .. Bottom' : FALSE
    BY <1>1, <1>8, <1>10
  <2>2. \A i \in 1 .. Len(frames') :
          LET f == frames'[i]
          IN  /\ f.ilr = (IF i < Bottom' THEN frames'[i + 1].n ELSE W)
              /\ i < Bottom' /\ f.pc # "scan" => f.n < f.ilr
              /\ i < Bottom' /\ f.pc = "scan" => \E q \in f.status : q < f.ilr
              /\ \A k \in i + 1 .. Bottom' : f.ilr <= frames'[k].n
    BY ONLY <1>13, <2>1
  <2>3. hw'[0].ilr = top'.ilr /\ top'.pc = "scan"
    BY <1>1, <1>5, <1>8, <1>9, <1>13
  <2> QED BY ONLY <1>8, <2>2, <2>3 DEF Levels
<1>15. TypeInv' /\ ScriptInv' /\ EnableInv' /\ ModeInv'
  <2>1. line' \subseteq sys.level \cap due'
    BY <1>1 DEF TypeInv
  <2> QED BY <1>1, <1>4, <1>8, <2>1, ProgramSame
<1>16. ASSUME NEW i \in sys.level, Pin(i) \in hw'[Ctrl(i)].isr
       PROVE  i \in due' \/ InService(i)'
  <2> SUFFICES ASSUME NEW k \in 2 .. Len(frames), frames[k].pc = "ret", IdOf(frames[k]) = i
               PROVE  InService(i)'
    BY <1>1, <1>16
  <2>1. k \in 1 .. Len(frames') /\ frames'[k] = frames[k]
    BY <1>1, <1>8
  <2> QED BY <2>1 DEF InService, IdOf
<1>17. ASSUME NEW i \in 1 .. Len(frames'), NEW p \in ToServe(frames'[i])
       PROVE  i \in 1 .. Len(frames) /\ frames'[i].c = frames[i].c /\ p \in ToServe(frames[i])
  <2>1. CASE i = 1
    <3>1. p \in rest /\ p < top.ilr
      BY <1>5, <1>8, <1>17, <2>1 DEF ToServe
    <3>2. top.n < p
      <4>1. top.n <= p /\ top.n # p /\ top.n \in Pins /\ p \in Pins
        BY <1>1, <1>7, <3>1 DEF Frames
      <4>2. W \in Nat
        BY SystemFacts DEF TypeInv
      <4> QED BY ONLY <4>1, <4>2 DEF Pins
    <3> QED BY <1>1, <1>5, <1>7, <1>8, <2>1, <3>1, <3>2 DEF ToServe
  <2>2. CASE i # 1
    BY <1>8, <1>17, <2>2
  <2> QED BY <2>1, <2>2
<1>18. DueInv'
  BY <1>1, <1>16, <1>17 DEF DueInv, ToServe, IdAt, Pin, Ctrl
<1> QED BY <1>12, <1>14, <1>15, <1>18

LEMMA ReturnKeeps == IInv /\ Return => IInv'
BY ReturnFacts, PopKeeps, RestKeeps

LEMMA HandlerKeeps == IInv /\ Handler => IInv'
BY EnterKeeps, ServeKeeps, BodyKeeps, ReturnKeeps, LeaveKeeps DEF Handler
-----------------------------------------------------------------------------
(* All together.                                                           *)
LEMMA StutterKeeps == IInv /\ UNCHANGED vars => IInv'
<1> SUFFICES ASSUME IInv, UNCHANGED vars PROVE IInv'
  OBVIOUS
<1> USE DEF IInv
<1>1. UNCHANGED <<sys, hw, line, due, drv, table, main, frames, want>>
  BY DEF vars, core
<1>2. 0 \in Ctrls /\ hw' \in [Ctrls -> Regs] /\ frames' \in Seq(Frames) /\ line' \subseteq sys.level \cap due'
  BY <1>1, SystemFacts DEF TypeInv
<1>3. TypeInv' /\ ScriptInv' /\ EnableInv' /\ ModeInv'
  <2>1. drv.static \in Nat /\ drv' = [drv EXCEPT !.static = drv.static]
    BY <1>1 DEF TypeInv
  <2> QED BY <1>1, <1>2, <2>1, ProgramSame
<1>4. Stack' /\ Levels'
  BY <1>1, SameFrames
<1>5. DueInv'
  BY <1>1 DEF DueInv, InService, IdOf, ToServe, IdAt, Ctrl, Pin
<1> QED BY <1>3, <1>4, <1>5

LEMMA NextKeeps == IInv /\ Careful /\ [Next]_vars => IInv'
BY ScriptKeeps, CallsKeep, HandlerKeeps, DeviceKeeps, StutterKeeps DEF Next

LEMMA InitInv == Init => IInv
<1> SUFFICES ASSUME Init PROVE IInv
  OBVIOUS
<1>1. /\ sys \in Systems /\ hw = [c \in Ctrls |-> Reset] /\ line = {} /\ due = {}
      /\ drv = [ready |-> FALSE, started |-> FALSE, static |-> 0, opt |-> [c \in Ctrls |-> "none"]]
      /\ table = [id \in Ids |-> [h |-> "null", ref |-> "none"]]
      /\ main = Idle /\ frames = <<>> /\ want = {}
  BY DEF Init, CoreInit
<1>2. 0 \in Ctrls /\ 0 \in Ids /\ W \in Nat \ {0}
  BY <1>1, SystemFacts
<1>3. Reset \in Regs
  <2>1. W \in 0 .. W
    BY <1>2
  <2> QED BY <2>1 DEF Reset, Regs
<1>4. \A c \in Ctrls : hw[c] = Reset
  BY <1>1
<1>5. TypeInv
  <2>1. main \in [script : Seq(Steps), id : Ids, was : BOOLEAN, cur : SUBSET Pins]
    BY <1>1, <1>2 DEF Idle
  <2>2. hw \in [Ctrls -> Regs] /\ frames \in Seq(Frames) /\ line \subseteq sys.level \cap due
    BY <1>1, <1>3
  <2>3. drv \in [ready : BOOLEAN, started : BOOLEAN, static : Nat,
                 opt : [Ctrls -> {"none", "single", "all"}]]
    BY <1>1
  <2>4. table \in [Ids -> [h : {"null", "stub", "own"}, ref : {"none", "intc", "own"}]]
    BY <1>1
  <2> QED BY <1>1, <2>1, <2>2, <2>3, <2>4 DEF TypeInv
<1>6. ScriptInv
  BY <1>1 DEF ScriptInv, Left, Idle
<1>7. EnableInv /\ ModeInv
  <2>1. \A id \in Ids : Ctrl(id) \in Ctrls
    BY <1>1, IdFacts
  <2> QED BY <1>1, <1>2, <1>4, <2>1 DEF EnableInv, ModeInv, Reset
<1>8. Stack /\ Levels
  <2>1. Len(frames) = 0 /\ drv.static = 0 /\ Bottom = 0 /\ 0 < sys.ctrls
    BY <1>1, <1>2, SystemFacts DEF Bottom
  <2> QED BY <1>1, <1>2, <1>4, <2>1 DEF Stack, Levels, Reset
<1>9. DueInv
  <2>1. \A id \in sys.level : Ctrl(id) \in Ctrls
    BY <1>5, LevelFacts
  <2>2. Len(frames) = 0
    BY <1>1
  <2> QED BY <1>4, <2>1, <2>2 DEF DueInv, Reset
<1> QED BY <1>5, <1>6, <1>7, <1>8, <1>9 DEF IInv

(* The program that keeps to the rules keeps the registers, the table, its *)
(* script and the stack of handlers in the relation IInv gives.            *)
THEOREM SpecKeepsInvariant ==
  ASSUME Careful
  PROVE  Spec => []IInv
<1>1. Init => IInv
  BY InitInv
<1>2. IInv /\ [Next]_vars => IInv'
  BY NextKeeps
<1> QED BY <1>1, <1>2, PTL DEF Spec

(* The level register does its work: a handler on the first controller is  *)
(* interrupted by a higher priority only, and never by its own source      *)
(* (XIntc_DeviceInterruptHandler, xintc_intr.c), if it was told to return  *)
(* to the processor behind each source.                                    *)
THEOREM HandlersNestUpwards ==
  ASSUME Careful
  PROVE  Spec => []NestsUpwards
<1>1. IInv => NestsUpwards
  <2> SUFFICES ASSUME IInv, NEW i \in 1 .. Len(frames) - 1, frames[i].c = 0, frames[i].pc # "scan"
               PROVE  frames[i].n < frames[i + 1].n
    BY DEF NestsUpwards
  <2> USE DEF IInv
  <2>1. Len(frames) \in Nat /\ i \in 1 .. Len(frames)
    BY DEF TypeInv
  <2>2. OnStack(frames[i], i, Len(frames), Bottom) /\ Bottom \in 0 .. Len(frames)
    BY <2>1, FrameFacts
  <2>3. i < Bottom
    <3>1. CASE i < Bottom
      BY <3>1
    <3>2. CASE ~(i < Bottom)
      <4>1. frames[i].c = Len(frames) - i
        BY ONLY <2>2, <3>2 DEF OnStack
      <4> QED BY <2>1, <4>1
    <3> QED BY <3>1, <3>2
  <2> QED BY <2>1, <2>3 DEF Levels
<1> QED BY <1>1, SpecKeepsInvariant, PTL

(* A handler is entered with its own reference, for a source the program   *)
(* has enabled, and for a level driven one only while its device waits.    *)
THEOREM HandlersAreDue ==
  ASSUME Careful
  PROVE  Spec => CallsAreDue
<1> DEFINE Entered == IF frames = <<>> THEN FALSE ELSE top.pc = "body" /\ frames'[1].pc = "ret"
           Due == /\ table[IdOf(top)] = Own
                  /\ IdOf(top) \in want
                  /\ IdOf(top) \in sys.level => IdOf(top) \in due
<1>1. IInv /\ top.pc = "body" /\ frames # <<>> => Due
  <2> SUFFICES ASSUME IInv, top.pc = "body", frames # <<>> PROVE Due
    OBVIOUS
  <2> USE DEF IInv
  <2> DEFINE id == IdOf(top)
  <2>1. /\ top \in Frames /\ top.c \in Ctrls /\ top.n \in Pins /\ top.n \in top.status
        /\ top.n < top.ilr /\ id \in Ids /\ Ctrl(id) = top.c /\ Pin(id) = top.n
        /\ id = IdAt(top.c, top.n) /\ ~Chained(top.c, top.n)
        /\ drv.started /\ 1 \in 1 .. Len(frames) /\ top = frames[1]
    BY BodyFacts
  <2>2. Reads(top)
    BY <2>1, FrameFacts
  <2> HIDE DEF id
  <2>3. id \in want /\ Listened(id)
    <3>1. Pin(id) \in hw[Ctrl(id)].ier
      BY <2>1, <2>2 DEF Reads
    <3>2. ~Resetting
      BY <2>1 DEF Resetting
    <3> QED BY <2>1, <3>1, <3>2 DEF EnableInv
  <2>4. table[id] = Own
    <3>1. top.c = 0 => top.n \notin hw[0].imr
      BY <2>1, <2>2 DEF Reads
    <3> QED BY <2>1, <2>3, <3>1 DEF Listened
  <2>5. id \in sys.level => id \in due
    <3>1. top.n \in ToServe(frames[1]) /\ frames[1].c = top.c
      <4>1. top.n <= top.n
        <5>1. top.n \in Nat
          BY <2>1 DEF Frames
        <5> QED BY <5>1
      <4> QED BY <2>1, <4>1 DEF ToServe
    <3> QED BY <2>1, <3>1 DEF DueInv
  <2> QED BY <2>3, <2>4, <2>5 DEF id
<1>2. IInv /\ [Next]_vars => [Entered => Due]_vars
  <2>1. Entered => top.pc = "body" /\ frames # <<>>
    OBVIOUS
  <2> HIDE DEF Due
  <2> QED BY <1>1, <2>1
<1>3. [][Entered => Due]_vars => CallsAreDue
  <2>1. (Entered => Due) =>
          ((IF frames = <<>> THEN FALSE ELSE top.pc = "body" /\ frames'[1].pc = "ret") =>
             LET id == IdOf(top)
             IN  /\ table[id] = Own
                 /\ id \in want
                 /\ id \in sys.level => id \in due)
    OBVIOUS
  <2> QED BY <2>1, PTL DEF CallsAreDue
<1>4. Spec => [][Next]_vars
  BY PTL DEF Spec
<1> HIDE DEF Entered, Due
<1> QED BY <1>2, <1>3, <1>4, SpecKeepsInvariant, PTL
=============================================================================
