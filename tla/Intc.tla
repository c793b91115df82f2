-------------------------------- MODULE Intc --------------------------------
(* The driver of the interrupt controllers: the calls a program makes      *)
(* (xintc.c, xintc_options.c, xintc_selftest.c, xintc_l.c) and the handler *)
(* the processor runs (XIntc_DeviceInterruptHandler, XIntc_CascadeHandler).*)
(* A call is a script of register accesses and stores; the handler may run *)
(* between any two of them. A handler runs to its end before the program   *)
(* goes on, and with an interrupt level register it can be interrupted by  *)
(* a higher priority.                                                      *)
EXTENDS IntcCore, Sequences

CONSTANTS
  MaxCalls,       \* calls the program makes
  MaxEvents,      \* what all devices together have
  Careful         \* the program keeps to the rules of SetNormal and of "all"

VARIABLES
  drv,            \* the XIntc instance, Options of each table entry, static Id
  table,          \* HandlerTable: the handler and its callback reference
  main,           \* the call in progress: the script left, its Id, its locals
  frames,         \* the handlers in progress, the innermost one first
  want,           \* what the program has enabled
  spent           \* calls and events so far

core == <<sys, hw, line, due>>
vars == <<core, drv, table, main, frames, want, spent>>

Idle == [script |-> <<>>, id |-> 0, was |-> FALSE, cur |-> {}]
Own == [h |-> "own", ref |-> "own"]

Init ==
  /\ CoreInit
  /\ drv = [ready |-> FALSE, started |-> FALSE, static |-> 0, opt |-> [c \in Ctrls |-> "none"]]
  /\ table = [id \in Ids |-> [h |-> "null", ref |-> "none"]]
  /\ main = Idle /\ frames = <<>> /\ want = {}
  /\ spent = [calls |-> 0, events |-> 0]
-----------------------------------------------------------------------------
(* The steps of a script.                                                  *)
At(step) == frames = <<>> /\ main.script # <<>> /\ Head(main.script) = step
c0 == Ctrl(main.id)
p0 == Pin(main.id)
Done(m) == IF Len(m.script) = 1 THEN Idle ELSE [m EXCEPT !.script = Tail(@)]

Advance(m) == main' = Done(m) /\ UNCHANGED <<sys, frames, want, spent>>
Writes(h, held) == hw' = Settled(h, held) /\ UNCHANGED <<line, drv, table>>
Stores(entry) == table' = [table EXCEPT ![main.id] = entry] /\ UNCHANGED <<hw, line, due, drv>>

(* XIntc_Initialize, unless the controller is started. All handlers get    *)
(* this instance for a reference, a handler connected earlier included.    *)
Initialized(entry) == [h |-> IF entry.h = "null" THEN "stub" ELSE entry.h, ref |-> "intc"]
Primary(r) == [r EXCEPT !.me = FALSE, !.isr = {}, !.imr = IF sys.fast THEN {} ELSE @,
                        !.vec = IF sys.fast THEN {} ELSE @,
                        !.ier = IF sys.ctrls > 1 THEN {W - 1} ELSE {}]
InitializeSlaves(h) ==
  [c \in Ctrls |-> IF c = 0 THEN h[c]
                   ELSE [h[c] EXCEPT !.me = FALSE, !.isr = {},
                                     !.ier = IF c = sys.ctrls - 1 THEN {} ELSE {W - 1}]]
NeverRefused == FALSE
Refused == drv.started
Config ==
  /\ At("config")
  /\ IF Refused THEN UNCHANGED <<hw, due, drv, table>>
     ELSE /\ hw' = Settled(InitializeSlaves(Settled([hw EXCEPT ![0] = Primary(@)], line)), line)
          /\ due' = line
          /\ drv' = [drv EXCEPT !.ready = TRUE, !.opt[0] = "single"]
          /\ table' = [id \in Ids |-> Initialized(table[id])]
  /\ Advance(main) /\ UNCHANGED line

Start ==
  /\ At("real") \/ At("simulation")
  /\ drv' = [drv EXCEPT !.started = TRUE]
  /\ hw' = Settled([c \in Ctrls |-> [hw[c] EXCEPT !.me = TRUE, !.hie = @ \/ At("real")]], line)
  /\ Advance(main) /\ UNCHANGED <<line, due, table>>
Stop ==
  /\ At("stop")
  /\ drv' = [drv EXCEPT !.started = FALSE]
  /\ hw' = Settled([hw EXCEPT ![0].me = FALSE], line)
  /\ Advance(main) /\ UNCHANGED <<line, due, table>>

(* XIntc_Connect stores the handler, then the reference. XIntc_Disconnect  *)
(* puts the stub back.                                                     *)
Connect ==
  \/ At("handler") /\ Stores([table[main.id] EXCEPT !.h = "own"]) /\ Advance(main)
  \/ At("ref") /\ Stores([table[main.id] EXCEPT !.ref = "own"]) /\ Advance(main)
Disconnect ==
  \/ At("stub") /\ Stores([table[main.id] EXCEPT !.h = "stub"]) /\ Advance(main)
  \/ At("unref") /\ Stores([table[main.id] EXCEPT !.ref = "intc"]) /\ Advance(main)

(* The enable register is read, and written in a later step.               *)
ReadIer ==
  /\ At("read")
  /\ Advance([main EXCEPT !.cur = hw[c0].ier, !.was = @ \/ p0 \in hw[c0].ier])
  /\ UNCHANGED <<hw, line, due, drv, table>>
Enable ==
  /\ At("on") \/ (At("onIf") /\ main.was)
  /\ Writes([hw EXCEPT ![c0].ier = main.cur \cup {p0}], line)
  /\ Advance(main) /\ UNCHANGED due
Disable ==
  /\ At("off") \/ (At("offIf") /\ main.was)
  /\ Writes([hw EXCEPT ![c0].ier = main.cur \ {p0}], line)
  /\ main' = Done(main)
  /\ want' = IF At("off") THEN want \ {main.id} ELSE want
  /\ UNCHANGED <<sys, due, frames, spent>>
NotEnabled ==
  /\ (At("onIf") \/ At("offIf")) /\ ~main.was
  /\ Advance(main) /\ UNCHANGED <<hw, line, due, drv, table>>
Acknowledge ==
  /\ At("ack")
  /\ Writes(Acked(hw, c0, {p0}), line)
  /\ due' = due \ ({main.id} \ line)
  /\ Advance(main)

(* Fast interrupts: the vector, then the mode. Back to normal mode, the    *)
(* vectors of all pins are set to the default, and the loop that does so   *)
(* leaves Id behind the last pin: that one is enabled, not the caller's.   *)
Fast ==
  /\ \/ At("vector") /\ Writes([hw EXCEPT ![c0].vec = @ \cup {p0}], line)
     \/ At("mode") /\ Writes([hw EXCEPT ![c0].imr = @ \cup {p0}], line)
  /\ Advance(main) /\ UNCHANGED due
Normal ==
  /\ \/ At("modeOff") /\ Writes([hw EXCEPT ![c0].imr = @ \ {p0}], line) /\ Advance(main)
     \/ /\ At("vectors")
        /\ Writes([hw EXCEPT ![c0].vec = {}], line)
        /\ Advance([main EXCEPT !.was = @ /\ W \in Ids, !.id = IF W \in Ids THEN W ELSE @])
  /\ UNCHANGED due

Options ==
  /\ At("single") \/ At("all")
  /\ drv' = [drv EXCEPT !.opt = [c \in Ctrls |-> Head(main.script)]]
  /\ Advance(main) /\ UNCHANGED <<hw, line, due, table>>
(* A simulated interrupt on a chained controller is written into those     *)
(* before it as well, the first one last.                                  *)
Simulate ==
  /\ At("simulate")
  /\ IF hw[0].hie THEN UNCHANGED <<hw, due>>
     ELSE /\ hw' = [c \in Ctrls |-> [hw[c] EXCEPT !.isr = @ \cup (IF c = c0 THEN {p0} ELSE IF c < c0 THEN {W - 1} ELSE {})]]
          /\ due' = due \cup {main.id}
  /\ Advance(main) /\ UNCHANGED <<line, drv, table>>
Trigger ==
  /\ At("trigger")
  /\ Writes([hw EXCEPT ![c0].isr = @ \cup {p0}], line)
  /\ due' = due \cup {main.id}
  /\ Advance(main)
(* It acknowledges what there is on the first controller, raises a pin and *)
(* acknowledges that.                                                      *)
SelfTest ==
  /\ At("selfTest")
  /\ Writes(Acked(hw, 0, 0 .. W - 1), line)
  /\ due' = {id \in due : Ctrl(id) # 0 \/ id \in line}
  /\ Advance(main)
-----------------------------------------------------------------------------
(* The calls a program makes: it connects before it enables, and changes   *)
(* a handler only while its source is disabled.                            *)
Call(script, id, wants) ==
  /\ main = Idle /\ frames = <<>> /\ spent.calls < MaxCalls
  /\ main' = [Idle EXCEPT !.script = script, !.id = id]
  /\ want' = wants
  /\ spent' = [spent EXCEPT !.calls = @ + 1]
  /\ UNCHANGED <<core, drv, table, frames>>

Sources == sys.level \cup sys.edge \cup sys.soft
Listened(id) == table[id] = Own \/ (Ctrl(id) = 0 /\ Pin(id) \in hw[0].imr)

(* A condition simulated on a chained controller does not outlive a        *)
(* disable: nothing raises the bits of the controllers before it again.    *)
Kept(id) == hw[0].hie \/ id \notin due \/ Ctrl(id) = 0

(* A program that uses the controller sets it up as XSetupInterruptSystem  *)
(* does, or the same way in simulation mode.                               *)
XSetupInterruptSystem(id) ==
  \E mode \in {"real", "simulation"} :
     /\ id \notin want
     /\ Call(<<"config", "handler", "ref", mode, "read", "on">>, id,
             (IF drv.started THEN want ELSE {}) \cup {id})
CallOn(id) ==
  /\ drv.ready
  /\ \/ table[id] # Own /\ id \notin want /\ Call(<<"handler", "ref">>, id, want)
     \/ Listened(id) /\ id \notin want /\ Call(<<"read", "on">>, id, want \cup {id})
     \/ id \in want /\ Kept(id) /\ Call(<<"read", "off">>, id, want)
     \/ id \in want /\ Kept(id) /\ Call(<<"read", "off", "stub", "unref">>, id, want)
     \/ id \in due \ line /\ Call(<<"ack">>, id, want)
     \/ id \in want /\ due = {} /\ Call(<<"simulate">>, id, want)
     \/ id \in sys.soft /\ Call(<<"trigger">>, id, want)
     \/ /\ sys.fast /\ Ctrl(id) = 0
        /\ \/ Call(<<"read", "read", "offIf", "vector", "mode", "read", "onIf">>, id, want)
           \/ /\ Careful => hw[0].imr \subseteq {Pin(id)} /\ id \notin want
              /\ Call(<<"read", "read", "offIf", "modeOff", "vectors", "read", "onIf">>, id, want)
CallAny ==
  /\ drv.ready
  /\ \/ ~drv.started /\ \E mode \in {"real", "simulation"} : Call(<<mode>>, 0, want)
     \/ drv.started /\ Call(<<"stop">>, 0, want)
     \/ drv.opt[0] # "single" /\ Call(<<"single">>, 0, want)
     \/ (Careful => ~sys.ilr) /\ drv.opt[0] # "all" /\ Call(<<"all">>, 0, want)
     \/ ~drv.started /\ Call(<<"selfTest">>, 0, want)
Calls == CallAny \/ \E id \in Sources : XSetupInterruptSystem(id) \/ CallOn(id)
Script ==
  \/ Config \/ Start \/ Stop \/ Connect \/ Disconnect \/ ReadIer \/ Enable \/ Disable
  \/ NotEnabled \/ Acknowledge \/ Fast \/ Normal \/ Options \/ Simulate \/ Trigger \/ SelfTest
-----------------------------------------------------------------------------
(* The handler. Edge driven sources are acknowledged before they are       *)
(* served, level driven ones after.                                        *)
top == Head(frames)
IdOf(f) == (f.c * W) + f.n
AckAllBefore(id) == TRUE
AckAllAfter(id) == FALSE
AckBefore(id) == id \in sys.edge
Status(h, c) == (h[c].isr \cap h[c].ier) \ (IF sys.fast THEN h[c].imr ELSE {})
Frame(h, c) == [c |-> c, status |-> Status(h, c), n |-> 0, pc |-> "scan", ilr |-> h[0].ilr]
Lowest(s) == CHOOSE p \in s : \A q \in s : p <= q
Interruptible == frames # <<>> => (sys.ilr /\ top.pc \in {"body", "ret"})

(* The processor takes the interrupt of the highest priority. A fast one   *)
(* is acknowledged by the hardware, which goes to its vector; the default  *)
(* vector is that of the normal handler.                                   *)
Enter ==
  /\ Interruptible /\ Irq(hw[0])
  /\ LET p == Lowest(Asserted(hw[0]))
         fast == p \in hw[0].imr
         h == IF fast THEN Acked(hw, 0, {p}) ELSE hw
         own == fast /\ p \in hw[0].vec
     IN  /\ line' = IF own THEN line \ {p} ELSE line
         /\ due' = IF own THEN due \ {p} ELSE due
         /\ hw' = Settled(h, line')
         /\ frames' = IF own \/ Status(hw', 0) = {} THEN frames ELSE <<Frame(hw', 0)>> \o frames
  /\ UNCHANGED <<sys, drv, table, main, want, spent>>

(* The next bit of the status read at the start.                           *)
Serve ==
  /\ frames # <<>> /\ top.pc = "scan" /\ top.status # {}
  /\ LET n == Lowest(top.status)
         h == IF sys.ilr THEN [hw EXCEPT ![0].ilr = n] ELSE hw
     IN  IF Chained(top.c, n)
         THEN /\ frames' = <<Frame(hw, drv.static + 1), [top EXCEPT !.n = n, !.pc = "chained"]>> \o Tail(frames)
              /\ drv' = [drv EXCEPT !.static = @ + 1]
              /\ UNCHANGED hw
         ELSE /\ frames' = <<[top EXCEPT !.n = n, !.pc = "body"]>> \o Tail(frames)
              /\ hw' = IF AckBefore((top.c * W) + n) THEN Settled(Acked(h, top.c, {n}), line) ELSE Settled(h, line)
              /\ UNCHANGED drv
  /\ UNCHANGED <<sys, line, due, table, main, want, spent>>

(* The handler of the table: one that is the device's own serves it.       *)
Body ==
  /\ frames # <<>> /\ top.pc = "body"
  /\ frames' = <<[top EXCEPT !.pc = "ret"]>> \o Tail(frames)
  /\ line' = IF table[IdOf(top)].h = "own" THEN line \ {IdOf(top)} ELSE line
  /\ due' = IF table[IdOf(top)].h = "own" THEN due \ {IdOf(top)} ELSE due
  /\ hw' = Settled(hw, line')
  /\ UNCHANGED <<sys, drv, table, main, want, spent>>

(* The level of the handler that was interrupted comes back.               *)
LevelToDefault(f) == W
RestoredLevel(f) == f.ilr
Return ==
  /\ frames # <<>> /\ top.pc \in {"ret", "chained"}
  /\ LET n == top.n
         h == IF top.pc = "ret" /\ AckBefore(IdOf(top)) THEN hw ELSE Acked(hw, top.c, {n})
         rest == top.status \ {n}
     IN  /\ hw' = Settled(IF sys.ilr THEN [h EXCEPT ![0].ilr = RestoredLevel(top)] ELSE h, line)
         /\ frames' = IF drv.opt[top.c] = "single" \/ rest = {} THEN Tail(frames)
                      ELSE <<[top EXCEPT !.status = rest, !.pc = "scan"]>> \o Tail(frames)
  /\ drv' = IF top.pc = "chained" THEN [drv EXCEPT !.static = @ - 1] ELSE drv
  /\ UNCHANGED <<sys, line, due, table, main, want, spent>>
Leave ==
  /\ frames # <<>> /\ top.pc = "scan" /\ top.status = {}
  /\ frames' = Tail(frames)
  /\ UNCHANGED <<core, drv, table, main, want, spent>>
Handler == Enter \/ Serve \/ Body \/ Return \/ Leave
-----------------------------------------------------------------------------
Device ==
  /\ spent.events < MaxEvents
  /\ spent' = [spent EXCEPT !.events = @ + 1]
  /\ \E id \in Sources : Event(id)
  /\ UNCHANGED <<sys, drv, table, main, frames, want>>

Next == Calls \/ Script \/ Handler \/ Device

(* The processor runs what it has begun and takes its interrupts. Neither  *)
(* the program nor a device has to do more.                                *)
Spec == Init /\ [][Next]_vars /\ WF_vars(Script) /\ WF_vars(Handler)
-----------------------------------------------------------------------------
(* A handler is entered with its own reference, for a source the program   *)
(* has enabled, and for a level driven one only when its device waits      *)
(* (xintc.h:28-35: "a level driven interrupt input signal requires the     *)
(* interrupt to acknowledged after servicing the interrupt to ensure that  *)
(* the interrupt only generates a single interrupt condition").            *)
CallsAreDue ==
  [][(IF frames = <<>> THEN FALSE ELSE top.pc = "body" /\ frames'[1].pc = "ret") =>
        LET id == IdOf(top)
        IN  /\ table[id] = Own
            /\ id \in want
            /\ id \in sys.level => id \in due]_vars

(* A handler is interrupted by higher priorities only, and never by itself *)
(* (XIntc_DeviceInterruptHandler's level register).                        *)
NestsUpwards ==
  \A i \in 1 .. Len(frames) - 1 :
     (frames[i].c = 0 /\ frames[i].pc # "scan") => frames[i].n < frames[i + 1].n

(* Between calls the enable registers are what the program has asked for   *)
(* (xintc.c:867-868, 925 and on: "Enable the Interrupt if it was enabled   *)
(* before calling this function").                                         *)
EnabledIsKept == main = Idle => \A id \in Sources : id \in want <=> Pin(id) \in hw[Ctrl(id)].ier

(* What a source has is served as long as the program listens to it, in    *)
(* simulation mode as well, where no controller looks at its pins.         *)
Listening(id) == id \in want /\ drv.started /\ (hw[0].hie \/ id \notin line)
EveryConditionServed ==
  \A id \in 0 .. (3 * W) - 1 : []<>~(id \in due /\ Listening(id))
=============================================================================
