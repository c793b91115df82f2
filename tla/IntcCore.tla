------------------------------ MODULE IntcCore ------------------------------
(* The AXI interrupt controllers as the driver under lib/intc_v3_15 uses   *)
(* them, and the devices on their pins. The controllers of a system are    *)
(* chained: the output of each is the last pin of the one before. A pin    *)
(* number is its priority, 0 first. Identifiers run over the pins of all   *)
(* controllers, as in xparameters.h.                                       *)
EXTENDS Integers, FiniteSets

CONSTANTS
  W,              \* pins of a controller, 32 in the hardware
  Systems         \* the systems looked at, see Shapes

VARIABLES
  sys,            \* the system, never changes
  hw,             \* the registers of each controller
  line,           \* the devices that hold their pin high
  due             \* the identifiers with a condition no handler has served

Ctrls == 0 .. sys.ctrls - 1
Ids == 0 .. (W * sys.ctrls) - 1
Ctrl(id) == id \div W
Pin(id) == id % W
Chained(c, p) == p = W - 1 /\ c < sys.ctrls - 1

(* level, edge, soft: which identifiers have a device that keeps its line  *)
(* up until it is served, a device that pulses, or none (software).        *)
Shapes == [ctrls : 1 .. 3, ilr : BOOLEAN, fast : BOOLEAN,
           level : SUBSET Nat, edge : SUBSET Nat, soft : SUBSET Nat]

(* Every pin has at most one thing on it: a device, or the controller that *)
(* comes next.                                                             *)
ASSUME IntcCoreAssumption ==
  /\ W \in Nat \ {0}
  /\ Systems \subseteq Shapes
  /\ \A s \in Systems :
       /\ s.level \cup s.edge \cup s.soft \subseteq 0 .. (W * s.ctrls) - 1
       /\ s.level \cap (s.edge \cup s.soft) = {} /\ s.edge \cap s.soft = {}
       /\ \A c \in 1 .. s.ctrls - 1 : (W * c) - 1 \notin s.level \cup s.edge \cup s.soft

Reset == [isr |-> {}, ier |-> {}, imr |-> {}, me |-> FALSE, hie |-> FALSE,
          ilr |-> W, vec |-> {}]

Asserted(r) == {p \in r.isr \cap r.ier : p < r.ilr}
Irq(r) == r.me /\ Asserted(r) # {}

(* Level pins latch again as long as they are held. Only a controller with *)
(* the hardware enable bit looks at its pins.                              *)
Latched(r, pins) == IF r.hie THEN [r EXCEPT !.isr = @ \cup pins] ELSE r
FromDevices(held, c) == {Pin(id) : id \in {i \in held : Ctrl(i) = c}}
FromNext(next) == IF Irq(next) THEN {W - 1} ELSE {}
Settled(h, held) ==
  LET s[c \in Ctrls] ==
        Latched(h[c], FromDevices(held, c) \cup
                      IF c + 1 \in Ctrls THEN FromNext(s[c + 1]) ELSE {})
  IN  s
Acked(h, c, pins) == [h EXCEPT ![c].isr = @ \ pins]

CoreInit ==
  /\ sys \in Systems
  /\ hw = [c \in Ctrls |-> Reset]
  /\ line = {} /\ due = {}

(* A device has something. A pulse that no controller looks at is lost.    *)
Event(id) ==
  \/ /\ id \in sys.level \ line
     /\ line' = line \cup {id}
     /\ due' = due \cup {id}
     /\ hw' = Settled(hw, line')
  \/ /\ id \in sys.edge /\ hw[Ctrl(id)].hie
     /\ due' = due \cup {id}
     /\ hw' = Settled([hw EXCEPT ![Ctrl(id)].isr = @ \cup {Pin(id)}], line)
     /\ UNCHANGED line
=============================================================================
