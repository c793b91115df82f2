-------------------------------- MODULE Iic --------------------------------
(***************************************************************************)
(* The two ways of using the I2C core: a board tool that polls it, or the  *)
(* interrupt-driven driver under an application.                           *)
(***************************************************************************)
EXTENDS IicPolled, IicDriver

iicVars == <<coreVars, polledVars, driverVars>>

NoTool == stage = "over" /\ pc = "none" /\ call = NoCall /\ left = 0 /\ got = <<>> /\ count = 0
          /\ job = [tool |-> "none"]

IicInit ==
  \/ PolledInit /\ CoreInit(job.faults) /\ DriverInit(<<>>)
  \/ NoTool /\ \E p \in Programs : DriverInit(p.ops) /\ CoreInit(p.faults)

ToolStep == (Poll \/ Tool) /\ UNCHANGED driverVars
DriverStep == (Calls \/ Handler) /\ UNCHANGED polledVars

IicNext == ToolStep \/ DriverStep \/ (CoreUnderPolling /\ UNCHANGED driverVars)

FairIicSpec ==
  /\ IicInit /\ [][IicNext]_iicVars
  /\ WF_iicVars(ToolStep)
  /\ WF_iicVars(DriverStep)
  /\ WF_iicVars(Shift /\ CoreUnderPolling /\ UNCHANGED driverVars)
  /\ WF_iicVars(Rival /\ CoreUnderPolling /\ UNCHANGED driverVars)
-----------------------------------------------------------------------------
(* A read that is reported whole holds the device's registers in order     *)
(* from its pointer, and the device has given exactly as many: the core    *)
(* has refused the last byte, neither earlier nor later. What a slave has  *)
(* received of one message is in order (a second message that comes before *)
(* the interrupt is served is taken for more of the first).                *)
Registers(n) == [i \in 1..n |-> dev.ptr - n + i - 1]
ReadIsExact ==
  /\ pc = "return" /\ call.fn \in {"recv", "dynRecv"} /\ count = call.n =>
       got = Registers(call.n) /\ dev.gave = call.n
  /\ irq.on /\ app.told = "received" =>
       buf = Registers(app.op.n) /\ dev.gave = app.op.n
  /\ app.slave = "receiving" /\ dev.turns = Turns - 1 =>
       IsPrefix(buf, [i \in 1..(Depth + 1) |-> Depth + 2 - i])

(* A write that is reported whole has reached the device in order. Whether *)
(* its last byte has been accepted nobody looks at.                        *)
Reached(bytes) ==
  dev.heard = bytes \/ (dev.faults \cap {"nack", "rival"} # {} /\ dev.heard = Front(bytes))
WriteIsWhole ==
  /\ pc = "return" /\ call.fn \in {"send", "dynSend"} /\ count = call.n => Reached(call.bytes)
  /\ app.told = "sent" /\ (app.op.rep \/ wire.master # "us") /\ app.state \in {"idle", "busBusy"} =>
       Reached(Bytes(app.op.n))

(* What is reported whole, read or written, polled or under interrupts. *)
ReportedIsWhole == ReadIsExact /\ WriteIsWhole

(* Every transfer is reported to the application once, and no more.        *)
ReportedOnce == ~app.stray

(* Every tool ends, and every transfer of the application.                 *)
TransfersEnd == <>(stage = "over" /\ app.todo = <<>>)
=============================================================================
