# A TLA+ verification of the VU13P board's software

This directory models the software of a VU13P FPGA board: the programs that move
data between a Linux host, the board's DDR4 memory and its streams, those that
program its flash and configure the FPGA, and the bare-metal drivers it uses.  It holds TLA+ modules
translated from the sources under `src/`, configurations that model-check them
with TLC, and proofs that TLAPS checks.  Paths below are relative to `src/`.

| short name | path |
|---|---|
| `xaxidma_bdring.c`, `.h`, `xaxidma.c`, `.h` | `prj/07_pcie_ddr4_dma/driver/lib/dma/` |
| `driver/axidma.c` | `prj/02_pcie_ddr4x3_streamloop/driver/dmaltest/driver/` |
| `driver_s2mm/axidma_s2mm.c` | `prj/02_pcie_ddr4x3_streamloop/driver/dmaltest/driver_s2mm/` |
| `driver_mm2s/axidma_mm2s.c`, `play_test.c` | `prj/02_pcie_ddr4x3_streamloop/driver/dmaltest/driver_mm2s/` |
| `mcap_lib.c`, `mcap.c` | `driver/an64761/Linux/` |
| `flash_spi.c`, `flash_bpi.c`, `flash.c`, `bitfile.c`, `vu13p-fw.c` | `prj/01_basebd/driver/alex_qspi/src/` |
| `xiic_*.c`, `xintc*.c`, `xinterrupt_wrap.c`, `xil_testmem.c` | `prj/07_pcie_ddr4_dma/driver/lib/` (`iic`, `intc_v3_15`, `common`) |
| `xiic_wbwr.c` | `prj/07_pcie_ddr4_dma/driver/c/` |
| `xaxidma_example_simple_poll.c` | `prj/05_pcie_ddr4_qsfp/driver/axidma/` |

## 1. Inventory

### The DMA programs of project 02 (written for this board)

All three drive an AXI DMA engine on the board through a mapped PCIe BAR: DMACR
and DMASR (control and status), CURDESC and TAILDESC, and a ring of descriptors
in board memory.  Data goes over the XDMA character devices; a blocking `read()`
or a `poll()` of an XDMA event file delivers interrupts.  Nothing guards the
registers: the program's threads and the engine access them concurrently.

**File sender** (`driver/axidma.c`, MM2S half).  State: the file's size and
`bytes_sent`, the flag `running`, one descriptor for each packet.  `main` loads
the file, sets the descriptors up, creates the event thread, starts the engine
and joins the thread; the thread counts a packet for each interrupt and stops the
engine when the file has been sent or a transfer fails.  Hard: DMASR is read,
cleared and acted on in separate steps while packets complete; interrupts merge;
`running` is written by both threads.  Correct if the engine is stopped neither
before all is sent nor never.

**File player** (`driver_mm2s`).  A library: `axidma_mm2s_init`, `_play_file`,
`_play_memory`, `_wait`, `_stop`, `_free`.  State: a context with
`current_offset`, `current_desc_idx`, `file_completed`, `is_running`,
`is_cyclic`, an open file, and two descriptors for the two halves of a buffer.
A handler thread refills the half that has gone out and starts the engine again
at TAILDESC; `axidma_mm2s_play_file` detaches one such thread and
`axidma_mm2s_wait` starts and joins *a second one on the same context*, without
a lock.  Hard: two threads and the engine in step; a late thread; the file's end;
waiting, stopping and freeing.  Correct if the file comes out in order, once or
again and again, and if `wait` and `free` mean what their comments say.

**Stream receiver** (`driver_s2mm`).  A library: `axidma_s2mm_init`, `_start`,
`_stop`, `_free`.  State: a handle with the flag `thread_running`, four
descriptors with a buffer each, an output file.  An interrupt thread starts the
engine again, clears the interrupt, polls every descriptor and appends completed
buffers to the file.  Hard: the engine overwrites what the thread reads, buffers
complete during the poll, the client stops while the thread is in its loop.
Correct if every segment of the stream gets into the file whole, once and in
order, and `stop` stops.

**Frame receiver and its work queue** (`driver/axidma.c`, S2MM half).  The queue
(`init_work_queue`, `enqueue_work`, `dequeue_work`: a circular array, a mutex and
two condition variables) joins an event thread, which assembles frames from
descriptors (`process_descriptors`), to a worker that writes them to files.  In
this commit `main`'s use of this half is commented out (lines 970-1012 and
1076-1090).  Hard: lost wakeups; the scan against the engine; the stop.

### The vendor's DMA driver (project 07, bare metal)

**BD ring** (`xaxidma_bdring.c`).  State: the heads and counts of four groups of
buffer descriptors (BDs), free, pre-work, work and post-work, the BD to restart
from (`BdaRestart`), `RunState`.  Operations: Create, Clone, Alloc, UnAlloc,
ToHw, FromHw, Free, Start, and from `xaxidma.c` Reset, Pause and Resume.  It
shares the status words of BDs with the engine, which runs at any moment.  Hard:
pointer arithmetic round the ring, restarting at the right BD after a pause, an
error or a reset, rejected calls that change BDs, BDs handed over while the
channel starts.  Correct if the ring is a pipeline of four queues whatever the
calls, and none is lost, duplicated or passed over.

**The rest of `xaxidma.c`**: configuration, simple transfers without
scatter-gather, keyhole and cyclic modes.

### Flash, configuration, and the other drivers

**Firmware tool and flash programmers** (`vu13p-fw.c` over `flash.c`,
`flash_spi.c`, `flash_bpi.c`).  State: the chip (array, what it is busy with, its
status), the open device with what was read of the chip's geometry, the progress
of an erase or a write, the segment, the file.  `main` opens the device, picks a
segment, erases, writes, verifies, resets and boots.  Hard: waits that end only
when the chip says so, failures that the chip only reports, page, block and
segment boundaries, address widths, a kill at any point.  Correct if "succeeded"
means that the flash holds the file, nothing outside the segment is touched and
no half-written image is booted.

**MCAP tool** (`mcap_lib.c`, `mcap.c`).  State: CONTROL and STATUS of the
configuration port and the FPGA's configuration logic behind it, which changes
STATUS by itself.  Operations: resets, readback, partial and full bitstreams.
Hard: poll loops' ends, and what each error path puts back.  Correct if words go
out in write mode only, the port is given back, and "Done" is true.

**Interrupt controller driver** (`intc_v3_15`, `xinterrupt_wrap.c`).  State: the
controllers' registers, the table of handlers and references, the options.  The
program's calls are sequences of register accesses between which the handler runs,
nested by priority or down a chain of controllers.  Correct if a handler is
entered with its own reference for a condition that is due, only from lower
priorities, and no condition is lost.

**I2C** (`iic`, `xiic_wbwr.c`).  Two users of one core: tools that poll it, and a
driver whose handler runs the transfers.  Hard: the last two bytes of a read and
the last of a write, interrupt bits that latch, a device that refuses, another
master.  Correct if a read is exact, a write whole, every transfer reported once.

**Board tests** (`xil_testmem.c`, `xaxidma_example_simple_poll.c` over the simple
mode of `xaxidma.c`).  What they say of a board must be right.

**Without a model**: data mover control (`data_mover_ctrl.v`), clock wizard,
formatting and register access in `lib/common`, FIR filter, Ethernet and UART top
levels, test programs of straight-line accesses, build scripts.

`PROJECT.json` lists all, with a status and what is left out or why.

## 2. Plan

Built, in this order:

1. `BdRing`, its abstract specification `BdPipeline`, and `BdRingProofs`;
2. `WorkQueue`, its abstract specification `BoundedFifo`, and `AxidmaProofs`;
3. `SgChannel`, the engine and its interrupt as the Linux programs see them, which
   the next three extend: `S2mmReceiver`, `Mm2sPlayer`, `Mm2sSender`; a proof module for
   each of the first two, and `AxidmaProofs`, which proves about the sender too (it is the
   same program as the queue's, `driver/axidma.c`);
4. `FlashDevice`, `SpiFlash`, `BpiFlash`, and `Firmware` over both;
5. `McapFile` and `Mcap`; `ConfigurationProofs` is about both tools that configure the
   FPGA, this one and the firmware tool;
6. `FrameReceiver`, which composes `WorkQueue` and `SgChannel`, and `FrameReceiverProofs`;
7. `IicCore`, `IicPolled`, `IicDriver`, composed in `Iic`;
8. `IntcCore` and `Intc`, and `IntcProofs`;
9. `MemTest` and `SimpleDma`, composed in `BoardTests`, with `BoardProofs`.

Next, proofs: the polled and the interrupt-driven I2C transfers.  Of the code, next would be the BD ring's cyclic mode and fast
interrupts on chained controllers.

## 3. The models

### BdRing: one action per call, the engine beside them

A BD is its index, addresses are left out.  `freeHead .. postCnt` are the ring's
heads and counts, `bdaRestart` and `runState` its two other fields, `cmplt` and
`eof` the bits of the BDs' status and control words that the driver looks at,
`cdesc` and `tdesc` registers, `hwNext` where the engine is.  The application
passes *any* counts, pointers and flags: the functions' own tests are the guards,
and a call that is rejected without an effect is no step.  `BdRingToHwRejected` is
the rejection that has one: the BDs before the offending one have lost their
COMPLETE bit.

Calls exclude each other, as the driver demands of its caller, but the engine runs
within them where it matters: between the look at HwTail's status and the write
of TDESC in `XAxiDma_StartBdRingHw` (`pc = "kick"`), between the two starts of
`XAxiDma_Resume` (`"again"`), and between the save of CDESC and the reset bit in
`XAxiDma_Reset` (`"reset"`).  `UpdateBdRingCDesc` and `StartBdRingHw` are the two
functions of that name, with their early returns.

A ring is for transmission or for reception: `isRx` is chosen at the start and stays.
Five windows in which the driver is known to go wrong can be shut with the
constant `Hazards`, to check that the rest is right; section 5 gives each its
counterexample.  `BdPipeline` is what the ring promises: four FIFO queues.
`RefinesPipeline` maps each group, read off its head and count, to a queue, so it
covers arithmetic and order together.

### WorkQueue: threads at the mutex and the condition variables

A thread is outside, at `pthread_mutex_lock`, in the critical section or in
`pthread_cond_wait`; a critical section is one step, since the mutex makes it so.
`SignalAndReturn` wakes one waiting thread, any one, if there is one; `WakeUp` is
the spurious wakeup that POSIX allows.  `BoundedFifo` is what a bounded queue
promises, in terms of the queue and of what each thread has in its hands.

### SgChannel: the engine as the drivers use it

The engine's core and the XDMA driver are not in the repository.  `SgChannel` says
what the three programs take them to do, and what the notes in
`driver_mm2s/axidma_cfg.h:37-41` say of this engine: DMACR's cyclic bit makes it
ignore that a descriptor is completed; to go round the ring again TAILDESC must
be written.  Without the cyclic bit it stops with an error on a completed
descriptor.  Clearing RS lets a transfer in progress end.  The event file has one
event, raised when the interrupt line rises: an interrupt that comes while the
line is high adds none.  Each register access is a step of its own.

### S2mmReceiver, Mm2sPlayer, Mm2sSender

Each has the client (a `pc` through the calls of the library or `main`), the
threads, one action per register access or per access to a field that another
thread also uses, and the engine.  Data is a number: of a segment of the stream, of a half buffer of
the file (a "chunk"), of a packet.  A copy that takes time is two steps, and
what it got is torn (`Torn`, `Mixed`) if the memory changed between them.  In the
player the loads and stores of `current_desc_idx` and `current_offset` are apart
(`loaded`), since two threads update them without a lock; DMASR is read and written in
two steps.  A call of the player's handler may fail: no memory for its buffer or no
event file (the thread never begins), an event that cannot be read (it gives up), a read
of the file (`ReadFails`: the code takes it for the file's end, `axidma_mm2s.c:618`), a
write to the board that stops short.  `failed` keeps which.

What the environment does is a `setting` chosen at the start, so that one run
covers each, and a property names the setting that it needs:

| setting | meaning |
|---|---|
| `setting = "bursts"` (receiver) | the stream gives a segment whenever the thread is fewer than `MaxBehind` behind; one start, no failures |
| `setting = "paced"` (receiver) | a segment comes when the one before is saved; reads and writes may fail, the client starts up to `MaxStarts` times |
| `paced` (player) | sending half a buffer takes longer than a thread needs to react, and no interrupt of an earlier run is left; calls may fail in either case |
| `lastShort` (player) | the file ends within half a buffer |
| `Leftover`, `EngineErrors` (sender) | an interrupt of an earlier run is left; transfers may fail |

`KeepsPace`, in the property `PacedSenderEnds`, is the sender's counterpart.

### FrameReceiver: the queue and the engine composed

It extends both modules: the event thread's `Enqueue` and the worker's `Dequeue`
are `WorkQueue`'s steps with the frame as the item, the engine is `SgChannel`'s.
The scan looks at one descriptor a step (`ScanDesc`), since the engine completes
descriptors meanwhile; a frame is the set of segments it was assembled of.  `main`
is modelled by the lines that call this half, commented out in this commit.
`Worlds` says at which pace the stream comes (`"free"`, `"betweenScans"`,
`"onePerScan"`) and what may fail.

### Firmware over SpiFlash and BpiFlash

A cell stands for as many bytes as makes pages, blocks, steps and segments small;
each constant is scaled by itself and keeps its order with the others.  The chip
is `chip`: what it is, its mode, what it is busy with; it ends an operation by
itself (`ChipDone`), whether the tool lives or not, and may fail (`WearOut`).  The
drivers' waits are steps that the chip enables.  SPI bytes are put together from
groups of 1, 2 or 4 bits as the code does it; the three BPI command sets differ
in unlock, status and abort handling.  `Kill` and `RunAgain` are the crash and the
restart; the chip goes on through both, and the later run is given the same options or
those of `Reruns` (a boot alone).  A BPI chip that a killed run has left busy does not
answer the query (`flash_bpi.c` sends it no reset) and is not opened.  In
`pcie_disable_fatal_err` a port that does not open or is not read keeps the tool for ever
(`pc = "capabilities"`).

`GeometryAssumption` says what the constants of the code and of its chips have in
common: segments, steps and chips are whole numbers of erase blocks and of 16-bit
words (0x10000, 128 MB and powers of two), and an SPI chip is no larger than four
bytes of address reach.  The tool itself tests none of it.

### Mcap and McapFile

`McapFile` reads the three file formats into words, with the u8 that counts the
header of a .bit file.  `Mcap` takes a step for each register access; `GrantPort`
and `StartUp` are the configuration logic.  `Faults` says whether it may keep the
port, raise an error or refuse a reset.  It takes a word (`fpga`) only in write mode and
once it has given the port up; every other word is lost and nothing tells.  Two history
variables name the causes: `undone`, an earlier function of the command has failed, which
`main` does not look at, and `ungranted`, the function goes on though the request is
still there.

### Iic, with IicCore, IicPolled and IicDriver

`IicCore` is the core as its drivers take it to be: FIFOs with START and STOP
marks, status bits that latch levels and that a write toggles, throttling.  The
device may refuse its address (`busy`) or a byte (`nack`), another master may win
the bus (`rival`) or address the core (`asSlave`).  `IicPolled` is `xiic_l.c` with
the retries of `xiic_wbwr.c`; `IicDriver` the calls and the interrupt handler, one
step for each call, and in the handler one step for each source it serves.  That a call of
the driver is one step hides a window (section 5).  With
`PromptPolls` a polling process sees the bus busy before a refused address is over
(section 5).

### Intc and IntcCore

A call is a script of register accesses and stores (`main.script`), and the handler
may run between any two.  `frames` is the stack of handlers in progress: nesting
and chained controllers push on it.  A shape in `Systems` says which pins are
level driven, pulsed or raised by software.  `Careful` keeps the program to two
rules that the code does not enforce (section 5).

### BoardTests: MemTest and SimpleDma

A program runs a memory test or uses the DMA engine.  `MemTest`'s memory has at most
one fault: a bit stuck, two data lines tied, an address line that does not reach
it.  Nothing else uses the block, so one loop over it is a step.  `SimpleDma`'s
engine may lack a channel, have scatter-gather, never come out of reset, fail, or
drop one transfer; its client is the example, or any sequence of the driver's calls.

### Mutants

A definition whose comment says so, such as `TailUnchecked` before `TailPending`,
is a plausible bug of the definition that follows it.  Substituted for it, the
property that `PROJECT.json` names with it fails.  They are no part of the model.

## 4. The runs that pass

| run | instance | states | what it shows |
|---|---|---|---|
| `bd_ring` | 3 BDs, transmit and receive, fair engine | 50040 | whatever is called in whatever order with whatever arguments: `GroupLayout`, `InOrder` (none is passed over after a pause, error or reset), `EngineKeepsToWork`, `PostWorkIsWhole`, `RefinesPipeline`; and `PendingCompletes`: what waits in a running ring is completed |
| `work_queue` | 2+2 threads, capacity 2 | 17883 | `NoLostWakeup`, `RefinesFifo` |
| `s2mm_receiver` | 3 buffers, 5 segments; bursts of up to a ring, or paced with failures and 2 starts | 130418 | `SavedWholeOnce`, `FreedAfterThread`; in bursts `EverySegmentSaved`, paced `SavedInOrder` |
| `player` | 4 chunks, last one full or short, both modes, paced or single play at any pace, calls that fail | 826901 | `SentInOrder` while no call fails, and `KeepsPlaying`, with two threads that take each other's events; `CompleteMeansRead`: lost updates of the offset and threads that give up never end the file early, only a read that fails does |
| `sender` | 5 packets, errors, any pace | 913 | `StopsAfterAll`, `PacedSenderEnds` |
| `frame_receiver` | 3 descriptors, queue of 1, four worlds | 140345 | `EachSegmentOnce`, `FramesAreWhole`, `EventThreadStops`, `EachFrameSaved` |
| `firmware` | 32 cells; SPI chips of 3 sizes, BPI of 3 command sets; 8 files, 6 sets of options, 3 slots; killed, run twice, with the same options or to boot alone | 357823 | `ProgrammedIsFile`, `SelectedOnly`, `BootsIntact`, `ToolEnds` |
| `mcap` | words of 2 bytes, u8 of 8 values, all commands, 7 files | 16553 | `DataInWriteMode`, `PortGivenBack`, `DoneIsConfigured`, `CommandsEnd` |
| `iic` | FIFOs of 3, transfers of 1 to 6 bytes, 2 disturbances | 10612 | `ReportedIsWhole` (`ReadIsExact`, `WriteIsWhole`), `ReportedOnce`, `TransfersEnd` |
| `intc` | 2 pins a controller; nesting, fast, chain of 3; 4 calls, 2 events | 219228 | `CallsAreDue`, `NestsUpwards`, `EveryConditionServed` |
| `board_tests` | words of 2, 4, 8 bits, blocks of 1 to 18; 3 tries, 5 client calls | 200397 | `BitsAreFound`, `VerdictIsRight`, `PassMeansDelivered`, `NoneOverwritten`, `ExampleEnds` |

**Bounds.**  Three BDs or buffers are the fewest with a first, a middle and a last
one, so that groups of zero to three, wraps at each place, packets of several BDs
and a rejected set with some BDs touched all occur; the ring's operations treat
BDs only by place.  Two producers and two consumers are the fewest where a signal
may go to the wrong side or to one of two; capacity two has full, empty and
between.  Five segments go round three buffers and half again; a burst of three
fills the ring, so the thread meets it full.  Four chunks fill the two
halves twice; `MaxSent = 7` plays the file once and three more, so that the rewind and
the refill behind it are seen; threads that are slow get `MaxUnpaced = 3` transfers, which let both
refill at once and lose an update.  `FrameReceiver`'s engine goes round once (nothing
writes TAILDESC again), so three descriptors hold frames of one to three segments
and a queue of one slot is full at the second frame.  The flash has two segments of
two blocks, a block two subsectors, a subsector two pages; files end on a block's
boundary, inside a page and one cell past the segment.  FIFOs of three and transfers of
up to six bytes have every case of less than, exactly, one more than and twice what
fits.  Two pins a controller and three controllers are the smallest chain with a
middle.  Memory blocks are shorter and longer than a word has bits, than its values
and than the counter of bytes.  `MaxSent`, `MaxUnpaced`, `MaxSegments`, `MaxStarts`,
`MaxCalls`, `MaxEvents`, `Turns` and `Runs` are the only bounds on counters; the steps
they stop are the environment's: transfers, starts, calls, events, disturbances.

**Deadlock** is checked in the runs of `BdRing` and `WorkQueue`.  The others say
`CHECK_DEADLOCK FALSE`: their programs end, their streams dry up, and that a
thread may wait for ever in `read()` is the subject of section 5.

**Fairness.**  Threads are scheduled (weak fairness on each thread's steps), since
nothing blocks them but what the models have as guards.  Where a thread competes
for a mutex (`FrameReceiver`) or polls with a timeout beside the event
(`Mm2sSender`, `FrameReceiver`), strong fairness says that it is not passed over for
ever.  The
player's handlers have weak fairness each; of two in `read()` either may get an event,
and neither is assumed to get every one.  No call of theirs has to fail.  The engine ends the transfers that it
has begun.  Nobody has to call, to stop or to press a key, the stream may end,
and engine errors are never assumed to happen.  In `BdRing` the engine is
strongly fair only because a call holds it up for an instant when the window
`kickRace` is shut.  A flash chip ends what it is busy with, well or not; the
configuration logic gives the port up unless `"req"` is among `Faults`; the bus
shifts; a processor runs the interrupts it takes.  The tools' own steps are weakly
fair until they are killed.

## 5. Where the code does something else than its comments say

One run expects a violation: `s2mm_stop_ends` shows that `axidma_s2mm_stop` joins a
thread that sits in `read()` for an event of the engine just stopped
(`axidma_s2mm.c:262`), where its header promises a return.

Two more disagreements bound what the passing runs claim, each with a configuration of
its own that TLC refutes:

* `FirmwareEveryRunEnds.cfg`, `EveryRunEnds`: `pcie_disable_fatal_err` tests `!fd` where
  `open` returns -1 (`vu13p-fw.c:489`); every `pread` then fails, and `while (offset > 0)`
  at line 510 never ends, where line 491 promises "Failed to open config region of port".
  The run `firmware` therefore claims `ToolEnds` up to that loop and no further.
* `McapDoneMeansTaken.cfg`, `DoneMeansTaken`: `main` ignores that a clear file has failed
  (`mcap.c:157`); the bitstream behind it sets no write mode of its own
  (`mcap_lib.c:314`), all its words are lost, EOS is still high, and "FPGA Configuration
  Done!!" (`mcap_lib.c:652`) is said of an FPGA that has taken nothing.
  `DoneIsConfigured`, in the run `mcap`, says that this, and a port that was not given up
  in time, are the only ways to it.

The other disagreements are stated in the modules, and TLC refutes them when it is
run by hand: with the configuration named, with the change of a constant of the
component's own configuration, or with the property added to it.

| to run | property | at | what happens |
|---|---|---|---|
| `BdRingRxOnly.cfg` | `InOrder` | `xaxidma.c:292` | an engine without MM2S: the reset saves no RX ring's current BD, and the start after it begins with a BD of long ago (`xaxidma.h:317-319` promises to resume) |
| `Hazards = {"lap"}` | `InOrder` | `xaxidma.c:300` | the engine completes BDs between the save of CDESC and the reset bit; the stale BD to restart from is recycled and handed over again, and the restart begins there |
| `Hazards = {"resetTwice"}` | `InOrder` | `xaxidma_bdring.h:215` | a second reset without a start between saves the CDESC of a channel that was reset: no BD |
| `Hazards = {"clone"}` | `InOrder` | `xaxidma_bdring.c:518` | cloning clears the COMPLETE bits by which the restart finds its way |
| `Hazards = {"dirtyStart"}` | `InOrder` | `xaxidma_bdring.c:192` | a ring that was paused is started after an error, and the search begins at an old BD |
| `Hazards = {"kickRace"}` | `EngineKeepsToWork` | `xaxidma_bdring.c:589` | HwTail completes after its status has been tested; TDESC is written all the same |
| in bursts | `SavedInOrder` | `axidma_s2mm.c:372` | polled by index, across the ring's wrap: the newer buffer is saved first |
| `MaxBehind = 4` | `SavedWholeOnce` | `axidma_s2mm.c:352` | TAILDESC is written before the completed buffers are read: a thread more than a ring behind reads what the engine overwrites |
| add it | `StoppedStaysStopped` | `axidma_s2mm.c:351` | the thread sets RS again after `stop` has cleared it |
| not paced | `SentInOrder` | `axidma_mm2s.c:588`, `:446` | the engine is sent round before the half has been refilled; an old interrupt is taken for the first |
| add it | `NothingAfterFile` | `axidma_mm2s.c:588` | single play sends old halves after the file's end; a short last chunk goes out with the rest of an older one (`:630`) |
| add it | `AllIsRead` | `axidma_mm2s.c:618` | a read of the file that fails counts as its end, and the rest is never sent |
| `Mm2sPlayerWait.cfg` | `WaitMeansSent` | `axidma_mm2s.c:545` | a file that fits in the buffer: the thread of `axidma_mm2s_wait` exits at once, and the context is freed before the file is out (`axidma_mm2s.h:104`: 等待播放完成) |
| add it | `WaitEnds` | `axidma_mm2s.c:275` | the joined thread waits for events that the other has taken |
| add it | `KeyEndsWait` | `axidma_mm2s.c:604` | the detached thread reads the key and quits; the one that is waited for goes on |
| add it | `FreedUnused` | `axidma_mm2s.c:453` | the context is freed while the detached thread uses it |
| `Mm2sSenderCoalesced.cfg` | `SenderEnds` | `axidma.c:327` | two packets behind one interrupt count as one; `main` never ends (`axidma_cfg.h:10`) |
| `Leftover = TRUE` | `StopsAfterAll` | `axidma.c:1044` | an old interrupt counts as the first packet and the engine is stopped one short |
| `FilePackets = 6` | `BigFileRefused` | `axidma.c:95` | a file larger than the buffer is sent in part, for ever, instead of being refused (`axidma_cfg.h:7`) |
| add it | `FrameReceiver!StopEnds` | `axidma.c:1085` | the stop joins a worker that waits for a frame no one enqueues any more |
| `WearOut = {"spi"}` | `ProgrammedIsFile`, `BootsIntact` | `flash_spi.c:476` | the wait ends with a failed erase or program too, no code reads the chip's flag status, and the verification at `vu13p-fw.c:1286` is commented out: "Programming succeeded!" of a segment that does not hold the file, which is then booted |
| add it | `BootsAtRest` | `vu13p-fw.c:1399` | a write is killed and the board booted by another run: the busy chip does not open, the failure is forgotten for a boot, and the FPGA boots from what is being written |
| add it | `SlotIsChecked` | `vu13p-fw.c:930` | "Requested slot is not valid" is said for a read and a write, not for an erase |
| add it | `OfflineIsAnError` | `vu13p-fw.c:1490` | the branch that reports a device that stays away is inside a loop whose condition excludes it |
| add it | `RequestIsCleared` | `mcap_lib.c:191` | the loop counter is -1 when the port is never given up, the test is for 0; the words written meanwhile are lost, and "Done" may be said of a file whose first words, or all, are missing |
| `Commands <- MCType2`, `MCLongHeader` | `DoneIsConfigured` | `mcap_lib.c:74`, `:102` | lines of an .rbt file that begin with 01 are passed over; a header past 255 bytes wraps its u8 |
| `PromptPolls = FALSE` | `TransfersEnd` | `xiic_l.c:437` | the poll for the bus to become busy has no exit: it misses a refused address that is over by then |
| `IntcNested.cfg` | `NestsUpwards` | `xintc_l.c:230` | with `XIN_SVC_ALL_ISRS_OPTION` the nested call serves the interrupted source again |
| `IntcNormal.cfg` | `EnabledIsKept` | `xintc.c:1047` | `XIntc_SetNormalIntrMode` loops over its parameter `Id` and then enables another source than the caller's |
| add it | `BlockOnly` | `xil_testmem.c:878` | the walking tests store to 8, 16 or 32 words whatever the block's length (`:66`) |

Four more, from reading.  In `XIic_DynMasterSend` (`xiic_dyn_master.c:139-169`),
`XIic_DynMasterRecv` (`:396-414`), and with a repeated start in `XIic_MasterSend` and
`XIic_MasterRecv` (`xiic_master.c:165-195`, `:352-366`), the address goes out before the
call clears and enables TX_ERROR: a refusal that is latched in between is cleared unseen,
no handler is called for it and the transfer is never reported.  The models take each call
for one step, so the window is not in them: `TransfersEnd` holds of a core on which the
address takes longer than the rest of the call.  `XAxiDma_BdRingCheck` keeps addresses in a `u32`
(`xaxidma_bdring.c:1411`) and finds fault with every ring at 4 GB or above, as
`BdRingCheckPasses` says; `XAxiDma_SimpleTransfer` of a paused channel starts it at once
(`xaxidma.c:497-499` says not until Resume); `Xil_TestMem32` returns -1 where its
comment says 1.

## 6. What is proved

TLAPS checks these for every value of the constants, with no assumption but those
in the modules' `ASSUME`s (all of which the runs evaluate) and the hypotheses that an
item names.

* `BdRingProofs`: `BdRingTypeCorrect`, `BdRingGroups` and, from both, `BdRingCheckPasses`
  (the driver's own check finds nothing wrong), for rings of every size `N > 0`,
  both directions, and every subset of the windows left open.  The inductive
  invariant is `TypeOK /\ GroupLayout`: no count can be bounded alone, since a head
  moves by a count and stays in its place only because of the other heads.  Three
  lemmas on seeking (`SeekAheadInRing`, `SeekAheadComposes`, `SeekBackUndoes`) replace
  the modulus, which the code does not compute either; one lemma per call follows, and
  `QuietSteps` covers those that move no BD.
  On the same invariant rest `BdRingPostWork` (the driver hands back completed BDs, in
  whole packets) and `BdRingIsPipeline` (`Spec => RefinesPipeline`): a group, read off
  its head and count, is a sequence that a call cuts or joins where `SeekAhead` points,
  so that each call is one of the pipeline's moves and every other step a stutter.
  `BdRingInOrder` and `BdRingEngineKeepsToWork` need `Hazards = {}`, since each of the
  windows breaks one of them, and an engine with MM2S (`HasMm2S`), without which the
  reset forgets a channel; section 5 has the counterexamples.  Their invariant is
  `OrderInv`: the work group is a completed stretch of `d` BDs and then `u` uncompleted
  ones, the engine and `TDESC` lie in the second, and a start after a pause, an error or
  a reset finds its way from `bdaRestart` to the border between them.  None of the two
  properties is inductive without it: that the next BD completes in order follows only
  from where the engine is, and that from what the last start read.
* `AxidmaProofs`, the queue: `QueueTypeCorrect`, `QueueLayoutCorrect`, `NoWakeupIsLost`
  and `QueueIsFifo`, for every capacity and any finite sets of threads.  The
  inductive invariant `QueueInv` adds to types and layout that the owner of the
  mutex is the thread in the critical section (else two could see the same count)
  and what is in the threads' hands.  `NoWakeupIsLost` needs cardinalities of the
  threads on their way: a put adds an item and brings a waiting consumer on its
  way, a wait happens only when nothing is there to take.  `QueueIsFifo` is the
  refinement: `Content`, read off the array, is appended to by `Put` and loses its
  head by `Get`, other steps leave it alone.
* `S2mmReceiverProofs`: `RecvTypeCorrect`, and `FreeIsSafe`: after any number of
  starts, stops and failing reads the thread has come to its end when the receiver
  is freed.  The invariant adds where the flag `thread_running` stands in each of
  the client's calls: a read that fails ends the thread but leaves the flag up, and
  this is what makes a later stop join it.
  `SavesWholeOnce` needs `MaxBehind <= Descs` (a thread further behind loses a segment,
  section 5), `SavesInOrder`, for the paced stream, nothing.  Their invariant `RingInv`
  says what each buffer holds as a function of the number of segments received and of the
  distance to the engine's descriptor, which of them the file has already, and that the
  buffer that the thread reads is not the engine's until the ring has gone round.
* `FrameReceiverProofs`: `SegmentsOnce` (no segment in two frames, no two frames with
  one number) and `FramesWhole` (each a whole frame of the stream), for every number
  of descriptors, every stream and every capacity of the queue.  `FrameInv` has two
  layers.  As long as no read of a buffer has failed, the processed marks are set for a
  frame's descriptors together, before the frame's number is used again, and the frames
  in the file, in the queue, in a thread's hands and under way are apart; the engine may
  complete descriptors in the middle of a scan.  When it does not (`Paced`), the marks
  reach up to a border behind a frame's last descriptor and the scan begins there.  The
  queue's own lemmas are not reused: what the frames need of it is only that a step brings
  in no frame that was not there.
* `BoardProofs`, the DMA engine: `StatusTells` and `TransfersAreKept`, for every engine, client,
  number and order of calls, pauses and resets.  The invariant, `StatusIsTrue`, says
  that a channel that is halted, idle or in error has no transfer in flight.  The
  third is needed, though `XAxiDma_SimpleTransfer` does not look at it: a start copies
  the error into the halted bit.  It is a fact about the engine as `SimpleDma` takes it
  to be, and what the driver's test rests on.
  `PassIsDelivered`: the example says "passed" only when all its packets went round and
  none was dropped.  `ExampleInv` follows the example's loop: how many packets have been
  sent, received and are in flight at each of its steps; that a channel in error never
  turns idle keeps the poll from taking a failed packet for a received one.  It needs that
  there is a round (`TriesAssumption`; the example makes 10), else nothing at all passes.
* `BoardProofs`, the memory tests: `VerdictsAreRight` (no sound memory fails; an address line
  that does not reach the memory does), for any width of words and of the count, block,
  subtest and pattern.  `MemInv`: the call keeps
  to what its client may pass (`CallsFit`); between filling and checking, the memory holds
  what the subtest has stored, each cell the last value that went into it (`Stored`);
  and two locations that are one cell and passed the check of the counter or of the
  inverse address were to hold equal values (`LinesTold`), since they read alike.  That
  neither a count of bytes that wraps nor a walk over a short block leaves the memory is
  a lemma (`LocationsFit`) under `MemTestAssumption`: the memory holds the block, and the
  words that a walking test stores to however short the block is.
* `AxidmaProofs`, the sender: `SenderTypeCorrect`; and, when no interrupt is left from an
  earlier run (`~Leftover`; section 5 shows what happens with one),
  `CountIsSafe` and `StopIsSafe`.  The invariant behind the count is that bytes
  counted, plus one packet for an IOC bit still set or just seen, plus one for a
  thread about to count, never exceed the packets sent; behind the stop, that the
  engine passes through the ring once.
* `Mm2sPlayerProofs`: for a file that is played once (`Modes = {FALSE}`),
  `PlayerTypeCorrect` and `CompletesHonestly`.  The two handler threads share the
  position in the file and the offset without a lock, so an update of the offset
  may be lost; the invariant says that it then falls behind and never ahead: the
  offset, and what a thread has loaded to add to, plus the chunks read and not yet
  counted never exceed the position.  So the file counts as complete when all of it has
  been read, or when a read has failed; that nothing else sets the flag, though threads
  may fail at any step, is what the theorem says.
  `SendsInOrder`, for single and cyclic play and every length of file: while the threads
  keep pace the chunks go out in order, whichever thread takes which event.  The
  invariant `OrderInv` begins with the pace (`TakeTurns`: one thread at a time serves an
  event, and before the next) and then gives, for each step of the service, where the
  file's position, the offset, `current_desc_idx` and the interrupt bits stand against
  the number of chunks sent, and which chunk each half holds (`Service`, `Halves`); the
  property alone says nothing of the half that is not going out.  A file that fits the
  buffer, one that has been read to its end, and the end of cyclic play's round are
  cases of their own (`ShortFile`, `Complete`, `Position`).
* `ConfigurationProofs`, MCAP: `WritesInMode`, `GivesPortBack` and `DoneMeansConfigured`, for every
  sequence of commands that `main` can run (`McapAssumption`: one function, or a clear
  file and a bitstream), bounds of the loops and faults.  `PortInv` follows the command
  (`Running`: a full reset may have taken the place of a failed write), says that the
  CONTROL that a function has saved leaves the port to the configuration logic (`Saved`),
  and that a clear file that has succeeded hands write mode on to the bitstream behind it
  (`WriteMode`); without the last, what is written after `SetWriteMode` has left CONTROL
  alone would be lost; and that a function that works knows whether the request for the
  port is still there (`Granted`).  `DoneMeansConfigured` adds `OnTheWay`: in write mode
  the words taken and those still in memory are what the file's reader has made of it; out
  of it, which is only behind a clear file that has failed, none is taken; and where the
  port is given up late the words taken are the last ones, since from the first word taken
  on every other is.  Its hypothesis,
  `FilesLoad`, is about the readers: what they load is the payload.  `BitIsLoaded`
  shows it of the .bit reader while the sync word ends where a u8 can count; past that,
  and for the lines of an .rbt file that begin with 01, it fails (section 5).
* `ConfigurationProofs`, the firmware tool: `FirmwareKeepsInvariant`,
  `OnlyTheSegmentIsTouched`, `ProgrammedHoldsFile` and `BootsWhatWasWritten`, for every chip,
  file, slot and number of runs, every geometry that `GeometryAssumption` allows, and
  kills at any step.  The last two suppose `"spi" \notin WearOut`: nobody reads the SPI
  chip's flag status, and section 5 has the counterexample; a BPI chip may fail at any time.
  `IInv` begins with types, where `main` is with which device and call (`Flow`), and where
  the segment lies (`Located`: for a file that fits, on block boundaries, and with
  addresses that the bytes on the wires give back, three or four of them).  `Flow` names
  how `main` gets on without a device while the chip is busy with what a killed run began
  (`NotOpened`): a write is not among its ways to the boot.  `Extent`
  keeps piece, call, page and block inside one another.  `OnlyTheSegmentIsTouched` needs
  `Reached` besides: what the chip is busy with lies in the segment and before the edge of
  what has been asked for.  The edge is where the two drivers differ, since an SPI call
  moves its address when it sends a page and a BPI call when the chip has done with it.
  For the contents, `Behind` says that up to the edge the cells are as the loop makes
  them, but for those the chip works on or has reported as failed and the driver has
  not yet asked about; `Ahead`, that those beyond are erased; `InFlight`, that what is
  being programmed is the file's and goes into erased cells.  That programming only clears bits
  is why the write needs `Ahead`, and that an erase ends on a block boundary is why the
  image is not followed by an older one.  `Kept` carries the file to the boot: every action in
  between leaves the chip alone.  That rounding up to a block stays within the segment, and
  that a page or block of the chip is the piece the driver counts, are lemmas on div and
  mod (`RoundUp`, `BlockOf`, `WithinPage`).
* `IntcProofs`: `SpecKeepsInvariant`, `HandlersNestUpwards` and `HandlersAreDue`, for any
  number of pins and sources on one to three controllers, with or without a level register
  and fast interrupts, and for any number of calls and conditions.  They suppose `Careful`: the
  program sets a fast source back to normal mode only while it is disabled and no other
  source is fast, and does not combine the option to serve all with a level register.  The code
  enforces neither; section 5 has the counterexample for each.  The one assumption on the
  controllers, `IntcCoreAssumption`, says that a pin has one thing on it at most.
  `IInv` has seven parts.  `TypeInv`; `ScriptInv`: which script of register accesses is
  left in the call in progress, and what its steps so far have brought about (what has been
  read of `IER` is still in it; the handler and its reference are stored before the bit is
  set; a disabled source is still disabled when its handler is taken away).  `EnableInv`:
  what is enabled the program wants, and it has a handler of its own or is fast.  `ModeInv`:
  a fast pin has its vector, none is fast without fast interrupts, and the master
  enable bit is set only while the driver is started.  `Stack`: handlers that nest on the first
  controller lie on top of one chain that goes down the controllers, and each has chosen
  the lowest bit of a status that is still enabled.  `Levels`: the level that a handler has
  saved is the pin that the one below it serves, and the register holds the pin of the
  innermost.  `DueInv`: a level driven pin that is latched, or that a handler has read and
  not served, waits, unless a handler on the stack has just served it.
  Neither property is inductive alone.  That a source is enabled follows only from the
  status read when the handler was entered, hence that no step of the program runs on top
  of a handler (`Reads`); that it waits, from every earlier latch and acknowledge; that
  nesting goes upwards, from what the level register has been since each handler below was
  entered.  `DueInv` is where the order of acknowledge and service enters, for nested
  handlers too: an inner handler cannot serve a source that an outer one has in hand,
  because the level register keeps it out.

Only model-checked: all liveness (`PendingCompletes`, `EverySegmentSaved`,
`KeepsPlaying`, `PacedSenderEnds`, `EventThreadStops`, `EachFrameSaved`, `ToolEnds`,
`CommandsEnd`, `TransfersEnd`, `EveryConditionServed`, `ExampleEnds`), which is out of
the prover's reach; and the safety properties of I2C (`ReportedIsWhole`,
`ReportedOnce`), proofs not written, and of the memory tests `BitsAreFound`: that a
stuck bit or two tied lines fail depends on what the walking tests compute from words bit
by bit, an induction over data that the provers do not do.

## 7. What is not modelled

* In the BD ring: cyclic mode, coalescing counters and delays, cache maintenance,
  alignment and address checks, more than one RX ring.  In simple mode: keyhole and
  cyclic mode, interrupts.
* Opening and mapping devices, and failures of these at the start; `_play_memory`
  and `axidma_mm2s_stop` from the signal handler; failures of `pthread_create`.
* Bytes: segments, chunks, packets and flash cells stand for them.
* Memory ordering of the plain flags that threads share (`running`,
  `thread_running`): they are read and written as if atomic and seen at once.
* Flash: dual QSPI images and the bit swap, which constants of `main` switch off;
  `reg_block.c`, which is commented out as a whole.
* MCAP: the bus walk, raw access to configuration space, the dump of registers.
* I2C: 10 bit addresses, statistics, the self test, the general purpose output, an
  application that is master and slave at once, polled tools with a rival master,
  a refused dynamic read; `lib_wbwr.c` and `alex_iic.c`, fixed register sequences
  whose results nobody looks at.  `xiic_wbwr.c:139-163` reads its count
  uninitialised when the first poll fails.
* Interrupt controller: fast interrupts on chained controllers, 64 bit vectors, the
  branches for the SCUGIC, whose driver is not in the tree, software triggers of
  sources with a device, two simulated conditions at once.
* The engine's `Idle` bit is taken to be 0 while halted and before the first
  transfer; the drivers rely on it.
* `data_mover_ctrl.v` (its l. 62 assigns an input port, and what answers it is
  generated), the clock wizard's divider search over reals, formatting in
  `lib/common`, the FIR datapath, wiring of cores, test programs and build scripts
  have neither state nor order worth a model, or do not stand by themselves.
