# XDMA_v2: a TLA+ model of the streaming DMA driver

The repository holds a Linux driver for the Xilinx DMA/Bridge subsystem for PCI
Express ("XDMA"), extended by W. Zabolotny for continuous acquisition of a data
stream into a ring of buffers that are mapped into user space, the FPGA designs
that produce such streams, and an older driver for an AXI data mover.  This
directory models the parts whose correctness depends on the order in which
several actors act: FPGA engine, interrupt handler, work item, the threads of
the application and the processes that open the device.

Paths below are relative to `src/`; `wz-xdma.c`, `xdma-core.c` and `xdma-sgm.c` are
in `v2_xdma/software/driver/`, `axi4s2dmov.c` in `v1_dmover/software/driver/`.

## 1. Inventory

| Part | State it keeps | Operations | What makes it right |
|---|---|---|---|
| **wz acquisition** (`wz-xdma.c`, `wz-xdma.h`) | ring of `WZ_DMA_NOFBUFS` descriptors, `block_first_desc`, `block_scanned_desc`, kfifo of blocks, `getbuf_wq` | ioctls START, GETBUF, CONFIRM, STOP; the scan `wz_engine_service_cyclic_interrupt` | no data lost, duplicated, reordered or overwritten; no lost wake-up; STOP ends and frees nothing in use |
| **wz resources** (`wz-xdma.c`, `char_sgdma_open/close/ioctl/mmap`) | pages, DMA mappings, descriptors, transfer, kfifo storage, `buf_ready`, page tables | ALLOC_BUFFERS, FREE_BUFFERS, START, STOP, mmap, page fault, close | every pointer is valid, the engine writes only into live buffers, everything is released |
| **C2H engine** (hardware) | RUN and BUSY, fetched descriptors, event bits, writeback | fetch, complete, stop | external; modelled from its use |
| **MSI-X handler and work item** (`xdma_channel_irq`, `engine_service_work`) | `interrupt_enable_mask`, its saved value, `engine->work` | mask, schedule, read-and-clear status, service, unmask | no event is lost between clearing and unmasking |
| **legacy/MSI handler** (`xdma_isr`) | `channel_int_enable`, user interrupt requests | read requests, schedule, acknowledge | as above, for all engines at once |
| **SG DMA read()/write()**, with `poll_mode=1` only: `sg_interrupt_fops` has neither (`transfer_data`, `transfer_queue`, `engine_service*`) | `transfer_list`, `running`, `desc_dequeued`, writeback word, per-transfer `state` | submit, poll or wait, service, fail, time out, destroy | success means the data was moved; nothing the engine uses is freed; every request returns |
| **descriptor building** (`transfer_create`, `transfer_build`, `xdma-sgm.c`) | pinned pages, scatterlist, descriptor list of one transfer | check alignment, pin, map, merge pages into descriptors, link them, set the adjacent counts, release | descriptors cover the user buffer exactly once; the engine can execute them; no page stays pinned |
| **user events device** (`user_irq_service`, `char_events_read/poll`) | `events_irq`, wait queue | interrupt, read, poll | an event is seen by a reader, once |
| **probe / remove** | device instance table `dev_present`, BARs, engines, interrupts, character devices | probe with its undo labels, remove | undo releases what was acquired |
| **Xilinx RX cyclic ring** | `rx_buffer`, `rx_head`, `rx_tail`, `rx_overrun` | setup, ring process, read, teardown | dead code since `open()` no longer sets it up |
| **performance test**, **control/BAR/bypass devices** | per-engine perf buffer; none | ioctls; single register accesses | |
| **FPGA sources** (`data_producer_64.v`, `axis_fifo_64.v`, `dma_packet.v`, `axi4s_src4.vhd`) | FIFO pointers, packet counters | AXI-Stream handshakes | the FIFO is a queue, every packet ends with TLAST |
| **v1 data mover driver** (`axi4s2dmov.c`) | `bready`, `exp_buf`, `received_buf`, `is_started`; command and status FIFO of the core | RESET, START, STOP, GET, CONFIRM, open, release, `tst1_irq` | a buffer is with the core, the driver or the application, never with two of them; fills arrive in order |
| **test programs** (`tester2.c`, `tester3.c`) | | | they give the order of calls an application follows |

Interactions.  The engine shares the descriptors with the driver: it writes its
result *over* the descriptor it executed, which removes the `DESC_MAGIC` that
lets it be executed again; CONFIRM puts it back.  The engine signals through the
event bits of its status register; the handler masks the engine and schedules
the work item; the work item, under `engine->lock`, reads and clears the status,
services the engine and unmasks.  GETBUF sleeps on `getbuf_wq`, STOP on
`shutdown_wq`.  CONFIRM, mmap, ALLOC_BUFFERS and FREE_BUFFERS take no lock.

The hard behaviours, one by one and with the line where they bite, are under
"hazards" in `PROJECT.json`: unlocked descriptor updates while the engine reads
them, wrap-around of the ring, events between status read and unmasking, freeing
after the last interrupt, two readers, allocation failures in the middle of a
call, restarts, several files on one engine, writeback values read before the
lock is taken, timeouts that race with a slow engine, one interrupt shared by all
engines, page and descriptor boundaries of user buffers.

## 2. Modules

| Module | Models | State and actions |
|---|---|---|
| `DescRing` | ring arithmetic | `NextDesc` is `(i + 1) & (WZ_DMA_NOFBUFS - 1)`; distances and stretches along the ring |
| `WzCyclic` | one acquisition, START to STOP | the descriptor words the engine and CONFIRM fight for (`control`, `bytes`), engine, interrupt path, worker, kfifo, readers, CONFIRM, STOP |
| `BlockStream` | what an acquisition promises | fills are published as blocks and handed over, in order |
| `WzCyclicInv` | inductive invariants of `WzCyclic` | |
| `WzLifecycle` | all calls over many acquisitions | pointers of `wz_ext`, page tables, a ghost heap |
| `SgPoll` | read()/write() with `poll_mode=1` | transfers, transfer list, engine, one program counter per thread |
| `Probe` | loading, probe(), remove(), unloading | `lro` and what probe() has acquired per device, `dev_present`, the releases still to be done |
| `Interrupts` | `xdma_isr`, the workers behind it, `xdma_user_irq`, the events devices | interrupt block, handler, work items, `events_irq`, one system call per reader |
| `TransferBuild` | a request from its checks to the finished descriptor lists | pinned pages, scatterlist, the variables of `transfer_build`, descriptors |
| `Dmover` | the v1 driver | command and status FIFO, `tst1_irq`, the ioctls of one application |
| `WzCyclicProofs`, `WzCyclicDataProofs` | theorems about `WzCyclic` | lemmas on the ring; types, interrupts and the chain of blocks; the data path and the refinement |
| `WzLifecycleProofs`, `SgPollProofs`, `InterruptsProofs`, `TransferBuildProofs`, `DmoverProofs`, `ProbeProofs` | theorems about the module of that name | each holds its inductive invariant |
| `MCWzCyclic`, `MCWzLifecycle`, `MCSgPoll`, `MCProbe`, `MCInterrupts`, `MCTransferBuild`, `MCDmover` | constants for TLC | |

### WzCyclic

Every step of the model is a stretch of code between two points where another
actor can act:

* *Engine* (external).  `HwFetch` reads a descriptor, up to `Prefetch` ahead of
  the one being filled; `HwFetchBadMagic` finds one without `DESC_MAGIC`;
  `HwComplete` fills the buffer and overwrites the `control` and `bytes` words;
  `HwStop` goes idle.  An event raises the interrupt line if it is unmasked; a
  message is sent when the line rises.
* *Handler and worker.*  `ChannelIrq`; `WorkBegin` (lock, read and clear status),
  one step per iteration of the scan loop (`ScanReport`, `ScanShift`,
  `ScanPostpone`, `ScanEnd`), then `WorkShutdown` or `WorkFinish`, both of which
  end by restoring the mask.  The worker is the only one that keeps
  `engine->lock` across steps, so the lock is free when `wpc = "idle"`.
* *GETBUF.*  Enter, test-and-sleep (`wait_event_interruptible` tests after
  queueing the task, so this is one step), return.  `kfifo_put` and `kfifo_get`
  are one step each, which the kfifo guarantees for one writer and one reader: what is said of
  the blocks is said of a single reader.  `cyclic_two_readers` shows that two readers go
  wrong even if `kfifo_get` were atomic between them.
* *CONFIRM.*  For each descriptor first the fields, then the control word, the
  two sides of the `mb()` in the code.  Blocks may be confirmed in any order.
* *STOP.*  `StopRequest` and `StopFree` are its two critical sections with
  `wait_event` between them.

`stamp`, `fills`, `reported`, `delivered` and the fields `lo`, `hi` of a block
are ghosts: they number the buffer fills 1, 2, 3, ... so that properties can
talk of which data is where.

`KeepUp` is the assumption on the application under which the acquisition is
meant to work: it returns buffers early enough that the engine never completes
the last unreturned buffer of the ring.  With `KeepUp = FALSE` the engine may run
into a descriptor that still holds a writeback, stop, and the acquisition ends.

### WzLifecycle

Allocations have an identity (kind, buffer, which call made it) and live in the
ghost `heap`; a pointer of `wz_ext` is an allocation or `Null`.  A call is one
step, except STOP and close, which wait for the engine between two steps.  The ioctls take no
lock, so calls of two files could overlap in time; the model has them one after the other,
in any order, while the worker runs between them.
Allocation failures end ALLOC_BUFFERS and START at every point where the code
tests for them.  The variable `order`, chosen from the constant `Orders`, is what
the application does: `"tester"` (the order of `tester2.c`, one acquisition per
ALLOC_BUFFERS), `"restart"` (START may follow STOP) or `"any"` (every call at any
time, from two files).  What the engine does during an acquisition is reduced to
`Report`, `Getbuf` and `EngineShutdown`; `WzCyclic` has the detail.  A page fault
beyond the last buffer maps `Stray`, a page that is none of ours.  `DescVirt` is
`transfer->desc_virt`, through which `engine_cyclic_stop` writes; the ghost `overlap` records
that START was called while the engine was running, which frees the descriptors of the transfer
that is still listed.

### SgPoll

A request is cut into transfers.  `Submit` is `transfer_create` and
`transfer_queue`, `Poll` the successful end of the busy loop on the writeback
word, `PollTimeout` its end by `POLL_TIMEOUT_SECONDS`, `Service` all of
`engine_service` under the lock, `Check` the rest of the loop body of
`transfer_data`.  The engine writes the completed count back once, at the last
descriptor of a transfer.  `CHAIN_MULTIPLE_TRANSFERS` is 0 in the code, so the
engine is started with one transfer at a time.  A thread whose request has returned may make
another one (`NewRequest`).  `Alone(t)` says that no other thread has ever queued a transfer on the
engine and that every earlier request of `t` returned its full size: two
properties hold only then.

### Probe

A device is <card, `lro`, step of probe()>; `held` is the set of resources
`<<kind, number>>` it has at this moment (handlers, mappings, engines, device
nodes, the enabled interrupts, ...).  Every step of probe() is an action with one
disjunct per outcome.  A failure computes the releases of its label and of the
labels after it (`ErrorLabels`, `GotoLabel`) and `ReleaseNext` carries them out one by
one, so that the properties can ask what an interrupt or an open() would find in
between; remove() does the same with `RemoveOrder`.  `lro.engine` is the set of engine pointers
of the lro, which `remove_engines` does not clear: `xdma_isr` follows all of them.  `AllEngines` and `Interfaces` give
the order of the loops of `probe_engines` and `create_interfaces`; `Wanted` has the
conditions under which an interface is created, `SkipInterface` passes over the others, and
the three outcomes of `create_sg_char` are `CharCreated`, `CharNotAllocated` and `CharNotAdded`.  The kernel's
tables are external: `GenDevMajor` (major numbers, which the driver never gives
back) and `OpenedBy` (which of several overlapping cdevs a node opens).
`device_create` returns an error pointer and never NULL, so the test in `create_dev`
cannot fail and there is no outcome for it.

### Interrupts

`mode` is what `probe()` found: legacy (a level-triggered, shared line), MSI (a
message whenever an enabled request appears) or MSI-X.  `xdma_isr` takes one step
per register access (`IsrReadChannel`, `IsrDisable`, `IsrReadUser`), one per user
interrupt it services, and one for queueing the work items, so that events and
workers can come between any two of them.  A worker reads and clears the status
(`WorkService`) and unmasks its channel (`WorkEnable`).  `engine_service_work`
treats every engine as cyclic: on an engine without an acquisition, which a PERF ioctl has
started, it follows a NULL pointer and dies with the lock (`"oops"`).  (The file
operations of interrupt mode, `sg_interrupt_fops`, have no read() and no write().)  MSI-X mode has its own vectors for user interrupts
(`XdmaUserIrq`); its channel interrupts are in `WzCyclic`.  A reader waits in
read(), or in poll() and then read(); signals end the wait at any time; the
fetch of the event word is a step of its own.

### TransferBuild

Lengths and addresses count units, of which a page has `PageSize`.  A request
carries the engine's configuration with it (streaming, non-incrementing, required
alignment).  `Pin` chooses a frame for every page, in any order and with repetitions;
`MapPage` makes the scatterlist entry of a page with the length arithmetic of
`sgm_get_user_pages`, and lets `pci_map_sg` merge it with the one before when
their addresses allow it.  `BuildEntry` is one iteration of `transfer_build`.  `pc`
says how the request ended; `"bug"` stands for the `BUG_ON`s about sizes and
counts, `"oom"` for those reached when memory is short or a page cannot be pinned.
How a queued transfer is executed is `SgPoll`'s matter; here it completes, fails or
the wait is interrupted.

### Dmover

The core executes commands in order and writes one status word for each (`Fill`,
with or without OKAY).  `tst1_irq` tests and clears its interrupt bit, then loops:
read a status, mark the buffer.  START is three steps (variables, one per command,
enabling), CONFIRM three (clear the mark, request the buffer, advance), because the
handler may run on another processor in between.  ADM_RESET clears the FIFOs only when no
handler is at work, which its `mdelay(100)`s stand for.  The application calls
RESET before START, and GET and CONFIRM only after START; it may stop, reset or close
at any time, and open() may fail to register the interrupt without saying so.
`data`, `filled`, `got` and `failed` are ghosts.

## 3. Runs

Passing runs:

| Run | Instance | Shows |
|---|---|---|
| `cyclic_keep_up` | 4 buffers, prefetch 2, blocks of 1 and 2 buffers, 6 fills, one reader, keeping up | no reported buffer is overwritten, descriptors with MAGIC are complete, the kfifo never overflows, no interrupt is lost, STOP frees nothing in use, blocks are chained, the acquisition implements `BlockStream`; complete blocks reach the reader, STOP returns, readers leave |
| `cyclic_overrun` | 2 buffers, two readers, 3 fills, not keeping up | an engine that stops by itself, at a descriptor not given back in time and at any point of a service, is noticed by the worker |
| `lifecycle` | 2 buffers, all three orders, two files in the third | in any order of calls that follow one another no pointer outlives what it points to, nor the descriptors of a listed transfer unless START was called while the engine ran, and `buf_ready` is exact; in the orders of a single application no mapped freed page, no `BUG_ON`, and close leaves nothing but DMA mappings; in the test program's order no DMA into freed memory |
| `poll` | two threads, up to 2 transfers of up to 2 descriptors each, in one or two requests, errors, a hanging engine, timeouts | for a thread that has the engine for itself, up to its first failed request: success means that all data was moved, and no `BUG_ON` is met; until a transfer fails `running` and the transfer list stay in step; every request returns |
| `probe` | two cards (MSI-X with three engines; MSI with all BARs or legacy), 2 instances, 2 major numbers, both poll modes | nothing is released twice, what an entry point uses exists while it is registered (apart from the engines between `remove_engines` and `irq_teardown`), what is left behind is what the list in `MayBeLeft` says, instances are unique, nodes open their device |
| `interrupts` | two engines, one of them with an acquisition, one user interrupt, two processes of which one or both read its device, all three modes | no event of an engine or of user logic is left behind; a sole reader never gets an empty word; all events are served, also after a worker died |
| `transfer_build` | pages of 4 units, descriptors up to 11, transfers up to 16, every page offset, lengths 0 to 18, three frames | the descriptors cover the user buffer exactly, and the device range where the address increments; they respect length, alignment and adjacency limits; no `BUG_ON` about sizes; no page stays pinned |
| `dmover` | 3 buffers, 8 fills per acquisition, any number of restarts | every buffer is in one place, fills arrive in order, GET returns |

Runs that end with a violation; each shows a line of the repository that the code
does not live up to (the quotations are under "findings" in `PROJECT.json`):

| Run | Shows |
|---|---|
| `cyclic_overrun_data` | after a full turn of the ring the scan reports old blocks again |
| `cyclic_two_readers` | the slower of two readers returns an uninitialised block with success |
| `lifecycle_restart` | START after STOP programs bus address 0 |
| `poll_shared` | a stale writeback value completes the next thread's transfer |

Further limits of the code that the models exhibit and no run is kept for: a ring
filled without an EOP keeps the scan spinning under `engine->lock` (`WzCyclic` with
`MaxBlock` larger than the ring), START after STOP leaves the old blocks in the kfifo
(`WzLifecycle`), a timed-out transfer is freed while the engine works on it
(`SgPoll`), a request in non-incrementing mode that is longer than
`XDMA_TRANSFER_MAX_BYTES` continues at another device address, and entries merged by
`pci_map_sg` may exceed `XDMA_DESC_MAX_BYTES` (`TransferBuild`).  A request after one that timed
out can meet `BUG_ON(!transfer)` even on an engine nobody else uses: `running` stays set with
`desc_dequeued` at the old length (`xdma-core.c:1278`), the count of a shorter next transfer wraps
(1426), the transfer is passed (1167) and none is left (1232); with one thread and two
transfers of up to two descriptors `SgPoll` gets there in nine states.  START while the engine is
running frees the descriptors of the transfer that is still listed, and `engine_cyclic_stop` (739)
writes through them (`WzLifecycle`).  `remove_engines` frees the engines before
`irq_teardown` removes `xdma_isr`, which reads all of them and whose line is shared (`Probe`).

Some properties of the passing runs have a condition because without it they are
false of the code: `DmaIntoLiveBuffers` speaks of the test program's
order, `NoBug`, `MappedPagesLive` and `NothingLeft` also of START after STOP, but not of every
order (a second START leads to the `BUG_ON` of the dequeue;
close of one file ends the acquisition of another; FREE_BUFFERS after STOP unmaps
nothing, so DMA mappings are left in every order); `EngineFollowsList` of the time before
a transfer failed (a failed transfer stays on the list, is freed and is started again);
`SuccessMeansDone` and `NoBugAlone` of a thread without competitors, up to and including its first failed
request; `NoDanglingPointer`, as far as the descriptors of a listed transfer are concerned, of
acquisitions without a second START; `BufferCovered`, as far as a non-incrementing device address is concerned,
of the first transfer of a request; `InstanceUnique` of
drivers that were loaded before the devices appeared (`xdma_init` clears `dev_present`
after the first probes); `SoleReaderServed` of a device with one reader; `DescriptorsUsable` of
scatterlists without merged entries as far as the length is concerned; `GetReturns` of
acquisitions without a bad status; `LiveWhileReachable` and `UndoReleases` of failures other than those of a
C2H engine and of `device_create_file`; `LiveWhileReachable` lets the engines behind `xdma_isr` be
gone between `remove_engines` and `irq_teardown`, provided that nothing else is released in between.

**Bounds.**  Six fills on a ring of four are one and a half turns, so buffers are
filled, confirmed and refilled, and blocks of one and two buffers cross the end
of the ring.  A prefetch of two is the smallest in which the engine fetches
ahead of a buffer that it is filling; the proofs cover every prefetch, ring and
number of fills.  Two buffers suffice for `WzLifecycle` because its calls treat
all buffers alike except for where an allocation loop stops: with two there is a
first, a last, and a failure between them.  Two threads in `SgPoll` are enough for
one to service the other's transfer, two transfers each for it to happen in the middle of
a request, or in a second request.  For an engine that stops by itself a ring of two, filled once and
a half, is enough (`cyclic_overrun`): it meets an unreturned descriptor before, during and after a scan.  In `probe`, two H2C engines and one C2H engine let each loop fail
with and without engines to unwind; two major numbers run out after two probes,
two instances after two unlucky ones.  In `interrupts` one engine with and one without
an acquisition let a worker die while another goes on; two readers share a device, or
one has it alone.  In `transfer_build` three frames make pages contiguous, reversed or
equal; 11 is, like 2^18 - 1, no multiple of a page and leaves room for a merge of two pages;
18 units are more than one transfer; three descriptors per page and one adjacent
descriptor put lists across the page boundary.  In `dmover` eight fills are more than two turns
of the ring.  No symmetry is used.

**Deadlock** is checked in all passing runs; `WzCyclic` and `SgPoll` have an explicit
`Finished` step for the states in which everybody is done.

**Fairness.**  `WzCyclic!LiveSpec`: an interrupt message is delivered, a scheduled
work item and a runnable thread run (guarantees of PCI Express and the kernel);
an engine that was told to stop or that met a bad descriptor goes idle, and it
fetches descriptors (hardware); the application goes on calling GETBUF and
CONFIRM.  It is not assumed that more data arrives or that STOP is called.
`SgPoll!LiveSpec` assumes only that the threads run; the engine may hang.
`Interrupts!LiveSpec`: a pending interrupt is delivered, handlers, work items and runnable
readers run, and readers keep reading; events, user logic and signals are free.
`Dmover!LiveSpec`: a pending enabled interrupt is delivered, the handler runs to
its end, and GET runs when its condition holds.

## 4. Proofs

TLAPS proves for every ring size (a power of two, at least 2), every set of
readers, every prefetch below the ring size, every block length and number of
fills:

| Theorem | States |
|---|---|
| `TypeCorrect` | `TypeOK`; every index stays inside the ring |
| `InterruptsNotLost` | `NoLostInterrupt` |
| `StoppedEngineNoticed` | `EngineStopNoticed` |
| `DescriptorsOutliveWorker` | `NoScanAfterFree` |
| `ReportedDataIntact` | `KeepUp => HeldDataIntact` always |
| `ConfirmOrderSafe` | `KeepUp => MagicMeansComplete` always |
| `ReportsNotPostponed` | `KeepUp => NeverPostponed` always |
| `KfifoIsChained` | `BlocksChained` |
| `AcquisitionIsStream` | under `KeepUp` the acquisition implements `BlockStream` (`LosslessInOrder`) |

`TypeCorrect`, `InterruptsNotLost`, `StoppedEngineNoticed`, `DescriptorsOutliveWorker` and
`KfifoIsChained` hold whether or not the application keeps up.  The theorems about blocks
(`ReportedDataIntact`, `ReportsNotPostponed`, `KfifoIsChained`, `AcquisitionIsStream`) are proved for
any set of readers of the model; of the code they speak for one reader, because
`kfifo_get` is atomic only then.

For every set of engines, of engines with an acquisition, of user interrupts and of readers:

| Theorem | States |
|---|---|
| `InterruptTypes` | `Interrupts!TypeOK`; an event word is 0 or 1 |
| `EngineEventsNotLost` | `EngineEventPending` |
| `UserEventsNotLost` | `UserEventPending` |
| `SoleReaders` | `SoleReaderServed` |

For every ring, set of files, number of ALLOC_BUFFERS and START calls, and with allocations
failing anywhere (`WzLifecycleProofs`):

| Theorem | States |
|---|---|
| `TypeCorrect` | `WzLifecycle!TypeOK` |
| `NoDanglingPointerHolds`, `BufReadyExactHolds` | `NoDanglingPointer`, `BufReadyExact`, in any order of calls that follow one another |
| `MappedPagesLiveHolds`, `NothingLeftHolds`, `NoBugHolds` | `MappedPagesLive`, `NothingLeft`, `NoBug`, for a single application that calls in order |
| `DmaIntoLiveBuffersHolds` | `DmaIntoLiveBuffers`, for the test program's order |

For every set of threads, number and length of requests and number of descriptors, with errors
and timeouts at any time (`SgPollProofs`):

| Theorem | States |
|---|---|
| `TypeCorrect` | `SgPoll!TypeOK` |
| `EngineFollowsListHolds` | `EngineFollowsList` |
| `NoBugAloneHolds`, `SuccessMeansDoneHolds` | `NoBugAlone`, `SuccessMeansDone`, for a thread alone and up to its first failed request |

For every page size, limit of descriptors and transfers, set of requests and of page frames
(`TransferBuildProofs`):

| Theorem | States |
|---|---|
| `CleanReturnHolds` | `CleanReturn` |
| `BufferCoveredHolds` | `BufferCovered` |
| `DescriptorsUsableHolds` | `DescriptorsUsable` |

For every number of buffers (1 to 16, the width of the tag) and of fills (`DmoverProofs`):

| Theorem | States |
|---|---|
| `BufferAccountedHolds` | `BufferAccounted` |
| `DeliveredInOrderHolds` | `DeliveredInOrder` |

For every set of devices and of cards they may be, any number of instances and major numbers,
1 to 4 channels and 1 to 16 user interrupts, with and without `poll_mode`, and with every step
of probe() failing (`ProbeProofs`):

| Theorem | States |
|---|---|
| `NoDoubleReleaseHolds` | `NoDoubleRelease` |
| `LiveWhileReachableHolds` | `LiveWhileReachable` |
| `UndoReleasesHolds` | `UndoReleases` |
| `InstanceUniqueHolds` | `InstanceUnique` |
| `NodeOpensItsDeviceHolds` | `NodeOpensItsDevice` |

*Argument for the interrupts.*  `NoLostInterrupt` is not inductive: it does not
say why an event that arrives while the interrupt is masked is noticed.  `IrqInv`
splits time at the mask register: unmasked, an event is latched exactly when its
message is on the way, and no work is pending; masked, no message is on the way
and exactly one pass of the worker is due.  It also records that a worker that
saw the engine idle leaves no event behind, which is why nothing is pending when
`running` becomes false and STOP may free the descriptors; and that an idle engine the driver
takes for running has its event latched or read, from which `EngineStopNoticed` follows.

*Argument for the data.*  `KeepUpInv` describes the whole ring: from
`block_first_desc` to `fill_desc` buffers are filled and not reported, from
`fill_desc` to `fetch_desc` descriptors carry MAGIC, and reported blocks own
their buffers exclusively (in the kfifo, with the application, or under CONFIRM)
(`RingInv`, `BlockInv`).  `StampInv` numbers the unreported buffers, `QueueInv`
says that the kfifo holds exactly the fills `delivered + 1 .. reported`.  The
step that needs all of it is `HwComplete`: the buffer it overwrites carries MAGIC,
hence belongs to no block.  The refinement follows from `StampInv` (for
Publish) and `QueueInv` (for HandOver).

*Argument for the shared interrupt* (`InterruptsProofs`).  An event is visible to the handler
only while its channel is enabled, so `MaskedWhileServiced` adds to `EngineEventPending` where a masked channel's
unmasking is due: in the handler, in the queue or in the worker.  For
user interrupts the word `user_irq` the handler carries and `events_irq` are the only places
an assertion can be between handler and reader.  `SoleReaders` needs that only the owner of a
device clears its event word.

*Argument for the kfifo.*  Every reported block begins with a descriptor of its own
(`BlockInv`), and `fill_desc` carries MAGIC and is in no block.  A kfifo with `NOFBUFS` blocks
would map `NOFBUFS` positions one to one to `NOFBUFS - 1` descriptors, against the pigeonhole
principle.  `KfifoIsChained` needs only that a scan takes place while an acquisition lasts,
which is a part of `IrqInv`.

*Argument for the resources* (`WzLifecycleProofs`).  `NoDanglingPointer` alone is not inductive: releasing
one allocation must not release what another pointer leads to.  `KindInv` gives every pointer
an allocation of its own kind and buffer; `ListInv` ties `running` to the
transfer list and orders its transfers by the START that queued them, so that a transfer is
freed only when it is on the list no more.  `VirtInv` adds that, without a START during a run,
a running engine has one transfer listed and `desc[0]` is the descriptor it leads to.  `OrderInv` says what an application in order
keeps apart (one file, one transfer, nothing of START outside START .. STOP); `MapInv`,
`DmaInv` and `NoLeakInv` build on it for the page tables, the descriptors' addresses and the heap.

*Argument for poll mode* (`SgPollProofs`).  `StepInv` says why `running` and the list stay in step:
either the engine works on the head with nothing dequeued (`InStep`), or a failed transfer has
left the list, and since only transfers on the list are ever rewritten it stays failed
(`LostOne`), which the property excludes.  The step that matters is a
late `engine_service` with an empty writeback value while the engine is busy: then fewer
descriptors than the head's are completed, so the head is not passed; it is failed, or kept if an error is latched.
For a thread alone, `AloneInv` adds that nothing is left over from the transfer before (`Quiet`), and that
neither the writeback location nor the value read from it is ahead of the engine
(`Waiting`); so a count that completes the transfer means that the last descriptor was executed.

*Argument for the descriptors* (`TransferBuildProofs`).  Sums of lengths are awkward in an invariant; it
says instead that there is a function `cut` that tells where in the transfer each scatterlist
entry, and each descriptor, begins, and that from there on bus addresses run along
(`SglCut`, `DescCut`).  Every step extends the function by one point or, when
`pci_map_sg` merges, moves its last one.  Entries begin with a page or with the transfer, from
which alignment follows; that no merged block exceeds `DescMax` is the comparison in
`transfer_build` with one page to spare.  At the end `cut` is shown to equal the sums of
`BufferCovered`.

*Argument for the v1 driver* (`DmoverProofs`).  Fill number x goes to buffer x modulo
`BUF_NUM`, also around failed fills.  `QueueInv` and `WindowInv` place each of the `BUF_NUM`
fills from `got` on, by its number: commanded, waiting as a status word, in the hands of
`tst1_irq`, or marked.

*Argument for probe() and remove()* (`ProbeProofs`).  None of the five properties says what a
device holds in the middle of probe(), so none is inductive.  `IInv` does, for every step:
`FlagsOk` gives the flags of the lro, `Owned` the resources they stand for, and `HeldOk` says that
the device holds exactly these, apart from a major number and from MSI-X, which may be flagged
without being enabled.  Once a label or remove() has begun the flags no longer tell what is held;
from then on `UndoOk` speaks of the releases that are left: each finds what it releases, they
cover all that is not to be left behind, and they are in the order of `Rank`, the position of
a resource in `RemoveOrder`.  The labels of probe() keep the same order, and whatever an entry point
uses has a higher rank than the entry point itself; so a release never takes away what is
still reachable (`ReleaseOk`), and `LiveWhileReachable` survives every release.  The exception is
`xdma_isr`, whose engines have the lower rank: `IsrOk` says that where its removal is due, it
directly follows that of the engines (`EngineThenIrq`).  That every `goto`
goes to the right label is `LabelUndo`, one case per step (`FailsTo`).  `MarksOk` says that a
device with interfaces, or with a major number, has a marked instance of its own; it is a conjunct
only until xdma_init clears marks that are in use.  `LoopOk` and `CharsOk` say that
the minors created so far ascend and stay below the next one, from the table of minors along
`Interfaces` (`MinorsAscend`): the last range that covers a minor is the one that begins
with it.  The invariant is split into predicates on values, so that each step is one lemma about
one device (`EngineOk`, `CharOk`, ...) and one that places it among the others (`StepOk`).

*Induction.*  Where a sum over a list had to be compared with something (`BeforeIsCut`,
`DescSumType`) the proofs argue by least counterexample: `LeastNat` follows from the library's
theorem that `<` on the naturals is well-founded.  Such sums are recursive functions with
the list's positions as their domain.

*Lemmas on the ring* (at the top of `WzCyclicProofs`): how `Dist`, `InRing` and `InBlock` change
when a stretch grows at its end or shrinks at its start, all by cases on
wrap-around, so that no other proof reasons about `%`.

Assumptions: only those named in the modules.  `Prefetch < NOFBUFS` (`WzCyclic`) is needed because an engine that
may fetch the whole ring makes "full" and "empty" the same; the driver's ring has
128 descriptors and the engine fetches a few dozen at most.  `TransferBuild` assumes that
a transfer of the greatest length is of whole pages (`XDMA_TRANSFER_MAX_BYTES` is a number of
pages, `xdma-core.h:92`), that a page fits into a descriptor, and that a required alignment divides
the page size (`engine_alignments` reads a power of two from 8 bits); without the first, later
transfers would start within a page and their alignment would be lost.  `BUF_NUM` is at most 16 in
`Dmover` because the tag of a command has four bits.  `Probe` assumes at most 4 channels and 16 user
interrupts (`XDMA_CHANNEL_NUM_MAX`, `MAX_USER_IRQ`): with more, the minors of `gen_dev_minor`
would run into one another.

Only model-checked: liveness (fairness and ENABLED are beyond the prover).  Every invariant that
a passing run checks is also a theorem.

## 5. Not modelled, and why

* `last_len` and the payload: no control depends on them.
* Memory ordering between CPU and device beyond the `mb()` in CONFIRM.
* A CONFIRM with numbers no GETBUF returned (the check at `wz-xdma.c:339` only
  logs), a CONFIRM concurrent with STOP: the application model confirms what it
  holds and stops from the same thread, as the test programs do.
* `engine_cyclic_stop` writes a STOP flag at `desc_virt + desc_num - 1`; with the
  ring's separate one-descriptor allocations that address is outside the
  descriptor.  The write has no place in the model's ring and is left out.
* In `WzLifecycle`: calls of several files that overlap in time (`char_sgdma_ioctl` takes no lock);
  the bus address START passes when it frees an old descriptor, the buffer's instead of the
  descriptor's (`wz-xdma.c:242`).
* In `Probe`: a work item of an engine that is still queued when `remove_engines` frees it (nothing
  cancels it); failures of `class_create` and `pci_register_driver`; two probes at the same time (the PCI core runs one after the other;
  binding through sysfs could break this), files that are open during remove(), a
  `major` parameter other than 0, `poll_mode` changed at run time, and a new probe of
  a device of which a failed one left more than a major number.
* In `Interrupts`: engines and user interrupts that go away (remove() is `Probe`), the
  saved mask of MSI-X channels (`WzCyclic`), events that were raised while a worker is
  dead.
* In `TransferBuild`: `sgm_kernel_pages` and the `sg_aio_*` entry points (no caller in this
  build), 64-bit wrap-around of `start + count`.
* In `Dmover`: probe, remove and mmap; a second open file, whose close stops the
  acquisition and whose handler stays registered; START without RESET, which requests every
  buffer twice; status packets of a length other than 4; the weak ordering of the
  handler's two stores `blen` and `bready`.  `ax_dma1.c` is an unfinished PCIe
  front end (undeclared variables, a syntax error in line 353) that moves no data.
* The performance ioctls drive one kernel buffer and read counters.  The FPGA sources are
  clocked logic; the models take them as a source that pauses and ends packets anywhere.
* The SDAccel files are compiled out; BAR access devices have no state; the
  Xilinx RX ring is unreachable.

## 6. Plan

Done: all modules of section 2 and the proofs of section 4.

Left to model, in this order: CONFIRM with arbitrary numbers and concurrent with STOP
(`WzCyclic`); open files across remove() (a composition of `Probe` and `WzLifecycle`); the
FPGA FIFO as a queue and the packetiser; the Xilinx RX ring, although unreachable today.
