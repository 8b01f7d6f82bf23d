----------------------------- MODULE WzCyclic -----------------------------
(***************************************************************************)
(* One cyclic acquisition of the wz extension (wz-xdma.c), from the START  *)
(* ioctl to the end of the STOP ioctl:                                     *)
(*                                                                         *)
(*   - the XDMA C2H engine (external hardware) fetches descriptors, fills  *)
(*     their buffers and writes its result back OVER the descriptor;       *)
(*   - the MSI-X handler xdma_channel_irq masks the engine's interrupt and *)
(*     schedules engine_service_work;                                      *)
(*   - the worker, holding engine->lock, scans the descriptors, assembles  *)
(*     blocks and puts them into the kfifo;                                *)
(*   - application threads get blocks (GETBUF), use them, and return them  *)
(*     to the ring (CONFIRM), without taking engine->lock;                 *)
(*   - the application stops the acquisition (STOP).                       *)
(*                                                                         *)
(* The lock is held across steps only by the worker, so "engine->lock is   *)
(* free" is wpc = "idle".                                                  *)
(***************************************************************************)
EXTENDS DescRing, Sequences, FiniteSets

CONSTANTS
  Readers,    \* application threads that call GETBUF
  Prefetch,   \* descriptors the engine may have fetched and not completed
  MaxBlock,   \* the data source sends an EOP at least every MaxBlock buffers
  MaxFills,   \* bound: buffers filled during the acquisition
  KeepUp      \* TRUE: the application returns buffers early enough that the
              \* engine never completes the last unreturned buffer of the ring

ASSUME PrefetchAssumption == Prefetch \in 1 .. NOFBUFS - 1
ASSUME MaxBlockAssumption == MaxBlock \in Nat \ {0}
ASSUME MaxFillsAssumption == MaxFills \in Nat
ASSUME KeepUpAssumption == KeepUp \in BOOLEAN

VARIABLES
  (* descriptor ring in coherent memory, and the buffers *)
  control,    \* control/status word of descriptor i
  bytes,      \* bytes/length word of descriptor i
  stamp,      \* ghost: which fill (1, 2, ...) the data of buffer i is from
  (* the engine *)
  fetch_desc, \* next descriptor the engine will fetch
  fill_desc,  \* next descriptor the engine will complete
  bad_magic,  \* the engine fetched a descriptor without DESC_MAGIC
  run_stop,   \* RUN bit of the control register
  busy,       \* XDMA_STAT_BUSY
  fills,      \* ghost: number of buffers filled so far
  since_eop,  \* buffers filled since the last EOP
  (* interrupt path *)
  event,      \* some event bit of the status register is set
  irq_mask,   \* interrupt_enable_mask register is not zero
  irq_saved,  \* engine->interrupt_enable_mask_value is not zero
  msi,        \* an interrupt message is on its way to the CPU
  queued,     \* engine->work is pending
  (* the worker *)
  wpc,        \* "idle", "scan" or "finish"
  status,     \* BUSY bit of engine->status
  check_desc,
  (* engine and wz_ext *)
  running,
  transfer_list,      \* the cyclic transfer is on engine->transfer_list
  block_first_desc,
  block_scanned_desc,
  kfifo,
  reported,   \* ghost: fill number of the last buffer put into the kfifo
  (* the application *)
  session,    \* "ready", "run", "stopping", "stopped"
  rpc,        \* where each reader is in GETBUF
  held,       \* blocks the application got and has not returned
  delivered,  \* ghost: fill number of the last buffer handed over by GETBUF
  cpc,        \* where CONFIRM is: "idle", "fields" or "control"
  conf_desc,  \* i of CONFIRM's loop
  conf_last   \* db_conf.last_desc

ringVars == <<control, bytes, stamp>>
hwVars   == <<fetch_desc, fill_desc, bad_magic, busy, fills, since_eop>>
irqVars  == <<event, irq_mask, irq_saved, msi, queued>>
workVars == <<wpc, status, check_desc>>
extVars  == <<running, transfer_list, block_first_desc, block_scanned_desc,
              kfifo, reported>>
appVars  == <<session, held, delivered, cpc, conf_desc, conf_last>>
vars     == <<ringVars, hwVars, run_stop, irqVars, workVars, extVars,
              appVars, rpc>>

\* A block descriptor of the kfifo; lo and hi are ghosts: the fill numbers of
\* the data it stands for.  last_len is left out: nothing depends on it.
Block == [first_desc : Desc, last_desc : Desc, lo : Nat, hi : Nat]

Magic == "magic"   \* DESC_MAGIC in the control word: the engine may use it
Wb    == "wb"      \* C2H_WB in the status word, EOP clear
WbEop == "wbEop"   \* C2H_WB in the status word, EOP set
Freed == "freed"   \* no descriptor: ext->desc[i] is NULL
IsWb(c) == c \in {Wb, WbEop}

-----------------------------------------------------------------------------
\* ALLOC_BUFFERS was called; nothing is started.
Init ==
  /\ control = [i \in Desc |-> Freed]
  /\ bytes = [i \in Desc |-> "full"]
  /\ stamp = [i \in Desc |-> 0]
  /\ fetch_desc = 0 /\ fill_desc = 0 /\ bad_magic = FALSE
  /\ run_stop = FALSE /\ busy = FALSE /\ fills = 0 /\ since_eop = 0
  /\ event = FALSE /\ irq_mask = TRUE /\ irq_saved = FALSE
  /\ msi = FALSE /\ queued = FALSE
  /\ wpc = "idle" /\ status = FALSE /\ check_desc = 0
  /\ running = FALSE /\ transfer_list = FALSE
  /\ block_first_desc = 0 /\ block_scanned_desc = 0
  /\ kfifo = <<>> /\ reported = 0
  /\ session = "ready" /\ rpc = [r \in Readers |-> "idle"]
  /\ held = {} /\ delivered = 0
  /\ cpc = "idle" /\ conf_desc = 0 /\ conf_last = 0

(***************************************************************************)
(* START: build the ring, queue the cyclic transfer and start the engine.  *)
(***************************************************************************)
Start ==
  /\ session = "ready"
  /\ wpc = "idle"
  /\ control' = [i \in Desc |-> Magic]
  /\ bytes' = [i \in Desc |-> "full"]
  /\ block_first_desc' = 0
  /\ block_scanned_desc' = 0
  /\ fetch_desc' = 0 /\ fill_desc' = 0
  /\ transfer_list' = TRUE
  /\ run_stop' = TRUE /\ busy' = TRUE
  /\ running' = TRUE
  /\ session' = "run"
  /\ UNCHANGED <<stamp, bad_magic, fills, since_eop, irqVars, workVars, kfifo,
                 reported, held, delivered, cpc, conf_desc, conf_last, rpc>>

-----------------------------------------------------------------------------
(***************************************************************************)
(* The engine (external).  It fetches descriptors ahead of the one it is   *)
(* filling, stops at a descriptor without DESC_MAGIC, and after a fill     *)
(* writes {C2H_WB | EOP, length} over the control and bytes words.         *)
(***************************************************************************)

\* An event bit is latched in the status register; if the interrupt line
\* (event bits AND interrupt_enable_mask) rises, a message is sent.
RaiseEvent ==
  /\ event' = TRUE
  /\ msi' = (msi \/ (irq_mask /\ ~event))
  /\ UNCHANGED <<irq_mask, irq_saved, queued>>

HwFetch ==
  /\ busy /\ run_stop /\ ~bad_magic
  /\ Dist(fill_desc, fetch_desc) < Prefetch
  /\ control[fetch_desc] = Magic
  /\ fetch_desc' = NextDesc(fetch_desc)
  /\ UNCHANGED <<ringVars, fill_desc, bad_magic, busy, fills, since_eop,
                 run_stop, irqVars, workVars, extVars, appVars, rpc>>

HwFetchBadMagic ==
  /\ busy /\ run_stop /\ ~bad_magic
  /\ Dist(fill_desc, fetch_desc) < Prefetch
  /\ control[fetch_desc] # Magic
  /\ ~KeepUp
  /\ bad_magic' = TRUE
  /\ UNCHANGED <<ringVars, fetch_desc, fill_desc, busy, fills, since_eop,
                 run_stop, irqVars, workVars, extVars, appVars, rpc>>

HwComplete(eop) ==
  /\ busy
  /\ fill_desc # fetch_desc
  /\ fills < MaxFills
  /\ eop \/ since_eop + 1 < MaxBlock
  /\ KeepUp => control[NextDesc(fill_desc)] = Magic
  /\ control' = [control EXCEPT ![fill_desc] = IF eop THEN WbEop ELSE Wb]
  /\ bytes' = [bytes EXCEPT ![fill_desc] = "length"]
  /\ fills' = fills + 1
  /\ stamp' = [stamp EXCEPT ![fill_desc] = fills + 1]
  /\ since_eop' = IF eop THEN 0 ELSE since_eop + 1
  /\ fill_desc' = NextDesc(fill_desc)
  /\ RaiseEvent
  /\ UNCHANGED <<fetch_desc, bad_magic, busy, run_stop, workVars, extVars,
                 appVars, rpc>>

\* The engine goes idle: it ran into a bad descriptor and finished the ones
\* fetched before it, or RUN was cleared (fetched descriptors may be dropped).
HwStop ==
  /\ busy
  /\ (bad_magic /\ fill_desc = fetch_desc) \/ ~run_stop
  /\ busy' = FALSE
  /\ RaiseEvent
  /\ UNCHANGED <<ringVars, fetch_desc, fill_desc, bad_magic, fills, since_eop,
                 run_stop, workVars, extVars, appVars, rpc>>

-----------------------------------------------------------------------------
(***************************************************************************)
(* xdma_channel_irq: save the mask, clear it, schedule the worker.         *)
(***************************************************************************)
ChannelIrq ==
  /\ msi
  /\ msi' = FALSE
  /\ irq_saved' = irq_mask
  /\ irq_mask' = FALSE
  /\ queued' = TRUE
  /\ UNCHANGED <<ringVars, hwVars, run_stop, event, workVars, extVars,
                 appVars, rpc>>

\* Mutant: the wake-up is missing.
NoWakeGetbuf == UNCHANGED rpc

\* wake_up_interruptible(&ext->getbuf_wq): the sleepers test again.
WakeGetbuf ==
  rpc' = [r \in Readers |-> IF rpc[r] = "asleep" THEN "check" ELSE rpc[r]]

(***************************************************************************)
(* engine_service_work: take engine->lock and read-and-clear the status.   *)
(***************************************************************************)
WorkBegin ==
  /\ wpc = "idle"
  /\ queued
  /\ queued' = FALSE
  /\ status' = busy
  /\ event' = FALSE
  /\ check_desc' = block_scanned_desc
  /\ wpc' = "scan"
  /\ UNCHANGED <<ringVars, hwVars, run_stop, irq_mask, irq_saved, msi,
                 extVars, appVars, rpc>>

\* No writeback MAGIC: all received descriptors are processed.
ScanEnd ==
  /\ wpc = "scan"
  /\ ~IsWb(control[check_desc])
  /\ block_scanned_desc' = check_desc
  /\ wpc' = "finish"
  /\ UNCHANGED <<ringVars, hwVars, run_stop, irqVars, status, check_desc,
                 running, transfer_list, block_first_desc, kfifo, reported,
                 appVars, rpc>>

\* Mutant: the kfifo is allocated for half of the buffers.
KfifoIsHalfFull == Len(kfifo) >= NOFBUFS \div 2

\* The kfifo was allocated for NOFBUFS entries.
KfifoIsFull == Len(kfifo) = NOFBUFS

\* Mutant: the block starts where the last scan ended.
BlockFromScanned ==
  [first_desc |-> block_scanned_desc, last_desc |-> check_desc,
   lo |-> stamp[block_scanned_desc], hi |-> stamp[check_desc]]

\* The block that ends at the descriptor being checked.
AssembledBlock ==
  [first_desc |-> block_first_desc, last_desc |-> check_desc,
   lo |-> stamp[block_first_desc], hi |-> stamp[check_desc]]

\* Last buffer of a block and room in the kfifo: report the block.
ScanReport ==
  /\ wpc = "scan"
  /\ control[check_desc] = WbEop
  /\ ~KfifoIsFull
  /\ kfifo' = Append(kfifo, AssembledBlock)
  /\ reported' = stamp[check_desc]
  /\ check_desc' = NextDesc(check_desc)
  /\ block_first_desc' = NextDesc(check_desc)
  /\ block_scanned_desc' = NextDesc(check_desc)
  /\ WakeGetbuf
  /\ UNCHANGED <<ringVars, hwVars, run_stop, irqVars, wpc, status, running,
                 transfer_list, appVars>>

\* Last buffer of a block and no room: postpone, block_scanned_desc is kept.
ScanPostpone ==
  /\ wpc = "scan"
  /\ control[check_desc] = WbEop
  /\ KfifoIsFull
  /\ wpc' = "finish"
  /\ UNCHANGED <<ringVars, hwVars, run_stop, irqVars, status, check_desc,
                 extVars, appVars, rpc>>

\* Not the last buffer of its block: only shift check_desc.
ScanShift ==
  /\ wpc = "scan"
  /\ control[check_desc] = Wb
  /\ check_desc' = NextDesc(check_desc)
  /\ UNCHANGED <<ringVars, hwVars, run_stop, irqVars, wpc, status, extVars,
                 appVars, rpc>>

\* Mutant: the interrupt stays masked.
RestoreMaskForgotten ==
  /\ irq_mask' = irq_mask
  /\ msi' = msi
  /\ wpc' = "idle"
  /\ UNCHANGED <<event, irq_saved, queued>>

\* Mutant: the status is cleared at the end, not where it is read.
RestoreMaskAndClear ==
  /\ irq_mask' = (irq_mask \/ irq_saved)
  /\ msi' = msi
  /\ event' = FALSE
  /\ wpc' = "idle"
  /\ UNCHANGED <<irq_saved, queued>>

\* End of engine_service_work in MSI-X mode: write the saved mask to
\* interrupt_enable_mask_w1s (a latched event sends a new message), unlock.
RestoreMask ==
  /\ irq_mask' = (irq_mask \/ irq_saved)
  /\ msi' = (msi \/ (~irq_mask /\ irq_saved /\ event))
  /\ wpc' = "idle"
  /\ UNCHANGED <<event, irq_saved, queued>>

\* The engine was running and its status is no longer BUSY: dequeue the
\* transfer, engine_service_shutdown, wake the readers for the last time.
WorkShutdown ==
  /\ wpc = "finish"
  /\ running /\ ~status
  /\ transfer_list' = FALSE
  /\ run_stop' = FALSE
  /\ running' = FALSE
  /\ WakeGetbuf
  /\ RestoreMask
  /\ UNCHANGED <<ringVars, hwVars, status, check_desc, block_first_desc,
                 block_scanned_desc, kfifo, reported, appVars>>

WorkFinish ==
  /\ wpc = "finish"
  /\ ~running \/ status
  /\ RestoreMask
  /\ UNCHANGED <<ringVars, hwVars, run_stop, status, check_desc, extVars,
                 appVars, rpc>>

-----------------------------------------------------------------------------
(***************************************************************************)
(* GETBUF.  wait_event_interruptible tests its condition after the task is *)
(* on the wait queue, so test-and-sleep is one step.  kfifo_get is one     *)
(* step too: without a lock the kfifo is safe for one writer, the worker,  *)
(* and one reader only, so what is claimed of the blocks is claimed for a  *)
(* single reader.  With two, this is the best case: see                    *)
(* GetbufReturnsBlock, which fails even so.                                *)
(***************************************************************************)
GetbufEnter(r) ==
  /\ rpc[r] = "idle"
  /\ session \in {"run", "stopping"}
  /\ rpc' = [rpc EXCEPT ![r] = "check"]
  /\ UNCHANGED <<ringVars, hwVars, run_stop, irqVars, workVars, extVars,
                 appVars>>

GetbufCheck(r) ==
  /\ rpc[r] = "check"
  /\ rpc' = [rpc EXCEPT ![r] =
               IF Len(kfifo) >= 1 \/ ~running THEN "take" ELSE "asleep"]
  /\ UNCHANGED <<ringVars, hwVars, run_stop, irqVars, workVars, extVars,
                 appVars>>

\* A signal ends the wait: GETBUF returns -ERESTARTSYS.
GetbufSignal(r) ==
  /\ rpc[r] = "asleep"
  /\ rpc' = [rpc EXCEPT ![r] = "idle"]
  /\ UNCHANGED <<ringVars, hwVars, run_stop, irqVars, workVars, extVars,
                 appVars>>

\* GETBUF returns -EIO.
GetbufNotRunning(r) ==
  /\ rpc[r] = "take"
  /\ ~running
  /\ rpc' = [rpc EXCEPT ![r] = "idle"]
  /\ UNCHANGED <<ringVars, hwVars, run_stop, irqVars, workVars, extVars,
                 appVars>>

\* GETBUF finds the engine still running and hands the oldest block over.  The
\* engine may stop between that test and kfifo_get; this changes nothing in the
\* kfifo, so the two are one step.
GetbufTake(r) ==
  /\ rpc[r] = "take"
  /\ running
  /\ Len(kfifo) >= 1
  /\ kfifo' = Tail(kfifo)
  /\ held' = held \union {Head(kfifo)}
  /\ delivered' = Head(kfifo).hi
  /\ rpc' = [rpc EXCEPT ![r] = "idle"]
  /\ UNCHANGED <<ringVars, hwVars, run_stop, irqVars, workVars, running,
                 transfer_list, block_first_desc, block_scanned_desc,
                 reported, session, cpc, conf_desc, conf_last>>

\* kfifo_get finds nothing, its result is not tested: GETBUF returns 0 and
\* copies an uninitialised db_desc to the application.
GetbufTakeNothing(r) ==
  /\ rpc[r] = "take"
  /\ running
  /\ Len(kfifo) = 0
  /\ rpc' = [rpc EXCEPT ![r] = "garbage"]
  /\ UNCHANGED <<ringVars, hwVars, run_stop, irqVars, workVars, extVars,
                 appVars>>

\* Mutant: the loop runs past the last descriptor.
ConfirmEnterOneMore(b) ==
  /\ cpc = "idle"
  /\ session = "run"
  /\ b \in held
  /\ held' = held \ {b}
  /\ conf_desc' = b.first_desc
  /\ conf_last' = NextDesc(b.last_desc)
  /\ cpc' = "fields"
  /\ UNCHANGED <<ringVars, hwVars, run_stop, irqVars, workVars, extVars,
                 session, delivered, rpc>>

(***************************************************************************)
(* CONFIRM of a block the application holds.  Blocks may be returned in    *)
(* any order.  Each descriptor is restored in two steps: first every field *)
(* but the control word, then (after mb()) the control word with its MAGIC.*)
(***************************************************************************)
ConfirmEnter(b) ==
  /\ cpc = "idle"
  /\ session = "run"
  /\ b \in held
  /\ held' = held \ {b}
  /\ conf_desc' = b.first_desc
  /\ conf_last' = b.last_desc
  /\ cpc' = "fields"
  /\ UNCHANGED <<ringVars, hwVars, run_stop, irqVars, workVars, extVars,
                 session, delivered, rpc>>

\* Mutant: only the control word is restored.
ConfirmFieldsForgotten ==
  /\ cpc = "fields"
  /\ bytes' = bytes
  /\ cpc' = "control"
  /\ UNCHANGED <<control, stamp, hwVars, run_stop, irqVars, workVars, extVars,
                 session, held, delivered, conf_desc, conf_last, rpc>>

ConfirmFields ==
  /\ cpc = "fields"
  /\ bytes' = [bytes EXCEPT ![conf_desc] = "full"]
  /\ cpc' = "control"
  /\ UNCHANGED <<control, stamp, hwVars, run_stop, irqVars, workVars, extVars,
                 session, held, delivered, conf_desc, conf_last, rpc>>

ConfirmControl ==
  /\ cpc = "control"
  /\ control' = [control EXCEPT ![conf_desc] = Magic]
  /\ \/ /\ conf_desc = conf_last
        /\ cpc' = "idle"
        /\ UNCHANGED conf_desc
     \/ /\ conf_desc # conf_last
        /\ cpc' = "fields"
        /\ conf_desc' = NextDesc(conf_desc)
  /\ UNCHANGED <<bytes, stamp, hwVars, run_stop, irqVars, workVars, extVars,
                 session, held, delivered, conf_last, rpc>>

(***************************************************************************)
(* STOP, in the two critical sections of the handler.  The thread that     *)
(* confirms is the one that stops.                                         *)
(***************************************************************************)

\* Mutant: the test of the transfer list is inverted.
EngineCyclicStopInverted == run_stop' = (run_stop /\ transfer_list)

\* engine_cyclic_stop: if a transfer is queued, clear RUN.  It also writes a
\* control word at desc_virt + desc_num - 1, which is outside the ring's
\* one-descriptor allocations.
EngineCyclicStop == run_stop' = (run_stop /\ ~transfer_list)

StopRequest ==
  /\ session = "run"
  /\ cpc = "idle"
  /\ wpc = "idle"
  /\ EngineCyclicStop
  /\ session' = "stopping"
  /\ UNCHANGED <<ringVars, hwVars, irqVars, workVars, extVars, held,
                 delivered, cpc, conf_desc, conf_last, rpc>>

\* Mutant: STOP does not wait.
NoWaitForShutdown == TRUE

\* The condition of wait_event(engine->shutdown_wq, ...).
ShutdownDone == ~running

\* The engine stopped: destroy the transfer, free the descriptors.
StopFree ==
  /\ session = "stopping"
  /\ ShutdownDone
  /\ wpc = "idle"
  /\ control' = [i \in Desc |-> Freed]
  /\ session' = "stopped"
  /\ UNCHANGED <<bytes, stamp, hwVars, run_stop, irqVars, workVars, extVars,
                 held, delivered, cpc, conf_desc, conf_last, rpc>>

\* The acquisition is over and every thread has left the driver.
Finished ==
  /\ session = "stopped"
  /\ wpc = "idle" /\ ~queued /\ ~msi
  /\ \A r \in Readers : rpc[r] \in {"idle", "garbage"}
  /\ UNCHANGED vars

-----------------------------------------------------------------------------
Hardware == \/ HwFetch
            \/ HwFetchBadMagic
            \/ \E eop \in BOOLEAN : HwComplete(eop)
            \/ HwStop

Worker == \/ WorkBegin
          \/ ScanEnd
          \/ ScanReport
          \/ ScanPostpone
          \/ ScanShift
          \/ WorkShutdown
          \/ WorkFinish

Getbuf(r) == \/ GetbufCheck(r)
             \/ GetbufNotRunning(r)
             \/ GetbufTake(r)
             \/ GetbufTakeNothing(r)

Confirm == \/ \E b \in held : ConfirmEnter(b)
           \/ ConfirmFields
           \/ ConfirmControl

Next == \/ Start
        \/ Hardware
        \/ ChannelIrq
        \/ Worker
        \/ \E r \in Readers : GetbufEnter(r) \/ Getbuf(r) \/ GetbufSignal(r)
        \/ Confirm
        \/ StopRequest
        \/ StopFree
        \/ Finished

Spec == Init /\ [][Next]_vars

(***************************************************************************)
(* Fairness.  The interrupt is delivered, a scheduled work item runs and a *)
(* runnable thread runs (kernel guarantees); an engine whose RUN bit is    *)
(* clear, or that met a bad descriptor, goes idle.  That more data arrives *)
(* is not assumed.  The application keeps calling GETBUF and CONFIRM.      *)
(***************************************************************************)
Fairness ==
  /\ WF_vars(HwFetch) /\ WF_vars(HwFetchBadMagic) /\ WF_vars(HwStop)
  /\ WF_vars(ChannelIrq)
  /\ WF_vars(Worker)
  /\ \A r \in Readers : WF_vars(Getbuf(r)) /\ WF_vars(GetbufEnter(r))
  /\ WF_vars(Confirm)
  /\ WF_vars(StopFree)

LiveSpec == Spec /\ Fairness

-----------------------------------------------------------------------------
\* Types; in particular every descriptor index stays inside the ring.
TypeOK ==
  /\ control \in [Desc -> {Magic, Wb, WbEop, Freed}]
  /\ bytes \in [Desc -> {"full", "length"}]
  /\ stamp \in [Desc -> Nat]
  /\ fetch_desc \in Desc /\ fill_desc \in Desc
  /\ bad_magic \in BOOLEAN /\ run_stop \in BOOLEAN /\ busy \in BOOLEAN
  /\ fills \in Nat /\ since_eop \in Nat
  /\ event \in BOOLEAN /\ irq_mask \in BOOLEAN /\ irq_saved \in BOOLEAN
  /\ msi \in BOOLEAN /\ queued \in BOOLEAN
  /\ wpc \in {"idle", "scan", "finish"}
  /\ status \in BOOLEAN /\ check_desc \in Desc
  /\ running \in BOOLEAN /\ transfer_list \in BOOLEAN
  /\ block_first_desc \in Desc /\ block_scanned_desc \in Desc
  /\ kfifo \in Seq(Block) /\ reported \in Nat
  /\ session \in {"ready", "run", "stopping", "stopped"}
  /\ rpc \in [Readers -> {"idle", "check", "asleep", "take", "garbage"}]
  /\ held \subseteq Block /\ delivered \in Nat
  /\ cpc \in {"idle", "fields", "control"}
  /\ conf_desc \in Desc /\ conf_last \in Desc

\* The blocks that are reported and not yet given back with CONFIRM.
OutBlocks == held \union {kfifo[k] : k \in DOMAIN kfifo}

\* The data of a reported block stays what it was when the block was
\* assembled until the application gives the block back: its buffers are
\* consecutive fills, and none is overwritten by the engine while the block
\* waits in the kfifo or is used by the application.  This is the "hardware-
\* based overrun protection" of START (wz-xdma.c:266-269).
HeldDataIntact ==
  \A b \in OutBlocks : \A i \in Desc :
    InBlock(i, b.first_desc, b.last_desc)
      => stamp[i] = b.lo + Dist(b.first_desc, i)

\* A descriptor with DESC_MAGIC is complete: whatever the engine fetches, also
\* while CONFIRM restores it, has its bytes field restored.
MagicMeansComplete ==
  \A i \in Desc : control[i] = Magic => bytes[i] = "full"

\* The kfifo has room for every block that can be reported (the comment of
\* ALLOC_BUFFERS calls NOFBUFS entries "very pesimistic", wz-xdma.c:127): a
\* report is never postponed.
NeverPostponed == wpc = "scan" => ~KfifoIsFull

\* No interrupt is lost: an event latched in the status register always has
\* an interrupt message, a scheduled work item or a running worker that will
\* look at it, and a masked interrupt is going to be unmasked.
NoLostInterrupt ==
  /\ event => msi \/ queued \/ wpc # "idle"
  /\ ~irq_mask => irq_saved /\ (queued \/ wpc # "idle")

\* An engine that has stopped is noticed: while the driver still takes it for
\* running, its status bits are latched, or the worker has read them and is about
\* to shut the engine down.  The engine also stops by itself, at a descriptor the
\* application has not given back in time, and at any point of a service; if that
\* went unnoticed GETBUF would wait for ever and STOP too.
EngineStopNoticed ==
  running /\ ~busy => event \/ (wpc # "idle" /\ ~status)

\* STOP frees the descriptors only when no interrupt, work item or worker is
\* left that would still scan them.
NoScanAfterFree ==
  session = "stopped" => ~msi /\ ~queued /\ wpc = "idle" /\ ~busy

\* The blocks in the kfifo follow one another along the ring, and the block
\* under assembly follows the newest of them: postponed and repeated scans
\* neither skip a descriptor nor start a block at a wrong one.
BlocksChained ==
  /\ \A k \in 1 .. Len(kfifo) - 1 :
       kfifo[k + 1].first_desc = NextDesc(kfifo[k].last_desc)
  /\ Len(kfifo) > 0 /\ session \in {"run", "stopping"}
       => block_first_desc = NextDesc(kfifo[Len(kfifo)].last_desc)

\* "Now we can be sure, that there is buffer ready to service": GETBUF never
\* returns success with a db_desc that no kfifo_get filled (wz-xdma.c:447).
GetbufReturnsBlock == \A r \in Readers : rpc[r] # "garbage"

\* The stream of blocks: buffer fills are reported exactly once, in order,
\* and handed over exactly once, in order (BlockStream).
Stream ==
  INSTANCE BlockStream WITH
    filled <- fills, published <- reported, got <- delivered,
    queue <- [k \in DOMAIN kfifo |-> <<kfifo[k].lo, kfifo[k].hi>>]

\* Ring, interrupt path, worker and GETBUF together implement that stream:
\* nothing is lost, duplicated or reordered between engine and application.
LosslessInOrder == Stream!Spec

\* A buffer that ends a block reaches the application, unless the acquisition
\* ends first.
BlockIsDelivered ==
  \A f \in 1 .. MaxFills :
    (\E i \in Desc : control[i] = WbEop /\ stamp[i] = f)
      ~> (delivered >= f \/ ~running)

\* STOP returns: its wait for !engine->running ends.
StopReturns == session = "stopping" ~> session = "stopped"

\* When the acquisition ends no reader stays asleep in GETBUF.
ReadersLeave ==
  \A r \in Readers : session = "stopped" ~> rpc[r] \in {"idle", "garbage"}

=============================================================================
