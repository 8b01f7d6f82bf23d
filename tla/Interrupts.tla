----------------------------- MODULE Interrupts -----------------------------
(***************************************************************************)
(* One interrupt for all engines and all user interrupts: xdma_isr in      *)
(* legacy and MSI mode, the work item of each engine that unmasks its      *)
(* channel again, xdma_user_irq in MSI-X mode, and the events devices on   *)
(* which processes read() and poll() for user interrupts (xdma-core.c).    *)
(* The channel interrupts of MSI-X mode are part of WzCyclic.              *)
(***************************************************************************)
EXTENDS Naturals, FiniteSets

CONSTANTS
  Engines,
  Cyclic,     \* engines with a started acquisition: ext->desc[0] is set
  UserIrqs,
  Readers     \* processes that read an events device

ASSUME CyclicAssumption == Cyclic \subseteq Engines

None == "none"
ASSUME NoneAssumption == None \notin UserIrqs

VARIABLES
  mode,       \* "legacy", "msi" or "msix": fixed by probe()
  (* the interrupt block of the core (external) *)
  event,      \* engines with an unread event in their status register
  chEnable,   \* channel_int_enable
  line,       \* user interrupt inputs that are asserted
  msg,        \* MSI mode: a message is on its way to the processor
  vec,        \* MSI-X mode: user vectors on their way
  (* xdma_isr *)
  ipc,        \* "idle", or the register access it does next
  ch_irq, user_irq,
  (* work items *)
  work,       \* engines whose work is queued
  worker,     \* engine_service_work of each engine
  (* events devices *)
  events_irq, \* user_irq->events_irq
  device,     \* the user interrupt whose device a reader has open, or None
  rpc         \* the system call of each reader; "empty" when read() returned
              \* an empty event word

hwVars     == <<mode, event, chEnable, line, msg, vec>>
isrVars    == <<ipc, ch_irq, user_irq>>
workVars   == <<work, worker>>
readerVars == <<device, rpc>>
vars == <<hwVars, isrVars, workVars, events_irq, readerVars>>

\* The end of probe(): user_interrupts_enable and channel_interrupts_enable.
Init ==
  /\ mode \in {"legacy", "msi", "msix"}
  /\ event = {} /\ chEnable = Engines /\ line = {}
  /\ msg = FALSE /\ vec = {}
  /\ ipc = "idle" /\ ch_irq = {} /\ user_irq = {}
  /\ work = {} /\ worker = [e \in Engines |-> "idle"]
  /\ events_irq = [u \in UserIrqs |-> 0]
  /\ device \in [Readers -> UserIrqs \union {None}]
  /\ \E r \in Readers : device[r] # None
  /\ rpc = [r \in Readers |-> "idle"]

-----------------------------------------------------------------------------
(***************************************************************************)
(* The core (external).  channel_int_request and user_int_request are      *)
(* levels; in MSI mode a message is sent whenever an enabled request       *)
(* appears.                                                                *)
(***************************************************************************)
channel_int_request == event \intersect chEnable

EngineEvent(e) ==
  /\ mode # "msix"
  /\ e \notin event
  /\ event' = event \union {e}
  /\ msg' = (msg \/ (mode = "msi" /\ e \in chEnable))
  /\ UNCHANGED <<mode, chEnable, line, vec, isrVars, workVars, events_irq,
                 readerVars>>

\* User logic asserts its interrupt and holds it until it is handled.
UserRaise(u) ==
  /\ u \notin line
  /\ line' = line \union {u}
  /\ msg' = (msg \/ mode = "msi")
  /\ vec' = IF mode = "msix" THEN vec \union {u} ELSE vec
  /\ UNCHANGED <<mode, event, chEnable, isrVars, workVars, events_irq,
                 readerVars>>

-----------------------------------------------------------------------------
\* Mutant: events are counted, also while one is pending.
UserIrqServiceCounts(u) == events_irq' = [events_irq EXCEPT ![u] = @ + 1]

\* Mutant: the event is only recorded when somebody waits for it.
UserIrqServiceIfWaiting(u) ==
  events_irq' = IF \E r \in Readers : device[r] = u /\ rpc[r] # "idle"
                THEN [events_irq EXCEPT ![u] = 1] ELSE events_irq

\* user_irq_service, under events_lock.  The wake-up needs no state: a sleeper
\* tests events_irq again.
UserIrqService(u) == events_irq' = [events_irq EXCEPT ![u] = 1]

\* xdma_isr is called for a message, or in legacy mode for the shared line,
\* which another device may have asserted.
IsrEnter ==
  /\ ipc = "idle"
  /\ mode = "legacy" \/ msg
  /\ msg' = FALSE
  /\ ipc' = "channel"
  /\ UNCHANGED <<mode, event, chEnable, line, vec, ch_irq, user_irq, workVars,
                 events_irq, readerVars>>

IsrReadChannel ==
  /\ ipc = "channel"
  /\ ch_irq' = channel_int_request
  /\ ipc' = "disable"
  /\ UNCHANGED <<hwVars, user_irq, workVars, events_irq, readerVars>>

\* Mutant: all channels are disabled, not only the ones that fired.
IsrDisableAll ==
  /\ ipc = "disable"
  /\ chEnable' = {}
  /\ ipc' = "user"
  /\ UNCHANGED <<mode, event, line, msg, vec, ch_irq, user_irq, workVars,
                 events_irq, readerVars>>

\* channel_interrupts_disable(lro, ch_irq)
IsrDisable ==
  /\ ipc = "disable"
  /\ chEnable' = chEnable \ ch_irq
  /\ ipc' = "user"
  /\ UNCHANGED <<mode, event, line, msg, vec, ch_irq, user_irq, workVars,
                 events_irq, readerVars>>

IsrReadUser ==
  /\ ipc = "user"
  /\ user_irq' = line
  /\ ipc' = "service"
  /\ UNCHANGED <<hwVars, ch_irq, workVars, events_irq, readerVars>>

IsrServiceUser(u) ==
  /\ ipc = "service"
  /\ u \in user_irq
  /\ UserIrqService(u)
  /\ user_irq' = user_irq \ {u}
  /\ UNCHANGED <<hwVars, ipc, ch_irq, workVars, readerVars>>

\* The two loops over the engines, and the return.  Queueing a work item that
\* is queued already has no effect.
IsrSchedule ==
  /\ ipc = "service"
  /\ user_irq = {}
  /\ work' = work \union ch_irq
  /\ ch_irq' = {}
  /\ ipc' = "idle"
  /\ UNCHANGED <<hwVars, user_irq, worker, events_irq, readerVars>>

Isr == \/ IsrEnter \/ IsrReadChannel \/ IsrDisable \/ IsrReadUser
       \/ \E u \in UserIrqs : IsrServiceUser(u)
       \/ IsrSchedule

\* xdma_user_irq: the handler of one MSI-X vector.
XdmaUserIrq(u) ==
  /\ u \in vec
  /\ vec' = vec \ {u}
  /\ UserIrqService(u)
  /\ UNCHANGED <<mode, event, chEnable, line, msg, isrVars, workVars,
                 readerVars>>

-----------------------------------------------------------------------------
\* engine_service_work starts: the item leaves the queue, engine->lock is taken.
WorkBegin(e) ==
  /\ e \in work
  /\ worker[e] = "idle"
  /\ work' = work \ {e}
  /\ worker' = [worker EXCEPT ![e] = "status"]
  /\ UNCHANGED <<hwVars, isrVars, events_irq, readerVars>>

\* Mutant: the status is read from the register that does not clear it.
WorkServiceNoClear(e) ==
  /\ worker[e] = "status"
  /\ worker' = [worker EXCEPT ![e] = IF e \in Cyclic THEN "enable" ELSE "oops"]
  /\ UNCHANGED <<hwVars, isrVars, work, events_irq, readerVars>>

\* engine_service_cyclic: the status is read and cleared, then the descriptors
\* are scanned from ext->desc[0] on.  Without an acquisition that is a NULL
\* pointer: the worker dies with engine->lock held.  An engine without one raises
\* events when a PERF ioctl starts it; the file operations of interrupt mode have
\* no read() and no write().
WorkService(e) ==
  /\ worker[e] = "status"
  /\ event' = event \ {e}
  /\ worker' = [worker EXCEPT ![e] = IF e \in Cyclic THEN "enable" ELSE "oops"]
  /\ UNCHANGED <<mode, chEnable, line, msg, vec, isrVars, work, events_irq,
                 readerVars>>

\* channel_interrupts_enable(lro, irq_bitmask) and the end of the work item.
WorkEnable(e) ==
  /\ worker[e] = "enable"
  /\ chEnable' = chEnable \union {e}
  /\ msg' = (msg \/ (mode = "msi" /\ e \in event \ chEnable))
  /\ worker' = [worker EXCEPT ![e] = "idle"]
  /\ UNCHANGED <<mode, event, line, vec, isrVars, work, events_irq,
                 readerVars>>

Worker(e) == WorkBegin(e) \/ WorkService(e) \/ WorkEnable(e)

-----------------------------------------------------------------------------
(***************************************************************************)
(* A reader calls read() at once, or poll() first and read() when the      *)
(* device is readable.  After an event it handles the cause in the device, *)
(* which releases the interrupt line (external).                           *)
(***************************************************************************)
Readable(r) == events_irq[device[r]] # 0

CallRead(r) ==
  /\ device[r] # None
  /\ rpc[r] \in {"idle", "empty"}
  /\ rpc' = [rpc EXCEPT ![r] = "read"]
  /\ UNCHANGED <<hwVars, isrVars, workVars, events_irq, device>>

CallPoll(r) ==
  /\ device[r] # None
  /\ rpc[r] \in {"idle", "empty"}
  /\ rpc' = [rpc EXCEPT ![r] = "poll"]
  /\ UNCHANGED <<hwVars, isrVars, workVars, events_irq, device>>

\* char_events_poll reports POLLIN and the process calls read().
PollReturns(r) ==
  /\ rpc[r] = "poll"
  /\ Readable(r)
  /\ rpc' = [rpc EXCEPT ![r] = "polled"]
  /\ UNCHANGED <<hwVars, isrVars, workVars, events_irq, device>>

\* The condition of wait_event_interruptible is true.
WaitDone(r) ==
  /\ rpc[r] \in {"read", "polled"}
  /\ Readable(r)
  /\ rpc' = [rpc EXCEPT ![r] = "take"]
  /\ UNCHANGED <<hwVars, isrVars, workVars, events_irq, device>>

\* Mutant: the result of the wait is not tested.
WaitInterruptedIgnored(r) ==
  /\ rpc[r] \in {"read", "polled"}
  /\ ~Readable(r)
  /\ rpc' = [rpc EXCEPT ![r] = "take"]
  /\ UNCHANGED <<hwVars, isrVars, workVars, events_irq, device>>

\* A signal ends the wait, unless the condition holds: -ERESTARTSYS.
WaitInterrupted(r) ==
  /\ rpc[r] \in {"read", "polled"}
  /\ ~Readable(r)
  /\ rpc' = [rpc EXCEPT ![r] = "idle"]
  /\ UNCHANGED <<hwVars, isrVars, workVars, events_irq, device>>

\* "atomically decide which events are passed to the user": the event word is
\* fetched and cleared under events_lock, and read() returns it.
TakeEvents(r) ==
  /\ rpc[r] = "take"
  /\ events_irq' = [events_irq EXCEPT ![device[r]] = 0]
  /\ rpc' = [rpc EXCEPT ![r] = IF Readable(r) THEN "handle" ELSE "empty"]
  /\ UNCHANGED <<hwVars, isrVars, workVars, device>>

\* The process handles the cause; the user logic releases its line.
Handle(r) ==
  /\ rpc[r] = "handle"
  /\ line' = line \ {device[r]}
  /\ rpc' = [rpc EXCEPT ![r] = "idle"]
  /\ UNCHANGED <<mode, event, chEnable, msg, vec, isrVars, workVars,
                 events_irq, device>>

Reader(r) == CallRead(r) \/ CallPoll(r) \/ PollReturns(r) \/ WaitDone(r)
               \/ TakeEvents(r) \/ Handle(r)

Next ==
  \/ \E e \in Engines : EngineEvent(e) \/ Worker(e)
  \/ \E u \in UserIrqs : UserRaise(u) \/ XdmaUserIrq(u)
  \/ Isr
  \/ \E r \in Readers : Reader(r) \/ WaitInterrupted(r)

Spec == Init /\ [][Next]_vars

\* The processor runs interrupt handlers and the kernel runs work items and
\* processes.  The processes keep reading their devices.  Nothing is assumed
\* of the core, of user logic or of signals.
LiveSpec ==
  /\ Spec
  /\ WF_vars(Isr)
  /\ \A e \in Engines : WF_vars(Worker(e))
  /\ \A u \in UserIrqs : WF_vars(XdmaUserIrq(u))
  /\ \A r \in Readers : WF_vars(Reader(r))

-----------------------------------------------------------------------------
\* Types; in particular an event word is 0 or 1, as user_irq_service writes it
\* only when it is 0.
TypeOK ==
  /\ mode \in {"legacy", "msi", "msix"}
  /\ event \subseteq Engines /\ chEnable \subseteq Engines
  /\ line \subseteq UserIrqs /\ vec \subseteq UserIrqs
  /\ msg \in BOOLEAN
  /\ ipc \in {"idle", "channel", "disable", "user", "service"}
  /\ ch_irq \subseteq Engines /\ user_irq \subseteq UserIrqs
  /\ work \subseteq Engines
  /\ worker \in [Engines -> {"idle", "status", "enable", "oops"}]
  /\ events_irq \in [UserIrqs -> {0, 1}]
  /\ device \in [Readers -> UserIrqs \union {None}]
  /\ rpc \in [Readers -> {"idle", "read", "poll", "polled", "take", "handle",
                          "empty"}]

\* The interrupt block will call xdma_isr, and the call will see the requests
\* that are up by then.
IsrDue(readsLater) == mode = "legacy" \/ msg \/ ipc \in readsLater

\* xdma_isr masks the channels that fired and each worker unmasks its own, so no
\* event is left behind: while an event is in an engine's status register the
\* engine's channel is enabled and xdma_isr is due, or xdma_isr is about to
\* queue its work, or its work is queued or not yet at the unmasking.  Only the
\* engine whose worker died is excepted.
EngineEventPending ==
  \A e \in event :
    \/ e \in chEnable /\ IsrDue({"channel"})
    \/ e \in ch_irq
    \/ e \in work
    \/ worker[e] # "idle"

\* A user interrupt that is asserted is never forgotten between the handler,
\* events_irq and the readers, in any of the three modes: the handler is due
\* or has the bit in its hands, the event word is set, or a process that was
\* given the event is handling it.
UserEventPending ==
  \A u \in line :
    \/ mode # "msix" /\ IsrDue({"channel", "disable", "user"})
    \/ u \in user_irq
    \/ u \in vec
    \/ events_irq[u] = 1
    \/ \E r \in Readers : device[r] = u /\ rpc[r] = "handle"

Sole(r) == \A s \in Readers : device[s] = device[r] => s = r

\* A process that is the only one to read its events device is never handed an
\* empty event word by read() ("sleep until any interrupt events have occurred"),
\* and its read() does not sleep after poll() said the device is readable, also
\* with signals and with interrupts coming at any time.  With two readers both
\* fail: the wait and the fetch of the word are not one step.
SoleReaderServed ==
  \A r \in Readers :
    Sole(r) => rpc[r] # "empty" /\ (rpc[r] = "polled" => Readable(r))

\* Every event of an engine with an acquisition is serviced, also after the
\* worker of another engine died, and every user interrupt is handled by a
\* process that keeps reading its device.
InterruptsServed ==
  /\ \A e \in Cyclic : e \in event ~> e \notin event
  /\ \A r \in Readers : device[r] \in line ~> device[r] \notin line

=============================================================================
