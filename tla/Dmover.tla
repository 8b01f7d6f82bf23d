------------------------------- MODULE Dmover -------------------------------
(***************************************************************************)
(* The v1 driver (axi4s2dmov.c): a DataMover fills the driver's buffers in *)
(* the order of the commands pushed into its command FIFO and reports each *)
(* in the status FIFO; tst1_irq marks buffers ready, and one application   *)
(* takes them with ADM_GET and gives them back with ADM_CONFIRM.           *)
(*                                                                         *)
(* The application calls ADM_RESET before every ADM_START and uses GET and *)
(* CONFIRM only after START: STOP leaves commands in the FIFO that only    *)
(* RESET removes.                                                          *)
(***************************************************************************)
EXTENDS Naturals, Sequences, FiniteSets

CONSTANTS BUF_NUM,
          MaxFills    \* bound on the buffers filled in one acquisition

\* A tag has 4 bits.
ASSUME BufNumAssumption == BUF_NUM \in 1 .. 16
ASSUME MaxFillsAssumption == MaxFills \in Nat

Bufs == 0 .. BUF_NUM - 1

VARIABLES
  (* AXI FIFO, DataMover and data source (external) *)
  cmds,          \* buffers still to be filled
  rx,            \* status words: the tag, and whether OKAY is set
  isr, ier,      \* the receive-complete bit of AF_ISR and of AF_IER
  started,       \* ksgpio_set_start
  (* tst1_irq *)
  ipc, nbuf,
  (* the driver's variables *)
  bready, received_buf, exp_buf, is_started, irq_set,
  (* the application *)
  phase,         \* what it has done with the device
  call,          \* the ioctl it is in, and where
  i,             \* loop variable of ADM_START
  (* history, for the properties *)
  data,          \* number of the fill each buffer holds
  filled,        \* fills since START
  got,           \* last fill the application gave back
  failed         \* buffers whose status was not OKAY

hwVars   == <<cmds, rx, isr, ier, started>>
irqVars  == <<ipc, nbuf>>
bufVars  == <<bready, received_buf, exp_buf>>
drvVars  == <<is_started, irq_set>>
appVars  == <<phase, call, i>>
histVars == <<data, filled, got, failed>>
vars == <<hwVars, irqVars, bufVars, drvVars, appVars, histVars>>

\* The driver is loaded: the device is closed, and whatever the core does
\* before the first RESET is of no effect.
Init ==
  /\ cmds = <<>> /\ rx = <<>> /\ isr = FALSE /\ ier = FALSE
  /\ started = FALSE
  /\ ipc = "idle" /\ nbuf = 0
  /\ bready = [b \in Bufs |-> 0] /\ received_buf = 0 /\ exp_buf = 0
  /\ is_started = FALSE /\ irq_set = FALSE
  /\ phase = "closed" /\ call = "none" /\ i = 0
  /\ data = [b \in Bufs |-> 0] /\ filled = 0 /\ got = 0 /\ failed = {}

-----------------------------------------------------------------------------
\* The DataMover has executed its first command (external).
Fill(ok) ==
  /\ started /\ cmds # <<>>
  /\ filled < MaxFills
  /\ cmds' = Tail(cmds)
  /\ rx' = Append(rx, [tag |-> Head(cmds), ok |-> ok])
  /\ isr' = TRUE
  /\ filled' = filled + 1
  /\ data' = [data EXCEPT ![Head(cmds)] = filled + 1]
  /\ failed' = IF ok THEN failed ELSE failed \union {Head(cmds)}
  /\ UNCHANGED <<ier, started, irqVars, bufVars, drvVars, appVars, got>>

\* tst1_irq finds its bit set and clears it.  The line is shared, so it may be
\* called while AF_IER is 0 too; with the bit clear it returns IRQ_NONE.
IrqEnter ==
  /\ irq_set
  /\ ipc = "idle"
  /\ isr
  /\ isr' = FALSE
  /\ ipc' = "loop"
  /\ UNCHANGED <<cmds, rx, ier, started, nbuf, bufVars, drvVars, appVars,
                 histVars>>

\* A status word is read.  One without OKAY ends the loop.
IrqPop ==
  /\ ipc = "loop"
  /\ rx # <<>>
  /\ rx' = Tail(rx)
  /\ IF Head(rx).ok
     THEN ipc' = "mark" /\ nbuf' = Head(rx).tag
     ELSE ipc' = "wake" /\ UNCHANGED nbuf
  /\ UNCHANGED <<cmds, isr, ier, started, bufVars, drvVars, appVars, histVars>>

\* The buffer, expected or not, is marked ready.
IrqMark ==
  /\ ipc = "mark"
  /\ bready' = [bready EXCEPT ![nbuf] = 1]
  /\ exp_buf' = (exp_buf + 1) % BUF_NUM
  /\ ipc' = "loop"
  /\ UNCHANGED <<hwVars, nbuf, received_buf, drvVars, appVars, histVars>>

IrqEmpty ==
  /\ ipc = "loop"
  /\ rx = <<>>
  /\ ipc' = "wake"
  /\ UNCHANGED <<hwVars, nbuf, bufVars, drvVars, appVars, histVars>>

\* Mutant: the interrupts are cleared once more at the end.
IrqWakeClears ==
  /\ ipc = "wake"
  /\ isr' = FALSE
  /\ ipc' = "idle"
  /\ UNCHANGED <<cmds, rx, ier, started, nbuf, bufVars, drvVars, appVars,
                 histVars>>

\* wake_up_interruptible and the return; a sleeper tests its condition again.
IrqWake ==
  /\ ipc = "wake"
  /\ ipc' = "idle"
  /\ UNCHANGED <<hwVars, nbuf, bufVars, drvVars, appVars, histVars>>

-----------------------------------------------------------------------------
\* transfer_buf: the three words of the command, sent by the write to AF_TLR.
transfer_buf(b) == cmds' = Append(cmds, b)

\* tst1_open succeeds also when request_irq failed.
Open(ok) ==
  /\ phase = "closed"
  /\ phase' = "open"
  /\ irq_set' = ok
  /\ UNCHANGED <<hwVars, irqVars, bufVars, is_started, call, i, histVars>>

\* tst1_release stops the acquisition ...
Release ==
  /\ phase # "closed" /\ call = "none"
  /\ ier' = IF is_started THEN FALSE ELSE ier
  /\ is_started' = FALSE
  /\ call' = "free_irq"
  /\ UNCHANGED <<cmds, rx, isr, started, irqVars, bufVars, irq_set, phase, i,
                 histVars>>

\* ... and frees the interrupt: free_irq waits for a running handler.
FreeIrq ==
  /\ call = "free_irq"
  /\ irq_set => ipc = "idle"
  /\ irq_set' = FALSE
  /\ phase' = "closed" /\ call' = "none"
  /\ UNCHANGED <<hwVars, irqVars, bufVars, is_started, i, histVars>>

\* ADM_RESET: DataMover and source are reset, the source is not started ...
Reset ==
  /\ phase # "closed" /\ call = "none"
  /\ started' = FALSE
  /\ call' = "reset"
  /\ UNCHANGED <<cmds, rx, isr, ier, irqVars, bufVars, drvVars, phase, i,
                 histVars>>

\* ... and after 200 ms, when no handler is still at work, the FIFOs.
ResetFifo ==
  /\ call = "reset"
  /\ ipc = "idle"
  /\ cmds' = <<>> /\ rx' = <<>>
  /\ phase' = "clean" /\ call' = "none"
  /\ UNCHANGED <<isr, ier, started, irqVars, bufVars, drvVars, i, histVars>>

\* Mutant: the application's position in the ring survives a restart.
StartKeepsPosition ==
  /\ phase = "clean" /\ call = "none"
  /\ ~is_started
  /\ exp_buf' = 0
  /\ bready' = [b \in Bufs |-> 0]
  /\ i' = 0
  /\ phase' = "running" /\ call' = "start"
  /\ data' = [b \in Bufs |-> 0] /\ filled' = 0 /\ got' = 0 /\ failed' = {}
  /\ UNCHANGED <<hwVars, irqVars, received_buf, drvVars>>

\* ADM_START up to the commands; -EINVAL (no effect) after a RESET without STOP.
Start ==
  /\ phase = "clean" /\ call = "none"
  /\ ~is_started
  /\ exp_buf' = 0 /\ received_buf' = 0
  /\ bready' = [b \in Bufs |-> 0]
  /\ i' = 0
  /\ phase' = "running" /\ call' = "start"
  /\ data' = [b \in Bufs |-> 0] /\ filled' = 0 /\ got' = 0 /\ failed' = {}
  /\ UNCHANGED <<hwVars, irqVars, drvVars>>

StartPush ==
  /\ call = "start"
  /\ i < BUF_NUM
  /\ transfer_buf(i)
  /\ i' = i + 1
  /\ UNCHANGED <<rx, isr, ier, started, irqVars, bufVars, drvVars, phase, call,
                 histVars>>

\* The interrupt is enabled, then the source started.
StartEnable ==
  /\ call = "start"
  /\ i = BUF_NUM
  /\ ier' = TRUE /\ started' = TRUE
  /\ is_started' = TRUE
  /\ call' = "none"
  /\ UNCHANGED <<cmds, rx, isr, irqVars, bufVars, irq_set, phase, i, histVars>>

\* ADM_STOP: the interrupt is disabled; source and commands stay.
Stop ==
  /\ phase # "closed" /\ call = "none"
  /\ ier' = FALSE
  /\ is_started' = FALSE
  /\ phase' = IF phase = "running" THEN "stopped" ELSE phase
  /\ UNCHANGED <<cmds, rx, isr, started, irqVars, bufVars, irq_set, call, i,
                 histVars>>

-----------------------------------------------------------------------------
\* ADM_GET
Get ==
  /\ phase \in {"running", "stopped"} /\ call = "none"
  /\ call' = "get"
  /\ UNCHANGED <<hwVars, irqVars, bufVars, drvVars, phase, i, histVars>>

\* It returns received_buf and the length; the application may read the buffer
\* until it confirms it.
GetDone ==
  /\ call = "get"
  /\ bready[received_buf] > 0
  /\ call' = "none"
  /\ UNCHANGED <<hwVars, irqVars, bufVars, drvVars, phase, i, histVars>>

GetInterrupted ==
  /\ call = "get"
  /\ bready[received_buf] = 0
  /\ call' = "none"
  /\ UNCHANGED <<hwVars, irqVars, bufVars, drvVars, phase, i, histVars>>

\* Mutant: the buffer is requested again while it is still marked ready.
ConfirmKeepsReady ==
  /\ phase \in {"running", "stopped"} /\ call = "none"
  /\ bready[received_buf] # 0
  /\ got' = data[received_buf]
  /\ call' = "push"
  /\ UNCHANGED <<hwVars, irqVars, bufVars, drvVars, phase, i, data, filled,
                 failed>>

\* ADM_CONFIRM, refused with -EINVAL (no effect) if the buffer is not ready.
Confirm ==
  /\ phase \in {"running", "stopped"} /\ call = "none"
  /\ bready[received_buf] # 0
  /\ bready' = [bready EXCEPT ![received_buf] = 0]
  /\ got' = data[received_buf]
  /\ call' = "push"
  /\ UNCHANGED <<hwVars, irqVars, received_buf, exp_buf, drvVars, phase, i,
                 data, filled, failed>>

ConfirmPush ==
  /\ call = "push"
  /\ transfer_buf(received_buf)
  /\ call' = "advance"
  /\ UNCHANGED <<rx, isr, ier, started, irqVars, bufVars, drvVars, phase, i,
                 histVars>>

ConfirmAdvance ==
  /\ call = "advance"
  /\ received_buf' = (received_buf + 1) % BUF_NUM
  /\ call' = "none"
  /\ UNCHANGED <<hwVars, irqVars, bready, exp_buf, drvVars, phase, i, histVars>>

-----------------------------------------------------------------------------
IrqStep == IrqPop \/ IrqMark \/ IrqEmpty \/ IrqWake

Next ==
  \/ \E ok \in BOOLEAN : Fill(ok) \/ Open(ok)
  \/ IrqEnter \/ IrqStep
  \/ Release \/ FreeIrq \/ Reset \/ ResetFifo
  \/ Start \/ StartPush \/ StartEnable \/ Stop
  \/ Get \/ GetDone \/ GetInterrupted
  \/ Confirm \/ ConfirmPush \/ ConfirmAdvance

Spec == Init /\ [][Next]_vars

\* A pending enabled interrupt is served, a handler runs to its end, and a
\* process whose condition holds is run.  Core, application and signals are
\* free to do nothing.
LiveSpec ==
  /\ Spec
  /\ WF_vars(ier /\ IrqEnter)
  /\ WF_vars(IrqStep)
  /\ WF_vars(GetDone)

-----------------------------------------------------------------------------
Count(P) == IF P THEN 1 ELSE 0

Occurrences(b) ==
  Cardinality({k \in DOMAIN cmds : cmds[k] = b})
    + Cardinality({k \in DOMAIN rx : rx[k].tag = b /\ rx[k].ok})

\* From START on, every buffer is in exactly one place: requested from the
\* DataMover, reported in the status FIFO, in the hands of tst1_irq, marked
\* ready, or on its way through START or CONFIRM; only one whose status was not
\* OKAY has none.  So no buffer the application was given by GET is written
\* before it is confirmed, and none is forgotten, whatever the interleaving of
\* handler and ioctls, across STOP, RESET, START and close.
BufferAccounted ==
  phase \in {"running", "stopped"} =>
    \A b \in Bufs :
      Occurrences(b)
        + Count(ipc = "mark" /\ nbuf = b)
        + Count(bready[b] # 0)
        + Count(call = "push" /\ b = received_buf)
        + Count(call = "start" /\ b >= i)
        + Count(b \in failed)
      = 1

\* The application sees the fills in the order of the data stream and none
\* twice: a ready buffer at received_buf holds the fill after the last one it
\* gave back.  Until a status is not OKAY tst1_irq only meets the buffer it
\* expects.
DeliveredInOrder ==
  phase \in {"running", "stopped"} =>
    /\ call # "advance" /\ bready[received_buf] # 0
         => data[received_buf] = got + 1
    /\ ipc = "mark" /\ failed = {} => nbuf = exp_buf

\* An application waiting in GET for a running acquisition is given the next
\* buffer once the DataMover has filled it, as long as the handler could be
\* registered and no status was not OKAY.
GetReturns ==
  (/\ call = "get" /\ phase = "running" /\ irq_set
   /\ filled > got /\ failed = {}) ~> (call # "get" \/ failed # {})

=============================================================================
