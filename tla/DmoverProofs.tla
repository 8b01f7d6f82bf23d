---------------------------- MODULE DmoverProofs ----------------------------
(***************************************************************************)
(* No buffer of the v1 driver is lost or in two places, and the buffers    *)
(* are delivered in the order they were filled, for any number of buffers. *)
(*                                                                         *)
(* The argument is about fill numbers.  Counting from 0, the DataMover's   *)
(* fill x goes to buffer Slot(x), also after a status that is not OKAY:    *)
(* the application never passes such a buffer, so the ring does not wrap   *)
(* beyond it.  The fills got, .. , got + BUF_NUM - 1 are the window of the *)
(* ring; where in the window a fill lies says where its buffer is.         *)
(***************************************************************************)
EXTENDS Dmover, FiniteSetTheorems, TLAPS

Slot(x) == x % BUF_NUM

Active == phase \in {"running", "stopped"}

\* commands pushed since START
Pushed == IF call = "start" THEN i
          ELSE IF call = "push" THEN BUF_NUM + got - 1 ELSE BUF_NUM + got

\* status words taken from the FIFO since START
Popped == filled - Len(rx)

Window == got .. got + BUF_NUM - 1

Status == [tag : Bufs, ok : BOOLEAN]

\* Types of the variables the argument is about.
TypeInv ==
  /\ cmds \in Seq(Bufs) /\ rx \in Seq(Status)
  /\ ipc \in {"idle", "loop", "mark", "wake"} /\ nbuf \in Bufs
  /\ bready \in [Bufs -> Nat] /\ received_buf \in Bufs /\ exp_buf \in Bufs
  /\ phase \in {"closed", "open", "clean", "running", "stopped"}
  /\ call \in {"none", "free_irq", "reset", "start", "get", "push", "advance"}
  /\ i \in 0 .. BUF_NUM
  /\ data \in [Bufs -> Nat] /\ filled \in Nat /\ got \in Nat
  /\ failed \subseteq Bufs

\* Between RESET and START nothing is under way, and only START .. STOP is
\* interrupted by the calls that need it.
CallInv ==
  /\ call \in {"start", "get", "push", "advance"} => Active
  /\ phase = "closed" => call = "none"
  /\ call = "reset" => ~started
  /\ phase = "clean" =>
       cmds = <<>> /\ rx = <<>> /\ ~started /\ ipc # "mark"
  /\ call = "start" => ~started /\ filled = 0 /\ got = 0

\* The fills from the last one given back to the last command, in order.
QueueInv ==
  Active =>
    /\ got <= Popped /\ filled <= Pushed
    /\ call \in {"push", "advance"} => got > 0
    /\ Len(cmds) = Pushed - filled
    /\ \A k \in 1 .. Len(cmds) : cmds[k] = Slot(filled + k - 1)
    /\ \A k \in 1 .. Len(rx) :
         /\ rx[k].tag = Slot(Popped + k - 1)
         /\ rx[k].ok <=> rx[k].tag \notin failed
    /\ ipc = "mark" => got < Popped /\ nbuf = Slot(Popped - 1)
                         /\ nbuf \notin failed

\* What the driver knows of the fills in the window.
WindowInv ==
  Active =>
    /\ \A x \in Window :
         /\ bready[Slot(x)] # 0 <=> /\ x < Popped /\ Slot(x) \notin failed
                                    /\ ~(ipc = "mark" /\ x = Popped - 1)
         /\ Slot(x) \in failed => x < filled
         /\ x < filled => data[Slot(x)] = x + 1
    /\ received_buf = IF call \in {"push", "advance"}
                      THEN Slot(got + BUF_NUM - 1) ELSE Slot(got)
    /\ failed = {} => exp_buf = Slot(IF ipc = "mark" THEN Popped - 1 ELSE Popped)

-----------------------------------------------------------------------------
(***************************************************************************)
(* Positions in the ring.                                                  *)
(***************************************************************************)

\* The number of buffers.
LEMMA BufNum == BUF_NUM \in Nat /\ BUF_NUM >= 1 /\ 0 \in Bufs /\ Bufs \subseteq Nat
BY BufNumAssumption DEF Bufs

\* Every fill goes to a buffer.
LEMMA SlotType == \A x \in Nat : Slot(x) \in Bufs
BY BufNumAssumption DEF Slot, Bufs

\* The first fills go to the buffers in their order.
LEMMA SlotSmall == \A b \in Bufs : Slot(b) = b
BY BufNumAssumption DEF Slot, Bufs

\* The next fill goes to the next buffer, around the ring.
LEMMA SlotNext == \A x \in Nat : Slot(x + 1) = (Slot(x) + 1) % BUF_NUM
BY BufNumAssumption DEF Slot

\* BUF_NUM fills later it is the same buffer again.
LEMMA SlotAround == \A x \in Nat : Slot(x + BUF_NUM) = Slot(x)
BY BufNumAssumption DEF Slot

\* Fills less than a ring apart go to different buffers.
LEMMA SlotInjective ==
  ASSUME NEW x \in Nat, NEW y \in Nat, x <= y, y < x + BUF_NUM, Slot(x) = Slot(y)
  PROVE  x = y
BY BufNumAssumption DEF Slot

\* Some fill of every stretch of BUF_NUM fills goes to buffer b.
LEMMA SlotOnto ==
  ASSUME NEW g \in Nat, NEW b \in Bufs
  PROVE  \E x \in g .. g + BUF_NUM - 1 : Slot(x) = b
<1> DEFINE r == Slot(g)
           d == IF b >= r THEN b - r ELSE b - r + BUF_NUM
<1>1. r \in 0 .. BUF_NUM - 1
  BY SlotType DEF Bufs
<1>2. d \in 0 .. BUF_NUM - 1
  BY <1>1, BufNum DEF Bufs
<1>3. \A n \in 0 .. BUF_NUM - 1 :
        Slot(g + n) = IF Slot(g) + n < BUF_NUM THEN Slot(g) + n
                      ELSE Slot(g) + n - BUF_NUM
  BY BufNumAssumption DEF Slot
<1>4. Slot(g + d) = IF r + d < BUF_NUM THEN r + d ELSE r + d - BUF_NUM
  BY <1>2, <1>3
<1>5. Slot(g + d) = b
  <2> HIDE DEF r
  <2> QED
    BY <1>1, <1>4, BufNum DEF Bufs
<1>6. g + d \in g .. g + BUF_NUM - 1
  BY <1>2, BufNum
<1> QED
  BY <1>5, <1>6

-----------------------------------------------------------------------------
\* Every variable keeps its type.
LEMMA TypeStep ==
  ASSUME TypeInv, CallInv, [Next]_vars
  PROVE  TypeInv'
<1> USE BufNum
<1>1. ASSUME NEW ok \in BOOLEAN, Fill(ok)
      PROVE  TypeInv'
  <2>1. Head(cmds) \in Bufs /\ Tail(cmds) \in Seq(Bufs)
    BY <1>1 DEF Fill, TypeInv
  <2>2. rx' \in Seq(Status)
    <3>1. [tag |-> Head(cmds), ok |-> ok] \in Status
      BY <2>1 DEF Status
    <3> QED
      BY <1>1, <3>1 DEF Fill, TypeInv
  <2> QED
    <3>1. cmds' \in Seq(Bufs) /\ filled' \in Nat
      BY <1>1, <2>1 DEF Fill, TypeInv
    <3>2. data' \in [Bufs -> Nat]
      BY <1>1, <2>1 DEF Fill, TypeInv
    <3>3. failed' \subseteq Bufs
      BY <1>1, <2>1 DEF Fill, TypeInv
    <3> QED
      BY <1>1, <2>2, <3>1, <3>2, <3>3 DEF Fill, TypeInv, irqVars, bufVars, appVars
<1>2. CASE IrqEnter \/ IrqEmpty \/ IrqWake
  BY <1>2 DEF IrqEnter, IrqEmpty, IrqWake, TypeInv, hwVars, irqVars, bufVars,
     drvVars, appVars, histVars
<1>3. CASE IrqPop
  <2>1. Head(rx) \in Status /\ Tail(rx) \in Seq(Status)
    BY <1>3 DEF IrqPop, TypeInv
  <2>2. Head(rx).tag \in Bufs
    BY <2>1 DEF Status
  <2> QED
    BY <1>3, <2>1, <2>2 DEF IrqPop, TypeInv, bufVars, drvVars, appVars, histVars
<1>4. CASE IrqMark
  <2>1. \A x \in Nat : (x + 1) % BUF_NUM \in Bufs
    BY BufNumAssumption DEF Bufs
  <2> QED
    BY <1>4, <2>1 DEF IrqMark, TypeInv, hwVars, drvVars, appVars, histVars
<1>5. CASE \/ (\E ok \in BOOLEAN : Open(ok)) \/ Release \/ FreeIrq \/ Reset
           \/ Stop \/ StartEnable
  BY <1>5 DEF Open, Release, FreeIrq, Reset, Stop, StartEnable, TypeInv, hwVars,
     irqVars, bufVars, drvVars, appVars, histVars
<1>6. CASE ResetFifo \/ Start
  <2>1. <<>> \in Seq(Bufs) /\ <<>> \in Seq(Status)
    OBVIOUS
  <2> QED
    <3>1. CASE ResetFifo
      BY <2>1, <3>1 DEF ResetFifo, TypeInv, irqVars, bufVars, histVars
    <3>2. CASE Start
      BY <2>1, <3>2 DEF Start, TypeInv, hwVars, irqVars
    <3> QED
      BY <1>6, <3>1, <3>2
<1>7. CASE StartPush \/ ConfirmPush
  <2>1. CASE StartPush
    <3>1. i \in Bufs /\ i + 1 \in 0 .. BUF_NUM
      BY <2>1 DEF StartPush, TypeInv, Bufs
    <3>2. cmds' \in Seq(Bufs)
      BY <2>1, <3>1 DEF StartPush, transfer_buf, TypeInv
    <3> QED
      BY <2>1, <3>1, <3>2 DEF StartPush, TypeInv, irqVars, bufVars, histVars
  <2>2. CASE ConfirmPush
    <3>1. cmds' \in Seq(Bufs)
      BY <2>2 DEF ConfirmPush, transfer_buf, TypeInv
    <3> QED
      BY <2>2, <3>1 DEF ConfirmPush, TypeInv, irqVars, bufVars, histVars
  <2> QED
    BY <1>7, <2>1, <2>2
<1>8. CASE Get \/ GetDone \/ GetInterrupted
  BY <1>8 DEF Get, GetDone, GetInterrupted, TypeInv, hwVars, irqVars, bufVars,
     drvVars, histVars
<1>9. CASE Confirm \/ ConfirmAdvance
  <2>1. (received_buf + 1) % BUF_NUM \in Bufs
    BY BufNumAssumption DEF Bufs, TypeInv
  <2> QED
    BY <1>9, <2>1 DEF Confirm, ConfirmAdvance, TypeInv, hwVars, irqVars,
       drvVars, histVars
<1>10. CASE UNCHANGED vars
  BY <1>10 DEF vars, TypeInv, hwVars, irqVars, bufVars, drvVars, appVars, histVars
<1> QED
  BY <1>1, <1>2, <1>3, <1>4, <1>5, <1>6, <1>7, <1>8, <1>9, <1>10
     DEF Next, IrqStep

\* START begins with empty queues and a source that is not started.
LEMMA CallStep ==
  ASSUME TypeInv, CallInv, [Next]_vars
  PROVE  CallInv'
<1> USE DEF CallInv, Active
<1>1. ASSUME NEW ok \in BOOLEAN, Fill(ok)
      PROVE  CallInv'
  BY <1>1 DEF Fill, irqVars, appVars
<1>2. CASE IrqEnter \/ IrqEmpty \/ IrqWake \/ IrqMark
  BY <1>2 DEF IrqEnter, IrqEmpty, IrqWake, IrqMark, hwVars, appVars, histVars
<1>3. CASE IrqPop
  BY <1>3 DEF IrqPop, appVars, histVars
<1>4. CASE \E ok \in BOOLEAN : Open(ok)
  BY <1>4 DEF Open, hwVars, irqVars, histVars
<1>11. CASE Release
  BY <1>11 DEF Release, irqVars, histVars
<1>12. CASE FreeIrq
  BY <1>12 DEF FreeIrq, hwVars, irqVars, histVars
<1>9. CASE Reset
  <2>1. /\ ~started' /\ phase # "closed" /\ call' = "reset"
        /\ UNCHANGED <<phase, cmds, rx, ipc>>
    BY <1>9 DEF Reset, irqVars
  <2> QED
    BY <2>1
<1>13. CASE ResetFifo
  <2>1. /\ cmds' = <<>> /\ rx' = <<>> /\ ipc' # "mark"
        /\ call = "reset" /\ phase' = "clean" /\ call' = "none"
        /\ UNCHANGED started
    BY <1>13 DEF ResetFifo, irqVars
  <2> QED
    BY <2>1
<1>10. CASE Stop
  BY <1>10 DEF Stop, irqVars, histVars
<1>5. CASE Start
  BY <1>5 DEF Start, hwVars, irqVars
<1>6. CASE StartPush \/ StartEnable \/ ConfirmPush \/ ConfirmAdvance \/ Confirm
  BY <1>6 DEF StartPush, StartEnable, ConfirmPush, ConfirmAdvance, Confirm,
     hwVars, irqVars, histVars
<1>7. CASE Get \/ GetDone \/ GetInterrupted
  BY <1>7 DEF Get, GetDone, GetInterrupted, hwVars, irqVars, histVars
<1>8. CASE UNCHANGED vars
  BY <1>8 DEF vars, hwVars, irqVars, appVars, histVars
<1> QED
  BY <1>1, <1>2, <1>3, <1>4, <1>5, <1>6, <1>7, <1>8, <1>9, <1>10, <1>11,
     <1>12, <1>13 DEF Next, IrqStep

-----------------------------------------------------------------------------
(***************************************************************************)
(* The ring.                                                               *)
(***************************************************************************)

\* Where the counters lie, while an acquisition is under way.
LEMMA Counters ==
  ASSUME TypeInv, CallInv, QueueInv, Active
  PROVE  /\ Pushed \in Nat /\ Popped \in Nat /\ Len(rx) \in Nat /\ Len(cmds) \in Nat
         /\ got <= Popped /\ Popped <= filled /\ filled <= Pushed
         /\ Pushed <= got + BUF_NUM
         /\ Popped + Len(rx) = filled /\ filled + Len(cmds) = Pushed
<1>1. Len(rx) \in Nat /\ Len(cmds) \in Nat
  BY DEF TypeInv
<1>2. Popped \in Int /\ got <= Popped
  BY <1>1 DEF QueueInv, TypeInv, Popped
<1>3. Pushed \in Nat /\ Pushed <= got + BUF_NUM
  BY BufNum DEF Pushed, TypeInv, CallInv, QueueInv
<1> QED
  BY <1>1, <1>2, <1>3 DEF QueueInv, TypeInv, Popped

\* In the window different fills have different buffers.
LEMMA WindowInjective ==
  ASSUME TypeInv, NEW x \in Window, NEW y \in Window, Slot(x) = Slot(y)
  PROVE  x = y
<1>1. x \in Nat /\ y \in Nat /\ x < y + BUF_NUM /\ y < x + BUF_NUM
  BY BufNum DEF TypeInv, Window
<1>2. CASE x <= y
  BY <1>1, <1>2, SlotInjective
<1>3. CASE y <= x
  BY <1>1, <1>3, SlotInjective
<1> QED
  BY <1>1, <1>2, <1>3

\* The DataMover fills the next buffer of the ring.
LEMMA FillStep ==
  ASSUME TypeInv, CallInv, QueueInv, WindowInv, NEW ok \in BOOLEAN, Fill(ok),
         Active
  PROVE  QueueInv' /\ WindowInv'
<1> USE BufNum
<1>1. /\ started /\ cmds # <<>> /\ filled' = filled + 1
      /\ cmds' = Tail(cmds)
      /\ rx' = Append(rx, [tag |-> Head(cmds), ok |-> ok])
      /\ data' = [data EXCEPT ![Head(cmds)] = filled + 1]
      /\ failed' = IF ok THEN failed ELSE failed \union {Head(cmds)}
      /\ UNCHANGED <<ipc, nbuf, bready, received_buf, exp_buf, phase, call, i, got>>
  BY DEF Fill, irqVars, bufVars, appVars
<1>2. call # "start"
  BY <1>1 DEF CallInv
<1>3. cmds \in Seq(Bufs) /\ rx \in Seq(Status) /\ filled \in Nat /\ got \in Nat
  BY DEF TypeInv
<1>4. Len(cmds) >= 1 /\ Head(cmds) = cmds[1]
  BY <1>1, <1>3
<1>5. Head(cmds) = Slot(filled)
  BY <1>3, <1>4, Counters DEF QueueInv
<1>6. filled \in Window /\ filled < Pushed
  BY <1>3, <1>4, Counters DEF Window
<1>7. Slot(filled) \notin failed
  BY <1>3, <1>6 DEF WindowInv
<1>8. Pushed' = Pushed /\ Window' = Window
  BY <1>1 DEF Pushed, Window
<1>9. /\ Len(rx') = Len(rx) + 1 /\ Len(cmds') = Len(cmds) - 1
      /\ \A k \in 1 .. Len(rx) : rx'[k] = rx[k]
      /\ rx'[Len(rx) + 1] = [tag |-> Slot(filled), ok |-> ok]
      /\ \A k \in 1 .. Len(cmds) - 1 : cmds'[k] = cmds[k + 1]
  <2>1. [tag |-> Head(cmds), ok |-> ok] \in Status
    BY <1>3, <1>4 DEF Status
  <2> QED
    BY <1>1, <1>3, <1>4, <1>5, <2>1
<1>10. Popped' = Popped
  BY <1>1, <1>3, <1>9, Counters DEF Popped
<1>11. \A x \in Window : x # filled => (Slot(x) \in failed' <=> Slot(x) \in failed)
  BY <1>1, <1>5, <1>6, WindowInjective
<1>12. Slot(filled) \in failed' <=> ~ok
  BY <1>1, <1>5, <1>7
<1>13. QueueInv'
  <2>1. \A k \in 1 .. Len(cmds') : cmds'[k] = Slot(filled' + k - 1)
    <3>1. ASSUME NEW k \in 1 .. Len(cmds) - 1
          PROVE  cmds'[k] = Slot(filled + 1 + k - 1)
      <4>1. cmds'[k] = Slot(filled + (k + 1) - 1)
        BY <1>9, <3>1, Counters DEF QueueInv
      <4>2. filled + (k + 1) - 1 = filled + 1 + k - 1
        BY <1>3
      <4> QED
        BY <4>1, <4>2
    <3> QED
      BY <1>1, <1>9, <3>1
  <2>2. ASSUME NEW k \in 1 .. Len(rx')
        PROVE  /\ rx'[k].tag = Slot(Popped + k - 1)
               /\ rx'[k].ok <=> rx'[k].tag \notin failed'
    <3>1. CASE k \in 1 .. Len(rx)
      <4>1. rx'[k].tag = Slot(Popped + k - 1) /\ (rx[k].ok <=> rx[k].tag \notin failed)
        BY <1>9, <3>1 DEF QueueInv
      <4>2. Popped + k - 1 \in Window /\ Popped + k - 1 # filled
        BY <1>3, <1>6, <3>1, Counters DEF Window
      <4> QED
        BY <1>9, <1>11, <3>1, <4>1, <4>2
    <3>2. CASE k = Len(rx) + 1
      <4>1. Popped + k - 1 = filled
        BY <1>3, <3>2, Counters
      <4> QED
        BY <1>9, <1>12, <3>2, <4>1
    <3> QED
      BY <1>9, <2>2, <3>1, <3>2, Counters
  <2>3. ipc = "mark" => nbuf \notin failed'
    <3>1. SUFFICES ASSUME ipc = "mark"
                   PROVE  nbuf \notin failed'
      OBVIOUS
    <3>2. nbuf = Slot(Popped - 1) /\ nbuf \notin failed /\ got < Popped
      BY <3>1 DEF QueueInv
    <3>3. Popped - 1 \in Window /\ Popped - 1 # filled
      BY <1>3, <1>6, <3>2, Counters DEF Window
    <3> QED
      BY <1>11, <3>2, <3>3
  <2>4. Len(cmds') = Pushed' - filled' /\ filled' <= Pushed'
    BY <1>1, <1>3, <1>6, <1>8, <1>9, Counters
  <2> QED
    BY <1>1, <1>8, <1>10, <2>1, <2>2, <2>3, <2>4 DEF QueueInv, Active
<1>14. WindowInv'
  <2>1. ASSUME NEW x \in Window
        PROVE  /\ bready[Slot(x)] # 0 <=> /\ x < Popped /\ Slot(x) \notin failed'
                                          /\ ~(ipc = "mark" /\ x = Popped - 1)
               /\ Slot(x) \in failed' => x < filled + 1
               /\ x < filled + 1 => data'[Slot(x)] = x + 1
    <3>0. x \in Nat
      BY <1>3 DEF Window
    <3>1. CASE x = filled
      <4>1. ~(x < Popped)
        BY <1>3, <3>1, Counters
      <4>2. bready[Slot(x)] = 0
        BY <4>1 DEF WindowInv
      <4>3. Slot(filled) \in Bufs
        BY <1>3, SlotType
      <4>4. data'[Slot(x)] = x + 1
        BY <1>1, <1>5, <3>1, <4>3 DEF TypeInv
      <4> QED
        BY <3>0, <3>1, <4>1, <4>2, <4>4
    <3>2. CASE x # filled
      <4>1. Slot(x) # Slot(filled) /\ Slot(x) \in Bufs
        BY <1>6, <3>0, <3>2, WindowInjective, SlotType
      <4>2. data'[Slot(x)] = data[Slot(x)]
        BY <1>1, <1>5, <4>1 DEF TypeInv
      <4>3. Slot(x) \in failed' <=> Slot(x) \in failed
        BY <1>11, <3>2
      <4>4. x < filled + 1 <=> x < filled
        BY <1>3, <3>0, <3>2
      <4> QED
        BY <4>2, <4>3, <4>4 DEF WindowInv
    <3> QED
      BY <3>1, <3>2
  <2>2. failed' = {} => failed = {}
    BY <1>1
  <2> QED
    BY <1>1, <1>8, <1>10, <2>1, <2>2 DEF WindowInv, Active
<1> QED
  BY <1>13, <1>14

\* tst1_irq takes the oldest status word.
LEMMA PopStep ==
  ASSUME TypeInv, CallInv, QueueInv, WindowInv, IrqPop, Active
  PROVE  QueueInv' /\ WindowInv'
<1> USE BufNum
<1>1. /\ ipc = "loop" /\ rx # <<>> /\ rx' = Tail(rx)
      /\ ipc' = IF Head(rx).ok THEN "mark" ELSE "wake"
      /\ Head(rx).ok => nbuf' = Head(rx).tag
      /\ UNCHANGED <<cmds, bready, received_buf, exp_buf, phase, call, i, data>>
      /\ UNCHANGED <<filled, got, failed>>
  BY DEF IrqPop, bufVars, appVars, histVars
<1>2. rx \in Seq(Status) /\ filled \in Nat /\ got \in Nat
  BY DEF TypeInv
<1>3. /\ Len(rx) >= 1 /\ Head(rx) = rx[1] /\ Len(rx') = Len(rx) - 1
      /\ \A k \in 1 .. Len(rx) - 1 : rx'[k] = rx[k + 1]
  BY <1>1, <1>2
<1>4. Pushed' = Pushed /\ Window' = Window /\ Popped' = Popped + 1
  BY <1>1, <1>2, <1>3, Counters DEF Pushed, Window, Popped
<1>5. Head(rx).tag = Slot(Popped) /\ (Head(rx).ok <=> Slot(Popped) \notin failed)
  <2>1. Popped + 1 - 1 = Popped
    BY <1>2, Counters
  <2> QED
    BY <1>3, <2>1, Counters DEF QueueInv
<1>6. Popped + 1 - 1 = Popped /\ Popped < filled /\ Popped \in Window
  BY <1>2, <1>3, Counters DEF Window
<1>7. QueueInv'
  <2>1. ASSUME NEW k \in 1 .. Len(rx')
        PROVE  /\ rx'[k].tag = Slot(Popped + 1 + k - 1)
               /\ rx'[k].ok <=> rx'[k].tag \notin failed
    <3>1. k + 1 \in 1 .. Len(rx) /\ rx'[k] = rx[k + 1]
      BY <1>3, <2>1, Counters
    <3>2. Popped + (k + 1) - 1 = Popped + 1 + k - 1
      BY <1>2, Counters
    <3> QED
      BY <3>1, <3>2 DEF QueueInv
  <2>2. ipc' = "mark" => /\ got < Popped' /\ nbuf' = Slot(Popped' - 1)
                         /\ nbuf' \notin failed
    BY <1>1, <1>2, <1>4, <1>5, <1>6, Counters
  <2>3. got <= Popped'
    BY <1>2, <1>4, Counters
  <2> QED
    BY <1>1, <1>4, <2>1, <2>2, <2>3 DEF QueueInv, Active
<1>8. WindowInv'
  <2>1. ASSUME NEW x \in Window
        PROVE  bready[Slot(x)] # 0 <=> /\ x < Popped + 1 /\ Slot(x) \notin failed
                                       /\ ~(ipc' = "mark" /\ x = Popped)
    <3>1. bready[Slot(x)] # 0 <=> x < Popped /\ Slot(x) \notin failed
      BY <1>1 DEF WindowInv
    <3>2. x \in Int /\ (x < Popped + 1 <=> x < Popped \/ x = Popped)
      BY <1>2, Counters DEF Window
    <3>3. CASE x = Popped
      BY <1>1, <1>5, <3>1, <3>2, <3>3, Counters
    <3>4. CASE x # Popped
      BY <3>1, <3>2, <3>4
    <3> QED
      BY <3>3, <3>4
  <2>2. failed = {} => ipc' = "mark" /\ exp_buf = Slot(Popped)
    BY <1>1, <1>5 DEF WindowInv
  <2>3. Popped' - 1 = Popped
    BY <1>4, <1>6, Counters
  <2>4. failed' = {} => exp_buf' = Slot(IF ipc' = "mark" THEN Popped' - 1 ELSE Popped')
    BY <1>1, <2>2, <2>3
  <2>5. \A x \in Window' :
          bready'[Slot(x)] # 0 <=> /\ x < Popped' /\ Slot(x) \notin failed'
                                   /\ ~(ipc' = "mark" /\ x = Popped' - 1)
    BY <1>1, <1>4, <2>1, <2>3
  <2> QED
    BY <1>1, <1>4, <2>4, <2>5 DEF WindowInv, Active
<1> QED
  BY <1>7, <1>8

\* It marks the buffer ready.
LEMMA MarkStep ==
  ASSUME TypeInv, CallInv, QueueInv, WindowInv, IrqMark, Active
  PROVE  QueueInv' /\ WindowInv'
<1> USE BufNum
<1>1. /\ ipc = "mark" /\ ipc' = "loop" /\ bready' = [bready EXCEPT ![nbuf] = 1]
      /\ exp_buf' = (exp_buf + 1) % BUF_NUM
      /\ UNCHANGED <<cmds, rx, nbuf, received_buf, phase, call, i, data, filled>>
      /\ UNCHANGED <<got, failed>>
  BY DEF IrqMark, hwVars, appVars, histVars
<1>2. Pushed' = Pushed /\ Window' = Window /\ Popped' = Popped
  BY <1>1 DEF Pushed, Window, Popped
<1>3. QueueInv'
  BY <1>1, <1>2 DEF QueueInv, Active
<1>4. nbuf = Slot(Popped - 1) /\ nbuf \notin failed /\ got < Popped
  BY <1>1 DEF QueueInv
<1>5. Popped - 1 \in Window /\ Popped - 1 \in Nat /\ got \in Nat
  <2>1. got \in Nat /\ filled \in Nat
    BY DEF TypeInv
  <2>2. Popped \in Nat /\ Popped <= got + BUF_NUM
    BY <2>1, Counters
  <2> QED
    BY <1>4, <2>1, <2>2 DEF Window
<1>6. ASSUME NEW x \in Window
      PROVE  bready'[Slot(x)] # 0 <=> x < Popped /\ Slot(x) \notin failed
  <2>0. x \in Nat /\ Slot(x) \in Bufs
    BY <1>5, SlotType DEF Window
  <2>1. CASE x = Popped - 1
    <3>1. bready'[Slot(x)] = 1
      BY <1>1, <1>4, <2>0, <2>1 DEF TypeInv
    <3>2. x < Popped
      BY <2>1, Counters
    <3> QED
      BY <1>4, <2>1, <3>1, <3>2
  <2>2. CASE x # Popped - 1
    <3>1. Slot(x) # nbuf
      BY <1>4, <1>5, <2>2, WindowInjective
    <3>2. bready'[Slot(x)] = bready[Slot(x)]
      BY <1>1, <2>0, <3>1 DEF TypeInv
    <3> QED
      BY <2>2, <3>2 DEF WindowInv
  <2> QED
    BY <2>1, <2>2
<1>7. failed = {} => exp_buf' = Slot(Popped)
  <2>1. Slot(Popped - 1 + 1) = (Slot(Popped - 1) + 1) % BUF_NUM
    BY <1>5, SlotNext
  <2>2. Popped - 1 + 1 = Popped
    BY Counters
  <2> QED
    BY <1>1, <2>1, <2>2 DEF WindowInv
<1>8. WindowInv'
  BY <1>1, <1>2, <1>6, <1>7 DEF WindowInv, Active
<1> QED
  BY <1>3, <1>8

\* START begins an acquisition with all buffers still to be requested.
LEMMA StartStep ==
  ASSUME TypeInv, CallInv, Start
  PROVE  QueueInv' /\ WindowInv'
<1> USE BufNum
<1>1. /\ phase = "clean" /\ call' = "start" /\ exp_buf' = 0 /\ received_buf' = 0
      /\ bready' = [b \in Bufs |-> 0] /\ i' = 0
      /\ data' = [b \in Bufs |-> 0] /\ filled' = 0 /\ got' = 0 /\ failed' = {}
      /\ UNCHANGED <<cmds, rx, ipc>>
  BY DEF Start, hwVars, irqVars
<1>2. cmds' = <<>> /\ rx' = <<>> /\ ipc' # "mark"
  BY <1>1 DEF CallInv
<1>3. Len(cmds') = 0 /\ Len(rx') = 0
  BY <1>2
<1>4. Popped' = 0 /\ Pushed' = 0 /\ Window' = 0 .. BUF_NUM - 1
  BY <1>1, <1>3 DEF Popped, Pushed, Window
<1>5. Slot(0) = 0 /\ \A x \in Window' : Slot(x) \in Bufs
  BY <1>4, SlotSmall, SlotType DEF Bufs
<1>6. QueueInv'
  BY <1>1, <1>2, <1>3, <1>4 DEF QueueInv
<1>7. \A x \in Window' : bready'[Slot(x)] = 0 /\ ~(x < 0)
  BY <1>1, <1>4, <1>5
<1> QED
  BY <1>1, <1>2, <1>4, <1>5, <1>6, <1>7 DEF WindowInv

\* ADM_START requests buffer i.
LEMMA StartPushStep ==
  ASSUME TypeInv, CallInv, QueueInv, WindowInv, StartPush, Active
  PROVE  QueueInv' /\ WindowInv'
<1> USE BufNum
<1>1. /\ call = "start" /\ i < BUF_NUM /\ cmds' = Append(cmds, i) /\ i' = i + 1
      /\ UNCHANGED <<rx, ipc, nbuf, bready, received_buf, exp_buf, phase, call>>
      /\ UNCHANGED <<data, filled, got, failed>>
  BY DEF StartPush, transfer_buf, irqVars, bufVars, histVars
<1>2. filled = 0 /\ got = 0 /\ i \in Bufs /\ cmds \in Seq(Bufs)
  BY <1>1 DEF CallInv, TypeInv, Bufs
<1>3. Pushed = i /\ Pushed' = i + 1 /\ Window' = Window /\ Popped' = Popped
  BY <1>1 DEF Pushed, Window, Popped
<1>4. /\ Len(cmds) = i /\ Len(cmds') = i + 1 /\ cmds'[i + 1] = i
      /\ \A k \in 1 .. i : cmds'[k] = cmds[k]
  BY <1>1, <1>2, <1>3, Counters
<1>5. ASSUME NEW k \in 1 .. i + 1
      PROVE  cmds'[k] = Slot(filled + k - 1)
  <2>1. CASE k \in 1 .. i
    BY <1>4, <2>1 DEF QueueInv
  <2>2. CASE k = i + 1
    <3>1. filled + k - 1 = i
      BY <1>2, <2>2 DEF Bufs
    <3> QED
      BY <1>2, <1>4, <2>2, <3>1, SlotSmall
  <2> QED
    BY <1>2, <1>5, <2>1, <2>2 DEF Bufs
<1>6. QueueInv'
  BY <1>1, <1>2, <1>3, <1>4, <1>5 DEF QueueInv, Active, Bufs
<1>7. WindowInv'
  BY <1>1, <1>3 DEF WindowInv, Active
<1> QED
  BY <1>6, <1>7

\* ADM_CONFIRM takes the oldest fill back, ...
LEMMA ConfirmStep ==
  ASSUME TypeInv, CallInv, QueueInv, WindowInv, Confirm
  PROVE  QueueInv' /\ WindowInv'
<1> USE BufNum
<1>1. /\ Active /\ call = "none" /\ bready[received_buf] # 0
      /\ bready' = [bready EXCEPT ![received_buf] = 0]
      /\ got' = data[received_buf] /\ call' = "push"
      /\ UNCHANGED <<cmds, rx, ipc, nbuf, received_buf, exp_buf, phase, i, data>>
      /\ UNCHANGED <<filled, failed>>
  BY DEF Confirm, Active, hwVars, irqVars
<1>2. received_buf = Slot(got) /\ got \in Nat /\ filled \in Nat /\ got \in Window
  BY <1>1 DEF WindowInv, TypeInv, Window
<1>3. /\ got < Popped /\ Slot(got) \notin failed
      /\ ~(ipc = "mark" /\ got = Popped - 1)
  BY <1>1, <1>2 DEF WindowInv
<1>4. got' = got + 1
  BY <1>1, <1>2, <1>3, Counters DEF WindowInv
<1>5. Pushed' = Pushed /\ Popped' = Popped
  BY <1>1, <1>2, <1>4 DEF Pushed, Popped
<1>6. QueueInv'
  <2>1. got' <= Popped /\ got' > 0 /\ (ipc = "mark" => got' < Popped)
    BY <1>1, <1>2, <1>3, <1>4, Counters
  <2> QED
    BY <1>1, <1>5, <2>1 DEF QueueInv, Active
<1>7. Slot(got + BUF_NUM) = Slot(got) /\ Slot(got) \in Bufs
  BY <1>2, SlotAround, SlotType
<1>8. ASSUME NEW x \in Window'
      PROVE  /\ bready'[Slot(x)] # 0 <=> /\ x < Popped /\ Slot(x) \notin failed
                                         /\ ~(ipc = "mark" /\ x = Popped - 1)
             /\ Slot(x) \in failed => x < filled
             /\ x < filled => data[Slot(x)] = x + 1
  <2>1. CASE x = got + BUF_NUM
    <3>1. ~(x < Popped) /\ ~(x < filled)
      BY <1>1, <1>2, <2>1, Counters
    <3> QED
      BY <1>1, <1>2, <1>3, <1>7, <2>1, <3>1 DEF TypeInv
  <2>2. CASE x \in Window /\ x # got
    <3>1. Slot(x) # Slot(got)
      BY <1>2, <2>2, WindowInjective
    <3>2. bready'[Slot(x)] = bready[Slot(x)]
      BY <1>1, <1>2, <3>1 DEF TypeInv
    <3> QED
      BY <2>2, <3>2, <1>1 DEF WindowInv
  <2>3. x = got + BUF_NUM \/ (x \in Window /\ x # got)
    BY <1>2, <1>4, <1>8 DEF Window
  <2> QED
    BY <2>1, <2>2, <2>3
<1>9. received_buf' = Slot(got' + BUF_NUM - 1)
  <2>1. got' + BUF_NUM - 1 = got + BUF_NUM
    BY <1>2, <1>4
  <2> QED
    BY <1>1, <1>2, <1>7, <2>1
<1>10. WindowInv'
  BY <1>1, <1>5, <1>8, <1>9 DEF WindowInv, Active
<1> QED
  BY <1>6, <1>10

\* ... requests its buffer again, ...
LEMMA ConfirmPushStep ==
  ASSUME TypeInv, CallInv, QueueInv, WindowInv, ConfirmPush
  PROVE  QueueInv' /\ WindowInv'
<1> USE BufNum
<1>1. /\ call = "push" /\ call' = "advance" /\ cmds' = Append(cmds, received_buf)
      /\ UNCHANGED <<rx, ipc, nbuf, bready, received_buf, exp_buf, phase, i, data>>
      /\ UNCHANGED <<filled, got, failed>>
  BY DEF ConfirmPush, transfer_buf, irqVars, bufVars, histVars
<1>2. Active
  BY <1>1 DEF CallInv
<1>3. /\ received_buf = Slot(got + BUF_NUM - 1) /\ received_buf \in Bufs
      /\ cmds \in Seq(Bufs) /\ got \in Nat /\ filled \in Nat /\ got > 0
  BY <1>1, <1>2 DEF WindowInv, QueueInv, TypeInv
<1>4. /\ Pushed = BUF_NUM + got - 1 /\ Pushed' = BUF_NUM + got
      /\ Popped' = Popped /\ Window' = Window
  BY <1>1 DEF Pushed, Popped, Window
<1>5. /\ Len(cmds') = Len(cmds) + 1 /\ cmds'[Len(cmds) + 1] = received_buf
      /\ \A k \in 1 .. Len(cmds) : cmds'[k] = cmds[k]
  BY <1>1, <1>3
<1>6. ASSUME NEW k \in 1 .. Len(cmds) + 1
      PROVE  cmds'[k] = Slot(filled + k - 1)
  <2>1. CASE k \in 1 .. Len(cmds)
    BY <1>2, <1>5, <2>1 DEF QueueInv
  <2>2. CASE k = Len(cmds) + 1
    <3>1. filled + k - 1 = got + BUF_NUM - 1
      BY <1>2, <1>3, <1>4, <2>2, Counters
    <3> QED
      BY <1>3, <1>5, <2>2, <3>1
  <2> QED
    BY <1>2, <2>1, <2>2, Counters
<1>7. QueueInv'
  <2>1. Len(cmds') = Pushed' - filled /\ filled <= Pushed'
    BY <1>2, <1>3, <1>4, <1>5, Counters
  <2> QED
    BY <1>1, <1>3, <1>4, <1>5, <1>6, <2>1 DEF QueueInv, Active
<1>8. WindowInv'
  BY <1>1, <1>4 DEF WindowInv, Active
<1> QED
  BY <1>7, <1>8

\* ... and goes on to the next one.
LEMMA ConfirmAdvanceStep ==
  ASSUME TypeInv, CallInv, QueueInv, WindowInv, ConfirmAdvance
  PROVE  QueueInv' /\ WindowInv'
<1> USE BufNum
<1>1. /\ call = "advance" /\ call' = "none"
      /\ received_buf' = (received_buf + 1) % BUF_NUM
      /\ UNCHANGED <<cmds, rx, ipc, nbuf, bready, exp_buf, phase, i, data>>
      /\ UNCHANGED <<filled, got, failed>>
  BY DEF ConfirmAdvance, hwVars, irqVars, histVars
<1>2. Active
  BY <1>1 DEF CallInv
<1>3. received_buf = Slot(got + BUF_NUM - 1) /\ got \in Nat
  BY <1>1, <1>2 DEF WindowInv, TypeInv
<1>4. received_buf' = Slot(got)
  <2>1. got + BUF_NUM - 1 \in Nat /\ got + BUF_NUM - 1 + 1 = got + BUF_NUM
    BY <1>3
  <2>2. Slot(got + BUF_NUM - 1 + 1) = (Slot(got + BUF_NUM - 1) + 1) % BUF_NUM
    BY <2>1, SlotNext
  <2> QED
    BY <1>1, <1>3, <2>1, <2>2, SlotAround
<1>5. Pushed' = Pushed /\ Popped' = Popped /\ Window' = Window
  BY <1>1 DEF Pushed, Popped, Window
<1>6. QueueInv'
  BY <1>1, <1>5 DEF QueueInv, Active
<1>7. WindowInv'
  BY <1>1, <1>4, <1>5 DEF WindowInv, Active
<1> QED
  BY <1>6, <1>7

\* Steps that leave the ring as it is.
LEMMA FrameStep ==
  ASSUME QueueInv, WindowInv, Active' => Active,
         UNCHANGED <<cmds, rx, nbuf, bready, received_buf, exp_buf, data, filled>>,
         UNCHANGED <<got, failed>>,
         ipc' = "mark" <=> ipc = "mark",
         Active' => Pushed' = Pushed,
         call' \in {"push", "advance"} <=> call \in {"push", "advance"}
  PROVE  QueueInv' /\ WindowInv'
<1>1. Popped' = Popped /\ Window' = Window
  BY DEF Popped, Window
<1>2. QueueInv'
  BY <1>1 DEF QueueInv
<1>3. WindowInv'
  BY <1>1 DEF WindowInv
<1> QED
  BY <1>2, <1>3

\* Every step keeps the ring in order.
LEMMA RingStep ==
  ASSUME TypeInv, CallInv, QueueInv, WindowInv, [Next]_vars
  PROVE  QueueInv' /\ WindowInv'
<1> USE BufNum
<1>1. ASSUME NEW ok \in BOOLEAN, Fill(ok)
      PROVE  QueueInv' /\ WindowInv'
  <2>1. ~Active => ~Active'
    BY <1>1 DEF Fill, appVars, Active
  <2>2. ~Active' => QueueInv' /\ WindowInv'
    BY DEF QueueInv, WindowInv
  <2> QED
    BY <1>1, <2>1, <2>2, FillStep
<1>2. CASE IrqPop \/ IrqMark
  <2>1. ~Active => ~Active'
    BY <1>2 DEF IrqPop, IrqMark, appVars, Active
  <2>2. ~Active' => QueueInv' /\ WindowInv'
    BY DEF QueueInv, WindowInv
  <2> QED
    BY <1>2, <2>1, <2>2, PopStep, MarkStep
<1>3. CASE IrqEnter \/ IrqEmpty \/ IrqWake
  <2>1. /\ UNCHANGED <<cmds, rx, nbuf, bready, received_buf, exp_buf, data>>
        /\ UNCHANGED <<filled, got, failed, phase, call, i>>
        /\ ipc # "mark" /\ ipc' # "mark"
    BY <1>3 DEF IrqEnter, IrqEmpty, IrqWake, hwVars, bufVars, appVars, histVars
  <2>2. Pushed' = Pushed /\ (Active' <=> Active)
    BY <2>1 DEF Pushed, Active
  <2> QED
    BY <2>1, <2>2, FrameStep
<1>4. CASE \/ (\E ok \in BOOLEAN : Open(ok)) \/ FreeIrq \/ ResetFifo
  <2>1. ~Active'
    BY <1>4 DEF Open, FreeIrq, ResetFifo, Active
  <2> QED
    BY <2>1 DEF QueueInv, WindowInv
<1>5. CASE Release \/ Reset \/ Stop \/ Get \/ GetDone \/ GetInterrupted
  <2>1. /\ UNCHANGED <<cmds, rx, ipc, nbuf, bready, received_buf, exp_buf, data>>
        /\ UNCHANGED <<filled, got, failed>>
    BY <1>5 DEF Release, Reset, Stop, Get, GetDone, GetInterrupted, hwVars,
       irqVars, bufVars, histVars
  <2>2. /\ call \in {"none", "get"}
        /\ call' \in {"none", "get", "free_irq", "reset"} /\ (Active' => Active)
    BY <1>5 DEF Release, Reset, Stop, Get, GetDone, GetInterrupted, Active
  <2>3. Pushed' = Pushed
    BY <2>1, <2>2 DEF Pushed
  <2> QED
    BY <2>1, <2>2, <2>3, FrameStep
<1>6. CASE StartEnable
  <2>1. /\ UNCHANGED <<cmds, rx, ipc, nbuf, bready, received_buf, exp_buf, data>>
        /\ UNCHANGED <<filled, got, failed, phase>>
        /\ call = "start" /\ call' = "none" /\ i = BUF_NUM
    BY <1>6 DEF StartEnable, irqVars, bufVars, histVars
  <2>2. Pushed' = Pushed /\ (Active' <=> Active)
    BY <2>1 DEF Pushed, Active, CallInv
  <2> QED
    BY <2>1, <2>2, FrameStep
<1>7. CASE Start
  BY <1>7, StartStep
<1>8. CASE StartPush
  <2>1. Active
    BY <1>8 DEF StartPush, CallInv
  <2> QED
    BY <1>8, <2>1, StartPushStep
<1>9. CASE Confirm \/ ConfirmPush \/ ConfirmAdvance
  BY <1>9, ConfirmStep, ConfirmPushStep, ConfirmAdvanceStep
<1>10. CASE UNCHANGED vars
  <2>1. /\ UNCHANGED <<cmds, rx, ipc, nbuf, bready, received_buf, exp_buf, data>>
        /\ UNCHANGED <<filled, got, failed, phase, call, i>>
    BY <1>10 DEF vars, hwVars, irqVars, bufVars, appVars, histVars
  <2>2. Pushed' = Pushed /\ (Active' <=> Active)
    BY <2>1 DEF Pushed, Active
  <2> QED
    BY <2>1, <2>2, FrameStep
<1> QED
  BY <1>1, <1>2, <1>3, <1>4, <1>5, <1>6, <1>7, <1>8, <1>9, <1>10
     DEF Next, IrqStep

IInv == TypeInv /\ CallInv /\ QueueInv /\ WindowInv

\* The inductive invariant holds from the load of the driver on.
LEMMA IInvHolds == Spec => []IInv
<1>1. Init => IInv
  <2> SUFFICES ASSUME Init
               PROVE  IInv
    OBVIOUS
  <2>1. TypeInv
    BY BufNum DEF Init, TypeInv
  <2>2. CallInv /\ QueueInv /\ WindowInv
    BY DEF Init, CallInv, QueueInv, WindowInv, Active
  <2> QED
    BY <2>1, <2>2 DEF IInv
<1>2. IInv /\ [Next]_vars => IInv'
  BY TypeStep, CallStep, RingStep DEF IInv
<1> QED
  BY <1>1, <1>2, PTL DEF Spec

-----------------------------------------------------------------------------
\* How often the buffer of fill x of the window is among the commands.
LEMMA CommandCount ==
  ASSUME IInv, Active, NEW x \in Window
  PROVE  Cardinality({k \in DOMAIN cmds : cmds[k] = Slot(x)})
           = IF filled <= x /\ x < Pushed THEN 1 ELSE 0
<1> DEFINE S == {k \in DOMAIN cmds : cmds[k] = Slot(x)}
<1>0. /\ filled \in Nat /\ got \in Nat /\ x \in Nat
      /\ DOMAIN cmds = 1 .. Len(cmds)
  BY BufNum DEF IInv, TypeInv, Window
<1>1. \A k \in 1 .. Len(cmds) : cmds[k] = Slot(filled + k - 1)
                                  /\ filled + k - 1 \in Window
  BY <1>0, BufNum, Counters DEF IInv, QueueInv, Window
<1>2. \A k \in S : filled + k - 1 = x
  BY <1>0, <1>1, WindowInjective DEF IInv
<1>3. CASE filled <= x /\ x < Pushed
  <2>1. x - filled + 1 \in 1 .. Len(cmds) /\ filled + (x - filled + 1) - 1 = x
    BY <1>0, <1>3, Counters DEF IInv
  <2>2. S = {x - filled + 1}
    BY <1>0, <1>1, <1>2, <2>1, Counters DEF IInv
  <2> QED
    BY <1>3, <2>2, FS_Singleton
<1>4. CASE ~(filled <= x /\ x < Pushed)
  <2>1. S = {}
    BY <1>0, <1>2, <1>4, Counters DEF IInv
  <2> QED
    BY <1>4, <2>1, FS_EmptySet
<1> QED
  BY <1>3, <1>4

\* ... and among the status words that are OKAY.
LEMMA StatusCount ==
  ASSUME IInv, Active, NEW x \in Window
  PROVE  Cardinality({k \in DOMAIN rx : rx[k].tag = Slot(x) /\ rx[k].ok})
           = IF Popped <= x /\ x < filled /\ Slot(x) \notin failed THEN 1 ELSE 0
<1> DEFINE S == {k \in DOMAIN rx : rx[k].tag = Slot(x) /\ rx[k].ok}
<1>0. /\ filled \in Nat /\ got \in Nat /\ x \in Nat
      /\ DOMAIN rx = 1 .. Len(rx)
  BY BufNum DEF IInv, TypeInv, Window
<1>1. \A k \in 1 .. Len(rx) : /\ rx[k].tag = Slot(Popped + k - 1)
                              /\ rx[k].ok <=> rx[k].tag \notin failed
                              /\ Popped + k - 1 \in Window
  BY <1>0, BufNum, Counters DEF IInv, QueueInv, Window
<1>2. \A k \in S : Popped + k - 1 = x /\ Slot(x) \notin failed
  BY <1>0, <1>1, WindowInjective DEF IInv
<1>3. CASE Popped <= x /\ x < filled /\ Slot(x) \notin failed
  <2>1. x - Popped + 1 \in 1 .. Len(rx) /\ Popped + (x - Popped + 1) - 1 = x
    BY <1>0, <1>3, Counters DEF IInv
  <2>2. S = {x - Popped + 1}
    BY <1>0, <1>1, <1>2, <1>3, <2>1, Counters DEF IInv
  <2> QED
    BY <1>3, <2>2, FS_Singleton
<1>4. CASE ~(Popped <= x /\ x < filled /\ Slot(x) \notin failed)
  <2>1. S = {}
    BY <1>0, <1>2, <1>4, Counters DEF IInv
  <2> QED
    BY <1>4, <2>1, FS_EmptySet
<1> QED
  BY <1>3, <1>4

\* From ADM_START on every buffer is in exactly one place, for any number of
\* buffers and fills: none the application holds is written to, and none is
\* forgotten, whatever the interleaving of tst1_irq with the ioctls.
THEOREM BufferAccountedHolds == Spec => []BufferAccounted
<1>1. ASSUME IInv, Active, NEW b \in Bufs
      PROVE  Occurrences(b)
               + Count(ipc = "mark" /\ nbuf = b)
               + Count(bready[b] # 0)
               + Count(call = "push" /\ b = received_buf)
               + Count(call = "start" /\ b >= i)
               + Count(b \in failed)
             = 1
  <2>0. got \in Nat /\ filled \in Nat /\ i \in 0 .. BUF_NUM
    BY <1>1 DEF IInv, TypeInv
  <2>1. PICK x \in Window : Slot(x) = b
    BY <2>0, SlotOnto DEF Window
  <2>2. /\ Popped \in Nat /\ Pushed \in Nat /\ x \in Nat
        /\ Popped <= filled /\ filled <= Pushed /\ x < got + BUF_NUM /\ got <= x
    BY <1>1, <2>0, <2>1, Counters, BufNum DEF IInv, Window
  <2>3. Occurrences(b) = Count(filled <= x /\ x < Pushed)
                           + Count(Popped <= x /\ x < filled /\ b \notin failed)
    BY <1>1, <2>1, CommandCount, StatusCount DEF Occurrences, Count
  <2>4. ipc = "mark" /\ nbuf = b
          <=> ipc = "mark" /\ x = Popped - 1 /\ b \notin failed
    <3>1. ipc = "mark" => /\ nbuf = Slot(Popped - 1) /\ nbuf \notin failed
                          /\ Popped - 1 \in Window
      <4>1. ipc = "mark" => /\ nbuf = Slot(Popped - 1) /\ nbuf \notin failed
                            /\ got < Popped
        BY <1>1 DEF IInv, QueueInv
      <4>2. Popped <= got + BUF_NUM
        BY <1>1, <2>0, Counters, BufNum DEF IInv
      <4> QED
        BY <2>0, <2>2, <4>1, <4>2, BufNum DEF Window
    <3> QED
      BY <1>1, <2>1, <3>1, WindowInjective DEF IInv
  <2>5. bready[b] # 0 <=> /\ x < Popped /\ b \notin failed
                          /\ ~(ipc = "mark" /\ x = Popped - 1)
    BY <1>1, <2>1 DEF IInv, WindowInv
  <2>6. b \in failed => x < filled
    BY <1>1, <2>1 DEF IInv, WindowInv
  <2>7. call = "push" /\ b = received_buf <=> call = "push" /\ x >= Pushed
    <3>1. call = "push" => /\ received_buf = Slot(got + BUF_NUM - 1)
                           /\ Pushed = got + BUF_NUM - 1
                           /\ got + BUF_NUM - 1 \in Window
      BY <1>1, <2>0, BufNum DEF IInv, WindowInv, Pushed, Window
    <3>2. call = "push" /\ b = received_buf => x = got + BUF_NUM - 1
      BY <1>1, <2>1, <3>1, WindowInjective DEF IInv
    <3> QED
      BY <2>0, <2>1, <2>2, <3>1, <3>2, BufNum
  <2>8. call = "start" /\ b >= i <=> call = "start" /\ x >= Pushed
    <3>1. call = "start" => got = 0 /\ Pushed = i /\ b = x
      <4>1. call = "start" => got = 0 /\ Pushed = i
        BY <1>1 DEF IInv, CallInv, Pushed
      <4>2. got = 0 => x \in Bufs
        BY <2>1, BufNum DEF Window, Bufs
      <4> QED
        BY <2>1, <4>1, <4>2, SlotSmall
    <3> QED
      BY <3>1
  <2>9. x >= Pushed => call \in {"push", "start"}
    BY <2>0, <2>2, BufNum DEF Pushed
  <2> QED
    <3>1. CASE x < Popped
      BY <2>0, <2>2, <2>3, <2>4, <2>5, <2>7, <2>8, <3>1 DEF Count
    <3>2. CASE Popped <= x /\ x < filled
      BY <2>0, <2>2, <2>3, <2>4, <2>5, <2>7, <2>8, <3>2 DEF Count
    <3>3. CASE filled <= x /\ x < Pushed
      BY <2>0, <2>2, <2>3, <2>4, <2>5, <2>6, <2>7, <2>8, <3>3 DEF Count
    <3>4. CASE Pushed <= x
      BY <2>0, <2>2, <2>3, <2>4, <2>5, <2>6, <2>7, <2>8, <2>9, <3>4 DEF Count
    <3> QED
      BY <2>0, <2>2, <3>1, <3>2, <3>3, <3>4
<1>2. IInv => BufferAccounted
  BY <1>1 DEF BufferAccounted, Active
<1> QED
  BY <1>2, IInvHolds, PTL

\* The application is given the fills in the order of the data stream and none
\* twice, and tst1_irq meets the buffer it expects as long as every status is
\* OKAY, for any number of buffers.
THEOREM DeliveredInOrderHolds == Spec => []DeliveredInOrder
<1>1. ASSUME IInv, Active, call # "advance", bready[received_buf] # 0
      PROVE  data[received_buf] = got + 1
  <2>0. got \in Nat /\ filled \in Nat /\ got \in Window
    BY <1>1, BufNum DEF IInv, TypeInv, Window
  <2>1. CASE call = "push"
    <3>1. /\ received_buf = Slot(got + BUF_NUM - 1) /\ got + BUF_NUM - 1 \in Window
          /\ Pushed = got + BUF_NUM - 1
      BY <1>1, <2>0, <2>1, BufNum DEF IInv, WindowInv, Window, Pushed
    <3>2. got + BUF_NUM - 1 < Popped
      BY <1>1, <3>1 DEF IInv, WindowInv
    <3> QED
      BY <1>1, <2>0, <3>1, <3>2, Counters DEF IInv
  <2>2. CASE call # "push"
    <3>1. received_buf = Slot(got)
      BY <1>1, <2>2 DEF IInv, WindowInv
    <3>2. got < Popped
      BY <1>1, <2>0, <3>1 DEF IInv, WindowInv
    <3>3. got < filled
      BY <1>1, <2>0, <3>2, Counters DEF IInv
    <3> QED
      BY <1>1, <2>0, <3>1, <3>3 DEF IInv, WindowInv
  <2> QED
    BY <2>1, <2>2
<1>2. ASSUME IInv, Active, ipc = "mark", failed = {}
      PROVE  nbuf = exp_buf
  BY <1>2 DEF IInv, QueueInv, WindowInv
<1>3. IInv => DeliveredInOrder
  BY <1>1, <1>2 DEF DeliveredInOrder, Active
<1> QED
  BY <1>3, IInvHolds, PTL

=============================================================================
