-------------------------- MODULE WzCyclicProofs --------------------------
(***************************************************************************)
(* Theorems about WzCyclic for every number of buffers, prefetch depth and *)
(* bound, and every set of readers; but see GETBUF in WzCyclic: with more  *)
(* than one reader kfifo_get is taken for an atomic step, which it is not, *)
(* so that KfifoIsChained says something of the code for one reader only.  *)
(***************************************************************************)
EXTENDS WzCyclicInv, TLAPS

-----------------------------------------------------------------------------
(* Arithmetic of the descriptor ring.                                      *)

\* The number of buffers is a natural number, and at least two.
LEMMA NofbufsType == NOFBUFS \in Nat /\ NOFBUFS >= 2
  BY NofbufsAssumption

\* Descriptor indices are natural numbers, and there is a descriptor 0.
LEMMA DescIsNat == Desc \subseteq Nat /\ 0 \in Desc
  BY NofbufsType DEF Desc

\* NextDesc is the successor, and wraps from the last descriptor to the first.
LEMMA NextDescCases ==
  ASSUME NEW i \in Desc
  PROVE  /\ NextDesc(i) \in Desc
         /\ i < NOFBUFS - 1 => NextDesc(i) = i + 1
         /\ i = NOFBUFS - 1 => NextDesc(i) = 0
<1>1. CASE i < NOFBUFS - 1
  <2>1. (i + 1) % NOFBUFS = i + 1
    BY <1>1, NofbufsType DEF Desc
  <2> QED
    BY <1>1, <2>1, NofbufsType DEF Desc, NextDesc
<1>2. CASE i = NOFBUFS - 1
  <2>1. (i + 1) % NOFBUFS = 0
    BY <1>2, NofbufsType DEF Desc
  <2> QED
    BY <1>2, <2>1, NofbufsType DEF Desc, NextDesc
<1> QED
  BY <1>1, <1>2, NofbufsType DEF Desc

\* The step to the next descriptor stays inside the ring.
LEMMA NextDescType ==
  ASSUME NEW i \in Desc
  PROVE  NextDesc(i) \in Desc /\ NextDesc(i) # i
  BY NextDescCases, NofbufsType DEF Desc

\* Dist is a distance along the ring: its range and its zero.
LEMMA DistType ==
  ASSUME NEW a \in Desc, NEW b \in Desc
  PROVE  /\ Dist(a, b) \in Nat
         /\ Dist(a, b) < NOFBUFS
         /\ Dist(a, b) = 0 <=> a = b
  BY NofbufsType DEF Desc, Dist

\* From a fixed descriptor every descriptor has its own distance.
LEMMA DistInjective ==
  ASSUME NEW a \in Desc, NEW b \in Desc, NEW c \in Desc,
         Dist(a, b) = Dist(a, c)
  PROVE  b = c
  BY NofbufsType DEF Desc, Dist

\* One step further from a, unless the step arrives at a.
LEMMA DistNextEnd ==
  ASSUME NEW a \in Desc, NEW b \in Desc, NextDesc(b) # a
  PROVE  Dist(a, NextDesc(b)) = Dist(a, b) + 1
  BY NextDescCases, NofbufsType DEF Desc, Dist

\* A walk from a to c that passes b.
LEMMA DistSplit ==
  ASSUME NEW a \in Desc, NEW b \in Desc, NEW c \in Desc,
         Dist(a, b) <= Dist(a, c)
  PROVE  Dist(b, c) = Dist(a, c) - Dist(a, b)
  BY NofbufsType DEF Desc, Dist

\* Leaving a shortens the way to every other descriptor by one.
LEMMA DistNextStart ==
  ASSUME NEW a \in Desc, NEW b \in Desc, a # b
  PROVE  Dist(NextDesc(a), b) = Dist(a, b) - 1
  BY NextDescCases, NofbufsType DEF Desc, Dist

\* Stretches that grow at their end, or shrink at their start.
LEMMA InRingNextEnd ==
  ASSUME NEW a \in Desc, NEW b \in Desc, NEW i \in Desc, NextDesc(b) # a
  PROVE  InRing(i, a, NextDesc(b)) <=> InRing(i, a, b) \/ i = b
  BY DistNextEnd, DistInjective, DistType DEF InRing

\* ... at its start.
LEMMA InRingNextStart ==
  ASSUME NEW a \in Desc, NEW b \in Desc, NEW i \in Desc, a # b
  PROVE  InRing(i, NextDesc(a), b) <=> InRing(i, a, b) /\ i # a
  BY NextDescCases, NofbufsType DEF Desc, Dist, InRing

\* ... and a closed stretch at its start.
LEMMA InBlockNextStart ==
  ASSUME NEW a \in Desc, NEW b \in Desc, NEW i \in Desc, a # b
  PROVE  InBlock(i, NextDesc(a), b) <=> InBlock(i, a, b) /\ i # a
  BY NextDescCases, NofbufsType DEF Desc, Dist, InBlock

\* A stretch that is not the whole ring but one does not end before its start.
LEMMA NextDescNotStart ==
  ASSUME NEW a \in Desc, NEW b \in Desc, Dist(a, b) < NOFBUFS - 1
  PROVE  NextDesc(b) # a
  BY NextDescCases, NofbufsType DEF Desc, Dist

\* Cutting the closed stretch a .. c off the front of (a, b).
LEMMA CutFront ==
  ASSUME NEW a \in Desc, NEW b \in Desc, NEW c \in Desc, NEW i \in Desc,
         Dist(a, c) < Dist(a, b)
  PROVE  /\ InRing(i, NextDesc(c), b) <=> InRing(i, a, b) /\ ~InBlock(i, a, c)
         /\ InRing(i, NextDesc(c), b)
              => Dist(a, i) = Dist(a, c) + 1 + Dist(NextDesc(c), i)
         /\ Dist(a, b) = Dist(a, c) + 1 + Dist(NextDesc(c), b)
  BY NextDescCases, NofbufsType DEF Desc, Dist, InRing, InBlock

-----------------------------------------------------------------------------
(* Type correctness.                                                       *)

\* Types hold initially.
LEMMA TypeInit == Init => TypeOK
  BY DescIsNat DEF Init, TypeOK, Block, Magic, Wb, WbEop, Freed

\* Types: the steps of the engine.
LEMMA TypeHardware == TypeOK /\ Hardware => TypeOK'
<1> SUFFICES ASSUME TypeOK, Hardware PROVE TypeOK'
  OBVIOUS
<1> USE DEF TypeOK, Magic, Wb, WbEop, Freed, ringVars, hwVars, irqVars,
            workVars, extVars, appVars
<1>1. NextDesc(fetch_desc) \in Desc /\ NextDesc(fill_desc) \in Desc
  BY NextDescType
<1>2. CASE HwFetch
  BY <1>1, <1>2 DEF HwFetch
<1>3. CASE HwFetchBadMagic
  BY <1>3 DEF HwFetchBadMagic
<1>4. ASSUME NEW eop \in BOOLEAN, HwComplete(eop) PROVE TypeOK'
  BY <1>1, <1>4 DEF HwComplete, RaiseEvent
<1>5. CASE HwStop
  <2>1. event' \in BOOLEAN /\ msi' \in BOOLEAN /\ busy' \in BOOLEAN
    BY <1>5 DEF HwStop, RaiseEvent
  <2> QED
    BY <1>5, <2>1 DEF HwStop, RaiseEvent
<1> QED
  BY <1>2, <1>3, <1>4, <1>5 DEF Hardware

\* Types: the steps of engine_service_work.
LEMMA TypeWorker == TypeOK /\ Worker => TypeOK'
<1> SUFFICES ASSUME TypeOK, Worker PROVE TypeOK'
  OBVIOUS
<1> USE DEF TypeOK, Magic, Wb, WbEop, Freed, ringVars, hwVars, irqVars,
            workVars, extVars, appVars
<1>1. NextDesc(check_desc) \in Desc
  BY NextDescType
<1>2. CASE WorkBegin
  <2>1. status' \in BOOLEAN
    BY <1>2, Zenon DEF WorkBegin
  <2> QED
    BY <1>2, <2>1, ZenonT(30) DEF WorkBegin
<1>3. CASE ScanEnd
  BY <1>3 DEF ScanEnd
<1>4. CASE ScanReport
  <2>1. AssembledBlock \in Block
    BY DEF AssembledBlock, Block
  <2>2. kfifo' \in Seq(Block)
    BY <1>4, <2>1 DEF ScanReport
  <2>3. rpc' \in [Readers -> {"idle", "check", "asleep", "take", "garbage"}]
    BY <1>4 DEF ScanReport, WakeGetbuf
  <2> QED
    BY <1>1, <1>4, <2>2, <2>3 DEF ScanReport
<1>5. CASE ScanPostpone
  BY <1>5 DEF ScanPostpone
<1>6. CASE ScanShift
  BY <1>1, <1>6 DEF ScanShift
<1>7. CASE WorkShutdown
  BY <1>7 DEF WorkShutdown, WakeGetbuf, RestoreMask
<1>8. CASE WorkFinish
  BY <1>8 DEF WorkFinish, RestoreMask
<1> QED
  BY <1>2, <1>3, <1>4, <1>5, <1>6, <1>7, <1>8 DEF Worker

\* Types: the steps of GETBUF.
LEMMA TypeReader ==
  ASSUME TypeOK, NEW r \in Readers,
         GetbufEnter(r) \/ Getbuf(r) \/ GetbufSignal(r)
  PROVE  TypeOK'
<1> USE DEF TypeOK, ringVars, hwVars, irqVars, workVars, extVars, appVars
<1>1. CASE GetbufEnter(r)
  BY <1>1 DEF GetbufEnter
<1>2. CASE GetbufCheck(r)
  BY <1>2 DEF GetbufCheck
<1>3. CASE GetbufNotRunning(r)
  BY <1>3 DEF GetbufNotRunning
<1>4. CASE GetbufTake(r)
  <2>1. kfifo # <<>>
    BY <1>4 DEF GetbufTake
  <2>2. Head(kfifo) \in Block /\ Tail(kfifo) \in Seq(Block)
    BY <2>1
  <2>3. Head(kfifo).hi \in Nat
    BY <2>2 DEF Block
  <2> QED
    BY <1>4, <2>2, <2>3 DEF GetbufTake
<1>5. CASE GetbufTakeNothing(r)
  BY <1>5 DEF GetbufTakeNothing
<1>6. CASE GetbufSignal(r)
  BY <1>6 DEF GetbufSignal
<1> QED
  BY <1>1, <1>2, <1>3, <1>4, <1>5, <1>6 DEF Getbuf

\* Types: the steps of CONFIRM.
LEMMA TypeConfirm == TypeOK /\ Confirm => TypeOK'
<1> SUFFICES ASSUME TypeOK, Confirm PROVE TypeOK'
  OBVIOUS
<1> USE DEF TypeOK, Magic, ringVars, hwVars, irqVars, workVars, extVars, appVars
<1>1. NextDesc(conf_desc) \in Desc
  BY NextDescType
<1>2. ASSUME NEW b \in held, ConfirmEnter(b) PROVE TypeOK'
  <2>1. b.first_desc \in Desc /\ b.last_desc \in Desc
    BY DEF Block
  <2> QED
    BY <1>2, <2>1 DEF ConfirmEnter
<1>3. CASE ConfirmFields
  BY <1>3 DEF ConfirmFields
<1>4. CASE ConfirmControl
  BY <1>1, <1>4 DEF ConfirmControl
<1> QED
  BY <1>2, <1>3, <1>4 DEF Confirm

\* Types: every step.
LEMMA TypeNext == TypeOK /\ [Next]_vars => TypeOK'
<1> SUFFICES ASSUME TypeOK, [Next]_vars PROVE TypeOK'
  OBVIOUS
<1>1. CASE Start
  BY <1>1, DescIsNat DEF Start, TypeOK, Magic, irqVars, workVars
<1>2. CASE ChannelIrq
  <2>1. irq_saved' \in BOOLEAN
    BY <1>2, Zenon DEF ChannelIrq, TypeOK
  <2> QED
    BY <1>2, <2>1, ZenonT(30) DEF ChannelIrq, TypeOK, ringVars, hwVars,
                                  workVars, extVars, appVars
<1>3. CASE StopRequest
  BY <1>3 DEF StopRequest, EngineCyclicStop, TypeOK, ringVars, hwVars, irqVars,
              workVars, extVars
<1>4. CASE StopFree
  BY <1>4 DEF StopFree, TypeOK, Freed, hwVars, irqVars, workVars, extVars
<1>5. CASE UNCHANGED vars
  BY <1>5 DEF TypeOK, vars, ringVars, hwVars, irqVars, workVars, extVars, appVars
<1>6. CASE Finished
  BY <1>5, <1>6 DEF Finished
<1> QED
  BY <1>1, <1>2, <1>3, <1>4, <1>5, <1>6,
     TypeHardware, TypeWorker, TypeReader, TypeConfirm DEF Next

\* Every variable keeps its type, whether or not the application keeps up.
THEOREM TypeCorrect == Spec => []TypeOK
  BY TypeInit, TypeNext, PTL DEF Spec

-----------------------------------------------------------------------------
(* The interrupt path.                                                     *)

\* The variables IrqInv speaks of.
irqInvVars == <<irq_mask, event, msi, queued, wpc, irq_saved, running, status,
                busy, session>>

\* The interrupt invariant holds initially.
LEMMA IrqInit == Init => IrqInv
  BY DEF Init, IrqInv, EngineStopNoticed

\* It depends on irqInvVars only.
LEMMA IrqUnchanged == IrqInv /\ UNCHANGED irqInvVars => IrqInv'
  BY DEF IrqInv, EngineStopNoticed, irqInvVars

\* The engine latches events; a rising line sends a message.
LEMMA IrqHardware == TypeOK /\ IrqInv /\ Hardware => IrqInv'
<1> SUFFICES ASSUME TypeOK, IrqInv, Hardware PROVE IrqInv'
  OBVIOUS
<1> USE DEF workVars, extVars, appVars, irqVars
<1>1. CASE HwFetch
  BY <1>1, IrqUnchanged DEF HwFetch, irqInvVars
<1>2. CASE HwFetchBadMagic
  BY <1>2, IrqUnchanged DEF HwFetchBadMagic, irqInvVars
<1>3. ASSUME NEW eop \in BOOLEAN, HwComplete(eop) PROVE IrqInv'
  BY <1>3 DEF HwComplete, RaiseEvent, IrqInv, EngineStopNoticed, TypeOK
<1>4. CASE HwStop
  BY <1>4 DEF HwStop, RaiseEvent, IrqInv, EngineStopNoticed, TypeOK
<1> QED
  BY <1>1, <1>2, <1>3, <1>4 DEF Hardware

\* The worker clears events before it scans and unmasks after it.
LEMMA IrqWorker == TypeOK /\ IrqInv /\ Worker => IrqInv'
<1> SUFFICES ASSUME TypeOK, IrqInv, Worker PROVE IrqInv'
  OBVIOUS
<1> USE DEF workVars, extVars, appVars, irqVars, hwVars
<1>1. CASE WorkBegin
  BY <1>1 DEF WorkBegin, IrqInv, EngineStopNoticed, TypeOK
<1>2. CASE ScanEnd
  BY <1>2 DEF ScanEnd, IrqInv, EngineStopNoticed, TypeOK
<1>3. CASE ScanReport
  BY <1>3, IrqUnchanged DEF ScanReport, irqInvVars
<1>4. CASE ScanPostpone
  BY <1>4 DEF ScanPostpone, IrqInv, EngineStopNoticed, TypeOK
<1>5. CASE ScanShift
  BY <1>5, IrqUnchanged DEF ScanShift, irqInvVars
<1>6. CASE WorkShutdown
  BY <1>6 DEF WorkShutdown, RestoreMask, IrqInv, EngineStopNoticed, TypeOK
<1>7. CASE WorkFinish
  BY <1>7 DEF WorkFinish, RestoreMask, IrqInv, EngineStopNoticed, TypeOK
<1> QED
  BY <1>1, <1>2, <1>3, <1>4, <1>5, <1>6, <1>7 DEF Worker

\* GETBUF, CONFIRM and STOP do not disturb the interrupt path.
LEMMA IrqApplication ==
  ASSUME TypeOK, IrqInv,
         \/ \E r \in Readers : GetbufEnter(r) \/ Getbuf(r) \/ GetbufSignal(r)
         \/ Confirm
  PROVE  IrqInv'
<1> USE DEF workVars, extVars, appVars, irqVars, hwVars, irqInvVars
<1>1. ASSUME NEW r \in Readers,
             GetbufEnter(r) \/ Getbuf(r) \/ GetbufSignal(r)
      PROVE  UNCHANGED irqInvVars
  BY <1>1 DEF GetbufEnter, Getbuf, GetbufSignal, GetbufCheck,
              GetbufNotRunning, GetbufTake, GetbufTakeNothing
<1>2. ASSUME Confirm PROVE UNCHANGED irqInvVars
  BY <1>2 DEF Confirm, ConfirmEnter, ConfirmFields, ConfirmControl
<1> QED
  BY <1>1, <1>2, IrqUnchanged

\* Every step preserves the interrupt invariant.
LEMMA IrqNext == TypeOK /\ IrqInv /\ [Next]_vars => IrqInv'
<1> SUFFICES ASSUME TypeOK, IrqInv, [Next]_vars PROVE IrqInv'
  OBVIOUS
<1> USE DEF workVars, extVars, appVars, irqVars, hwVars
<1>1. CASE Start
  BY <1>1 DEF Start, IrqInv, EngineStopNoticed, TypeOK
<1>2. CASE ChannelIrq
  BY <1>2 DEF ChannelIrq, IrqInv, EngineStopNoticed, TypeOK
<1>3. CASE StopRequest
  BY <1>3 DEF StopRequest, IrqInv, EngineStopNoticed, TypeOK
<1>4. CASE StopFree
  BY <1>4 DEF StopFree, ShutdownDone, IrqInv, EngineStopNoticed, TypeOK
<1>5. CASE UNCHANGED vars
  BY <1>5, IrqUnchanged DEF vars, irqInvVars
<1>6. CASE Finished
  BY <1>5, <1>6 DEF Finished
<1> QED
  BY <1>1, <1>2, <1>3, <1>4, <1>5, <1>6,
     IrqHardware, IrqWorker, IrqApplication DEF Next

\* IrqInv is an invariant.
LEMMA IrqInvariant == Spec => [](TypeOK /\ IrqInv)
  BY TypeInit, TypeNext, IrqInit, IrqNext, PTL DEF Spec

\* No event of the engine is overlooked, whatever the application does: the
\* mask-and-unmask scheme of xdma_channel_irq and engine_service_work.
THEOREM InterruptsNotLost == Spec => []NoLostInterrupt
<1>1. TypeOK /\ IrqInv => NoLostInterrupt
  BY DEF TypeOK, IrqInv, NoLostInterrupt
<1> QED
  BY <1>1, IrqInvariant, PTL

\* An engine that stops, at a descriptor not given back in time or because of
\* STOP, is noticed, at whatever point of a service it stops.
THEOREM StoppedEngineNoticed == Spec => []EngineStopNoticed
<1>1. IrqInv => EngineStopNoticed
  BY DEF IrqInv
<1> QED
  BY <1>1, IrqInvariant, PTL

\* STOP never frees descriptors that a pending interrupt or worker scans.
THEOREM DescriptorsOutliveWorker == Spec => []NoScanAfterFree
<1>1. TypeOK /\ IrqInv => NoScanAfterFree
  BY DEF TypeOK, IrqInv, NoScanAfterFree
<1> QED
  BY <1>1, IrqInvariant, PTL

-----------------------------------------------------------------------------
(* The kfifo.                                                              *)

\* A step that leaves the kfifo and block_first_desc alone and starts nothing
\* preserves the chain.
LEMMA ChainUnchanged ==
  ASSUME ChainInv, UNCHANGED <<kfifo, block_first_desc>>,
         session' \in {"run", "stopping"} => session \in {"run", "stopping"},
         session' = "ready" => session = "ready"
  PROVE  ChainInv'
  BY DEF ChainInv, BlocksChained

\* The worker appends the block that starts where the newest one ended.
LEMMA ChainReport ==
  ASSUME TypeOK, IrqInv, ChainInv, ScanReport
  PROVE  ChainInv'
<1>1. /\ wpc = "scan" /\ kfifo' = Append(kfifo, AssembledBlock)
      /\ block_first_desc' = NextDesc(check_desc) /\ session' = session
  BY DEF ScanReport, appVars
<1>2. session \in {"run", "stopping"}
  BY <1>1 DEF IrqInv, TypeOK
<1>3. AssembledBlock.first_desc = block_first_desc /\ AssembledBlock.last_desc = check_desc
  BY DEF AssembledBlock
<1>4. kfifo \in Seq(Block) /\ Len(kfifo) \in Nat
  BY DEF TypeOK
<1>5. /\ Len(kfifo') = Len(kfifo) + 1
      /\ kfifo'[Len(kfifo) + 1] = AssembledBlock
      /\ \A k \in 1 .. Len(kfifo) : kfifo'[k] = kfifo[k]
  BY <1>1, <1>4
<1>6. ASSUME NEW k \in 1 .. Len(kfifo') - 1
      PROVE  kfifo'[k + 1].first_desc = NextDesc(kfifo'[k].last_desc)
  <2>1. CASE k = Len(kfifo)
    BY <1>2, <1>3, <1>4, <1>5, <2>1 DEF ChainInv, BlocksChained
  <2>2. CASE k # Len(kfifo)
    <3>1. k \in 1 .. Len(kfifo) - 1 /\ k \in 1 .. Len(kfifo) /\ k + 1 \in 1 .. Len(kfifo)
      BY <1>4, <1>5, <2>2
    <3> QED BY <1>5, <3>1 DEF ChainInv, BlocksChained
  <2> QED BY <2>1, <2>2
<1> QED
  BY <1>1, <1>2, <1>3, <1>5, <1>6 DEF ChainInv, BlocksChained

\* GETBUF takes the oldest block away.
LEMMA ChainTake ==
  ASSUME TypeOK, ChainInv, NEW r \in Readers, GetbufTake(r)
  PROVE  ChainInv'
<1>1. /\ kfifo' = Tail(kfifo) /\ Len(kfifo) >= 1
      /\ UNCHANGED <<block_first_desc, session>>
  BY DEF GetbufTake
<1>2. kfifo \in Seq(Block) /\ Len(kfifo) \in Nat /\ kfifo # <<>>
  BY <1>1 DEF TypeOK
<1>3. /\ Len(kfifo') = Len(kfifo) - 1
      /\ \A k \in 1 .. Len(kfifo) - 1 : kfifo'[k] = kfifo[k + 1]
  BY <1>1, <1>2
<1>4. ASSUME NEW k \in 1 .. Len(kfifo') - 1
      PROVE  kfifo'[k + 1].first_desc = NextDesc(kfifo'[k].last_desc)
  <2>1. /\ k \in 1 .. Len(kfifo) - 1 /\ k + 1 \in 1 .. Len(kfifo) - 1
    BY <1>2, <1>3
  <2> QED BY <1>3, <2>1 DEF ChainInv, BlocksChained
<1>5. Len(kfifo') > 0 => kfifo'[Len(kfifo')] = kfifo[Len(kfifo)]
  BY <1>2, <1>3
<1> QED
  BY <1>1, <1>2, <1>3, <1>4, <1>5 DEF ChainInv, BlocksChained

\* Every step preserves the chain.
LEMMA ChainNext == TypeOK /\ IrqInv /\ ChainInv /\ [Next]_vars => ChainInv'
<1> SUFFICES ASSUME TypeOK, IrqInv, ChainInv, [Next]_vars PROVE ChainInv'
  OBVIOUS
<1> USE DEF workVars, extVars, appVars
<1>1. CASE Start
  BY <1>1 DEF Start, ChainInv, BlocksChained
<1>2. CASE Hardware
  BY <1>2, ChainUnchanged DEF Hardware, HwFetch, HwFetchBadMagic, HwComplete, HwStop
<1>3. CASE ChannelIrq
  BY <1>3, ChainUnchanged DEF ChannelIrq
<1>4. CASE Worker
  BY <1>4, ChainReport, ChainUnchanged
     DEF Worker, WorkBegin, ScanEnd, ScanPostpone, ScanShift, WorkShutdown, WorkFinish
<1>5. ASSUME NEW r \in Readers, GetbufEnter(r) \/ Getbuf(r) \/ GetbufSignal(r)
      PROVE  ChainInv'
  BY <1>5, ChainTake, ChainUnchanged
     DEF GetbufEnter, Getbuf, GetbufSignal, GetbufCheck, GetbufNotRunning,
         GetbufTakeNothing
<1>6. CASE Confirm
  BY <1>6, ChainUnchanged DEF Confirm, ConfirmEnter, ConfirmFields, ConfirmControl
<1>7. CASE StopRequest \/ StopFree
  BY <1>7, ChainUnchanged DEF StopRequest, StopFree
<1>8. CASE Finished \/ UNCHANGED vars
  BY <1>8, ChainUnchanged DEF Finished, vars
<1> QED
  BY <1>1, <1>2, <1>3, <1>4, <1>5, <1>6, <1>7, <1>8 DEF Next

\* The blocks of the kfifo, and the one under assembly, follow one another along
\* the ring, also when scans are postponed or repeated and when the application
\* does not keep up.
THEOREM KfifoIsChained == Spec => []BlocksChained
<1>1. Init => ChainInv
  BY DEF Init, ChainInv, BlocksChained
<1>2. ChainInv => BlocksChained
  BY DEF ChainInv
<1> QED
  BY <1>1, <1>2, ChainNext, IrqInvariant, PTL DEF Spec

=============================================================================
