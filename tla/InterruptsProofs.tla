-------------------------- MODULE InterruptsProofs --------------------------
(***************************************************************************)
(* No engine event and no user interrupt is lost, and a sole reader is     *)
(* served, for any engines, user interrupts and readers.                   *)
(***************************************************************************)
EXTENDS Interrupts, TLAPS

\* An engine is masked exactly from the moment xdma_isr disables its channel until
\* its worker enables it again, and it is in one place at a time on that way.
MaskedWhileServiced ==
  /\ ipc \in {"idle", "channel"} => ch_irq = {}
  /\ \A e \in Engines :
       /\ e \in work \/ worker[e] # "idle" => e \notin chEnable \union ch_irq
       /\ e \in work => worker[e] = "idle"
       /\ e \in ch_irq /\ ipc \in {"user", "service"} => e \notin chEnable
       /\ e \notin chEnable => e \in ch_irq \/ e \in work \/ worker[e] # "idle"
  /\ mode = "msix" => event = {}

\* What a sole reader knows between its test of events_irq and the fetch.
SoleReaderKnows ==
  \A r \in Readers :
    Sole(r) =>
      /\ rpc[r] # "empty"
      /\ rpc[r] \in {"polled", "take"} => device[r] # None /\ Readable(r)

\* A reader inside a system call has a device open.
CallersHaveDevice == \A r \in Readers : rpc[r] # "idle" => device[r] # None

-----------------------------------------------------------------------------
\* Every variable keeps its type under every action.
LEMMA TypeStep ==
  ASSUME TypeOK, CallersHaveDevice, [Next]_vars
  PROVE  TypeOK' /\ CallersHaveDevice'
<1>1. CASE \E e \in Engines : EngineEvent(e) \/ Worker(e)
  BY <1>1 DEF TypeOK, CallersHaveDevice, EngineEvent, Worker, WorkBegin, WorkService,
     WorkEnable, hwVars, isrVars, workVars, readerVars
<1>2. CASE \E u \in UserIrqs : UserRaise(u) \/ XdmaUserIrq(u)
  BY <1>2 DEF TypeOK, CallersHaveDevice, UserRaise, XdmaUserIrq, UserIrqService,
     hwVars, isrVars, workVars, readerVars
<1>3. CASE Isr
  BY <1>3 DEF TypeOK, CallersHaveDevice, Isr, IsrEnter, IsrReadChannel, IsrDisable,
     IsrReadUser, IsrServiceUser, IsrSchedule, UserIrqService,
     channel_int_request, hwVars, isrVars, workVars, readerVars
<1>4. CASE \E r \in Readers : Reader(r) \/ WaitInterrupted(r)
  BY <1>4 DEF TypeOK, CallersHaveDevice, Reader, CallRead, CallPoll, PollReturns,
     WaitDone, WaitInterrupted, TakeEvents, Handle, Readable,
     hwVars, isrVars, workVars, readerVars
<1>5. CASE UNCHANGED vars
  BY <1>5 DEF TypeOK, CallersHaveDevice, vars, hwVars, isrVars, workVars, readerVars
<1> QED
  BY <1>1, <1>2, <1>3, <1>4, <1>5 DEF Next

\* The masking protocol of xdma_isr and engine_service_work.
LEMMA MaskStep ==
  ASSUME TypeOK, MaskedWhileServiced, [Next]_vars
  PROVE  MaskedWhileServiced'
<1>1. CASE \E e \in Engines : EngineEvent(e) \/ Worker(e)
  BY <1>1 DEF TypeOK, MaskedWhileServiced, EngineEvent, Worker, WorkBegin,
     WorkService, WorkEnable, hwVars, isrVars, workVars, readerVars
<1>2. CASE \E u \in UserIrqs : UserRaise(u) \/ XdmaUserIrq(u)
  BY <1>2 DEF MaskedWhileServiced, UserRaise, XdmaUserIrq, hwVars,
     isrVars, workVars, readerVars
<1>3. CASE Isr
  BY <1>3 DEF TypeOK, MaskedWhileServiced, Isr, IsrEnter, IsrReadChannel,
     IsrDisable, IsrReadUser, IsrServiceUser, IsrSchedule,
     channel_int_request, hwVars, isrVars, workVars, readerVars
<1>4. CASE \E r \in Readers : Reader(r) \/ WaitInterrupted(r)
  BY <1>4 DEF MaskedWhileServiced, Reader, CallRead, CallPoll, PollReturns,
     WaitDone, WaitInterrupted, TakeEvents, Handle,
     hwVars, isrVars, workVars, readerVars
<1>5. CASE UNCHANGED vars
  BY <1>5 DEF MaskedWhileServiced, vars, hwVars, isrVars, workVars, readerVars
<1> QED
  BY <1>1, <1>2, <1>3, <1>4, <1>5 DEF Next

\* No event of an engine is left behind by a step.
LEMMA EngineStep ==
  ASSUME TypeOK, MaskedWhileServiced, EngineEventPending, [Next]_vars
  PROVE  EngineEventPending'
<1>1. ASSUME NEW e \in Engines, EngineEvent(e)
      PROVE  EngineEventPending'
  <2>1. msg => msg'
    BY <1>1, Zenon DEF EngineEvent
  <2>2. mode = "msi" /\ e \in chEnable => msg'
    BY <1>1, Zenon DEF EngineEvent
  <2> QED
    BY <1>1, <2>1, <2>2 DEF TypeOK, MaskedWhileServiced, EngineEventPending,
       IsrDue, EngineEvent, isrVars, workVars
<1>2. ASSUME NEW e \in Engines, Worker(e)
      PROVE  EngineEventPending'
  <2>1. CASE WorkBegin(e) \/ WorkService(e)
    BY <2>1 DEF TypeOK, EngineEventPending, IsrDue, WorkBegin, WorkService,
       hwVars, isrVars
  <2>2. CASE WorkEnable(e)
    <3>1. msg => msg'
      BY <2>2, Zenon DEF WorkEnable
    <3>2. mode = "msi" /\ e \in event \ chEnable => msg'
      BY <2>2, Zenon DEF WorkEnable
    <3> QED
      BY <2>2, <3>1, <3>2 DEF TypeOK, MaskedWhileServiced, EngineEventPending,
         IsrDue, WorkEnable, isrVars
  <2> QED
    BY <1>2, <2>1, <2>2 DEF Worker
<1>6. CASE \E u \in UserIrqs : UserRaise(u) \/ XdmaUserIrq(u)
  <2>1. msg => msg'
    BY <1>6, Zenon DEF UserRaise, XdmaUserIrq
  <2> QED
    BY <1>6, <2>1 DEF EngineEventPending, IsrDue, UserRaise, XdmaUserIrq,
       isrVars, workVars
<1>3. CASE Isr
  BY <1>3 DEF TypeOK, MaskedWhileServiced, EngineEventPending, IsrDue, Isr,
     IsrEnter, IsrReadChannel, IsrDisable, IsrReadUser, IsrServiceUser,
     IsrSchedule, channel_int_request, hwVars, isrVars, workVars, readerVars
<1>4. CASE \E r \in Readers : Reader(r) \/ WaitInterrupted(r)
  BY <1>4 DEF EngineEventPending, IsrDue, Reader, CallRead, CallPoll, PollReturns,
     WaitDone, WaitInterrupted, TakeEvents, Handle,
     hwVars, isrVars, workVars, readerVars
<1>5. CASE UNCHANGED vars
  BY <1>5 DEF EngineEventPending, IsrDue, vars, hwVars, isrVars, workVars
<1> QED
  BY <1>1, <1>2, <1>3, <1>4, <1>5, <1>6 DEF Next

\* No user interrupt is left behind by a step.
LEMMA UserStep ==
  ASSUME TypeOK, CallersHaveDevice, UserEventPending, [Next]_vars
  PROVE  UserEventPending'
<1>1. CASE \E e \in Engines : EngineEvent(e) \/ Worker(e)
  <2>1. msg => msg'
    BY <1>1, Zenon DEF EngineEvent, Worker, WorkBegin, WorkService, WorkEnable,
       hwVars
  <2> QED
    BY <1>1, <2>1 DEF UserEventPending, IsrDue, EngineEvent, Worker, WorkBegin,
       WorkService, WorkEnable, hwVars, isrVars, readerVars
<1>2. ASSUME NEW u \in UserIrqs, UserRaise(u)
      PROVE  UserEventPending'
  <2>1. msg => msg'
    BY <1>2, Zenon DEF UserRaise
  <2>2. mode = "msi" => msg'
    BY <1>2, Zenon DEF UserRaise
  <2> QED
    BY <1>2, <2>1, <2>2 DEF TypeOK, UserEventPending, IsrDue, UserRaise, isrVars,
       readerVars
<1>6. ASSUME NEW u \in UserIrqs, XdmaUserIrq(u)
      PROVE  UserEventPending'
  BY <1>6 DEF TypeOK, UserEventPending, IsrDue, XdmaUserIrq, UserIrqService,
     isrVars, readerVars
<1>3. CASE Isr
  BY <1>3 DEF TypeOK, UserEventPending, IsrDue, Isr, IsrEnter, IsrReadChannel,
     IsrDisable, IsrReadUser, IsrServiceUser, IsrSchedule, UserIrqService,
     hwVars, isrVars, workVars, readerVars
<1>4. CASE \E r \in Readers : Reader(r) \/ WaitInterrupted(r)
  BY <1>4 DEF TypeOK, CallersHaveDevice, UserEventPending, IsrDue, Reader, CallRead,
     CallPoll, PollReturns, WaitDone, WaitInterrupted, TakeEvents, Handle,
     Readable, hwVars, isrVars, workVars, readerVars
<1>5. CASE UNCHANGED vars
  BY <1>5 DEF UserEventPending, IsrDue, vars, hwVars, isrVars, workVars, readerVars
<1> QED
  BY <1>1, <1>2, <1>3, <1>4, <1>5, <1>6 DEF Next

\* Only a sole reader itself clears the event word it has seen.
LEMMA SoleReaderStep ==
  ASSUME TypeOK, CallersHaveDevice, SoleReaderKnows, [Next]_vars
  PROVE  SoleReaderKnows'
<1>1. CASE \E e \in Engines : EngineEvent(e) \/ Worker(e)
  BY <1>1 DEF SoleReaderKnows, Sole, Readable, EngineEvent, Worker, WorkBegin,
     WorkService, WorkEnable, hwVars, isrVars, workVars, readerVars
<1>2. CASE \E u \in UserIrqs : UserRaise(u) \/ XdmaUserIrq(u)
  BY <1>2 DEF TypeOK, SoleReaderKnows, Sole, Readable, UserRaise, XdmaUserIrq,
     UserIrqService, hwVars, isrVars, workVars, readerVars
<1>3. CASE Isr
  BY <1>3 DEF TypeOK, SoleReaderKnows, Sole, Readable, Isr, IsrEnter,
     IsrReadChannel, IsrDisable, IsrReadUser, IsrServiceUser, IsrSchedule,
     UserIrqService, hwVars, isrVars, workVars, readerVars
<1>4. CASE \E r \in Readers : Reader(r) \/ WaitInterrupted(r)
  BY <1>4 DEF TypeOK, CallersHaveDevice, SoleReaderKnows, Sole, Readable, Reader,
     CallRead, CallPoll, PollReturns, WaitDone, WaitInterrupted, TakeEvents,
     Handle, hwVars, isrVars, workVars, readerVars
<1>5. CASE UNCHANGED vars
  BY <1>5 DEF SoleReaderKnows, Sole, Readable, vars, readerVars
<1> QED
  BY <1>1, <1>2, <1>3, <1>4, <1>5 DEF Next

-----------------------------------------------------------------------------
\* Types are kept in every mode: an event word is never anything but 0 or 1.
THEOREM InterruptTypes == Spec => [](TypeOK /\ CallersHaveDevice)
<1>1. Init => TypeOK /\ CallersHaveDevice
  BY DEF Init, TypeOK, CallersHaveDevice
<1> QED
  BY <1>1, TypeStep, PTL DEF Spec

\* The masking of xdma_isr and the unmasking of engine_service_work lose no
\* engine event, whatever the number of engines, in legacy and in MSI mode.
THEOREM EngineEventsNotLost == Spec => []EngineEventPending
<1> DEFINE IInv == TypeOK /\ CallersHaveDevice /\ MaskedWhileServiced
                     /\ EngineEventPending
<1>1. Init => IInv
  BY DEF Init, TypeOK, CallersHaveDevice, MaskedWhileServiced, EngineEventPending
<1>2. IInv /\ [Next]_vars => IInv'
  BY TypeStep, MaskStep, EngineStep
<1> QED
  BY <1>1, <1>2, PTL DEF Spec

\* No asserted user interrupt is forgotten between xdma_isr or xdma_user_irq,
\* events_irq and any number of readers with signals.
THEOREM UserEventsNotLost == Spec => []UserEventPending
<1> DEFINE IInv == TypeOK /\ CallersHaveDevice /\ UserEventPending
<1>1. Init => IInv
  BY DEF Init, TypeOK, CallersHaveDevice, UserEventPending
<1>2. IInv /\ [Next]_vars => IInv'
  BY TypeStep, UserStep
<1> QED
  BY <1>1, <1>2, PTL DEF Spec

\* A sole reader never gets an empty event word, nor sleeps after POLLIN.
THEOREM SoleReaders == Spec => []SoleReaderServed
<1> DEFINE IInv == TypeOK /\ CallersHaveDevice /\ SoleReaderKnows
<1>1. Init => IInv
  BY DEF Init, TypeOK, CallersHaveDevice, SoleReaderKnows
<1>2. IInv /\ [Next]_vars => IInv'
  BY TypeStep, SoleReaderStep
<1>3. IInv => SoleReaderServed
  BY DEF SoleReaderKnows, SoleReaderServed
<1> QED
  BY <1>1, <1>2, <1>3, PTL DEF Spec

=============================================================================
