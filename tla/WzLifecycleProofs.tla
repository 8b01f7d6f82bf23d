------------------------- MODULE WzLifecycleProofs -------------------------
(***************************************************************************)
(* The resources of the wz extension, for any ring, any files and any      *)
(* calls that follow one another (a call is one step, STOP and close() are *)
(* two), and any bound on them: no pointer is left to what has been        *)
(* released, and an application that calls in order is never written into, *)
(* never mapped to released pages, never meets a BUG_ON and leaves nothing *)
(* allocated.                                                              *)
(***************************************************************************)
EXTENDS WzLifecycle, TLAPS

\* p is an allocation of this kind for buffer i.
Is(p, kind, i) == p \in Object /\ p[1] = kind /\ p[2] = i

\* Every pointer leads to an allocation of its own kind and buffer, so that no
\* two of them can be equal.
KindInv ==
  /\ \A j \in Desc :
       /\ buf_page[j] # Null => Is(buf_page[j], "page", j)
       /\ buf_dma_t[j] # Null => Is(buf_dma_t[j], "map", j)
       /\ desc[j] # Null => Is(desc[j], "desc", j)
  /\ desc_copy # Null => Is(desc_copy, "copy", 0)
  /\ fifo_mem # Null => Is(fifo_mem, "fifo", 0)
  /\ transfer # Null => Is(transfer, "transfer", 0)

\* The transfer list holds the transfers of the latest START calls in their
\* order; it is empty exactly when the engine is idle, and while it is not
\* ext->transfer is the last of them, or NULL after a START that failed.
ListInv ==
  /\ \A k \in DOMAIN transfer_list :
       Is(transfer_list[k], "transfer", 0) /\ transfer_list[k][3] <= starts
  /\ \A k, m \in DOMAIN transfer_list :
       k < m => transfer_list[k][3] < transfer_list[m][3]
  /\ running <=> transfer_list # <<>>
  /\ running => transfer \in {Null, transfer_list[Len(transfer_list)]}

\* NoDanglingPointer, pointer by pointer.
LiveInv ==
  /\ \A j \in Desc :
       /\ buf_page[j] # Null => buf_page[j] \in heap
       /\ buf_dma_t[j] # Null => buf_dma_t[j] \in heap
       /\ desc[j] # Null => desc[j] \in heap
  /\ desc_copy # Null => desc_copy \in heap
  /\ fifo_mem # Null => fifo_mem \in heap
  /\ transfer # Null => transfer \in heap
  /\ \A k \in DOMAIN transfer_list : transfer_list[k] \in heap

\* As long as no START came while the engine was running there is one transfer
\* on the list, and its desc_virt is still the extension's first descriptor.
VirtInv ==
  ~overlap /\ running =>
    Len(transfer_list) = 1 /\ desc[0] = DescVirt(transfer_list[1])

\* What holds of an application that calls in order, whatever fails: one file
\* at a time, nothing of START outside START .. STOP, nothing of ALLOC_BUFFERS
\* unless buf_ready, and one transfer while the engine runs.
OrderInv ==
  order # "any" =>
    /\ \A f, g \in Files : file[f] # "closed" /\ file[g] # "closed" => f = g
    /\ running => /\ phase = "started" /\ buf_ready
                  /\ Len(transfer_list) = 1 /\ transfer = transfer_list[1]
    /\ phase # "started" => transfer = Null /\ \A j \in Desc : desc[j] = Null
    /\ ~buf_ready => fifo_mem = Null /\ desc_copy = Null
    /\ (\A f \in Files : file[f] = "closed") => phase # "started" /\ ~buf_ready
    /\ bug = "none"

\* What the processes have mapped, for such an application: a mapping keeps its
\* file from being closed, and its pages are those of the buffers.
MapInv ==
  order # "any" =>
    /\ \A f \in Files : vma = <<f>> => file[f] \in {"open", "stop"}
    /\ vma # Null => buf_ready
    /\ vma = Null => pte = {}
    /\ \A p \in pte : \E j \in Desc : p = buf_page[j]

\* With the single START of the test program, the descriptors it fills lead to
\* the mapped buffers.
DmaInv ==
  order = "tester" =>
    /\ phase = "fresh" /\ buf_ready => \A j \in Desc : buf_dma_t[j] # Null
    /\ running => \A j \in Desc : dst_addr[j] \in heap /\ desc[j] # Null

\* Whatever is allocated besides DMA mappings is still known to the extension.
NoLeakInv ==
  order # "any" =>
    \A o \in heap :
      \/ o[1] = "map"
      \/ \E j \in Desc : o = buf_page[j] \/ o = desc[j]
      \/ o \in {desc_copy, fifo_mem, transfer}

-----------------------------------------------------------------------------
\* Bounds of the ring the provers need again and again.
LEMMA RingFacts ==
  NOFBUFS \in Nat /\ NOFBUFS >= 2 /\ 0 \in Desc /\ NOFBUFS - 1 \in Desc
BY NofbufsAssumption DEF Desc

\* A new allocation is an object of its kind and buffer, and not NULL.
LEMMA NewObject ==
  ASSUME NEW kind \in {"page", "map", "copy", "fifo", "desc", "transfer"},
         NEW j \in Desc, NEW n \in Nat
  PROVE  /\ Is(<<kind, j, n>>, kind, j)
         /\ <<kind, j, n>>[3] = n
         /\ <<kind, j, n>> # Null
BY DEF Is, Object, Null

\* NULL and the stray page are no allocations.
LEMMA NullNoObject == Null \notin Object /\ Stray # Null
BY DEF Object, Null, Stray

\* The steps that touch nothing of the extension or the engine but the content
\* of the kfifo.
Quiet ==
  UNCHANGED <<extVars, runVars, phase, heap, allocs, starts, overlap, order>>

\* What a step can be.
LEMMA NextCases ==
  ASSUME [Next]_vars
  PROVE  \/ /\ bug = "none"
            /\ \E f \in Files :
                 \/ AllocBuffers(f)
                 \/ \E n \in 0 .. NOFBUFS, late \in BOOLEAN :
                      AllocFails(f, n, late)
                 \/ Start(f) \/ (\E n \in Desc : StartNoDesc(f, n))
                 \/ StartNoTransfer(f)
                 \/ FreeBuffers(f) \/ StopReturn(f) \/ CloseReturn(f)
         \/ bug = "none" /\ EngineShutdown
         \/ Quiet
<1>1. CASE bug = "none" /\ \E f \in Files :
             Open(f) \/ Mmap(f) \/ CloseCall(f) \/ StopCall(f) \/ Getbuf(f)
  BY <1>1 DEF Open, Mmap, CloseCall, StopCall, Getbuf, Quiet
<1>2. CASE bug = "none" /\ (Report \/ ReportNoFifo \/ DequeueBug \/ Munmap)
  BY <1>2 DEF Report, ReportNoFifo, DequeueBug, Munmap, Quiet
<1>3. CASE bug = "none" /\ \E n \in 0 .. NOFBUFS : Fault(n)
  BY <1>3 DEF Fault, Quiet
<1>4. CASE UNCHANGED vars
  BY <1>4 DEF vars, Quiet
<1> QED
  BY <1>1, <1>2, <1>3, <1>4 DEF Next, Ioctl

-----------------------------------------------------------------------------
\* Every variable keeps its type.
LEMMA TypeStep ==
  ASSUME TypeOK, ListInv, [Next]_vars
  PROVE  TypeOK'
<1> USE RingFacts
<1>0. allocs + 1 \in Nat /\ starts + 1 \in Nat
  BY DEF TypeOK
<1>1. ASSUME NEW f \in Files, AllocBuffers(f)
      PROVE  TypeOK'
  <2>1. \A j \in Desc : Page(j) \in Object /\ Map(j) \in Object
    BY <1>0, <1>1 DEF AllocBuffers, Page, Map, Object
  <2>2. Copy \in Object /\ Fifo \in Object
    BY <1>0, <1>1 DEF AllocBuffers, Copy, Fifo, Object
  <2> QED
    BY <1>1, <2>1, <2>2 DEF AllocBuffers, TypeOK, Pointer, runVars, mapVars
<1>2. ASSUME NEW f \in Files, NEW n \in 0 .. NOFBUFS, NEW late \in BOOLEAN,
             AllocFails(f, n, late)
      PROVE  TypeOK'
  <2>1. /\ allocs' = allocs + 1 /\ phase' = "fresh"
        /\ fifo_mem' \in {Null, fifo_mem} /\ kfifo' \in {<<>>, kfifo}
        /\ UNCHANGED <<runVars, file, mapVars, order, starts, overlap, bug>>
    BY <1>2 DEF AllocFails
  <2>2. /\ heap' \subseteq heap
        /\ buf_page' = NoPtr /\ buf_dma_t' = NoPtr
        /\ desc_copy' = Null /\ buf_ready' \in BOOLEAN
    BY <1>2 DEF AllocFails, Err1
  <2>3. kfifo \in Seq(Nat) /\ <<>> \in Seq(Nat)
    BY DEF TypeOK
  <2>4. kfifo' \in Seq(Nat)
    BY <2>1, <2>3
  <2> QED
    <3>1. buf_page' \in [Desc -> Pointer] /\ buf_dma_t' \in [Desc -> Pointer]
      BY <2>2 DEF NoPtr, Pointer
    <3>2. desc_copy' \in Pointer /\ fifo_mem' \in Pointer
      BY <2>1, <2>2 DEF TypeOK, Pointer
    <3> QED
      BY <2>1, <2>2, <2>4, <3>1, <3>2 DEF TypeOK, runVars, mapVars
<1>3. ASSUME NEW f \in Files, Start(f)
      PROVE  TypeOK'
  <2>1. Transfer \in Object /\ \A j \in Desc : DescOf(j) \in Object
    BY <1>0, <1>3 DEF Start, Transfer, DescOf, Object
  <2>2. transfer_list' \in Seq(Object)
    BY <1>3, <2>1 DEF Start, TypeOK
  <2>3. buf_dma_t' \in [Desc -> Pointer]
    BY <1>3 DEF Start, CleanedDma, TypeOK, Pointer
  <2> QED
    BY <1>3, <2>1, <2>2, <2>3 DEF Start, TypeOK, Pointer, mapVars
<1>4. ASSUME NEW f \in Files, NEW n \in Desc, StartNoDesc(f, n)
      PROVE  TypeOK'
  <2>1. \A j \in Desc : DescOf(j) \in Object
    BY <1>0, <1>4 DEF StartNoDesc, DescOf, Object
  <2>2. 0 .. n - 1 \subseteq Desc
    BY DEF Desc
  <2>3. buf_dma_t' \in [Desc -> Pointer]
    BY <1>4 DEF StartNoDesc, CleanedDma, TypeOK, Pointer
  <2>4. desc' \in [Desc -> Pointer]
    BY <1>4, <2>1 DEF StartNoDesc, TypeOK, Pointer
  <2>5. heap' \subseteq Object
    BY <1>4, <2>1, <2>2 DEF StartNoDesc, TypeOK
  <2> QED
    BY <1>4, <2>3, <2>4, <2>5 DEF StartNoDesc, TypeOK, mapVars
<1>5. ASSUME NEW f \in Files, StartNoTransfer(f)
      PROVE  TypeOK'
  BY <1>5 DEF StartNoTransfer, CleanedDma, NoPtr, TypeOK, Pointer, mapVars
<1>6. ASSUME NEW f \in Files, FreeBuffers(f)
      PROVE  TypeOK'
  <2>1. buf_page' \in [Desc -> Pointer] /\ buf_dma_t' \in [Desc -> Pointer]
    BY <1>6 DEF FreeBuffers, FreedExt, NoPtr, TypeOK, Pointer
  <2> QED
    <3>1. desc_copy' = Null /\ fifo_mem' = Null /\ kfifo' = <<>>
      BY <1>6 DEF FreeBuffers, FreedExt
    <3>2. buf_ready' \in BOOLEAN /\ heap' \subseteq heap
      BY <1>6 DEF FreeBuffers, FreedExt
    <3> QED
      BY <1>6, <2>1, <3>1, <3>2 DEF FreeBuffers, TypeOK, Pointer, runVars, mapVars
<1>7. ASSUME NEW f \in Files, StopReturn(f)
      PROVE  TypeOK'
  BY <1>7 DEF StopReturn, DmaAfterStop, NoPtr, TypeOK, Pointer, mapVars
<1>8. ASSUME NEW f \in Files, CloseReturn(f)
      PROVE  TypeOK'
  <2>1. DmaAfterStop \in [Desc -> Pointer]
    BY DEF DmaAfterStop, TypeOK, Pointer
  <2>2. buf_page' \in [Desc -> Pointer] /\ buf_dma_t' \in [Desc -> Pointer]
    BY <1>8, <2>1 DEF CloseReturn, Cleanup, FreedExt, NoPtr, TypeOK, Pointer
  <2> QED
    <3>1. desc_copy' = Null /\ fifo_mem' = Null /\ kfifo' = <<>>
      BY <1>8 DEF CloseReturn, Cleanup, FreedExt
    <3>2. buf_ready' \in BOOLEAN /\ heap' \subseteq heap
      BY <1>8 DEF CloseReturn, Cleanup, FreedExt
    <3>3. transfer' = Null /\ desc' \in [Desc -> Pointer]
      BY <1>8 DEF CloseReturn, Cleanup, NoPtr, Pointer
    <3>4. UNCHANGED <<dst_addr, transfer_list, running>>
      BY <1>8 DEF CloseReturn, Cleanup
    <3> QED
      BY <1>8, <2>2, <3>1, <3>2, <3>3, <3>4
         DEF CloseReturn, TypeOK, Pointer, mapVars
<1>9. CASE EngineShutdown
  <2>1. transfer_list # <<>>
    BY <1>9 DEF EngineShutdown, ListInv
  <2>2. transfer_list' \in Seq(Object)
    BY <1>9, <2>1 DEF EngineShutdown, TypeOK
  <2> QED
    BY <1>9, <2>2 DEF EngineShutdown, TypeOK, extVars, mapVars
<1>10. ASSUME NEW f \in Files,
              Open(f) \/ Mmap(f) \/ CloseCall(f) \/ StopCall(f)
       PROVE  TypeOK'
  BY <1>10 DEF Open, Mmap, CloseCall, StopCall, TypeOK, extVars, runVars,
     mapVars
<1>11. CASE Report \/ \E f \in Files : Getbuf(f)
  <2>1. kfifo \in Seq(Nat) /\ starts \in Nat
    BY DEF TypeOK
  <2>2. Append(kfifo, starts) \in Seq(Nat)
    BY <2>1
  <2>3. kfifo # <<>> => Tail(kfifo) \in Seq(Nat)
    BY <2>1
  <2>4. kfifo' \in Seq(Nat)
    BY <1>11, <2>2, <2>3 DEF Report, Getbuf
  <2> QED
    BY <1>11, <2>4 DEF Report, Getbuf, TypeOK, extVars, runVars, mapVars
<1>14. CASE ReportNoFifo \/ DequeueBug \/ Munmap
  BY <1>14 DEF ReportNoFifo, DequeueBug, Munmap, TypeOK, extVars, runVars,
     mapVars
<1>12. ASSUME NEW n \in 0 .. NOFBUFS, Fault(n)
       PROVE  TypeOK'
  BY <1>12 DEF Fault, TypeOK, extVars, runVars
<1>13. CASE UNCHANGED vars
  BY <1>13 DEF vars, TypeOK, extVars, runVars, mapVars
<1> QED
  BY <1>1, <1>2, <1>3, <1>4, <1>5, <1>6, <1>7, <1>8, <1>9, <1>10, <1>11,
     <1>12, <1>13, <1>14 DEF Next, Ioctl

-----------------------------------------------------------------------------
(***************************************************************************)
(* What the calls that release memory do.                                  *)
(***************************************************************************)

\* ALLOC_BUFFERS without memory releases nothing but pages, mappings and copies.
LEMMA AllocFailsPost ==
  ASSUME TypeOK, KindInv,
         NEW f \in Files, NEW n \in 0 .. NOFBUFS, NEW late \in BOOLEAN,
         AllocFails(f, n, late)
  PROVE  /\ \A j \in Desc : buf_page'[j] = Null /\ buf_dma_t'[j] = Null
         /\ desc_copy' = Null /\ ~buf_ready' /\ fifo_mem' \in {Null, fifo_mem}
         /\ heap' \subseteq heap
         /\ \A o \in heap : o \notin heap' => o[1] \in {"page", "map", "copy"}
<1>1. /\ buf_page' = NoPtr /\ buf_dma_t' = NoPtr
      /\ desc_copy' = Null /\ ~buf_ready' /\ heap' \subseteq heap
  BY DEF AllocFails, Err1
<1>2. fifo_mem' \in {Null, fifo_mem}
  BY DEF AllocFails
<1>3. ASSUME NEW o \in heap, o \notin heap'
      PROVE  o[1] \in {"page", "map", "copy"}
  <2> DEFINE page == [i \in Desc |->
                        IF i < n \/ (i = n /\ late) THEN Page(i)
                        ELSE IF i = n THEN Null ELSE buf_page[i]]
             dma  == [i \in Desc |-> IF i < n THEN Map(i)
                                     ELSE IF i = n /\ late THEN Null
                                     ELSE buf_dma_t[i]]
             copy == IF n < NOFBUFS THEN desc_copy
                     ELSE IF late THEN Copy ELSE Null
  <2>0. o # Null
    BY <1>3, NullNoObject DEF TypeOK
  <2>1. o \in Pointees(page) \union Pointees(dma) \union {copy}
    BY <1>3 DEF AllocFails, Err1
  <2>2. ASSUME NEW j \in Desc, o = page[j]
        PROVE  o[1] = "page"
    BY <2>0, <2>2 DEF Page, KindInv, Is
  <2>3. ASSUME NEW j \in Desc, o = dma[j]
        PROVE  o[1] = "map"
    BY <2>0, <2>3 DEF Map, KindInv, Is
  <2>4. ASSUME o = copy
        PROVE  o[1] = "copy"
    BY <2>0, <2>4 DEF Copy, KindInv, Is
  <2> HIDE DEF page, dma, copy
  <2> QED
    BY <2>1, <2>2, <2>3, <2>4 DEF Pointees
<1> QED
  BY <1>1, <1>2, <1>3 DEF NoPtr

\* FREE_BUFFERS releases nothing of START, and without buf_ready only the kfifo
\* and the copies.
LEMMA FreeReleasesKinds ==
  ASSUME TypeOK, KindInv,
         NEW dma, \A j \in Desc : dma[j] \in {Null, buf_dma_t[j]},
         NEW o \in FreeReleases(dma), o # Null
  PROVE  IF buf_ready THEN o[1] \in {"page", "map", "fifo", "copy"}
         ELSE o[1] \in {"fifo", "copy"}
BY DEF FreeReleases, Pointees, KindInv, Is

\* STOP releases only descriptors and the transfer.
LEMMA StopReleasesKinds ==
  ASSUME KindInv, NEW o \in StopReleases, o # Null
  PROVE  o[1] \in {"desc", "transfer"}
BY DEF StopReleases, Pointees, KindInv, Is

\* STOP only clears DMA addresses.
LEMMA DmaAfterStopValue == \A j \in Desc : DmaAfterStop[j] \in {Null, buf_dma_t[j]}
BY DEF DmaAfterStop

-----------------------------------------------------------------------------
\* Every pointer keeps to its kind.
LEMMA KindStep ==
  ASSUME TypeOK, KindInv, [Next]_vars
  PROVE  KindInv'
<1> USE RingFacts
<1>0. allocs + 1 \in Nat /\ starts + 1 \in Nat
  BY DEF TypeOK
<1>1. ASSUME NEW f \in Files, AllocBuffers(f)
      PROVE  KindInv'
  <2>1. \A j \in Desc : Is(Page(j), "page", j) /\ Is(Map(j), "map", j)
    BY <1>0, <1>1, NewObject DEF AllocBuffers, Page, Map
  <2>2. Is(Copy, "copy", 0) /\ Is(Fifo, "fifo", 0)
    BY <1>0, <1>1, NewObject DEF AllocBuffers, Copy, Fifo
  <2> QED
    BY <1>1, <2>1, <2>2 DEF AllocBuffers, KindInv, runVars
<1>2. ASSUME NEW f \in Files, NEW n \in 0 .. NOFBUFS, NEW late \in BOOLEAN,
             AllocFails(f, n, late)
      PROVE  KindInv'
  <2>1. UNCHANGED runVars
    BY <1>2 DEF AllocFails
  <2> QED
    BY <1>2, <2>1, AllocFailsPost DEF KindInv, runVars
<1>3. ASSUME NEW f \in Files, Start(f)
      PROVE  KindInv'
  <2>1. Is(Transfer, "transfer", 0) /\ \A j \in Desc : Is(DescOf(j), "desc", j)
    BY <1>0, <1>3, NewObject DEF Start, Transfer, DescOf
  <2> QED
    BY <1>3, <2>1 DEF Start, CleanedDma, KindInv
<1>4. ASSUME NEW f \in Files, NEW n \in Desc, StartNoDesc(f, n)
      PROVE  KindInv'
  <2>1. \A j \in Desc : Is(DescOf(j), "desc", j)
    BY <1>0, <1>4, NewObject DEF StartNoDesc, DescOf
  <2> QED
    BY <1>4, <2>1 DEF StartNoDesc, CleanedDma, KindInv
<1>5. ASSUME NEW f \in Files, StartNoTransfer(f)
      PROVE  KindInv'
  BY <1>5 DEF StartNoTransfer, CleanedDma, NoPtr, KindInv
<1>6. ASSUME NEW f \in Files, FreeBuffers(f)
      PROVE  KindInv'
  BY <1>6 DEF FreeBuffers, FreedExt, NoPtr, KindInv, runVars
<1>7. ASSUME NEW f \in Files, StopReturn(f)
      PROVE  KindInv'
  BY <1>7 DEF StopReturn, DmaAfterStop, NoPtr, KindInv
<1>8. ASSUME NEW f \in Files, CloseReturn(f)
      PROVE  KindInv'
  BY <1>8 DEF CloseReturn, Cleanup, FreedExt, DmaAfterStop, NoPtr, KindInv
<1>9. CASE EngineShutdown
  BY <1>9 DEF EngineShutdown, KindInv, extVars
<1>10. CASE Quiet
  BY <1>10 DEF Quiet, KindInv, extVars, runVars
<1> QED
  BY <1>1, <1>2, <1>3, <1>4, <1>5, <1>6, <1>7, <1>8, <1>9, <1>10, NextCases

\* The list of transfers and ext->transfer.
LEMMA ListStep ==
  ASSUME TypeOK, KindInv, ListInv, [Next]_vars
  PROVE  ListInv'
<1> USE RingFacts
<1>0. starts \in Nat /\ transfer_list \in Seq(Object) /\ Len(transfer_list) \in Nat
  BY DEF TypeOK
<1>1. ASSUME NEW f \in Files,
             \/ AllocBuffers(f)
             \/ \E n \in 0 .. NOFBUFS, late \in BOOLEAN : AllocFails(f, n, late)
             \/ FreeBuffers(f)
      PROVE  ListInv'
  <2>1. UNCHANGED <<runVars, starts>>
    BY <1>1 DEF AllocBuffers, AllocFails, FreeBuffers
  <2> QED
    BY <2>1 DEF ListInv, runVars
<1>2. ASSUME NEW f \in Files, Start(f)
      PROVE  ListInv'
  <2>1. Is(Transfer, "transfer", 0) /\ Transfer[3] = starts + 1
    BY <1>0, <1>2, NewObject DEF Start, Transfer
  <2>2. /\ transfer_list' = Append(transfer_list, Transfer)
        /\ transfer' = Transfer /\ starts' = starts + 1 /\ running'
    BY <1>2 DEF Start
  <2>3. Transfer \in Object
    BY <2>1 DEF Is
  <2>4. /\ Len(transfer_list') = Len(transfer_list) + 1
        /\ DOMAIN transfer_list' = 1 .. Len(transfer_list) + 1
        /\ DOMAIN transfer_list = 1 .. Len(transfer_list)
        /\ \A k \in DOMAIN transfer_list : transfer_list'[k] = transfer_list[k]
        /\ transfer_list'[Len(transfer_list) + 1] = Transfer
    BY <1>0, <2>2, <2>3
  <2>5. \A k \in DOMAIN transfer_list : transfer_list[k][3] \in Nat
    BY <1>0 DEF Object
  <2>6. transfer_list' # <<>>
    BY <1>0, <2>4
  <2> QED
    BY <1>0, <2>1, <2>2, <2>4, <2>5, <2>6 DEF ListInv
<1>3. ASSUME NEW f \in Files, \E n \in Desc : StartNoDesc(f, n)
      PROVE  ListInv'
  <2>1. UNCHANGED <<transfer, transfer_list, running>> /\ starts' = starts + 1
    BY <1>3 DEF StartNoDesc
  <2>2. \A k \in DOMAIN transfer_list : transfer_list[k][3] \in Nat
    BY <1>0 DEF Object
  <2> QED
    BY <1>0, <2>1, <2>2 DEF ListInv
<1>4. ASSUME NEW f \in Files, StartNoTransfer(f)
      PROVE  ListInv'
  <2>1. /\ UNCHANGED <<transfer_list, running>> /\ starts' = starts + 1
        /\ transfer' = Null
    BY <1>4 DEF StartNoTransfer
  <2>2. \A k \in DOMAIN transfer_list : transfer_list[k][3] \in Nat
    BY <1>0 DEF Object
  <2> QED
    BY <1>0, <2>1, <2>2 DEF ListInv
<1>5. ASSUME NEW f \in Files, StopReturn(f) \/ CloseReturn(f)
      PROVE  ListInv'
  <2>1. UNCHANGED <<transfer_list, running, starts>> /\ ~running
    BY <1>5 DEF StopReturn, CloseReturn, Cleanup
  <2> QED
    BY <2>1 DEF ListInv
<1>6. CASE EngineShutdown
  <2>1. /\ running /\ Head(transfer_list) = transfer /\ UNCHANGED starts
        /\ transfer_list' = Tail(transfer_list) /\ ~running'
    BY <1>6 DEF EngineShutdown
  <2>2. transfer_list # <<>> /\ Head(transfer_list) = transfer_list[1]
    BY <1>0, <2>1 DEF ListInv
  <2>3. DOMAIN transfer_list = 1 .. Len(transfer_list) /\ Len(transfer_list) >= 1
    BY <1>0, <2>2
  <2>4. transfer # Null
    BY <1>0, <2>1, <2>2, <2>3, NullNoObject
  <2>5. Len(transfer_list) = 1
    <3>1. transfer_list[1] = transfer_list[Len(transfer_list)]
      BY <2>1, <2>2, <2>4 DEF ListInv
    <3>2. transfer_list[1][3] \in Nat
      BY <1>0, <2>3 DEF Object
    <3>3. ~(1 < Len(transfer_list))
      BY <1>0, <2>3, <3>1, <3>2 DEF ListInv
    <3> QED
      BY <1>0, <2>3, <3>3
  <2>6. transfer_list' = <<>>
    BY <1>0, <2>1, <2>2, <2>5
  <2> QED
    BY <2>1, <2>6 DEF ListInv
<1>7. CASE Quiet
  BY <1>7 DEF Quiet, ListInv, runVars
<1> QED
  BY <1>1, <1>2, <1>3, <1>4, <1>5, <1>6, <1>7, NextCases

\* buf_ready tells what FREE_BUFFERS has to look for.
LEMMA ReadyStep ==
  ASSUME TypeOK, KindInv, BufReadyExact, [Next]_vars
  PROVE  BufReadyExact'
<1> USE RingFacts
<1>0. allocs + 1 \in Nat
  BY DEF TypeOK
<1>1. ASSUME NEW f \in Files, AllocBuffers(f)
      PROVE  BufReadyExact'
  <2>1. \A j \in Desc : Page(j) # Null
    BY <1>0, <1>1, NewObject DEF AllocBuffers, Page
  <2>2. Copy # Null /\ Fifo # Null
    BY <1>0, <1>1, NewObject DEF AllocBuffers, Copy, Fifo
  <2> QED
    BY <1>1, <2>1, <2>2 DEF AllocBuffers, BufReadyExact
<1>2. ASSUME NEW f \in Files, NEW n \in 0 .. NOFBUFS, NEW late \in BOOLEAN,
             AllocFails(f, n, late)
      PROVE  BufReadyExact'
  BY <1>2, AllocFailsPost DEF BufReadyExact
<1>3. ASSUME NEW f \in Files,
             \/ Start(f) \/ (\E n \in Desc : StartNoDesc(f, n))
             \/ StartNoTransfer(f) \/ StopReturn(f)
      PROVE  BufReadyExact'
  <2>1. UNCHANGED <<buf_page, desc_copy, fifo_mem, buf_ready>>
    BY <1>3 DEF Start, StartNoDesc, StartNoTransfer, StopReturn
  <2> QED
    BY <2>1 DEF BufReadyExact
<1>4. ASSUME NEW f \in Files, FreeBuffers(f) \/ CloseReturn(f)
      PROVE  BufReadyExact'
  <2>1. /\ buf_page' = IF buf_ready THEN NoPtr ELSE buf_page
        /\ ~buf_ready'
    BY <1>4 DEF FreeBuffers, CloseReturn, Cleanup, FreedExt
  <2> QED
    BY <2>1 DEF BufReadyExact, NoPtr
<1>5. CASE EngineShutdown \/ Quiet
  BY <1>5 DEF EngineShutdown, Quiet, BufReadyExact, extVars
<1> QED
  BY <1>1, <1>2, <1>3, <1>4, <1>5, NextCases

\* No step leaves a pointer to what it releases.
LEMMA LiveStep ==
  ASSUME TypeOK, KindInv, ListInv, BufReadyExact, LiveInv, [Next]_vars
  PROVE  LiveInv'
<1> USE RingFacts
<1>1. ASSUME NEW f \in Files, AllocBuffers(f)
      PROVE  LiveInv'
  BY <1>1 DEF AllocBuffers, LiveInv, runVars
<1>2. ASSUME NEW f \in Files, NEW n \in 0 .. NOFBUFS, NEW late \in BOOLEAN,
             AllocFails(f, n, late)
      PROVE  LiveInv'
  <2>1. UNCHANGED runVars
    BY <1>2 DEF AllocFails
  <2>2. \A o \in heap : o[1] \in {"fifo", "desc", "transfer"} => o \in heap'
    BY <1>2, AllocFailsPost
  <2>3. fifo_mem' \in {Null, fifo_mem} /\ desc_copy' = Null
    BY <1>2, AllocFailsPost
  <2>4. \A j \in Desc : buf_page'[j] = Null /\ buf_dma_t'[j] = Null
    BY <1>2, AllocFailsPost
  <2> QED
    BY <2>1, <2>2, <2>3, <2>4 DEF LiveInv, KindInv, ListInv, Is, runVars
<1>3. ASSUME NEW f \in Files, NEW n \in Desc,
             Start(f) \/ StartNoDesc(f, n) \/ StartNoTransfer(f)
      PROVE  LiveInv'
  <2>1. UNCHANGED <<buf_page, desc_copy, fifo_mem>>
    BY <1>3 DEF Start, StartNoDesc, StartNoTransfer
  <2>2. \A j \in Desc : buf_dma_t'[j] \in {Null, buf_dma_t[j]}
    BY <1>3 DEF Start, StartNoDesc, StartNoTransfer, CleanedDma
  <2>3. \A o \in heap : o[1] # "desc" => o \in heap'
    <3>1. ASSUME NEW last \in Desc, NEW o \in heap, o \in Cleaned(last)
          PROVE  o[1] = "desc"
      BY <3>1, NullNoObject DEF Cleaned, TypeOK, KindInv, Is, Desc
    <3>2. \E last \in Desc : heap \ Cleaned(last) \subseteq heap'
      BY <1>3 DEF Start, StartNoDesc, StartNoTransfer
    <3> QED
      BY <3>1, <3>2
  <2>4. ASSUME NEW j \in Desc, desc'[j] # Null
        PROVE  desc'[j] \in heap'
    <3>1. CASE Start(f)
      BY <3>1 DEF Start
    <3>2. CASE StartNoDesc(f, n)
      <4>1. CASE j < n
        BY <3>2, <4>1 DEF StartNoDesc, Desc
      <4>2. CASE j > n
        <5>1. desc'[j] = desc[j] /\ desc[j] \in heap /\ Is(desc[j], "desc", j)
          BY <2>4, <3>2, <4>2 DEF StartNoDesc, LiveInv, KindInv, Desc
        <5>2. desc[j] \notin Cleaned(n)
          BY <2>4, <4>2, <5>1, NullNoObject DEF Cleaned, KindInv, Is, Desc
        <5> QED
          BY <3>2, <5>1, <5>2 DEF StartNoDesc
      <4>3. CASE j = n
        BY <2>4, <3>2, <4>3 DEF StartNoDesc, Desc
      <4> QED
        BY <4>1, <4>2, <4>3 DEF Desc
    <3>3. CASE StartNoTransfer(f)
      BY <2>4, <3>3 DEF StartNoTransfer, NoPtr
    <3> QED
      BY <1>3, <3>1, <3>2, <3>3
  <2>5. /\ transfer' # Null => transfer' \in heap'
        /\ \A k \in DOMAIN transfer_list' : transfer_list'[k] \in heap'
    <3>1. transfer # Null => transfer \in heap'
      BY <2>3 DEF LiveInv, KindInv, Is
    <3>2. \A k \in DOMAIN transfer_list : transfer_list[k] \in heap'
      BY <2>3 DEF LiveInv, ListInv, Is
    <3>3. CASE Start(f)
      <4>1. Transfer \in heap'
        BY <3>3 DEF Start
      <4>2. transfer_list \in Seq(Object)
        BY DEF TypeOK
      <4>3. \A k \in DOMAIN Append(transfer_list, Transfer) :
              \/ k \in DOMAIN transfer_list
                   /\ Append(transfer_list, Transfer)[k] = transfer_list[k]
              \/ Append(transfer_list, Transfer)[k] = Transfer
        BY <4>2
      <4> QED
        BY <3>2, <3>3, <4>1, <4>3 DEF Start
    <3>4. CASE StartNoDesc(f, n) \/ StartNoTransfer(f)
      BY <3>1, <3>2, <3>4 DEF StartNoDesc, StartNoTransfer
    <3> QED
      BY <1>3, <3>3, <3>4
  <2> QED
    BY <2>1, <2>2, <2>3, <2>4, <2>5 DEF LiveInv, KindInv, Is
<1>4. ASSUME NEW f \in Files, FreeBuffers(f)
      PROVE  LiveInv'
  <2>1. UNCHANGED runVars /\ fifo_mem' = Null /\ desc_copy' = Null
    BY <1>4 DEF FreeBuffers, FreedExt
  <2>2. \A j \in Desc : buf_page'[j] = Null
    BY <1>4 DEF FreeBuffers, FreedExt, NoPtr, BufReadyExact
  <2>3. \A o \in heap : o \notin heap' => o # Null /\ o \in FreeReleases(buf_dma_t)
    BY <1>4, NullNoObject DEF FreeBuffers, TypeOK
  <2>4. \A o \in heap : o[1] \in {"desc", "transfer"} => o \in heap'
    BY <2>3, FreeReleasesKinds
  <2>5. ~buf_ready => \A o \in heap : o[1] = "map" => o \in heap'
    BY <2>3, FreeReleasesKinds
  <2>6. \A j \in Desc : buf_dma_t'[j] # Null
                          => ~buf_ready /\ buf_dma_t'[j] = buf_dma_t[j]
    BY <1>4 DEF FreeBuffers, FreedExt, NoPtr
  <2> QED
    BY <2>1, <2>2, <2>4, <2>5, <2>6 DEF LiveInv, KindInv, ListInv, Is, runVars
<1>5. ASSUME NEW f \in Files, StopReturn(f)
      PROVE  LiveInv'
  <2>1. /\ UNCHANGED <<buf_page, desc_copy, fifo_mem, transfer_list>>
        /\ ~running /\ transfer' = Null /\ desc' = NoPtr
    BY <1>5 DEF StopReturn
  <2>2. \A j \in Desc : buf_dma_t'[j] \in {Null, buf_dma_t[j]}
    BY <1>5, DmaAfterStopValue DEF StopReturn
  <2>3. \A o \in heap : o[1] \notin {"desc", "transfer"} => o \in heap'
    BY <1>5, NullNoObject, StopReleasesKinds DEF StopReturn, TypeOK
  <2>4. transfer_list = <<>>
    BY <2>1 DEF ListInv
  <2> QED
    BY <2>1, <2>2, <2>3, <2>4 DEF LiveInv, KindInv, Is, NoPtr
<1>6. ASSUME NEW f \in Files, CloseReturn(f)
      PROVE  LiveInv'
  <2>1. /\ UNCHANGED transfer_list /\ fifo_mem' = Null /\ desc_copy' = Null
        /\ ~running /\ transfer' = Null /\ desc' = NoPtr
    BY <1>6 DEF CloseReturn, Cleanup, FreedExt
  <2>2. \A j \in Desc : buf_page'[j] = Null
    BY <1>6 DEF CloseReturn, Cleanup, FreedExt, NoPtr, BufReadyExact
  <2>3. \A o \in heap : o \notin heap' =>
          o # Null /\ o \in StopReleases \union FreeReleases(DmaAfterStop)
    BY <1>6, NullNoObject DEF CloseReturn, Cleanup, TypeOK
  <2>4. ~buf_ready => \A o \in heap : o[1] = "map" => o \in heap'
    BY <2>3, FreeReleasesKinds, StopReleasesKinds, DmaAfterStopValue
  <2>5. \A j \in Desc : buf_dma_t'[j] # Null
                          => ~buf_ready /\ buf_dma_t'[j] = buf_dma_t[j]
    BY <1>6, DmaAfterStopValue DEF CloseReturn, Cleanup, FreedExt, NoPtr
  <2>6. transfer_list = <<>>
    BY <2>1 DEF ListInv
  <2> QED
    BY <2>1, <2>2, <2>4, <2>5, <2>6 DEF LiveInv, KindInv, Is, NoPtr
<1>7. CASE EngineShutdown
  <2>1. UNCHANGED <<extVars, desc, transfer, heap>>
    BY <1>7 DEF EngineShutdown
  <2>2. transfer_list \in Seq(Object) /\ transfer_list # <<>>
    BY <1>7 DEF EngineShutdown, TypeOK, ListInv
  <2>3. \A k \in DOMAIN Tail(transfer_list) :
          /\ k + 1 \in DOMAIN transfer_list
          /\ Tail(transfer_list)[k] = transfer_list[k + 1]
    BY <2>2
  <2>4. transfer_list' = Tail(transfer_list)
    BY <1>7 DEF EngineShutdown
  <2> QED
    BY <2>1, <2>3, <2>4 DEF LiveInv, extVars
<1>8. CASE Quiet
  BY <1>8 DEF Quiet, LiveInv, extVars, runVars
<1> QED
  BY <1>1, <1>2, <1>3, <1>4, <1>5, <1>6, <1>7, <1>8, RingFacts, NextCases

-----------------------------------------------------------------------------
(***************************************************************************)
(* An application that calls in order.                                     *)
(***************************************************************************)

\* No step changes the order the application keeps to.
LEMMA OrderKept == ASSUME [Next]_vars PROVE order' = order
<1>1. CASE Quiet \/ EngineShutdown
  BY <1>1 DEF Quiet, EngineShutdown
<1>2. CASE \E f \in Files :
             AllocBuffers(f) \/ Start(f) \/ StartNoTransfer(f)
               \/ FreeBuffers(f) \/ StopReturn(f) \/ CloseReturn(f)
  BY <1>2 DEF AllocBuffers, Start, StartNoTransfer, FreeBuffers, StopReturn,
     CloseReturn
<1>3. CASE \E f \in Files : \E n \in 0 .. NOFBUFS, late \in BOOLEAN :
             AllocFails(f, n, late)
  BY <1>3 DEF AllocFails
<1>4. CASE \E f \in Files : \E n \in Desc : StartNoDesc(f, n)
  BY <1>4 DEF StartNoDesc
<1> QED
  BY <1>1, <1>2, <1>3, <1>4, NextCases

\* A listed transfer keeps its descriptors until a START while running.
LEMMA VirtStep ==
  ASSUME TypeOK, ListInv, VirtInv, [Next]_vars
  PROVE  VirtInv'
<1> USE RingFacts
<1>1. ASSUME NEW f \in Files,
             \/ AllocBuffers(f)
             \/ \E n \in 0 .. NOFBUFS, late \in BOOLEAN : AllocFails(f, n, late)
             \/ FreeBuffers(f)
      PROVE  VirtInv'
  <2>1. UNCHANGED <<runVars, overlap>>
    BY <1>1 DEF AllocBuffers, AllocFails, FreeBuffers
  <2> QED
    BY <2>1 DEF VirtInv, runVars
<1>2. ASSUME NEW f \in Files, Start(f)
      PROVE  VirtInv'
  <2>1. CASE running
    BY <1>2, <2>1 DEF Start, VirtInv
  <2>2. CASE ~running
    <3>1. transfer_list' = <<Transfer>>
      BY <1>2, <2>2 DEF Start, ListInv
    <3>2. desc'[0] = DescOf(0)
      BY <1>2 DEF Start
    <3> QED
      BY <3>1, <3>2 DEF VirtInv, DescVirt, Transfer, DescOf
  <2> QED
    BY <2>1, <2>2 DEF TypeOK
<1>3. ASSUME NEW f \in Files,
             (\E n \in Desc : StartNoDesc(f, n)) \/ StartNoTransfer(f)
      PROVE  VirtInv'
  <2>1. overlap' = (overlap \/ running) /\ UNCHANGED running
    BY <1>3 DEF StartNoDesc, StartNoTransfer
  <2> QED
    BY <2>1, Zenon DEF VirtInv
<1>4. ASSUME NEW f \in Files, StopReturn(f) \/ CloseReturn(f)
      PROVE  VirtInv'
  <2>1. ~running /\ UNCHANGED running
    BY <1>4 DEF StopReturn, CloseReturn, Cleanup
  <2> QED
    BY <2>1, Zenon DEF VirtInv
<1>5. CASE EngineShutdown
  BY <1>5 DEF EngineShutdown, VirtInv
<1>6. CASE Quiet
  BY <1>6 DEF Quiet, VirtInv, runVars
<1> QED
  BY <1>1, <1>2, <1>3, <1>4, <1>5, <1>6, NextCases

\* The calls in order keep what they rely on.
LEMMA OrderStep ==
  ASSUME TypeOK, KindInv, ListInv, BufReadyExact, OrderInv, [Next]_vars
  PROVE  OrderInv'
<1> SUFFICES ASSUME order # "any", order' # "any"
             PROVE  OrderInv'
  BY OrderKept DEF OrderInv
<1> USE RingFacts
<1>0. order \in {"tester", "restart"}
  BY OrdersAssumption DEF TypeOK
<1>1. ASSUME NEW f \in Files,
             \/ AllocBuffers(f)
             \/ \E n \in 0 .. NOFBUFS, late \in BOOLEAN : AllocFails(f, n, late)
      PROVE  OrderInv'
  <2>1. /\ file[f] = "open" /\ ~buf_ready /\ phase # "started"
        /\ UNCHANGED <<runVars, file, bug>> /\ phase' = "fresh"
    BY <1>1 DEF AllocBuffers, AllocFails, MayAlloc
  <2>2. ~buf_ready' => fifo_mem' = Null /\ desc_copy' = Null
    BY <1>1, <2>1, AllocFailsPost DEF AllocBuffers, OrderInv
  <2> QED
    BY <2>1, <2>2 DEF OrderInv, runVars
<1>2. ASSUME NEW f \in Files, Start(f)
      PROVE  OrderInv'
  <2>1. /\ file[f] = "open" /\ buf_ready /\ phase # "started"
        /\ UNCHANGED <<buf_ready, fifo_mem, desc_copy, file, bug>>
        /\ phase' = "started"
        /\ transfer_list' = Append(transfer_list, Transfer)
        /\ transfer' = Transfer
    BY <1>2, <1>0 DEF Start, MayStart
  <2>2. transfer_list = <<>>
    BY <2>1 DEF OrderInv, ListInv
  <2>3. Len(transfer_list') = 1 /\ transfer' = transfer_list'[1]
    BY <2>1, <2>2
  <2> QED
    BY <2>1, <2>3 DEF OrderInv
<1>3. ASSUME NEW f \in Files,
             (\E n \in Desc : StartNoDesc(f, n)) \/ StartNoTransfer(f)
      PROVE  OrderInv'
  <2>1. /\ file[f] = "open" /\ buf_ready /\ phase # "started"
        /\ UNCHANGED <<buf_ready, fifo_mem, desc_copy, file, bug, running>>
        /\ phase' = "started"
    BY <1>3, <1>0 DEF StartNoDesc, StartNoTransfer, MayStart
  <2> QED
    BY <2>1 DEF OrderInv
<1>4. ASSUME NEW f \in Files, FreeBuffers(f)
      PROVE  OrderInv'
  <2>1. /\ file[f] = "open" /\ phase # "started"
        /\ UNCHANGED <<runVars, file, bug, phase>>
        /\ ~buf_ready' /\ fifo_mem' = Null /\ desc_copy' = Null
    BY <1>4 DEF FreeBuffers, FreedExt
  <2> QED
    BY <2>1 DEF OrderInv, runVars
<1>5. ASSUME NEW f \in Files, StopReturn(f)
      PROVE  OrderInv'
  <2>1. /\ file[f] = "stop" /\ ~running /\ phase' = "stopped"
        /\ file' = [file EXCEPT ![f] = "open"]
        /\ transfer' = Null /\ desc' = NoPtr
        /\ UNCHANGED <<buf_ready, fifo_mem, desc_copy, bug, running>>
    BY <1>5 DEF StopReturn
  <2>2. \A g \in Files : file'[g] = "closed" <=> file[g] = "closed"
    BY <2>1 DEF TypeOK
  <2>3. file'[f] # "closed"
    BY <2>1, <2>2
  <2> QED
    BY <2>1, <2>2, <2>3 DEF OrderInv, NoPtr
<1>6. ASSUME NEW f \in Files, CloseReturn(f)
      PROVE  OrderInv'
  <2>1. /\ file[f] = "close" /\ ~running /\ phase' = "stopped"
        /\ file' = [file EXCEPT ![f] = "closed"]
        /\ transfer' = Null /\ desc' = NoPtr
        /\ ~buf_ready' /\ fifo_mem' = Null /\ desc_copy' = Null
        /\ UNCHANGED <<bug, running>>
    BY <1>6 DEF CloseReturn, Cleanup, FreedExt
  <2>2. \A g \in Files : file'[g] = "closed"
    BY <2>1 DEF TypeOK, OrderInv
  <2> QED
    BY <2>1, <2>2 DEF OrderInv, NoPtr
<1>7. CASE EngineShutdown
  <2>1. /\ ~running' /\ UNCHANGED <<phase, transfer, desc, buf_ready, fifo_mem>>
        /\ UNCHANGED <<desc_copy, file, bug>>
    BY <1>7 DEF EngineShutdown, extVars
  <2> QED
    BY <2>1 DEF OrderInv
<1>8. CASE DequeueBug
  <2>1. transfer_list \in Seq(Object) /\ transfer_list # <<>>
    BY <1>8 DEF DequeueBug, ListInv, TypeOK
  <2>2. Head(transfer_list) = transfer_list[1]
    BY <2>1
  <2> QED
    BY <1>8, <2>2 DEF DequeueBug, OrderInv
<1>9. CASE ReportNoFifo
  BY <1>9 DEF ReportNoFifo, OrderInv, BufReadyExact
<1>10. ASSUME NEW f \in Files, Open(f)
       PROVE  OrderInv'
  BY <1>10 DEF Open, OrderInv, TypeOK, extVars, runVars
<1>11. ASSUME NEW f \in Files, StopCall(f) \/ CloseCall(f)
       PROVE  OrderInv'
  BY <1>11 DEF StopCall, CloseCall, OrderInv, TypeOK, extVars, runVars
<1>12. CASE \/ \E f \in Files : Mmap(f) \/ Getbuf(f)
            \/ Report \/ Munmap
            \/ \E n \in 0 .. NOFBUFS : Fault(n)
            \/ UNCHANGED vars
  <2>1. UNCHANGED <<extVars, runVars, phase, file, bug>>
    BY <1>12 DEF Mmap, Getbuf, Report, Munmap, Fault, vars
  <2> QED
    BY <2>1 DEF OrderInv, extVars, runVars
<1> QED
  BY <1>1, <1>2, <1>3, <1>4, <1>5, <1>6, <1>7, <1>8, <1>9, <1>10, <1>11, <1>12
     DEF Next, Ioctl

\* The page tables follow the buffers.
LEMMA MapStep ==
  ASSUME TypeOK, KindInv, BufReadyExact, OrderInv, MapInv, [Next]_vars
  PROVE  MapInv'
<1> SUFFICES ASSUME order # "any", order' # "any"
             PROVE  MapInv'
  BY OrderKept DEF MapInv
<1> USE RingFacts
<1>1. ASSUME NEW f \in Files,
             \/ AllocBuffers(f)
             \/ \E n \in 0 .. NOFBUFS, late \in BOOLEAN : AllocFails(f, n, late)
      PROVE  MapInv'
  <2>1. ~buf_ready /\ UNCHANGED <<file, mapVars>>
    BY <1>1 DEF AllocBuffers, AllocFails, MayAlloc
  <2> QED
    BY <2>1 DEF MapInv, mapVars
<1>2. ASSUME NEW f \in Files,
             \/ Start(f) \/ (\E n \in Desc : StartNoDesc(f, n))
             \/ StartNoTransfer(f)
      PROVE  MapInv'
  <2>1. UNCHANGED <<buf_page, buf_ready, file, mapVars>>
    BY <1>2 DEF Start, StartNoDesc, StartNoTransfer
  <2> QED
    BY <2>1 DEF MapInv, mapVars
<1>3. ASSUME NEW f \in Files, FreeBuffers(f)
      PROVE  MapInv'
  <2>1. vma = Null /\ UNCHANGED <<file, mapVars>>
    BY <1>3 DEF FreeBuffers
  <2> QED
    BY <2>1 DEF MapInv, mapVars
<1>4. ASSUME NEW f \in Files, StopReturn(f) \/ StopCall(f) \/ CloseCall(f)
      PROVE  MapInv'
  <2>1. UNCHANGED <<buf_page, buf_ready, mapVars>>
    BY <1>4 DEF StopReturn, StopCall, CloseCall, extVars
  <2>2. \A g \in Files : vma = <<g>> => file'[g] \in {"open", "stop"}
    <3>1. CASE StopReturn(f) \/ StopCall(f)
      BY <3>1 DEF StopReturn, StopCall, MapInv, TypeOK
    <3>2. CASE CloseCall(f)
      BY <3>2 DEF CloseCall, MapInv, TypeOK
    <3> QED
      BY <1>4, <3>1, <3>2
  <2> QED
    BY <2>1, <2>2 DEF MapInv, mapVars
<1>5. ASSUME NEW f \in Files, CloseReturn(f)
      PROVE  MapInv'
  <2>1. file[f] = "close" /\ UNCHANGED mapVars
    BY <1>5 DEF CloseReturn
  <2>2. \A g \in Files : vma # <<g>>
    BY <2>1 DEF MapInv, OrderInv
  <2>3. vma = Null
    BY <2>2 DEF TypeOK
  <2> QED
    BY <2>1, <2>2, <2>3 DEF MapInv, mapVars
<1>6. ASSUME NEW f \in Files, Open(f)
      PROVE  MapInv'
  BY <1>6 DEF Open, MapInv, TypeOK, mapVars, extVars
<1>7. ASSUME NEW f \in Files, Mmap(f)
      PROVE  MapInv'
  <2>1. /\ file[f] = "open" /\ vma = Null /\ buf_ready /\ vma' = <<f>>
        /\ UNCHANGED <<file, pte, buf_ready>>
    BY <1>7 DEF Mmap, MmapAllowed, extVars
  <2>2. \A g \in Files : vma' = <<g>> => g = f
    BY <2>1
  <2>3. vma' # Null
    BY <2>1 DEF Null
  <2> QED
    BY <2>1, <2>2, <2>3 DEF MapInv
<1>8. ASSUME NEW n \in 0 .. NOFBUFS, Fault(n)
      PROVE  MapInv'
  <2>1. /\ vma # Null /\ n \in Desc /\ pte' = pte \union {buf_page[n]}
        /\ UNCHANGED <<file, vma, buf_page, buf_ready>>
    BY <1>8 DEF Fault, extVars
  <2> QED
    BY <2>1 DEF MapInv
<1>9. CASE Munmap
  BY <1>9, Zenon DEF Munmap, MapInv, Null
<1>10. CASE \/ EngineShutdown \/ Report \/ ReportNoFifo \/ DequeueBug
            \/ UNCHANGED vars
            \/ \E f \in Files : Getbuf(f)
  <2>1. UNCHANGED <<extVars, file, mapVars>>
    BY <1>10 DEF EngineShutdown, Report, ReportNoFifo, DequeueBug, Getbuf, vars
  <2> QED
    BY <2>1 DEF MapInv, extVars, mapVars
<1> QED
  BY <1>1, <1>2, <1>3, <1>4, <1>5, <1>6, <1>7, <1>8, <1>9, <1>10
     DEF Next, Ioctl

\* The buffers the running engine writes into stay mapped.
LEMMA DmaStep ==
  ASSUME TypeOK, KindInv, ListInv, BufReadyExact, LiveInv, OrderInv, DmaInv,
         [Next]_vars
  PROVE  DmaInv'
<1> SUFFICES ASSUME order = "tester", order' = "tester", order # "any"
             PROVE  DmaInv'
  BY OrderKept DEF DmaInv
<1> USE RingFacts
<1>0. allocs + 1 \in Nat /\ starts + 1 \in Nat
  BY DEF TypeOK
<1>1. ASSUME NEW f \in Files, AllocBuffers(f)
      PROVE  DmaInv'
  <2>1. phase # "started" /\ UNCHANGED runVars
    BY <1>1 DEF AllocBuffers, MayAlloc
  <2>2. ~running'
    BY <2>1 DEF OrderInv, runVars
  <2>3. \A j \in Desc : Map(j) # Null
    BY <1>0, <1>1, NewObject DEF AllocBuffers, Map
  <2> QED
    BY <1>1, <2>2, <2>3 DEF AllocBuffers, DmaInv
<1>2. ASSUME NEW f \in Files, NEW n \in 0 .. NOFBUFS, NEW late \in BOOLEAN,
             AllocFails(f, n, late)
      PROVE  DmaInv'
  <2>1. phase # "started" /\ UNCHANGED runVars
    BY <1>2 DEF AllocFails, MayAlloc
  <2>2. ~running' /\ ~buf_ready'
    BY <1>2, <2>1, AllocFailsPost DEF OrderInv, runVars
  <2> QED
    BY <2>2 DEF DmaInv
<1>3. ASSUME NEW f \in Files, Start(f)
      PROVE  DmaInv'
  <2>1. /\ buf_ready /\ phase = "fresh" /\ phase' = "started"
        /\ dst_addr' = CleanedDma(NOFBUFS - 1) /\ desc' = [j \in Desc |-> DescOf(j)]
    BY <1>3 DEF Start, MayStart
  <2>2. \A j \in Desc : DescOf(j) # Null
    BY <1>0, <1>3, NewObject DEF Start, DescOf
  <2>3. ASSUME NEW j \in Desc
        PROVE  dst_addr'[j] \in heap'
    <3>1. desc[j] = Null /\ buf_dma_t[j] # Null
      BY <2>1 DEF OrderInv, DmaInv
    <3>2. dst_addr'[j] = buf_dma_t[j] /\ buf_dma_t[j] \in heap
      BY <2>1, <3>1 DEF CleanedDma, LiveInv
    <3>3. Cleaned(NOFBUFS - 1) \subseteq {Null}
      BY <2>1 DEF OrderInv, Cleaned, Desc
    <3> QED
      BY <1>3, <3>1, <3>2, <3>3 DEF Start
  <2> QED
    BY <2>1, <2>2, <2>3 DEF DmaInv
<1>4. ASSUME NEW f \in Files,
             \/ \E n \in Desc : StartNoDesc(f, n)
             \/ StartNoTransfer(f)
      PROVE  DmaInv'
  <2>1. phase = "fresh" /\ phase' = "started" /\ UNCHANGED running
    BY <1>4 DEF StartNoDesc, StartNoTransfer, MayStart
  <2> QED
    BY <2>1 DEF DmaInv, OrderInv
<1>5. ASSUME NEW f \in Files, FreeBuffers(f)
      PROVE  DmaInv'
  <2>1. phase # "started" /\ UNCHANGED running /\ ~buf_ready'
    BY <1>5 DEF FreeBuffers, FreedExt, runVars
  <2> QED
    BY <2>1 DEF DmaInv, OrderInv
<1>6. ASSUME NEW f \in Files, StopReturn(f) \/ CloseReturn(f)
      PROVE  DmaInv'
  <2>1. phase' = "stopped" /\ ~running /\ UNCHANGED running
    BY <1>6 DEF StopReturn, CloseReturn, Cleanup
  <2> QED
    BY <2>1 DEF DmaInv
<1>7. CASE EngineShutdown
  <2>1. ~running' /\ UNCHANGED <<phase, buf_ready, buf_dma_t>>
    BY <1>7 DEF EngineShutdown, extVars
  <2> QED
    BY <2>1 DEF DmaInv
<1>8. CASE Quiet
  BY <1>8 DEF Quiet, DmaInv, extVars, runVars
<1> QED
  BY <1>1, <1>2, <1>3, <1>4, <1>5, <1>6, <1>7, <1>8, NextCases

\* Nothing but DMA mappings is forgotten.
LEMMA NoLeakStep ==
  ASSUME TypeOK, KindInv, ListInv, BufReadyExact, OrderInv, NoLeakInv,
         [Next]_vars
  PROVE  NoLeakInv'
<1> SUFFICES ASSUME order # "any", order' # "any"
             PROVE  NoLeakInv'
  BY OrderKept DEF NoLeakInv
<1> USE RingFacts
<1>0. order \in {"tester", "restart"} /\ \A o \in heap : o # Null
  BY OrdersAssumption, NullNoObject DEF TypeOK
<1>1. ASSUME NEW f \in Files, AllocBuffers(f)
      PROVE  NoLeakInv'
  <2>1. ~buf_ready /\ UNCHANGED runVars
    BY <1>1 DEF AllocBuffers, MayAlloc
  <2>2. \A j \in Desc : Map(j)[1] = "map"
    BY DEF Map
  <2>3. fifo_mem = Null /\ desc_copy = Null /\ \A j \in Desc : buf_page[j] = Null
    BY <2>1 DEF OrderInv, BufReadyExact
  <2> QED
    BY <1>0, <1>1, <2>1, <2>2, <2>3 DEF AllocBuffers, NoLeakInv, runVars
<1>2. ASSUME NEW f \in Files, NEW n \in 0 .. NOFBUFS, NEW late \in BOOLEAN,
             AllocFails(f, n, late)
      PROVE  NoLeakInv'
  <2>1. ~buf_ready /\ UNCHANGED runVars
    BY <1>2 DEF AllocFails, MayAlloc
  <2>2. fifo_mem = Null /\ desc_copy = Null /\ \A j \in Desc : buf_page[j] = Null
    BY <2>1 DEF OrderInv, BufReadyExact
  <2>3. heap' \subseteq heap
    BY <1>2, AllocFailsPost
  <2> QED
    BY <1>0, <2>1, <2>2, <2>3 DEF NoLeakInv, runVars
<1>3. ASSUME NEW f \in Files, NEW n \in Desc,
             Start(f) \/ StartNoDesc(f, n) \/ StartNoTransfer(f)
      PROVE  NoLeakInv'
  <2>1. phase # "started" /\ UNCHANGED <<buf_page, desc_copy, fifo_mem>>
    BY <1>0, <1>3 DEF Start, StartNoDesc, StartNoTransfer, MayStart
  <2>2. transfer = Null /\ \A j \in Desc : desc[j] = Null
    BY <2>1 DEF OrderInv
  <2>3. \A o \in heap' :
          o \in heap \/ o = transfer' \/ \E j \in Desc : o = desc'[j]
    BY <1>3 DEF Start, StartNoDesc, StartNoTransfer, Desc
  <2> QED
    BY <1>0, <2>1, <2>2, <2>3 DEF NoLeakInv
<1>4. ASSUME NEW f \in Files, FreeBuffers(f)
      PROVE  NoLeakInv'
  <2>1. UNCHANGED runVars /\ heap' = heap \ FreeReleases(buf_dma_t)
    BY <1>4 DEF FreeBuffers
  <2>2. {fifo_mem, desc_copy} \subseteq FreeReleases(buf_dma_t)
    BY DEF FreeReleases
  <2>3. \A j \in Desc : buf_page[j] # Null => buf_page[j] \in FreeReleases(buf_dma_t)
    BY DEF FreeReleases, Pointees, BufReadyExact
  <2> QED
    BY <1>0, <2>1, <2>2, <2>3 DEF NoLeakInv, runVars
<1>5. ASSUME NEW f \in Files, StopReturn(f)
      PROVE  NoLeakInv'
  <2>1. /\ UNCHANGED <<buf_page, desc_copy, fifo_mem>>
        /\ heap' = heap \ StopReleases
    BY <1>5 DEF StopReturn
  <2>2. transfer \in StopReleases /\ \A j \in Desc : desc[j] \in StopReleases
    BY DEF StopReleases, Pointees
  <2> QED
    BY <2>1, <2>2 DEF NoLeakInv
<1>6. ASSUME NEW f \in Files, CloseReturn(f)
      PROVE  NoLeakInv'
  <2>1. heap' = heap \ (StopReleases \union FreeReleases(DmaAfterStop))
    BY <1>6 DEF CloseReturn, Cleanup
  <2>2. transfer \in StopReleases /\ \A j \in Desc : desc[j] \in StopReleases
    BY DEF StopReleases, Pointees
  <2>3. {fifo_mem, desc_copy} \subseteq FreeReleases(DmaAfterStop)
    BY DEF FreeReleases
  <2>4. \A j \in Desc :
          buf_page[j] # Null => buf_page[j] \in FreeReleases(DmaAfterStop)
    BY DEF FreeReleases, Pointees, BufReadyExact
  <2> QED
    BY <1>0, <2>1, <2>2, <2>3, <2>4 DEF NoLeakInv
<1>7. CASE EngineShutdown
  BY <1>7 DEF EngineShutdown, NoLeakInv, extVars
<1>8. CASE Quiet
  BY <1>8 DEF Quiet, NoLeakInv, extVars, runVars
<1> QED
  BY <1>1, <1>2, <1>3, <1>4, <1>5, <1>6, <1>7, <1>8, RingFacts, NextCases

-----------------------------------------------------------------------------
\* The inductive invariant.
IInv ==
  /\ TypeOK /\ KindInv /\ ListInv /\ BufReadyExact /\ LiveInv /\ VirtInv
  /\ OrderInv /\ MapInv /\ DmaInv /\ NoLeakInv

\* It holds at first, and every step keeps it.
LEMMA IInvHolds == Spec => []IInv
<1>1. Init => IInv
  <2> SUFFICES ASSUME Init
               PROVE  IInv
    OBVIOUS
  <2>1. TypeOK
    <3>1. buf_ready \in BOOLEAN /\ running \in BOOLEAN
      BY DEF Init
    <3>2. file \in [Files -> {"closed", "open", "stop", "close"}]
      BY DEF Init
    <3>3. /\ buf_page \in [Desc -> Pointer] /\ buf_dma_t \in [Desc -> Pointer]
          /\ desc \in [Desc -> Pointer] /\ dst_addr \in [Desc -> Pointer]
          /\ desc_copy \in Pointer /\ fifo_mem \in Pointer /\ transfer \in Pointer
      BY DEF Init, NoPtr, Pointer
    <3>4. kfifo \in Seq(Nat) /\ transfer_list \in Seq(Object)
      BY DEF Init
    <3>5. /\ phase \in {"fresh", "started", "stopped"}
          /\ vma \in {Null} \union {<<f>> : f \in Files}
          /\ pte \subseteq Pointer \union {Stray} /\ order \in Orders
          /\ heap \subseteq Object /\ allocs \in Nat /\ starts \in Nat
          /\ overlap \in BOOLEAN /\ bug \in {"none", "fifo", "dequeue"}
      BY DEF Init
    <3> QED
      BY <3>1, <3>2, <3>3, <3>4, <3>5 DEF TypeOK
  <2>2. KindInv /\ ListInv /\ BufReadyExact /\ LiveInv /\ VirtInv
    BY DEF Init, KindInv, ListInv, BufReadyExact, LiveInv, VirtInv, NoPtr
  <2>3. OrderInv /\ DmaInv /\ NoLeakInv
    BY DEF Init, OrderInv, DmaInv, NoLeakInv, NoPtr
  <2>4. MapInv
    BY DEF Init, MapInv, Null
  <2> QED
    BY <2>1, <2>2, <2>3, <2>4 DEF IInv
<1>2. IInv /\ [Next]_vars => IInv'
  BY TypeStep, KindStep, ListStep, ReadyStep, LiveStep, VirtStep, OrderStep,
     MapStep, DmaStep, NoLeakStep DEF IInv
<1> QED
  BY <1>1, <1>2, PTL DEF Spec

\* Every variable of the extension, the engine, the processes and the heap keeps
\* its type, whatever is called and whatever fails.
THEOREM TypeCorrect == Spec => []TypeOK
<1>1. IInv => TypeOK
  BY DEF IInv
<1> QED
  BY <1>1, IInvHolds, PTL

\* No call of wz-xdma.c leaves a pointer of wz_ext or of the transfer list to
\* memory that has been released: whatever ALLOC_BUFFERS, START, STOP,
\* FREE_BUFFERS and close() follow one another from any number of files, with
\* memory running out at any allocation, for any ring.  What a listed transfer's
\* desc_virt points to, which engine_cyclic_stop writes to, is alive as well, as
\* long as no START came while the engine was running.
THEOREM NoDanglingPointerHolds == Spec => []NoDanglingPointer
<1>1. IInv => Referenced \ {Null} \subseteq heap
  BY DEF IInv, LiveInv, Referenced, Pointees
<1>2. ASSUME IInv, ~overlap, NEW k \in DOMAIN transfer_list
      PROVE  DescVirt(transfer_list[k]) \in heap
  <2>1. running /\ Len(transfer_list) = 1
    <3>1. transfer_list # <<>>
      BY <1>2
    <3> QED
      BY <1>2, <3>1 DEF IInv, ListInv, VirtInv
  <2>2. k = 1
    BY <1>2, <2>1 DEF IInv, TypeOK
  <2>3. desc[0] = DescVirt(transfer_list[1])
    BY <1>2, <2>1 DEF IInv, VirtInv
  <2>4. DescVirt(transfer_list[1]) # Null
    BY DEF DescVirt, Null
  <2> QED
    BY <1>2, <2>2, <2>3, <2>4, RingFacts DEF IInv, LiveInv
<1>3. IInv => NoDanglingPointer
  BY <1>1, <1>2 DEF NoDanglingPointer
<1> QED
  BY <1>3, IInvHolds, PTL

\* buf_ready is set exactly while there are pages, so that FREE_BUFFERS, mmap and
\* START, which test only this flag, look at what exists.
THEOREM BufReadyExactHolds == Spec => []BufReadyExact
<1>1. IInv => BufReadyExact
  BY DEF IInv
<1> QED
  BY <1>1, IInvHolds, PTL

\* The engine started by an application with the test program's order of calls
\* never writes to memory that was given back, however often it is opened,
\* killed and closed.
THEOREM DmaIntoLiveBuffersHolds == Spec => []DmaIntoLiveBuffers
<1>1. ASSUME IInv, order = "tester", running, NEW j \in Desc
      PROVE  dst_addr[j] \in heap /\ buf_page[j] \in heap /\ desc[j] \in heap
  <2>1. buf_ready /\ desc[j] # Null /\ dst_addr[j] \in heap
    BY <1>1 DEF IInv, OrderInv, DmaInv
  <2>2. buf_page[j] # Null
    BY <2>1, <1>1 DEF IInv, BufReadyExact
  <2> QED
    BY <1>1, <2>1, <2>2 DEF IInv, LiveInv
<1>2. IInv => DmaIntoLiveBuffers
  BY <1>1 DEF DmaIntoLiveBuffers
<1> QED
  BY <1>2, IInvHolds, PTL

\* swz_mmap_fault and FREE_BUFFERS together never leave a released page in the
\* page tables of an application that unmaps before it frees.
THEOREM MappedPagesLiveHolds == Spec => []MappedPagesLive
<1>1. ASSUME IInv, order # "any", NEW p \in pte
      PROVE  p \in heap
  <2>1. vma # Null /\ buf_ready
    BY <1>1 DEF IInv, MapInv
  <2>2. PICK j \in Desc : p = buf_page[j]
    BY <1>1 DEF IInv, MapInv
  <2>3. buf_page[j] # Null
    BY <1>1, <2>1 DEF IInv, BufReadyExact
  <2> QED
    BY <1>1, <2>2, <2>3 DEF IInv, LiveInv
<1>2. IInv => MappedPagesLive
  BY <1>1 DEF MappedPagesLive
<1> QED
  BY <1>2, IInvHolds, PTL

\* After the last close of an application that called in order, wz_engine_cleanup
\* has released every page, descriptor, transfer, kfifo and copy, whatever failed
\* before; only DMA mappings may be left.
THEOREM NothingLeftHolds == Spec => []NothingLeft
<1>1. ASSUME IInv, order # "any", \A f \in Files : file[f] = "closed",
             NEW o \in heap
      PROVE  o[1] = "map"
  <2>1. phase # "started" /\ ~buf_ready
    BY <1>1 DEF IInv, OrderInv
  <2>2. transfer = Null /\ fifo_mem = Null /\ desc_copy = Null
    BY <1>1, <2>1 DEF IInv, OrderInv
  <2>3. \A j \in Desc : desc[j] = Null /\ buf_page[j] = Null
    BY <1>1, <2>1 DEF IInv, OrderInv, BufReadyExact
  <2>4. o # Null
    BY <1>1, NullNoObject DEF IInv, TypeOK
  <2> QED
    BY <1>1, <2>2, <2>3, <2>4 DEF IInv, NoLeakInv
<1>2. IInv => NothingLeft
  BY <1>1 DEF NothingLeft
<1> QED
  BY <1>2, IInvHolds, PTL

\* The worker's BUG_ON(transfer != ext->transfer) and its access to the kfifo
\* are safe for every application that calls in order.
THEOREM NoBugHolds == Spec => []NoBug
<1>1. IInv => NoBug
  BY DEF IInv, OrderInv, NoBug
<1> QED
  BY <1>1, IInvHolds, PTL

=============================================================================
