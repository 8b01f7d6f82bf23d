---------------------------- MODULE WzLifecycle ----------------------------
(***************************************************************************)
(* The resources of the wz extension over many ioctl calls (wz-xdma.c and  *)
(* the file operations of xdma-core.c): pages, DMA mappings, descriptors,  *)
(* the transfer, the kfifo and the mapping of the buffers into user space, *)
(* through ALLOC_BUFFERS, START, STOP, FREE_BUFFERS, mmap, page faults and *)
(* close, with memory running out at any allocation.                       *)
(*                                                                         *)
(* WzCyclic models what happens between START and STOP; here that is       *)
(* reduced to Report, Getbuf and EngineShutdown.                           *)
(*                                                                         *)
(* A call is one step, STOP and close() two: before and after their wait   *)
(* for the engine.  The ioctls take no lock (char_sgdma_ioctl), so two     *)
(* files could also call at the same time and interleave inside a call;    *)
(* that is not modelled.  What is said of "any" order is said of calls     *)
(* that come one after the other, from whichever file, while the worker    *)
(* runs.                                                                   *)
(*                                                                         *)
(* heap is the ghost set of all live allocations.  An allocation is a      *)
(* tuple of its kind, its buffer and the call that made it; a pointer is   *)
(* an allocation or Null.                                                  *)
(***************************************************************************)
EXTENDS DescRing, Sequences, FiniteSets

CONSTANTS
  Files,      \* open files of the c2h device: processes using one engine
  Orders,     \* in which order the application may call, see below
  MaxAllocs,  \* bound: ALLOC_BUFFERS calls
  MaxStarts   \* bound: START calls

\* "tester":  the order of tester2.c: ALLOC, mmap, START once, STOP, munmap,
\*            FREE; close at any time
\* "restart": the same, but START may follow STOP again
\* "any":     any call after any other
ASSUME OrdersAssumption == Orders \subseteq {"tester", "restart", "any"}
ASSUME MaxAssumption == MaxAllocs \in Nat /\ MaxStarts \in Nat

VARIABLES
  (* wz_ext and the engine *)
  buf_page,       \* page of buffer i
  buf_dma_t,      \* DMA mapping of buffer i; Null is the bus address 0
  desc,           \* descriptor i
  dst_addr,       \* where descriptor i makes the engine write
  desc_copy,
  fifo_mem,       \* storage of the kfifo
  kfifo,          \* its content: for each block the START it is from
  buf_ready,
  transfer,       \* ext->transfer
  transfer_list,  \* engine->transfer_list
  running,
  (* the processes *)
  file,           \* file[f]: "closed", "open", "stop", "close"
  vma,            \* the file whose process has the buffers mapped, or Null
  pte,            \* the pages (or Null) its page tables point to
  phase,          \* the application's START: "fresh", "started", "stopped"
  order,          \* in which order the application calls, one of Orders
  (* ghosts *)
  heap, allocs, starts,
  overlap,        \* START was called while the engine was running
  bug             \* "none", or what a BUG_ON or a NULL pointer stopped

extVars == <<buf_page, buf_dma_t, desc_copy, fifo_mem, buf_ready>>
runVars == <<desc, dst_addr, transfer, transfer_list, running>>
mapVars == <<vma, pte>>
vars == <<extVars, runVars, kfifo, file, phase, mapVars, order, heap, allocs,
          starts, overlap, bug>>

Null == <<>>
Page(i) == <<"page", i, allocs'>>
Map(i)  == <<"map", i, allocs'>>
Copy    == <<"copy", 0, allocs'>>
Fifo    == <<"fifo", 0, allocs'>>
DescOf(i) == <<"desc", i, starts'>>
Transfer  == <<"transfer", 0, starts'>>

NoPtr == [i \in Desc |-> Null]
Pointees(p) == {p[i] : i \in Desc}

Init ==
  /\ buf_page = NoPtr /\ buf_dma_t = NoPtr
  /\ desc = NoPtr /\ dst_addr = NoPtr
  /\ desc_copy = Null /\ fifo_mem = Null /\ kfifo = <<>> /\ buf_ready = FALSE
  /\ transfer = Null /\ transfer_list = <<>> /\ running = FALSE
  /\ file = [f \in Files |-> "closed"] /\ phase = "fresh"
  /\ vma = Null /\ pte = {}
  /\ order \in Orders
  /\ heap = {} /\ allocs = 0 /\ starts = 0 /\ overlap = FALSE
  /\ bug = "none"

-----------------------------------------------------------------------------
\* char_sgdma_open allocates nothing.
Open(f) ==
  /\ file[f] = "closed"
  /\ order = "any" \/ \A g \in Files : file[g] = "closed"
  /\ file' = [file EXCEPT ![f] = "open"]
  /\ UNCHANGED <<extVars, runVars, kfifo, mapVars, phase, order, heap, allocs,
                 starts, overlap, bug>>

\* What the application allows itself before it calls ALLOC_BUFFERS.
MayAlloc == order = "any" \/ (~buf_ready /\ phase # "started")

\* ALLOC_BUFFERS finds all the memory it needs.
AllocBuffers(f) ==
  /\ file[f] = "open"
  /\ MayAlloc
  /\ allocs < MaxAllocs
  /\ allocs' = allocs + 1
  /\ phase' = "fresh"
  /\ buf_page' = [i \in Desc |-> Page(i)]
  /\ buf_dma_t' = [i \in Desc |-> Map(i)]
  /\ desc_copy' = Copy
  /\ fifo_mem' = Fifo
  /\ kfifo' = <<>>
  /\ buf_ready' = TRUE
  /\ heap' = heap \union {Page(i) : i \in Desc} \union {Map(i) : i \in Desc}
                  \union {Copy, Fifo}
  /\ UNCHANGED <<runVars, file, mapVars, order, starts, overlap, bug>>

\* Mutant: the error path clears only what this call allocated so far.
Err1Partial(page, dma, copy, n) ==
  /\ heap' = (((heap \union Pointees(page) \union Pointees(dma) \union {copy})
                \ {page[i] : i \in 0 .. n - 1}) \ {dma[i] : i \in 0 .. n - 1})
                \ {copy, Null}
  /\ buf_page' = [i \in Desc |-> IF i < n THEN Null ELSE page[i]]
  /\ buf_dma_t' = [i \in Desc |-> IF i < n THEN Null ELSE dma[i]]
  /\ desc_copy' = Null
  /\ buf_ready' = FALSE

\* Label err1 of ALLOC_BUFFERS, reached with these pointers while handling
\* buffer n: whatever they point to is released.
Err1(page, dma, copy, n) ==
  /\ heap' = heap \ (Pointees(page) \union Pointees(dma) \union {copy})
  /\ buf_page' = NoPtr
  /\ buf_dma_t' = NoPtr
  /\ desc_copy' = Null
  /\ buf_ready' = FALSE

\* alloc_pages fails for buffer n, or dma_map_page fails for it, or
\* (n = NOFBUFS) vmalloc fails, or kfifo_alloc fails after vmalloc.
AllocFails(f, n, late) ==
  /\ file[f] = "open"
  /\ MayAlloc
  /\ allocs < MaxAllocs
  /\ allocs' = allocs + 1
  /\ phase' = "fresh"
  /\ LET page == [i \in Desc |-> IF i < n \/ (i = n /\ late) THEN Page(i)
                                 ELSE IF i = n THEN Null ELSE buf_page[i]]
         dma  == [i \in Desc |-> IF i < n THEN Map(i)
                                 ELSE IF i = n /\ late THEN Null
                                 ELSE buf_dma_t[i]]
         copy == IF n < NOFBUFS THEN desc_copy
                 ELSE IF late THEN Copy ELSE Null
     IN  Err1(page, dma, copy, n)
  /\ fifo_mem' = IF n = NOFBUFS /\ late THEN Null ELSE fifo_mem
  /\ kfifo' = IF n = NOFBUFS /\ late THEN <<>> ELSE kfifo
  /\ UNCHANGED <<runVars, file, mapVars, order, starts, overlap, bug>>

-----------------------------------------------------------------------------
\* What it allows itself before START.  A START that failed is followed by a
\* STOP like one that succeeded.
MayStart == \/ order = "any"
            \/ order = "restart" /\ phase # "started"
            \/ order = "tester" /\ phase = "fresh"

\* The descriptor loop of START over 0 .. last: a descriptor left from an
\* earlier START is freed, and buf_dma_t is cleared with it.
CleanedDma(last) ==
  [i \in Desc |-> IF i <= last /\ desc[i] # Null THEN Null ELSE buf_dma_t[i]]
Cleaned(last) == {desc[i] : i \in 0 .. last}

\* START finds the memory it needs: fill the descriptors with the bus
\* addresses of the buffers and queue the transfer; transfer_queue starts the
\* engine if it is not running.
Start(f) ==
  /\ file[f] = "open"
  /\ MayStart
  /\ buf_ready
  /\ starts < MaxStarts
  /\ starts' = starts + 1
  /\ overlap' = (overlap \/ running)
  /\ phase' = "started"
  /\ buf_dma_t' = CleanedDma(NOFBUFS - 1)
  /\ desc' = [i \in Desc |-> DescOf(i)]
  /\ dst_addr' = buf_dma_t'
  /\ transfer' = Transfer
  /\ transfer_list' = Append(transfer_list, Transfer)
  /\ running' = TRUE
  /\ heap' = (heap \ Cleaned(NOFBUFS - 1))
               \union {DescOf(i) : i \in Desc} \union {Transfer}
  /\ UNCHANGED <<buf_page, desc_copy, fifo_mem, buf_ready, kfifo, file,
                 mapVars, order, allocs, bug>>

\* xdma_desc_alloc fails for descriptor n: START leaves at once, without
\* cleaning up the descriptors before it.
StartNoDesc(f, n) ==
  /\ file[f] = "open"
  /\ MayStart
  /\ buf_ready
  /\ starts < MaxStarts
  /\ starts' = starts + 1
  /\ overlap' = (overlap \/ running)
  /\ phase' = "started"
  /\ buf_dma_t' = CleanedDma(n)
  /\ desc' = [i \in Desc |-> IF i < n THEN DescOf(i)
                             ELSE IF i = n THEN Null ELSE desc[i]]
  /\ heap' = (heap \ Cleaned(n)) \union {DescOf(i) : i \in 0 .. n - 1}
  /\ UNCHANGED <<buf_page, desc_copy, fifo_mem, buf_ready, dst_addr, transfer,
                 transfer_list, running, kfifo, file, mapVars, order, allocs,
                 bug>>

\* Mutant: the descriptors stay allocated when there is no transfer.
StartNoTransferKeeps(f) ==
  /\ file[f] = "open"
  /\ MayStart
  /\ buf_ready
  /\ starts < MaxStarts
  /\ starts' = starts + 1
  /\ overlap' = (overlap \/ running)
  /\ phase' = "started"
  /\ buf_dma_t' = CleanedDma(NOFBUFS - 1)
  /\ desc' = NoPtr
  /\ transfer' = Null
  /\ heap' = (heap \ Cleaned(NOFBUFS - 1)) \union {DescOf(i) : i \in Desc}
  /\ UNCHANGED <<buf_page, desc_copy, fifo_mem, buf_ready, dst_addr,
                 transfer_list, running, kfifo, file, mapVars, order, allocs,
                 bug>>

\* kzalloc of the transfer fails: the descriptors are freed again.
StartNoTransfer(f) ==
  /\ file[f] = "open"
  /\ MayStart
  /\ buf_ready
  /\ starts < MaxStarts
  /\ starts' = starts + 1
  /\ overlap' = (overlap \/ running)
  /\ phase' = "started"
  /\ buf_dma_t' = CleanedDma(NOFBUFS - 1)
  /\ desc' = NoPtr
  /\ transfer' = Null
  /\ heap' = heap \ Cleaned(NOFBUFS - 1)
  /\ UNCHANGED <<buf_page, desc_copy, fifo_mem, buf_ready, dst_addr,
                 transfer_list, running, kfifo, file, mapVars, order, allocs,
                 bug>>

-----------------------------------------------------------------------------
\* While the engine runs the worker puts blocks into the kfifo ...
Report ==
  /\ running
  /\ fifo_mem # Null
  /\ Len(kfifo) < NOFBUFS
  /\ kfifo' = Append(kfifo, starts)
  /\ UNCHANGED <<extVars, runVars, file, mapVars, phase, order, heap, allocs,
                 starts, overlap, bug>>

\* ... through a NULL pointer if FREE_BUFFERS was called meanwhile.
ReportNoFifo ==
  /\ running
  /\ fifo_mem = Null
  /\ bug' = "fifo"
  /\ UNCHANGED <<extVars, runVars, kfifo, file, mapVars, phase, order, heap,
                 allocs, starts, overlap>>

Getbuf(f) ==
  /\ file[f] = "open"
  /\ running
  /\ kfifo # <<>>
  /\ kfifo' = Tail(kfifo)
  /\ UNCHANGED <<extVars, runVars, file, mapVars, phase, order, heap, allocs,
                 starts, overlap, bug>>

\* Mutant: the transfer stays on the list.
EngineShutdownKeeps ==
  /\ running
  /\ Head(transfer_list) = transfer
  /\ running' = FALSE
  /\ UNCHANGED <<extVars, desc, dst_addr, transfer, transfer_list, kfifo, file,
                 mapVars, phase, order, heap, allocs, starts, overlap, bug>>

\* The engine is no longer busy (STOP cleared RUN, or an overrun): the worker
\* takes the first transfer off the list and shuts the engine down ...
EngineShutdown ==
  /\ running
  /\ Head(transfer_list) = transfer
  /\ transfer_list' = Tail(transfer_list)
  /\ running' = FALSE
  /\ UNCHANGED <<extVars, desc, dst_addr, transfer, kfifo, file, mapVars,
                 phase, order, heap, allocs, starts, overlap, bug>>

\* ... after BUG_ON(transfer != ext->transfer).
DequeueBug ==
  /\ running
  /\ Head(transfer_list) # transfer
  /\ bug' = "dequeue"
  /\ UNCHANGED <<extVars, runVars, kfifo, file, mapVars, phase, order, heap,
                 allocs, starts, overlap>>

-----------------------------------------------------------------------------
\* Mutant: the loop of STOP runs one descriptor too far.
DmaAfterStopOneMore ==
  [i \in 0 .. NOFBUFS |->
     IF i \in Desc /\ desc[i] = Null THEN buf_dma_t[i] ELSE Null]

\* What STOP releases once the engine is not running, and the DMA addresses
\* it leaves: buf_dma_t is cleared together with the descriptors.
StopReleases == {transfer} \union Pointees(desc)
DmaAfterStop == [i \in Desc |-> IF desc[i] # Null THEN Null ELSE buf_dma_t[i]]

\* What FREE_BUFFERS releases when the DMA addresses are dma.
FreeReleases(dma) ==
  (IF buf_ready THEN Pointees(dma) \union Pointees(buf_page) ELSE {})
    \union {fifo_mem, desc_copy}

\* Mutant: FREE_BUFFERS forgets that it freed the copies of the descriptors.
FreedExtDangling(dma) ==
  /\ buf_page' = IF buf_ready THEN NoPtr ELSE buf_page
  /\ buf_dma_t' = IF buf_ready THEN NoPtr ELSE dma
  /\ fifo_mem' = Null
  /\ kfifo' = <<>>
  /\ buf_ready' = FALSE
  /\ desc_copy' = desc_copy

FreedExt(dma) ==
  /\ buf_page' = IF buf_ready THEN NoPtr ELSE buf_page
  /\ buf_dma_t' = IF buf_ready THEN NoPtr ELSE dma
  /\ fifo_mem' = Null
  /\ kfifo' = <<>>
  /\ buf_ready' = FALSE
  /\ desc_copy' = Null

FreeBuffers(f) ==
  /\ file[f] = "open"
  /\ order = "any" \/ (phase # "started" /\ vma = Null)
  /\ heap' = heap \ FreeReleases(buf_dma_t)
  /\ FreedExt(buf_dma_t)
  /\ UNCHANGED <<runVars, file, mapVars, phase, order, allocs, starts, overlap,
                 bug>>

\* STOP clears RUN and waits for !engine->running ...
StopCall(f) ==
  /\ file[f] = "open"
  /\ file' = [file EXCEPT ![f] = "stop"]
  /\ UNCHANGED <<extVars, runVars, kfifo, mapVars, phase, order, heap, allocs,
                 starts, overlap, bug>>

\* ... then destroys the transfer and frees the descriptors.
StopReturn(f) ==
  /\ file[f] = "stop"
  /\ ~running
  /\ phase' = "stopped"
  /\ file' = [file EXCEPT ![f] = "open"]
  /\ heap' = heap \ StopReleases
  /\ transfer' = Null
  /\ desc' = NoPtr
  /\ buf_dma_t' = DmaAfterStop
  /\ UNCHANGED <<buf_page, desc_copy, fifo_mem, buf_ready, dst_addr,
                 transfer_list, running, kfifo, mapVars, order, allocs,
                 starts, overlap, bug>>

\* The last reference of the file goes away (a mapping holds one).
CloseCall(f) ==
  /\ file[f] = "open"
  /\ vma # <<f>>
  /\ file' = [file EXCEPT ![f] = "close"]
  /\ UNCHANGED <<extVars, runVars, kfifo, mapVars, phase, order, heap, allocs,
                 starts, overlap, bug>>

\* Mutant: wz_engine_cleanup frees the buffers without stopping first.
CleanupFreesOnly(f) ==
  /\ heap' = heap \ FreeReleases(buf_dma_t)
  /\ UNCHANGED <<transfer, desc, dst_addr, transfer_list, running>>
  /\ FreedExt(buf_dma_t)

\* wz_engine_cleanup: STOP, then FREE_BUFFERS.
Cleanup(f) ==
  /\ ~running
  /\ heap' = heap \ (StopReleases \union FreeReleases(DmaAfterStop))
  /\ transfer' = Null
  /\ desc' = NoPtr
  /\ FreedExt(DmaAfterStop)
  /\ UNCHANGED <<dst_addr, transfer_list, running>>

\* char_sgdma_close; it does not ask whether another file uses the engine.
CloseReturn(f) ==
  /\ file[f] = "close"
  /\ Cleanup(f)
  /\ phase' = "stopped"
  /\ file' = [file EXCEPT ![f] = "closed"]
  /\ UNCHANGED <<mapVars, order, allocs, starts, overlap, bug>>

-----------------------------------------------------------------------------
\* Mutant: mmap does not test buf_ready.
MmapAllowedAlways == TRUE

\* The test of char_sgdma_wz_mmap.
MmapAllowed == buf_ready

Mmap(f) ==
  /\ file[f] = "open"
  /\ vma = Null
  /\ MmapAllowed
  /\ vma' = <<f>>
  /\ UNCHANGED <<extVars, runVars, kfifo, file, pte, phase, order,
                 heap, allocs, starts, overlap, bug>>

\* What lies behind buf_page[NOFBUFS - 1] and is taken for a page.
Stray == <<"stray", 0, 0>>

\* swz_mmap_fault at an offset in buffer n.  Only buf_num > NOFBUFS is refused;
\* the test program maps the buffers and no more.
Fault(n) ==
  /\ vma # Null
  /\ n <= NOFBUFS
  /\ order = "any" \/ n \in Desc
  /\ pte' = pte \union {IF n \in Desc THEN buf_page[n] ELSE Stray}
  /\ UNCHANGED <<extVars, runVars, kfifo, file, vma, phase, order, heap,
                 allocs, starts, overlap, bug>>

Munmap ==
  /\ vma # Null
  /\ vma' = Null
  /\ pte' = {}
  /\ UNCHANGED <<extVars, runVars, kfifo, file, phase, order, heap,
                 allocs, starts, overlap, bug>>

-----------------------------------------------------------------------------
Ioctl(f) ==
  \/ AllocBuffers(f)
  \/ \E n \in 0 .. NOFBUFS, late \in BOOLEAN : AllocFails(f, n, late)
  \/ Start(f)
  \/ \E n \in Desc : StartNoDesc(f, n)
  \/ StartNoTransfer(f)
  \/ StopCall(f) \/ StopReturn(f)
  \/ Getbuf(f)
  \/ FreeBuffers(f)

\* After a BUG_ON or a NULL pointer dereference the driver does nothing more.
Next ==
  \/ /\ bug = "none"
     /\ \/ \E f \in Files : \/ Open(f) \/ Ioctl(f) \/ Mmap(f)
                            \/ CloseCall(f) \/ CloseReturn(f)
        \/ Report \/ ReportNoFifo
        \/ EngineShutdown \/ DequeueBug
        \/ \E n \in 0 .. NOFBUFS : Fault(n)
        \/ Munmap
  \/ bug # "none" /\ UNCHANGED vars

Spec == Init /\ [][Next]_vars

-----------------------------------------------------------------------------
Object == {"page", "map", "copy", "fifo", "desc", "transfer"} \X Desc \X Nat
Pointer == Object \union {Null}

\* Types: in particular every pointer is NULL or of an allocation.
TypeOK ==
  /\ buf_page \in [Desc -> Pointer] /\ buf_dma_t \in [Desc -> Pointer]
  /\ desc \in [Desc -> Pointer] /\ dst_addr \in [Desc -> Pointer]
  /\ desc_copy \in Pointer /\ fifo_mem \in Pointer /\ transfer \in Pointer
  /\ kfifo \in Seq(Nat) /\ transfer_list \in Seq(Object)
  /\ buf_ready \in BOOLEAN /\ running \in BOOLEAN
  /\ file \in [Files -> {"closed", "open", "stop", "close"}]
  /\ phase \in {"fresh", "started", "stopped"}
  /\ vma \in {Null} \union {<<f>> : f \in Files}
  /\ pte \subseteq Pointer \union {Stray} /\ order \in Orders
  /\ heap \subseteq Object /\ allocs \in Nat /\ starts \in Nat
  /\ overlap \in BOOLEAN /\ bug \in {"none", "fifo", "dequeue"}

Referenced ==
  Pointees(buf_page) \union Pointees(buf_dma_t) \union Pointees(desc)
    \union {desc_copy, fifo_mem, transfer}
    \union {transfer_list[k] : k \in DOMAIN transfer_list}

\* transfer->desc_virt, which START sets to its first descriptor:
\* engine_cyclic_stop writes through it for the transfer at the head of the list.
DescVirt(x) == <<"desc", 0, x[3]>>

\* Whatever calls follow one another, from one file or several, and wherever
\* memory ran out, no pointer of the extension or of the transfer list is left to
\* something already released: no handler can release it a second time or use it
\* after that.  This includes the descriptor a listed transfer leads to, as long
\* as START was never called while the engine was running: such a START frees the
\* descriptors of the transfer that is still listed.
NoDanglingPointer ==
  /\ Referenced \ {Null} \subseteq heap
  /\ ~overlap =>
       \A k \in DOMAIN transfer_list : DescVirt(transfer_list[k]) \in heap

\* buf_ready tells the truth: when it is set every buffer has a page, the
\* kfifo and the descriptor copies exist, and when it is clear no page is
\* left, since FREE_BUFFERS would not look for one.
BufReadyExact ==
  IF buf_ready
  THEN /\ \A i \in Desc : buf_page[i] # Null
       /\ fifo_mem # Null /\ desc_copy # Null
  ELSE \A i \in Desc : buf_page[i] = Null

\* The engine never writes into memory that was given back: while it runs,
\* every descriptor leads it to a mapped page that is still allocated, also
\* when the process is killed and close() cleans up.
DmaIntoLiveBuffers ==
  order = "tester" /\ running => \A i \in Desc :
    dst_addr[i] \in heap /\ buf_page[i] \in heap /\ desc[i] \in heap

\* The pages in the application's page tables are pages of the buffers that
\* are still allocated (vm_insert_pfn takes no reference to them).
MappedPagesLive == order # "any" => pte \subseteq heap

\* When the last file is closed nothing of the extension is left allocated.
\* Not claimed of DMA mappings: STOP clears buf_dma_t (wz-xdma.c:410), so that
\* FREE_BUFFERS finds none to unmap.
NothingLeft ==
  order # "any" /\ (\A f \in Files : file[f] = "closed")
    => \A o \in heap : o[1] = "map"

\* "Fill the descriptors with data of our buffers." (wz-xdma.c:265): a running
\* engine's descriptors lead to the buffers.
DescriptorsFilled ==
  running => \A i \in Desc : dst_addr[i] # Null

\* An application that stops before it starts again and frees what it stopped
\* runs into neither the BUG_ON(transfer != ext->transfer) of the worker
\* (wz-xdma.c:491) nor a kfifo that is gone, whatever fails and whenever it
\* is killed.
NoBug == order # "any" => bug = "none"

=============================================================================
