--------------------------- MODULE TransferBuild ---------------------------
(***************************************************************************)
(* From a user buffer to descriptors: char_sgdma_read_write checks the     *)
(* request, transfer_data cuts it into transfers, and transfer_create pins *)
(* the pages (xdma-sgm.c), maps them for the device and turns runs of      *)
(* contiguous entries into descriptors (xdma-core.c).  Queueing a transfer *)
(* and waiting for it is SgPoll; here a transfer just ends.                *)
(*                                                                         *)
(* Addresses and lengths count units; a page has PageSize of them.         *)
(***************************************************************************)
EXTENDS Integers, Sequences, FiniteSetsExt

CONSTANTS
  PageSize,
  DescMax,      \* XDMA_DESC_MAX_BYTES
  TransferMax,  \* XDMA_TRANSFER_MAX_BYTES
  MaxExtraAdj,  \* MAX_EXTRA_ADJ
  DescPerPage,  \* descriptors in a 4 KB page
  Frames,       \* page frames (bus addresses) a user page may lie in
  Requests      \* the requests: user address, length, device address, whether
                \* the direction is the engine's; engine->streaming,
                \* non_incr_addr, addr_align and len_granularity

ASSUME SizeAssumption ==
  /\ PageSize \in Nat \ {0} /\ DescMax \in Nat /\ DescMax >= PageSize
  /\ TransferMax \in Nat \ {0} /\ TransferMax % PageSize = 0
  /\ MaxExtraAdj \in Nat /\ DescPerPage \in Nat /\ DescPerPage > MaxExtraAdj
ASSUME FrameAssumption == Frames \subseteq Nat
\* An alignment is a power of two of at most 8 bits (engine_alignments): it
\* divides the page size.
ASSUME RequestAssumption ==
  /\ Requests \subseteq [buf : Nat, count : Nat, pos : Nat, dir_ok : BOOLEAN,
                         streaming : BOOLEAN, non_incr : BOOLEAN,
                         align : Nat \ {0}, granularity : Nat \ {0}]
  /\ \A r \in Requests : PageSize % r.align = 0

VARIABLES
  req,           \* the request
  pc,            \* the next step, or how the request ended
  done,          \* units moved by the transfers before this one
  transfer_len,
  pages,         \* frames of the pages pinned for this transfer
  rest,          \* "count" of sgm_get_user_pages: not yet in the scatterlist
  sgl,           \* the scatterlist as mapped for the device
  i,             \* the entry transfer_build looks at
  cont_addr, cont_len, ep_addr,
  desc           \* descriptors filled in

reqVars   == <<req, done, transfer_len>>
sgVars    == <<pages, rest, sgl>>
buildVars == <<i, cont_addr, cont_len, ep_addr, desc>>
vars == <<pc, reqVars, sgVars, buildVars>>

Init ==
  /\ req \in Requests
  /\ pc = "check" /\ done = 0 /\ transfer_len = 0
  /\ pages = <<>> /\ rest = 0 /\ sgl = <<>>
  /\ i = 1 /\ cont_addr = 0 /\ cont_len = 0 /\ ep_addr = 0 /\ desc = <<>>

-----------------------------------------------------------------------------
\* check_transfer_align; masks with align - 1 are remainders, alignments being
\* powers of two.
Aligned ==
  LET lsb(x) == x % req.align
  IN  IF req.streaming \/ req.non_incr
      THEN /\ lsb(req.buf) = 0
           /\ req.streaming \/ lsb(req.pos) = 0
           /\ req.count % req.granularity = 0
      ELSE lsb(req.buf) = lsb(req.pos)

Refuse ==
  /\ pc = "check"
  /\ ~req.dir_ok \/ ~Aligned
  /\ pc' = "EINVAL"
  /\ UNCHANGED <<reqVars, sgVars, buildVars>>

Accept ==
  /\ pc = "check"
  /\ req.dir_ok /\ Aligned
  /\ pc' = "next"
  /\ UNCHANGED <<reqVars, sgVars, buildVars>>

\* transfer_data's loop ends.
Return ==
  /\ pc = "next"
  /\ done = req.count
  /\ pc' = "ok"
  /\ UNCHANGED <<reqVars, sgVars, buildVars>>

-----------------------------------------------------------------------------
(***************************************************************************)
(* transfer_create: the mapper and the pages.                              *)
(***************************************************************************)
Address == req.buf + done            \* transfer_addr
FirstPage == Address \div PageSize
Offset == Address % PageSize         \* offset_in_page(start)

NrPages == (Address + transfer_len - 1) \div PageSize - FirstPage + 1

\* Mutant: one page less than the buffer may touch.
MaxPagesOneLess == transfer_len \div PageSize + 1

\* sg_create_mapper: the upper bound of pages
MaxPages == transfer_len \div PageSize + 2

\* transfer_data decides on the length and calls transfer_create.
BeginTransfer ==
  /\ pc = "next"
  /\ done < req.count
  /\ transfer_len' = Min({req.count - done, TransferMax})
  /\ pc' = "pin"
  /\ UNCHANGED <<req, done, sgVars, buildVars>>

\* kzalloc of the transfer fails: -EIO.
NoTransfer ==
  /\ pc = "next"
  /\ done < req.count
  /\ pc' = "EIO"
  /\ UNCHANGED <<reqVars, sgVars, buildVars>>

\* sgm_get_user_pages finds all pages; with more than max_pages it would return
\* -EINVAL, on which transfer_create has a BUG_ON.
Pin ==
  /\ pc = "pin"
  /\ IF NrPages > MaxPages
     THEN pc' = "bug" /\ UNCHANGED <<sgVars, buildVars>>
     ELSE /\ pages' \in [1 .. NrPages -> Frames]
          /\ rest' = transfer_len
          /\ sgl' = <<>>
          /\ i' = 1
          /\ pc' = "map"
          /\ UNCHANGED <<cont_addr, cont_len, ep_addr, desc>>
  /\ UNCHANGED reqVars

\* No memory for the mapper, or a page that cannot be pinned: the pages are put
\* again and transfer_create meets a BUG_ON.
PinFails ==
  /\ pc = "pin"
  /\ pc' = "oom"
  /\ UNCHANGED <<reqVars, sgVars, buildVars>>

\* the length sgm_get_user_pages gives the entry of page n
EntryLength(n) ==
  IF n = 1 /\ Len(pages) > 1 THEN PageSize - Offset
  ELSE IF n < Len(pages) THEN PageSize
  ELSE rest

\* BUG_ON(count < PAGE_SIZE) and BUG_ON(count > PAGE_SIZE)
EntryBug(n) ==
  /\ n > 1
  /\ IF n < Len(pages) THEN rest < PageSize ELSE rest > PageSize

\* The entry of page i goes into the scatterlist, and pci_map_sg (external) maps
\* it: as an entry of its own, or merged with the one before if the two are
\* contiguous.
MapPage ==
  LET addr == pages[i] * PageSize + (IF i = 1 THEN Offset ELSE 0)
      len == EntryLength(i)
      n == Len(sgl)
      entry == [addr |-> addr, len |-> len]
  IN  /\ pc = "map"
      /\ i <= Len(pages)
      /\ IF EntryBug(i)
         THEN pc' = "bug" /\ UNCHANGED <<rest, i, sgl>>
         ELSE /\ \/ sgl' = Append(sgl, entry)
                 \/ /\ n > 0
                    /\ sgl[n].addr + sgl[n].len = addr
                    /\ sgl' = [sgl EXCEPT ![n].len = @ + len]
              /\ rest' = rest - len
              /\ i' = i + 1
              /\ UNCHANGED pc
      /\ UNCHANGED <<reqVars, pages, cont_addr, cont_len, ep_addr, desc>>

\* pci_map_sg or xdma_desc_alloc fails: BUG_ON(number < 1), or transfer_build
\* writes through a NULL pointer.
MapFails ==
  /\ pc = "map"
  /\ i > Len(pages)
  /\ pc' = "oom"
  /\ UNCHANGED <<reqVars, sgVars, buildVars>>

-----------------------------------------------------------------------------
(***************************************************************************)
(* transfer_build and the rest of transfer_create.                         *)
(***************************************************************************)

\* The start of transfer_build, with the descriptor list allocated.
StartBuild ==
  /\ pc = "map"
  /\ i > Len(pages)
  /\ i' = 1
  /\ cont_addr' = sgl[1].addr
  /\ cont_len' = 0
  /\ ep_addr' = req.pos + done
  /\ desc' = <<>>
  /\ pc' = "build"
  /\ UNCHANGED <<reqVars, sgVars>>

\* Mutant: the block is closed only when it has exceeded the maximum.
NewDescLate(next, len) ==
  \/ next # sgl[i].addr + sgl[i].len
  \/ len > DescMax

\* A block of len units ends with entry i: the next entry is not contiguous, or
\* might make the descriptor too long.
NewDesc(next, len) ==
  \/ next # sgl[i].addr + sgl[i].len
  \/ len > DescMax - PageSize

\* xdma_desc_set
DescSet(len) == Append(desc, [rc |-> cont_addr, ep |-> ep_addr, len |-> len])

\* Mutant: the length of the block is not reset.
BuildEntryKeepLen ==
  LET next == sgl[i + 1].addr
      len == cont_len + sgl[i].len
  IN  /\ pc = "build"
      /\ i < Len(sgl)
      /\ \/ /\ NewDesc(next, len)
            /\ desc' = DescSet(len)
            /\ ep_addr' = IF req.non_incr THEN ep_addr ELSE ep_addr + len
            /\ cont_addr' = next
            /\ cont_len' = len
         \/ /\ ~NewDesc(next, len)
            /\ cont_len' = len
            /\ UNCHANGED <<desc, ep_addr, cont_addr>>
      /\ i' = i + 1
      /\ UNCHANGED <<pc, reqVars, sgVars>>

\* One iteration of the loop over all entries but the last.
BuildEntry ==
  LET next == sgl[i + 1].addr
      len == cont_len + sgl[i].len
  IN  /\ pc = "build"
      /\ i < Len(sgl)
      /\ \/ /\ NewDesc(next, len)
            /\ desc' = DescSet(len)
            /\ ep_addr' = IF req.non_incr THEN ep_addr ELSE ep_addr + len
            /\ cont_addr' = next
            /\ cont_len' = 0
         \/ /\ ~NewDesc(next, len)
            /\ cont_len' = len
            /\ UNCHANGED <<desc, ep_addr, cont_addr>>
      /\ i' = i + 1
      /\ UNCHANGED <<pc, reqVars, sgVars>>

\* The last entry, with BUG_ON(j > sgl_nents); then transfer_create terminates
\* the list, fills in the adjacent numbers, and the transfer is queued.
BuildLast ==
  /\ pc = "build"
  /\ i = Len(sgl)
  /\ IF Len(desc) > Len(sgl)
     THEN pc' = "bug" /\ UNCHANGED desc
     ELSE pc' = "queued" /\ desc' = DescSet(cont_len + sgl[i].len)
  /\ UNCHANGED <<reqVars, sgVars, i, cont_addr, cont_len, ep_addr>>

\* xdma_desc_adjacent(desc + k, n - k - 1) for a list of n descriptors in pages
\* of their own: how many descriptors may be fetched together with the next one.
Adjacent(k, n) ==
  IF n - k - 1 > 0
  THEN Min({n - k - 2, MaxExtraAdj, DescPerPage - ((k + 1) % DescPerPage) - 1})
  ELSE 0

\* first_desc_adjacent, written by engine_start
FirstAdjacent(n) == Min({n - 1, MaxExtraAdj})

-----------------------------------------------------------------------------
\* transfer_destroy: unmapped, dirtied and put.
Destroy == pages' = <<>>

\* The transfer was completed: transfer_destroy, and the loop goes on.
Complete ==
  /\ pc = "queued"
  /\ Destroy
  /\ done' = done + transfer_len
  /\ pc' = "next"
  /\ UNCHANGED <<req, transfer_len, rest, sgl, buildVars>>

\* It failed: transfer_destroy, and the request returns -EIO.
Fail ==
  /\ pc = "queued"
  /\ Destroy
  /\ pc' = "EIO"
  /\ UNCHANGED <<reqVars, rest, sgl, buildVars>>

\* The wait was interrupted: the transfer may be in flight and stays.  (A wait
\* that ends without error and leaves the transfer submitted is SgPoll's matter:
\* it takes a second caller.)
Interrupted ==
  /\ pc = "queued"
  /\ pc' = "ERESTARTSYS"
  /\ UNCHANGED <<reqVars, sgVars, buildVars>>

Ended == {"ok", "EINVAL", "EIO", "ERESTARTSYS", "oom", "bug"}

Finished == pc \in Ended /\ UNCHANGED vars

Next == \/ Refuse \/ Accept \/ Return
        \/ BeginTransfer \/ NoTransfer \/ Pin \/ PinFails \/ MapPage \/ MapFails
        \/ StartBuild \/ BuildEntry \/ BuildLast
        \/ Complete \/ Fail \/ Interrupted
        \/ Finished

Spec == Init /\ [][Next]_vars

-----------------------------------------------------------------------------
\* the bus address of the unit at offset o of the request, from the page tables
BusAddress(o) ==
  pages[(req.buf + o) \div PageSize - FirstPage + 1] * PageSize
    + ((req.buf + o) % PageSize)

\* where in the transfer descriptor k begins
Before[k \in 1 .. Len(desc) + 1] ==
  IF k = 1 THEN 0 ELSE Before[k - 1] + desc[k - 1].len

\* A transfer that is queued moves exactly its part of the user buffer: taken in
\* order its descriptors go through it without gap or overlap, every unit at the
\* bus address of the page it lies in, and from the device address the request
\* has come to; wherever the pages lie and however pci_map_sg merges them.  With
\* an address that does not increment all descriptors of a transfer have the
\* same one, in the first transfer of a request the one asked for.  (Of later
\* transfers that is not claimed: transfer_data adds transfer_len to *pos in
\* this mode too.)
BufferCovered ==
  pc = "queued" =>
    /\ Before[Len(desc) + 1] = transfer_len
    /\ \A k \in DOMAIN desc :
         LET o == done + Before[k]
         IN  /\ \A u \in 0 .. desc[k].len - 1 :
                  BusAddress(o + u) = desc[k].rc + u
             /\ ~req.non_incr => desc[k].ep = req.pos + o
             /\ req.non_incr => /\ desc[k].ep = desc[1].ep
                                /\ done = 0 => desc[k].ep = req.pos

\* The engine can work with every descriptor of a queued transfer.  None is
\* longer than XDMA_DESC_MAX_BYTES as long as pci_map_sg merged no pages (the
\* test leaves room for one page only); none is empty; host and device address
\* are aligned as check_transfer_align found the request to be; and no fetch of
\* adjacent descriptors goes beyond the list or into another 4 KB page.
DescriptorsUsable ==
  pc = "queued" =>
    LET n == Len(desc)
        lsb(x) == x % req.align
    IN  /\ \A k \in 1 .. n :
             /\ desc[k].len > 0
             /\ (\A e \in DOMAIN sgl : sgl[e].len <= PageSize)
                  => desc[k].len <= DescMax
             /\ IF req.streaming \/ req.non_incr
                THEN lsb(desc[k].rc) = 0
                ELSE lsb(desc[k].rc) = lsb(desc[k].ep)
        /\ FirstAdjacent(n) < Min({n, DescPerPage})
        /\ \A k \in 0 .. n - 2 :
             /\ k + 1 + Adjacent(k, n) < n
             /\ (k + 1) \div DescPerPage
                  = (k + 1 + Adjacent(k, n)) \div DescPerPage

\* No BUG_ON about page counts, lengths or the number of descriptors is ever
\* met, only those about a failed allocation; and a request that returned has
\* put all pages it pinned, except that an interrupted one leaves the pages of
\* the transfer in flight to the engine.
CleanReturn ==
  /\ pc # "bug"
  /\ pc \in {"ok", "EINVAL", "EIO"} => pages = <<>>
  /\ pc = "ERESTARTSYS" => Len(pages) = NrPages
  /\ pc = "ok" => done = req.count

=============================================================================
