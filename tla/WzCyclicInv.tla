---------------------------- MODULE WzCyclicInv ----------------------------
(***************************************************************************)
(* Inductive invariants of WzCyclic, the strengthenings from which the     *)
(* properties of WzCyclic are proved in WzCyclicProofs.                    *)
(***************************************************************************)
EXTENDS WzCyclic

(***************************************************************************)
(* The interrupt path, whatever the application does.  The mask register   *)
(* splits the time between the engine's events and the worker's passes:    *)
(* unmasked, every latched event has its message on the way; masked, one   *)
(* pass of the worker is due and will unmask.                              *)
(***************************************************************************)
IrqInv ==
  /\ irq_mask => (event <=> msi) /\ ~queued /\ wpc = "idle"
  /\ ~irq_mask => ~msi /\ irq_saved /\ (queued <=> wpc = "idle")
  /\ running /\ wpc # "idle" /\ ~status => ~busy /\ ~event
  /\ ~running => irq_mask /\ ~event /\ ~busy
  /\ session \in {"ready", "stopped"} => ~running
  /\ EngineStopNoticed

-----------------------------------------------------------------------------
\* The blocks of the kfifo along the ring, whatever the application does.
ChainInv == BlocksChained /\ (session = "ready" => kfifo = <<>>)

-----------------------------------------------------------------------------
(***************************************************************************)
(* The ring while an acquisition lasts and the application keeps up.  From *)
(* block_first_desc the ring consists of                                   *)
(*   (block_first_desc, fill_desc)  filled, not reported;                  *)
(*   (fill_desc, fetch_desc)        fetched by the engine;                 *)
(*   the rest: free descriptors and reported blocks, in any mix, because   *)
(*   blocks may be confirmed in any order.                                 *)
(***************************************************************************)
Live == session \in {"run", "stopping"}

InB(i, b) == InBlock(i, b.first_desc, b.last_desc)
InConf(i) == cpc # "idle" /\ InBlock(i, conf_desc, conf_last)
Unreported(i) == InRing(i, block_first_desc, fill_desc)
Disjoint(b, c) == \A i \in Desc : ~(InB(i, b) /\ InB(i, c))

RingInv ==
  /\ control[fill_desc] = Magic
  /\ \A i \in Desc : InRing(i, fill_desc, fetch_desc) => control[i] = Magic
  /\ \A i \in Desc : Unreported(i) => IsWb(control[i])
  /\ Dist(block_first_desc, block_scanned_desc)
       <= Dist(block_first_desc, fill_desc)
  /\ wpc = "scan" => Dist(block_first_desc, check_desc)
                       <= Dist(block_first_desc, fill_desc)

\* What the buffers contain, counted in fills.
StampInv ==
  /\ fills = reported + Dist(block_first_desc, fill_desc)
  /\ \A i \in Desc :
       Unreported(i) => stamp[i] = reported + 1 + Dist(block_first_desc, i)

\* A buffer that is out with the application: written back, not to be scanned.
Out(i) == IsWb(control[i]) /\ ~Unreported(i)

\* Reported blocks own their buffers exclusively.
BlockInv ==
  /\ \A k \in DOMAIN kfifo : \A i \in Desc : InB(i, kfifo[k]) => Out(i)
  /\ \A b \in held : \A i \in Desc : InB(i, b) => Out(i)
  /\ \A i \in Desc : InConf(i) => Out(i)
  /\ \A k, l \in DOMAIN kfifo : k # l => Disjoint(kfifo[k], kfifo[l])
  /\ \A b, c \in held : b # c => Disjoint(b, c)
  /\ \A b \in held : \A k \in DOMAIN kfifo : Disjoint(b, kfifo[k])
  /\ \A b \in OutBlocks : \A i \in Desc : ~(InB(i, b) /\ InConf(i))

\* The kfifo holds exactly the fills delivered+1 .. reported.
QueueInv ==
  /\ \A k \in 1 .. Len(kfifo) - 1 : kfifo[k + 1].lo = kfifo[k].hi + 1
  /\ Len(kfifo) > 0 => kfifo[1].lo = delivered + 1
  /\ Len(kfifo) > 0 => kfifo[Len(kfifo)].hi = reported
  /\ Len(kfifo) = 0 => delivered = reported

\* A descriptor being confirmed has its bytes before its MAGIC.
BytesInv == cpc = "control" => bytes[conf_desc] = "full"

KeepUpInv ==
  /\ MagicMeansComplete /\ BytesInv
  /\ HeldDataIntact
  /\ QueueInv
  /\ session # "run" => cpc = "idle"
  /\ session = "ready" => fills = 0 /\ reported = 0 /\ kfifo = <<>> /\ held = {}
  /\ Live => RingInv /\ StampInv /\ BlockInv

=============================================================================
