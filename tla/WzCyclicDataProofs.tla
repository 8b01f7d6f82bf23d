------------------------ MODULE WzCyclicDataProofs ------------------------
(***************************************************************************)
(* The data path of WzCyclic when the application keeps up: reported data  *)
(* is not overwritten, nothing is reported twice, skipped or reordered.    *)
(* The inductive invariant is KeepUpInv; IrqInv tells that a busy engine   *)
(* belongs to a running acquisition.  As in WzCyclicProofs, what concerns  *)
(* the kfifo holds of the code for a single reader.                        *)
(***************************************************************************)
EXTENDS WzCyclicProofs, SequenceTheorems, FiniteSetTheorems

\* The variables KeepUpInv speaks of, but for the worker's position.
dataVars == <<control, bytes, stamp, fetch_desc, fill_desc, fills, reported,
              block_first_desc, block_scanned_desc, kfifo, held, delivered,
              cpc, conf_desc, conf_last, session>>

-----------------------------------------------------------------------------
\* The inductive invariant holds before START.
LEMMA KeepInit == TypeOK /\ Init => KeepUpInv
  BY DEF Init, KeepUpInv, MagicMeansComplete, BytesInv, HeldDataIntact, OutBlocks,
         QueueInv, Live, Magic, Freed

\* Only RingInv depends on where the worker is.
LEMMA KeepParts ==
  ASSUME KeepUpInv, UNCHANGED dataVars
  PROVE  /\ MagicMeansComplete' /\ BytesInv' /\ HeldDataIntact' /\ QueueInv'
         /\ Live => StampInv' /\ BlockInv'
<1> USE DEF dataVars
<1>1. MagicMeansComplete' /\ BytesInv' /\ HeldDataIntact' /\ QueueInv'
  BY DEF KeepUpInv, MagicMeansComplete, BytesInv, HeldDataIntact, OutBlocks,
         QueueInv
<1>2. ASSUME Live PROVE StampInv'
  BY <1>2 DEF KeepUpInv, StampInv, Unreported
<1>3. ASSUME Live PROVE BlockInv'
  BY <1>3 DEF KeepUpInv, BlockInv, Unreported, Out, InB, InConf, Disjoint,
              OutBlocks
<1> QED
  BY <1>1, <1>2, <1>3

\* A step that leaves the data variables alone and does not move the worker
\* preserves the invariant.
LEMMA KeepUnchanged ==
  ASSUME KeepUpInv, UNCHANGED dataVars,
         wpc' = "scan" => wpc = "scan" /\ UNCHANGED check_desc
  PROVE  KeepUpInv'
<1>1. ASSUME Live PROVE RingInv'
  BY <1>1 DEF KeepUpInv, RingInv, Unreported, dataVars
<1> QED
  BY <1>1, KeepParts DEF KeepUpInv, Live, dataVars

\* Start: an empty ring, everything free.
LEMMA KeepStart == TypeOK /\ KeepUpInv /\ Start => KeepUpInv'
<1> SUFFICES ASSUME TypeOK, KeepUpInv, Start PROVE KeepUpInv'
  OBVIOUS
<1>1. /\ control' = [i \in Desc |-> Magic] /\ bytes' = [i \in Desc |-> "full"]
      /\ block_first_desc' = 0 /\ block_scanned_desc' = 0
      /\ fetch_desc' = 0 /\ fill_desc' = 0 /\ session' = "run"
      /\ fills' = 0 /\ reported' = 0 /\ kfifo' = <<>> /\ held' = {}
      /\ delivered' = delivered /\ cpc' = "idle" /\ wpc' = "idle"
  BY DEF Start, KeepUpInv, workVars
<1>2. \A i \in Desc : ~InRing(i, 0, 0)
  BY DistType, DescIsNat DEF InRing
<1>3. Dist(0, 0) = 0
  BY DistType, DescIsNat
<1>4. MagicMeansComplete' /\ BytesInv' /\ HeldDataIntact'
  BY <1>1 DEF MagicMeansComplete, BytesInv, HeldDataIntact, OutBlocks
<1>5. QueueInv'
  BY <1>1 DEF Start, KeepUpInv, QueueInv
<1>6. RingInv' /\ StampInv'
  BY <1>1, <1>2, <1>3, DescIsNat DEF RingInv, StampInv, Unreported
<1>7. BlockInv'
  BY <1>1 DEF BlockInv, InConf, OutBlocks
<1> QED
  BY <1>1, <1>4, <1>5, <1>6, <1>7 DEF KeepUpInv

\* HwFetch: the fetched stretch grows by a descriptor with MAGIC.
LEMMA KeepFetch == TypeOK /\ IrqInv /\ KeepUpInv /\ HwFetch => KeepUpInv'
<1> SUFFICES ASSUME TypeOK, IrqInv, KeepUpInv, HwFetch PROVE KeepUpInv'
  OBVIOUS
<1> USE DEF ringVars, irqVars, workVars, extVars, appVars
<1>1. Live
  BY DEF HwFetch, IrqInv, Live, TypeOK
<1>2. /\ fetch_desc' = NextDesc(fetch_desc)
      /\ control[fetch_desc] = Magic
      /\ Dist(fill_desc, fetch_desc) < Prefetch
      /\ UNCHANGED <<control, bytes, stamp, fill_desc, fills, reported,
              block_first_desc, block_scanned_desc, kfifo, held, delivered,
              cpc, conf_desc, conf_last, session, wpc, check_desc>>
  BY DEF HwFetch
<1>3. fill_desc \in Desc /\ fetch_desc \in Desc
  BY DEF TypeOK
<1>4. NextDesc(fetch_desc) # fill_desc
  <2>1. Dist(fill_desc, fetch_desc) < NOFBUFS - 1
    BY <1>2, <1>3, DistType, PrefetchAssumption, NofbufsType
  <2> QED
    BY <1>3, <2>1, NextDescNotStart
<1>5. \A i \in Desc : InRing(i, fill_desc, fetch_desc') => control[i] = Magic
  BY <1>1, <1>2, <1>3, <1>4, InRingNextEnd DEF KeepUpInv, RingInv
<1>6. RingInv'
  BY <1>1, <1>2, <1>5 DEF KeepUpInv, RingInv, Unreported
<1>7. StampInv'
  BY <1>1, <1>2 DEF KeepUpInv, StampInv, Unreported
<1>8. BlockInv'
  BY <1>1, <1>2 DEF KeepUpInv, BlockInv, Unreported, Out, InB, InConf, Disjoint,
                OutBlocks
<1>9. MagicMeansComplete' /\ BytesInv' /\ HeldDataIntact' /\ QueueInv'
  BY <1>2 DEF KeepUpInv, MagicMeansComplete, BytesInv, HeldDataIntact, OutBlocks,
         QueueInv
<1> QED
  BY <1>2, <1>6, <1>7, <1>8, <1>9 DEF KeepUpInv

\* HwComplete: the filled stretch grows by fill_desc.  KeepUp keeps it from
\* meeting the block under assembly.
LEMMA KeepComplete ==
  ASSUME KeepUp, TypeOK, IrqInv, KeepUpInv, NEW eop \in BOOLEAN, HwComplete(eop)
  PROVE  KeepUpInv'
<1> USE DEF workVars, extVars, appVars
<1>1. Live
  BY DEF HwComplete, IrqInv, Live, TypeOK
<1>2. RingInv /\ StampInv /\ BlockInv
  BY <1>1 DEF KeepUpInv
<1>3. /\ fill_desc # fetch_desc
      /\ control[NextDesc(fill_desc)] = Magic
      /\ control' = [control EXCEPT ![fill_desc] = IF eop THEN WbEop ELSE Wb]
      /\ bytes' = [bytes EXCEPT ![fill_desc] = "length"]
      /\ stamp' = [stamp EXCEPT ![fill_desc] = fills + 1]
      /\ fills' = fills + 1
      /\ fill_desc' = NextDesc(fill_desc)
      /\ UNCHANGED <<fetch_desc, reported, block_first_desc,
                     block_scanned_desc, kfifo, held, delivered, cpc,
                     conf_desc, conf_last, session, wpc, check_desc>>
  BY DEF HwComplete
<1>4. /\ fill_desc \in Desc /\ fetch_desc \in Desc
      /\ block_first_desc \in Desc /\ block_scanned_desc \in Desc
      /\ check_desc \in Desc /\ conf_desc \in Desc /\ conf_last \in Desc
      /\ NextDesc(fill_desc) \in Desc /\ NextDesc(fill_desc) # fill_desc
  BY NextDescType DEF TypeOK
<1>5. NextDesc(fill_desc) # block_first_desc
  <2> SUFFICES ASSUME NextDesc(fill_desc) = block_first_desc PROVE FALSE
    OBVIOUS
  <2>1. Unreported(block_first_desc)
    BY <1>4, DistType DEF Unreported, InRing
  <2> QED
    BY <1>2, <1>3, <1>4, <2>1 DEF RingInv, IsWb, Magic, Wb, WbEop
<1>6. \A i \in Desc : Unreported(i)' <=> Unreported(i) \/ i = fill_desc
  BY <1>3, <1>4, <1>5, InRingNextEnd DEF Unreported
<1>7. /\ Dist(block_first_desc, fill_desc')
           = Dist(block_first_desc, fill_desc) + 1
      /\ Dist(block_first_desc, fill_desc) \in Nat
  BY <1>3, <1>4, <1>5, DistNextEnd, DistType
<1>8. /\ IsWb(control'[fill_desc])
      /\ \A i \in Desc : i # fill_desc => /\ control'[i] = control[i]
                                          /\ bytes'[i] = bytes[i]
                                          /\ stamp'[i] = stamp[i]
  BY <1>3, <1>4 DEF TypeOK, IsWb
<1>9. \A i \in Desc : Out(i) => i # fill_desc /\ Out(i)'
  BY <1>2, <1>6, <1>8 DEF Out, RingInv, IsWb, Magic, Wb, WbEop
<1>10. RingInv'
  <2>1. control'[fill_desc'] = Magic
    BY <1>3, <1>4, <1>8
  <2>2. \A i \in Desc : InRing(i, fill_desc', fetch_desc) => control'[i] = Magic
    BY <1>2, <1>3, <1>4, <1>8, InRingNextStart DEF RingInv
  <2>3. \A i \in Desc : Unreported(i)' => IsWb(control'[i])
    BY <1>2, <1>6, <1>8 DEF RingInv
  <2>4. /\ Dist(block_first_desc, block_scanned_desc)
             <= Dist(block_first_desc, fill_desc')
        /\ wpc = "scan" => Dist(block_first_desc, check_desc)
                             <= Dist(block_first_desc, fill_desc')
    BY <1>2, <1>4, <1>7, DistType DEF RingInv
  <2> QED
    BY <1>3, <2>1, <2>2, <2>3, <2>4 DEF RingInv
<1>11. StampInv'
  <2>1. fills' = reported' + Dist(block_first_desc', fill_desc')
    BY <1>2, <1>3, <1>7 DEF StampInv, TypeOK
  <2>2. stamp'[fill_desc] = reported + 1 + Dist(block_first_desc, fill_desc)
    BY <1>2, <1>3, <1>4, <1>7 DEF StampInv, TypeOK
  <2>3. ASSUME NEW i \in Desc, Unreported(i)'
        PROVE  stamp'[i] = reported + 1 + Dist(block_first_desc, i)
    BY <1>2, <1>6, <1>8, <2>2, <2>3 DEF StampInv
  <2> QED
    BY <1>3, <2>1, <2>3 DEF StampInv
<1>12. BlockInv'
  BY <1>2, <1>3, <1>9 DEF BlockInv, InB, InConf, Disjoint, OutBlocks
<1>13. MagicMeansComplete'
  BY <1>8 DEF KeepUpInv, MagicMeansComplete, IsWb, Magic, Wb, WbEop
<1>14. BytesInv'
  <2>1. cpc # "idle" => Out(conf_desc)
    BY <1>2, <1>4, DistType DEF BlockInv, InConf, InBlock
  <2> QED
    BY <1>3, <1>4, <1>8, <1>9, <2>1 DEF KeepUpInv, BytesInv
<1>15. HeldDataIntact'
  <2>1. ASSUME NEW b \in OutBlocks, NEW i \in Desc, InB(i, b) PROVE Out(i)
    BY <1>2, <2>1 DEF BlockInv, OutBlocks
  <2> QED
    BY <1>3, <1>8, <1>9, <2>1
       DEF KeepUpInv, HeldDataIntact, OutBlocks, InB
<1>16. QueueInv'
  BY <1>3 DEF KeepUpInv, QueueInv
<1> QED
  BY <1>1, <1>3, <1>10, <1>11, <1>12, <1>13, <1>14, <1>15, <1>16
     DEF KeepUpInv, Live

\* ScanReport: the stretch block_first_desc .. check_desc becomes a block.
LEMMA KeepReport == TypeOK /\ IrqInv /\ KeepUpInv /\ ScanReport => KeepUpInv'
<1> SUFFICES ASSUME TypeOK, IrqInv, KeepUpInv, ScanReport PROVE KeepUpInv'
  OBVIOUS
<1> USE DEF ringVars, hwVars, appVars
<1> DEFINE n == NextDesc(check_desc)
           B == AssembledBlock
<1>1. Live
  BY DEF ScanReport, IrqInv, Live, TypeOK
<1>2. RingInv /\ StampInv /\ BlockInv
  BY <1>1 DEF KeepUpInv
<1>3. /\ wpc = "scan" /\ wpc' = "scan"
      /\ control[check_desc] = WbEop
      /\ kfifo' = Append(kfifo, B)
      /\ reported' = stamp[check_desc]
      /\ check_desc' = n /\ block_first_desc' = n /\ block_scanned_desc' = n
      /\ UNCHANGED <<control, bytes, stamp, fetch_desc, fill_desc, fills, held,
                     delivered, cpc, conf_desc, conf_last, session>>
  BY DEF ScanReport
<1>4. /\ fill_desc \in Desc /\ block_first_desc \in Desc
      /\ check_desc \in Desc /\ n \in Desc
      /\ kfifo \in Seq(Block) /\ stamp \in [Desc -> Nat] /\ reported \in Nat
  BY NextDescType DEF TypeOK
<1>5. Dist(block_first_desc, check_desc) < Dist(block_first_desc, fill_desc)
  <2>1. check_desc # fill_desc
    BY <1>2, <1>3 DEF RingInv, Magic, WbEop
  <2>2. Dist(block_first_desc, check_desc) <= Dist(block_first_desc, fill_desc)
    BY <1>2, <1>3 DEF RingInv
  <2>3. Dist(block_first_desc, check_desc) # Dist(block_first_desc, fill_desc)
    BY <1>4, <2>1, DistInjective
  <2> QED
    BY <1>4, <2>2, <2>3, DistType
<1>6. ASSUME NEW i \in Desc
      PROVE  /\ Unreported(i)' <=> Unreported(i) /\ ~InB(i, B)
             /\ InB(i, B) => Unreported(i)
             /\ Unreported(i)' => Dist(block_first_desc, i)
                  = Dist(block_first_desc, check_desc) + 1 + Dist(n, i)
  <2>1. InB(i, B) <=> InBlock(i, block_first_desc, check_desc)
    BY DEF InB, AssembledBlock
  <2>2. Unreported(i)' <=> InRing(i, n, fill_desc)
    BY <1>3 DEF Unreported
  <2>3. InBlock(i, block_first_desc, check_desc) => Unreported(i)
    <3>1. /\ Dist(block_first_desc, i) \in Nat
          /\ Dist(block_first_desc, check_desc) \in Nat
          /\ Dist(block_first_desc, fill_desc) \in Nat
      BY <1>4, DistType
    <3> QED
      BY <1>5, <3>1 DEF InBlock, Unreported, InRing
  <2>4. /\ InRing(i, n, fill_desc)
             <=> InRing(i, block_first_desc, fill_desc)
                   /\ ~InBlock(i, block_first_desc, check_desc)
        /\ InRing(i, n, fill_desc)
             => Dist(block_first_desc, i)
                  = Dist(block_first_desc, check_desc) + 1 + Dist(n, i)
    BY <1>4, <1>5, CutFront
  <2> QED
    BY <2>1, <2>2, <2>3, <2>4 DEF Unreported
<1>7. /\ Unreported(check_desc) /\ Unreported(block_first_desc)
      /\ Dist(block_first_desc, block_first_desc) = 0
      /\ Dist(block_first_desc, check_desc) \in Nat
      /\ Dist(block_first_desc, fill_desc) \in Nat
  BY <1>4, <1>5, DistType DEF Unreported, InRing
<1>8. /\ reported' = reported + 1 + Dist(block_first_desc, check_desc)
      /\ B.lo = reported + 1 /\ B.hi = reported'
      /\ B.first_desc = block_first_desc
  BY <1>2, <1>3, <1>4, <1>7 DEF StampInv, AssembledBlock
<1>9. \A i \in Desc : Out(i) => Out(i)' /\ ~InB(i, B)
  BY <1>3, <1>6 DEF Out
<1>10. \A i \in Desc : InB(i, B) => Out(i)'
  BY <1>2, <1>3, <1>6 DEF Out, RingInv
<1>11. RingInv'
  <2>1. Dist(n, n) = 0 /\ Dist(n, fill_desc) \in Nat
    BY <1>4, DistType
  <2>2. \A i \in Desc : Unreported(i)' => IsWb(control[i])
    BY <1>2, <1>6 DEF RingInv
  <2> QED
    BY <1>2, <1>3, <2>1, <2>2 DEF RingInv
<1>12. StampInv'
  <2>1. Dist(block_first_desc, fill_desc)
          = Dist(block_first_desc, check_desc) + 1 + Dist(n, fill_desc)
    BY <1>4, <1>5, CutFront
  <2>2. fills = reported' + Dist(n, fill_desc)
    <3>1. Dist(n, fill_desc) \in Nat
      BY <1>4, DistType
    <3>2. fills = reported + Dist(block_first_desc, fill_desc)
      BY <1>2 DEF StampInv
    <3> QED
      BY <1>4, <1>7, <1>8, <2>1, <3>1, <3>2
  <2>3. ASSUME NEW i \in Desc, Unreported(i)'
        PROVE  stamp[i] = reported' + 1 + Dist(n, i)
    <3>1. Dist(n, i) \in Nat
      BY <1>4, DistType
    <3>2. stamp[i] = reported + 1 + Dist(block_first_desc, i)
      BY <1>2, <1>6, <2>3 DEF StampInv
    <3>3. Dist(block_first_desc, i)
            = Dist(block_first_desc, check_desc) + 1 + Dist(n, i)
      BY <1>6, <2>3
    <3>4. /\ reported' = reported + 1 + Dist(block_first_desc, check_desc)
          /\ reported \in Nat /\ Dist(block_first_desc, check_desc) \in Nat
      BY <1>4, <1>7, <1>8
    <3> HIDE DEF n, B
    <3> QED
      BY <3>1, <3>2, <3>3, <3>4
  <2> QED
    BY <1>3, <2>2, <2>3 DEF StampInv
<1>13. /\ DOMAIN kfifo' = 1 .. Len(kfifo) + 1
       /\ DOMAIN kfifo = 1 .. Len(kfifo) /\ Len(kfifo) \in Nat
       /\ Len(kfifo') = Len(kfifo) + 1
       /\ \A k \in DOMAIN kfifo : kfifo'[k] = kfifo[k]
       /\ kfifo'[Len(kfifo) + 1] = B
  BY <1>3, <1>4, DescIsNat DEF AssembledBlock, Block
<1>14. ASSUME NEW k \in DOMAIN kfifo'
       PROVE  (k \in DOMAIN kfifo /\ kfifo'[k] = kfifo[k]) \/ kfifo'[k] = B
  BY <1>13
<1>15. \A b \in OutBlocks' : b \in OutBlocks \/ b = B
  BY <1>3, <1>14 DEF OutBlocks
<1>16. \A b \in OutBlocks : \A i \in Desc : InB(i, b) => Out(i)
  BY <1>2 DEF BlockInv, OutBlocks
<1>17. BlockInv'
  <2>1. \A k \in DOMAIN kfifo' : \A i \in Desc : InB(i, kfifo'[k]) => Out(i)'
    BY <1>2, <1>9, <1>10, <1>14 DEF BlockInv
  <2>2. \A b \in held : \A i \in Desc : InB(i, b) => Out(i)'
    BY <1>2, <1>9 DEF BlockInv
  <2>3. \A i \in Desc : InConf(i)' => Out(i)'
    BY <1>2, <1>3, <1>9 DEF BlockInv, InConf
  <2>4. \A b \in OutBlocks : Disjoint(b, B) /\ Disjoint(B, b)
    BY <1>9, <1>16 DEF Disjoint
  <2>5. ASSUME NEW k \in DOMAIN kfifo', NEW l \in DOMAIN kfifo', k # l
        PROVE  Disjoint(kfifo'[k], kfifo'[l])
    <3>1. CASE k \in DOMAIN kfifo /\ l \in DOMAIN kfifo
      BY <1>2, <1>13, <2>5, <3>1 DEF BlockInv
    <3>2. CASE k \in DOMAIN kfifo /\ l = Len(kfifo) + 1
      BY <1>13, <2>4, <3>2 DEF OutBlocks
    <3>3. CASE l \in DOMAIN kfifo /\ k = Len(kfifo) + 1
      BY <1>13, <2>4, <3>3 DEF OutBlocks
    <3> QED
      BY <1>13, <2>5, <3>1, <3>2, <3>3
  <2>6. \A b \in held : \A k \in DOMAIN kfifo' : Disjoint(b, kfifo'[k])
    BY <1>2, <1>14, <2>4 DEF BlockInv, OutBlocks
  <2>7. \A b \in OutBlocks' : \A i \in Desc : ~(InB(i, b) /\ InConf(i)')
    BY <1>2, <1>3, <1>9, <1>15 DEF BlockInv, InConf
  <2>8. \A b, c \in held : b # c => Disjoint(b, c)
    BY <1>2 DEF BlockInv
  <2> QED
    BY <1>3, <2>1, <2>2, <2>3, <2>5, <2>6, <2>7, <2>8
       DEF BlockInv, InB, Disjoint
<1>18. HeldDataIntact'
  <2>1. ASSUME NEW i \in Desc, InB(i, B)
        PROVE  stamp[i] = B.lo + Dist(B.first_desc, i)
    BY <1>2, <1>6, <1>8, <2>1 DEF StampInv
  <2> QED
    BY <1>3, <1>15, <2>1 DEF KeepUpInv, HeldDataIntact, InB
<1>19. QueueInv'
  BY <1>3, <1>4, <1>8, <1>13 DEF KeepUpInv, QueueInv
<1> QED
  BY <1>1, <1>3, <1>11, <1>12, <1>17, <1>18, <1>19
     DEF KeepUpInv, MagicMeansComplete, BytesInv, Live

\* The other steps of the worker move its position inside (block_first_desc,
\* fill_desc].
LEMMA KeepWorker == TypeOK /\ IrqInv /\ KeepUpInv /\ Worker => KeepUpInv'
<1> SUFFICES ASSUME TypeOK, IrqInv, KeepUpInv, Worker PROVE KeepUpInv'
  OBVIOUS
<1> USE DEF ringVars, hwVars, extVars, appVars
<1>1. CASE WorkBegin
  <2>1. /\ check_desc' = block_scanned_desc
        /\ UNCHANGED dataVars
    BY <1>1 DEF WorkBegin, dataVars
  <2>2. ASSUME Live PROVE RingInv'
    BY <2>1, <2>2 DEF KeepUpInv, RingInv, Unreported, dataVars
  <2> QED
    BY <2>1, <2>2, KeepParts DEF KeepUpInv, Live, dataVars
<1>2. CASE ScanEnd
  <2>1. /\ wpc = "scan" /\ wpc' = "finish"
        /\ block_scanned_desc' = check_desc
        /\ UNCHANGED <<control, bytes, stamp, fetch_desc, fill_desc, fills,
              reported, block_first_desc, kfifo, held, delivered,
              cpc, conf_desc, conf_last, session>>
    BY <1>2 DEF ScanEnd
  <2>2. ASSUME Live PROVE RingInv' /\ StampInv' /\ BlockInv'
    <3>1. RingInv'
      BY <2>1, <2>2 DEF KeepUpInv, RingInv, Unreported
    <3>2. StampInv'
      BY <2>1, <2>2 DEF KeepUpInv, StampInv, Unreported
    <3>3. BlockInv'
      BY <2>1, <2>2 DEF KeepUpInv, BlockInv, Unreported, Out, InB, InConf,
                        Disjoint, OutBlocks
    <3> QED
      BY <3>1, <3>2, <3>3
  <2>3. MagicMeansComplete' /\ BytesInv' /\ HeldDataIntact' /\ QueueInv'
    BY <2>1 DEF KeepUpInv, MagicMeansComplete, BytesInv, HeldDataIntact,
                OutBlocks, QueueInv
  <2> QED
    BY <2>1, <2>2, <2>3 DEF KeepUpInv, Live
<1>3. CASE ScanReport
  BY <1>3, KeepReport
<1>4. CASE ScanPostpone
  BY <1>4, KeepUnchanged DEF ScanPostpone, dataVars
<1>5. CASE ScanShift
  <2>1. /\ wpc = "scan" /\ control[check_desc] = Wb
        /\ check_desc' = NextDesc(check_desc)
        /\ UNCHANGED <<dataVars, wpc>>
    BY <1>5 DEF ScanShift, dataVars, workVars
  <2>2. Live
    <3>1. running
      BY <2>1 DEF IrqInv, TypeOK
    <3> QED
      BY <3>1 DEF IrqInv, Live, TypeOK
  <2>3. /\ fill_desc \in Desc /\ block_first_desc \in Desc /\ check_desc \in Desc
    BY DEF TypeOK
  <2>4. check_desc # fill_desc
    BY <2>1, <2>2 DEF KeepUpInv, RingInv, Magic, Wb
  <2>5. Dist(block_first_desc, check_desc) < Dist(block_first_desc, fill_desc)
    <3>1. Dist(block_first_desc, check_desc) <= Dist(block_first_desc, fill_desc)
      BY <2>1, <2>2 DEF KeepUpInv, RingInv
    <3>2. Dist(block_first_desc, check_desc) # Dist(block_first_desc, fill_desc)
      BY <2>3, <2>4, DistInjective
    <3> QED
      BY <2>3, <3>1, <3>2, DistType
  <2>6. Dist(block_first_desc, NextDesc(check_desc))
          <= Dist(block_first_desc, fill_desc)
    BY <2>3, <2>5, NextDescCases, NofbufsType DEF Desc, Dist
  <2>7. RingInv'
    BY <2>1, <2>2, <2>6 DEF KeepUpInv, RingInv, Unreported, dataVars
  <2> QED
    BY <2>1, <2>2, <2>7, KeepParts DEF KeepUpInv, dataVars
<1>6. CASE WorkShutdown
  BY <1>6, KeepUnchanged DEF WorkShutdown, RestoreMask, dataVars
<1>7. CASE WorkFinish
  BY <1>7, KeepUnchanged DEF WorkFinish, RestoreMask, dataVars
<1> QED
  BY <1>1, <1>2, <1>3, <1>4, <1>5, <1>6, <1>7 DEF Worker

\* GETBUF moves the oldest block from the kfifo to the application.
LEMMA KeepReader ==
  ASSUME TypeOK, KeepUpInv, NEW r \in Readers,
         GetbufEnter(r) \/ Getbuf(r) \/ GetbufSignal(r)
  PROVE  KeepUpInv'
<1> USE DEF ringVars, hwVars, workVars, extVars, appVars
<1>1. CASE GetbufTake(r)
  <2>1. /\ kfifo # <<>> /\ kfifo' = Tail(kfifo)
        /\ held' = held \union {kfifo[1]}
        /\ delivered' = kfifo[1].hi
        /\ UNCHANGED <<control, bytes, stamp, fetch_desc, fill_desc, fills,
             reported, block_first_desc, block_scanned_desc,
             cpc, conf_desc, conf_last, session, wpc, check_desc>>
    BY <1>1 DEF GetbufTake, TypeOK
  <2>2. /\ kfifo \in Seq(Block) /\ Len(kfifo) \in Nat /\ Len(kfifo) >= 1
        /\ DOMAIN kfifo = 1 .. Len(kfifo)
        /\ DOMAIN kfifo' = 1 .. Len(kfifo) - 1
        /\ Len(kfifo') = Len(kfifo) - 1
        /\ \A k \in DOMAIN kfifo' : /\ kfifo'[k] = kfifo[k + 1]
                                    /\ k + 1 \in DOMAIN kfifo /\ k + 1 # 1
        /\ 1 \in DOMAIN kfifo
    BY <2>1 DEF TypeOK
  <2>3. OutBlocks' \subseteq OutBlocks
    BY <2>1, <2>2 DEF OutBlocks
  <2>4. ASSUME Live PROVE BlockInv'
    <3> DEFINE B == kfifo[1]
    <3>1. BlockInv
      BY <2>4 DEF KeepUpInv
    <3>2. \A k \in DOMAIN kfifo' : Disjoint(B, kfifo'[k])
      BY <2>2, <3>1 DEF BlockInv
    <3>3. \A b \in held : Disjoint(b, B) /\ Disjoint(B, b)
      BY <2>2, <3>1 DEF BlockInv, Disjoint
    <3>4. \A i \in Desc : Out(i)' <=> Out(i)
      BY <2>1 DEF Out, Unreported
    <3>5. \A i \in Desc : InConf(i)' <=> InConf(i)
      BY <2>1 DEF InConf
    <3>6. \A k \in DOMAIN kfifo' : \A i \in Desc : InB(i, kfifo'[k]) => Out(i)'
      BY <2>2, <3>1, <3>4 DEF BlockInv
    <3>7. \A b \in held' : \A i \in Desc : InB(i, b) => Out(i)'
      BY <2>1, <2>2, <3>1, <3>4 DEF BlockInv
    <3>8. \A k, l \in DOMAIN kfifo' : k # l => Disjoint(kfifo'[k], kfifo'[l])
      BY <2>2, <3>1 DEF BlockInv
    <3>9. \A b, c \in held' : b # c => Disjoint(b, c)
      BY <2>1, <3>1, <3>3 DEF BlockInv
    <3>10. \A b \in held' : \A k \in DOMAIN kfifo' : Disjoint(b, kfifo'[k])
      BY <2>1, <2>2, <3>1, <3>2 DEF BlockInv
    <3>11. \A b \in OutBlocks' : \A i \in Desc : ~(InB(i, b) /\ InConf(i)')
      BY <2>3, <3>1, <3>5 DEF BlockInv
    <3>12. \A i \in Desc : InConf(i)' => Out(i)'
      BY <3>1, <3>4, <3>5 DEF BlockInv
    <3> QED
      BY <3>6, <3>7, <3>8, <3>9, <3>10, <3>11, <3>12
         DEF BlockInv, InB, Disjoint
  <2>5. ASSUME Live PROVE RingInv' /\ StampInv'
    BY <2>1, <2>5 DEF KeepUpInv, RingInv, StampInv, Unreported
  <2>6. HeldDataIntact'
    BY <2>1, <2>3 DEF KeepUpInv, HeldDataIntact
  <2>7. QueueInv'
    BY <2>1, <2>2 DEF KeepUpInv, QueueInv
  <2>8. MagicMeansComplete' /\ BytesInv'
    BY <2>1 DEF KeepUpInv, MagicMeansComplete, BytesInv
  <2>9. session # "ready"
    BY <2>1 DEF KeepUpInv
  <2> QED
    BY <2>1, <2>4, <2>5, <2>6, <2>7, <2>8, <2>9 DEF KeepUpInv, Live
<1>2. CASE ~GetbufTake(r)
  BY <1>2, KeepUnchanged
     DEF GetbufEnter, Getbuf, GetbufSignal, GetbufCheck, GetbufNotRunning,
         GetbufTakeNothing, dataVars
<1> QED
  BY <1>1, <1>2

\* CONFIRM: the block leaves the application as a whole, then its descriptors
\* become free one by one, in ring order.
LEMMA KeepConfirm == TypeOK /\ KeepUpInv /\ Confirm => KeepUpInv'
<1> SUFFICES ASSUME TypeOK, KeepUpInv, Confirm PROVE KeepUpInv'
  OBVIOUS
<1> USE DEF ringVars, hwVars, workVars, extVars
<1>1. ASSUME NEW b \in held, ConfirmEnter(b) PROVE KeepUpInv'
  <2>1. /\ session = "run" /\ cpc = "idle"
        /\ held' = held \ {b} /\ conf_desc' = b.first_desc
        /\ conf_last' = b.last_desc /\ cpc' = "fields"
        /\ UNCHANGED <<control, bytes, stamp, fetch_desc, fill_desc, fills,
             reported, block_first_desc, block_scanned_desc, kfifo, delivered,
             session, wpc, check_desc>>
    BY <1>1 DEF ConfirmEnter
  <2>2. Live /\ RingInv /\ StampInv /\ BlockInv
    BY <2>1 DEF KeepUpInv, Live
  <2>3. \A i \in Desc : (InConf(i)' <=> InB(i, b)) /\ (Out(i)' <=> Out(i))
    BY <2>1 DEF InConf, InB, Out, Unreported
  <2>4. OutBlocks' \subseteq OutBlocks
    BY <2>1 DEF OutBlocks
  <2>5. \A c \in OutBlocks' : Disjoint(b, c)
    BY <2>1, <2>2 DEF OutBlocks, BlockInv
  <2>6. \A c \in OutBlocks' : \A i \in Desc : ~(InB(i, c) /\ InConf(i)')
    BY <2>3, <2>5 DEF Disjoint
  <2>7. BlockInv'
    BY <2>1, <2>2, <2>3, <2>6 DEF BlockInv, InB, Disjoint
  <2>8. RingInv' /\ StampInv'
    BY <2>1, <2>2 DEF RingInv, StampInv, Unreported
  <2>9. MagicMeansComplete' /\ BytesInv' /\ QueueInv'
    BY <2>1 DEF KeepUpInv, MagicMeansComplete, BytesInv, QueueInv
  <2>10. HeldDataIntact'
    BY <2>1, <2>4 DEF KeepUpInv, HeldDataIntact
  <2> QED
    BY <2>1, <2>7, <2>8, <2>9, <2>10 DEF KeepUpInv
<1>2. ASSUME cpc # "idle" 
      PROVE  /\ session = "run" /\ RingInv /\ StampInv /\ BlockInv
             /\ conf_desc \in Desc /\ conf_last \in Desc
             /\ InConf(conf_desc) /\ Out(conf_desc)
  <2>1. session = "run" /\ BlockInv /\ RingInv /\ StampInv
    BY <1>2 DEF KeepUpInv, Live
  <2>2. conf_desc \in Desc /\ conf_last \in Desc
    BY DEF TypeOK
  <2>3. InConf(conf_desc)
    BY <1>2, <2>2, DistType DEF InConf, InBlock
  <2> QED
    BY <2>1, <2>2, <2>3 DEF BlockInv
<1>3. CASE ConfirmFields
  <2>1. /\ cpc = "fields" /\ cpc' = "control"
        /\ bytes' = [bytes EXCEPT ![conf_desc] = "full"]
        /\ UNCHANGED <<control, stamp, fetch_desc, fill_desc, fills,
             reported, block_first_desc, block_scanned_desc, kfifo, delivered,
             session, held, conf_desc, conf_last, wpc, check_desc>>
    BY <1>3 DEF ConfirmFields
  <2>2. \A i \in Desc : (InConf(i)' <=> InConf(i)) /\ (Out(i)' <=> Out(i))
    BY <2>1 DEF InConf, Out, Unreported
  <2>3. BlockInv'
    BY <1>2, <2>1, <2>2 DEF BlockInv, InB, Disjoint, OutBlocks
  <2>4. RingInv' /\ StampInv'
    BY <1>2, <2>1 DEF RingInv, StampInv, Unreported
  <2>5. MagicMeansComplete' /\ BytesInv'
    BY <1>2, <2>1 DEF KeepUpInv, MagicMeansComplete, BytesInv, TypeOK
  <2>6. HeldDataIntact' /\ QueueInv'
    BY <2>1 DEF KeepUpInv, HeldDataIntact, OutBlocks, QueueInv
  <2> QED
    BY <1>2, <2>1, <2>3, <2>4, <2>5, <2>6 DEF KeepUpInv
<1>4. CASE ConfirmControl
  <2>1. /\ cpc = "control"
        /\ control' = [control EXCEPT ![conf_desc] = Magic]
        /\ \/ cpc' = "idle"
           \/ /\ conf_desc # conf_last
              /\ cpc' = "fields"
              /\ conf_desc' = NextDesc(conf_desc)
        /\ UNCHANGED <<bytes, stamp, fetch_desc, fill_desc, fills,
             reported, block_first_desc, block_scanned_desc, kfifo, delivered,
             session, held, conf_last, wpc, check_desc>>
    BY <1>4 DEF ConfirmControl
  <2>2. \A i \in Desc : control'[i] = IF i = conf_desc THEN Magic ELSE control[i]
    BY <1>2, <2>1 DEF TypeOK
  <2>3. \A i \in Desc : Unreported(i)' <=> Unreported(i)
    BY <2>1 DEF Unreported
  <2>4. ASSUME NEW i \in Desc, InConf(i)' PROVE InConf(i) /\ i # conf_desc
    BY <1>2, <2>1, <2>4, InBlockNextStart DEF InConf
  <2>5. \A i \in Desc : Out(i) /\ i # conf_desc => Out(i)'
    BY <2>2, <2>3 DEF Out
  <2>6. \A b \in OutBlocks : \A i \in Desc : InB(i, b) => Out(i) /\ i # conf_desc
    BY <1>2, <2>1 DEF BlockInv, OutBlocks
  <2>7. BlockInv'
    <3>1. OutBlocks' = OutBlocks
      BY <2>1 DEF OutBlocks
    <3>2. \A b \in OutBlocks : \A i \in Desc : InB(i, b) => Out(i)'
      BY <2>5, <2>6
    <3>3. \A i \in Desc : InConf(i)' => Out(i)'
      BY <1>2, <2>1, <2>4, <2>5 DEF BlockInv
    <3>4. \A b \in OutBlocks : \A i \in Desc : ~(InB(i, b) /\ InConf(i)')
      BY <1>2, <2>1, <2>4 DEF BlockInv
    <3>5. /\ \A k \in DOMAIN kfifo : \A i \in Desc : InB(i, kfifo[k]) => Out(i)'
          /\ \A b \in held : \A i \in Desc : InB(i, b) => Out(i)'
      BY <3>2 DEF OutBlocks
    <3>6. /\ \A k, l \in DOMAIN kfifo : k # l => Disjoint(kfifo[k], kfifo[l])
          /\ \A b, c \in held : b # c => Disjoint(b, c)
          /\ \A b \in held : \A k \in DOMAIN kfifo : Disjoint(b, kfifo[k])
      BY <1>2, <2>1 DEF BlockInv
    <3> QED
      BY <2>1, <3>1, <3>3, <3>4, <3>5, <3>6 DEF BlockInv, InB, Disjoint
  <2>8. RingInv'
    <3>1. \A i \in Desc : Unreported(i)' => IsWb(control'[i])
      BY <1>2, <2>1, <2>2, <2>3 DEF RingInv, Out
    <3>2. control'[fill_desc] = Magic
      BY <1>2, <2>1, <2>2 DEF RingInv, TypeOK
    <3>3. \A i \in Desc : InRing(i, fill_desc, fetch_desc) => control'[i] = Magic
      BY <1>2, <2>1, <2>2 DEF RingInv
    <3> QED
      BY <1>2, <2>1, <3>1, <3>2, <3>3 DEF RingInv
  <2>9. StampInv'
    BY <1>2, <2>1, <2>3 DEF StampInv
  <2>10. MagicMeansComplete'
    BY <1>2, <2>1, <2>2 DEF KeepUpInv, MagicMeansComplete, BytesInv
  <2>11. HeldDataIntact'
    BY <2>1 DEF KeepUpInv, HeldDataIntact, OutBlocks
  <2>12. QueueInv' /\ BytesInv'
    BY <2>1 DEF KeepUpInv, QueueInv, BytesInv
  <2> QED
    BY <1>2, <2>1, <2>7, <2>8, <2>9, <2>10, <2>11, <2>12 DEF KeepUpInv
<1> QED
  BY <1>1, <1>3, <1>4 DEF Confirm

\* STOP: nothing moves until the descriptors are freed.
LEMMA KeepStop == TypeOK /\ KeepUpInv /\ (StopRequest \/ StopFree) => KeepUpInv'
<1> SUFFICES ASSUME TypeOK, KeepUpInv, StopRequest \/ StopFree PROVE KeepUpInv'
  OBVIOUS
<1> USE DEF ringVars, hwVars, workVars, extVars
<1>1. CASE StopRequest
  <2>1. /\ session = "run" /\ session' = "stopping" /\ cpc = "idle"
        /\ UNCHANGED <<control, bytes, stamp, fetch_desc, fill_desc, fills,
             reported, block_first_desc, block_scanned_desc, kfifo, held,
             delivered, cpc, conf_desc, conf_last, wpc, check_desc>>
    BY <1>1 DEF StopRequest
  <2>2. RingInv /\ StampInv /\ BlockInv
    BY <2>1 DEF KeepUpInv, Live
  <2>3. RingInv' /\ StampInv'
    BY <2>1, <2>2 DEF RingInv, StampInv, Unreported
  <2>4. BlockInv'
    BY <2>1, <2>2 DEF BlockInv, Unreported, Out, InB, InConf, Disjoint, OutBlocks
  <2>5. MagicMeansComplete' /\ BytesInv' /\ HeldDataIntact' /\ QueueInv'
    BY <2>1 DEF KeepUpInv, MagicMeansComplete, BytesInv, HeldDataIntact,
                OutBlocks, QueueInv
  <2> QED
    BY <2>1, <2>3, <2>4, <2>5 DEF KeepUpInv
<1>2. CASE StopFree
  <2>1. /\ session = "stopping" /\ session' = "stopped"
        /\ control' = [i \in Desc |-> Freed]
        /\ UNCHANGED <<bytes, stamp, fills, reported, kfifo, held, delivered,
             cpc, conf_desc, conf_last>>
    BY <1>2 DEF StopFree
  <2>2. MagicMeansComplete' /\ BytesInv'
    BY <2>1 DEF KeepUpInv, MagicMeansComplete, BytesInv, Magic, Freed
  <2>3. HeldDataIntact'
    BY <2>1 DEF KeepUpInv, HeldDataIntact, OutBlocks
  <2>4. QueueInv'
    BY <2>1 DEF KeepUpInv, QueueInv
  <2> QED
    BY <2>1, <2>2, <2>3, <2>4 DEF KeepUpInv, Live
<1> QED
  BY <1>1, <1>2

\* Every step of the driver, the engine and the application preserves it.
LEMMA KeepNext ==
  ASSUME KeepUp, TypeOK, IrqInv, KeepUpInv, [Next]_vars
  PROVE  KeepUpInv'
<1> USE DEF ringVars, hwVars, workVars, extVars, appVars, irqVars
<1>1. CASE Hardware
  <2>1. CASE HwFetchBadMagic
    BY <2>1, KeepUnchanged DEF HwFetchBadMagic, dataVars
  <2>2. CASE HwStop
    BY <2>2, KeepUnchanged DEF HwStop, dataVars
  <2> QED
    BY <1>1, <2>1, <2>2, KeepFetch, KeepComplete DEF Hardware
<1>2. CASE ChannelIrq
  BY <1>2, KeepUnchanged DEF ChannelIrq, dataVars
<1>3. CASE UNCHANGED vars
  BY <1>3, KeepUnchanged DEF vars, dataVars
<1>4. CASE Finished
  BY <1>3, <1>4 DEF Finished
<1> QED
  BY <1>1, <1>2, <1>3, <1>4, KeepStart, KeepWorker, KeepReader, KeepConfirm,
     KeepStop DEF Next

\* KeepUpInv is an invariant of every acquisition the application keeps up with.
LEMMA KeepInvariant ==
  ASSUME KeepUp
  PROVE  Spec => [](TypeOK /\ IrqInv /\ KeepUpInv)
<1>1. Init => TypeOK /\ IrqInv /\ KeepUpInv
  BY TypeInit, IrqInit, KeepInit
<1>2. TypeOK /\ IrqInv /\ KeepUpInv /\ [Next]_vars
        => (TypeOK /\ IrqInv /\ KeepUpInv)'
  BY KeepUp, TypeNext, IrqNext, KeepNext
<1> QED
  BY <1>1, <1>2, PTL DEF Spec

-----------------------------------------------------------------------------
\* While the application keeps up, no buffer of a block that is in the kfifo
\* or in use is written again before the block is confirmed.
THEOREM ReportedDataIntact ==
  ASSUME KeepUp
  PROVE  Spec => []HeldDataIntact
<1>1. TypeOK /\ IrqInv /\ KeepUpInv => HeldDataIntact
  BY DEF KeepUpInv
<1> QED
  BY <1>1, KeepInvariant, PTL

\* The engine never finds a half restored descriptor: CONFIRM writes the
\* control word last.
THEOREM ConfirmOrderSafe ==
  ASSUME KeepUp
  PROVE  Spec => []MagicMeansComplete
<1>1. TypeOK /\ IrqInv /\ KeepUpInv => MagicMeansComplete
  BY DEF KeepUpInv
<1> QED
  BY <1>1, KeepInvariant, PTL

\* The kfifo has room for every report while the application keeps up.  Each block
\* in it owns a descriptor of its own, and the one the engine fills next is in no
\* block, so that there are fewer than NOFBUFS blocks.
THEOREM ReportsNotPostponed ==
  ASSUME KeepUp
  PROVE  Spec => []NeverPostponed
<1>1. TypeOK /\ IrqInv /\ KeepUpInv => NeverPostponed
  <2> SUFFICES ASSUME TypeOK, IrqInv, KeepUpInv, wpc = "scan", Len(kfifo) = NOFBUFS
               PROVE  FALSE
    BY DEF NeverPostponed, KfifoIsFull
  <2> DEFINE S == 1 .. Len(kfifo)
             T == Desc \ {fill_desc}
             f == [k \in S |-> kfifo[k].first_desc]
  <2>1. Live
    BY DEF IrqInv, TypeOK, Live
  <2>2. BlockInv /\ control[fill_desc] = Magic
    BY <2>1 DEF KeepUpInv, RingInv
  <2>3. DOMAIN kfifo = S /\ \A k \in S : kfifo[k].first_desc \in Desc /\ kfifo[k].last_desc \in Desc
    <3>1. kfifo \in Seq(Block)
      BY DEF TypeOK
    <3>2. DOMAIN kfifo = S /\ \A k \in S : kfifo[k] \in Block
      BY <3>1
    <3>3. \A b \in Block : b.first_desc \in Desc /\ b.last_desc \in Desc
      BY DEF Block
    <3> HIDE DEF S
    <3> QED BY <3>2, <3>3
  <2>4. \A k \in S : InB(kfifo[k].first_desc, kfifo[k])
    <3> TAKE k \in S
    <3>1. Dist(kfifo[k].first_desc, kfifo[k].first_desc) = 0
      <4>1. \A i \in Desc : Dist(i, i) = 0
        BY DescIsNat DEF Dist
      <4> QED BY <2>3, <4>1
    <3>2. Dist(kfifo[k].first_desc, kfifo[k].last_desc) \in Nat
      BY <2>3, DistType
    <3> QED BY <3>1, <3>2 DEF InB, InBlock
  <2>5. f \in [S -> T]
    <3>1. ASSUME NEW k \in S PROVE kfifo[k].first_desc # fill_desc
      <4>1. IsWb(control[kfifo[k].first_desc])
        BY <2>2, <2>3, <2>4 DEF BlockInv, Out
      <4> QED BY <2>2, <4>1 DEF IsWb, Magic, Wb, WbEop
    <3> QED BY <2>3, <3>1
  <2>6. ASSUME NEW k \in S, NEW l \in S, k # l PROVE f[k] # f[l]
    <3>1. Disjoint(kfifo[k], kfifo[l])
      BY <2>2, <2>3, <2>6 DEF BlockInv
    <3>2. kfifo[k].first_desc # kfifo[l].first_desc
      BY <2>3, <2>4, <3>1 DEF Disjoint
    <3> QED BY <3>2
  <2>7. IsFiniteSet(S) /\ Cardinality(S) = NOFBUFS
    BY NofbufsType, FS_Interval
  <2>8. IsFiniteSet(T) /\ Cardinality(T) = NOFBUFS - 1
    <3>1. IsFiniteSet(Desc) /\ Cardinality(Desc) = NOFBUFS
      <4>1. 0 \in Int /\ NOFBUFS - 1 \in Int /\ ~(0 > NOFBUFS - 1)
        BY NofbufsType
      <4>2. /\ IsFiniteSet(0 .. NOFBUFS - 1)
            /\ Cardinality(0 .. NOFBUFS - 1)
                 = IF 0 > NOFBUFS - 1 THEN 0 ELSE (NOFBUFS - 1) - 0 + 1
        BY <4>1, FS_Interval
      <4> QED BY <4>1, <4>2, NofbufsType DEF Desc
    <3>2. fill_desc \in Desc
      BY DEF TypeOK
    <3> QED BY <3>1, <3>2, FS_RemoveElement
  <2> HIDE DEF S, T, f
  <2>9. \E k, l \in S : k # l /\ f[k] = f[l]
    BY <2>5, <2>7, <2>8, NofbufsType, FS_PigeonHole
  <2> QED BY <2>6, <2>9
<1> QED
  BY <1>1, KeepInvariant, PTL

-----------------------------------------------------------------------------
(* Refinement: the acquisition implements BlockStream.                     *)

\* The queue of BlockStream: the kfifo, each block reduced to its data.
Queue == [k \in DOMAIN kfifo |-> <<kfifo[k].lo, kfifo[k].hi>>]

\* Refinement: initial states of WzCyclic map to initial states of BlockStream.
LEMMA StreamInit == Init => Stream!Init
<1> SUFFICES ASSUME Init PROVE Stream!Init
  OBVIOUS
<1>1. Queue = <<>>
  BY DEF Init, Queue
<1> QED
  BY <1>1 DEF Init, Stream!Init, Queue

\* Steps that touch none of the mapped variables are stuttering steps.
LEMMA StreamStutter ==
  ASSUME UNCHANGED <<fills, reported, kfifo, delivered>>
  PROVE  UNCHANGED Stream!vars
  BY DEF Stream!vars

\* A report of the scan loop is a Publish step: the block starts right after
\* the last one reported.
LEMMA StreamPublish ==
  ASSUME TypeOK, IrqInv, KeepUpInv, ScanReport
  PROVE  Stream!Publish
<1>1. Live
  BY DEF ScanReport, IrqInv, Live, TypeOK
<1>2. RingInv /\ StampInv
  BY <1>1 DEF KeepUpInv
<1>3. /\ wpc = "scan" /\ control[check_desc] = WbEop
      /\ kfifo' = Append(kfifo, AssembledBlock)
      /\ reported' = stamp[check_desc]
      /\ UNCHANGED <<fills, delivered>>
  BY DEF ScanReport, hwVars, appVars
<1>4. /\ fill_desc \in Desc /\ block_first_desc \in Desc /\ check_desc \in Desc
      /\ kfifo \in Seq(Block) /\ reported \in Nat /\ fills \in Nat
  BY DEF TypeOK
<1>5. Dist(block_first_desc, check_desc) < Dist(block_first_desc, fill_desc)
  <2>1. check_desc # fill_desc
    BY <1>2, <1>3 DEF RingInv, Magic, WbEop
  <2>2. Dist(block_first_desc, check_desc) <= Dist(block_first_desc, fill_desc)
    BY <1>2, <1>3 DEF RingInv
  <2>3. Dist(block_first_desc, check_desc) # Dist(block_first_desc, fill_desc)
    BY <1>4, <2>1, DistInjective
  <2> QED
    BY <1>4, <2>2, <2>3, DistType
<1>6. /\ Dist(block_first_desc, block_first_desc) = 0
      /\ Dist(block_first_desc, check_desc) \in Nat
      /\ Dist(block_first_desc, fill_desc) \in Nat
  BY <1>4, DistType
<1>7. Unreported(check_desc) /\ Unreported(block_first_desc)
  BY <1>5, <1>6 DEF Unreported, InRing
<1>8. /\ stamp[block_first_desc] = reported + 1
      /\ stamp[check_desc] = reported + 1 + Dist(block_first_desc, check_desc)
      /\ fills = reported + Dist(block_first_desc, fill_desc)
  BY <1>2, <1>4, <1>6, <1>7 DEF StampInv
<1>9. stamp[check_desc] \in reported + 1 .. fills
  BY <1>4, <1>5, <1>6, <1>8
<1>10. Queue' = Append(Queue, <<reported + 1, stamp[check_desc]>>)
  <2> DEFINE B == AssembledBlock
  <2>1. B \in Block /\ B.lo = reported + 1 /\ B.hi = stamp[check_desc]
    BY <1>8 DEF AssembledBlock, Block, TypeOK
  <2>2. /\ DOMAIN kfifo = 1 .. Len(kfifo) /\ Len(kfifo) \in Nat
        /\ DOMAIN kfifo' = 1 .. Len(kfifo) + 1
        /\ \A k \in DOMAIN kfifo : kfifo'[k] = kfifo[k] /\ kfifo[k] \in Block
        /\ kfifo'[Len(kfifo) + 1] = B
    BY <1>3, <1>4, <2>1
  <2>3. Queue \in Seq(Nat \X Nat) /\ Len(Queue) = Len(kfifo)
    <3>1. \A k \in 1 .. Len(kfifo) : <<kfifo[k].lo, kfifo[k].hi>> \in Nat \X Nat
      BY <2>2 DEF Block
    <3> QED
      BY <2>2, <3>1 DEF Queue
  <2> HIDE DEF B
  <2>4. Queue' = [k \in 1 .. Len(kfifo) + 1 |->
                    IF k \in 1 .. Len(kfifo) THEN Queue[k]
                    ELSE <<reported + 1, stamp[check_desc]>>]
    BY <2>1, <2>2 DEF Queue
  <2> QED
    BY <2>2, <2>3, <2>4
<1> QED
  BY <1>3, <1>9, <1>10 DEF Stream!Publish, Queue

\* A successful GETBUF is a HandOver step: the oldest block leaves the kfifo.
LEMMA StreamHandOver ==
  ASSUME TypeOK, KeepUpInv, NEW r \in Readers, GetbufTake(r)
  PROVE  Stream!HandOver
<1>1. /\ Len(kfifo) >= 1 /\ kfifo' = Tail(kfifo)
      /\ delivered' = Head(kfifo).hi
      /\ UNCHANGED <<fills, reported>>
  BY DEF GetbufTake, hwVars
<1>2. kfifo \in Seq(Block)
  BY DEF TypeOK
<1>3. /\ DOMAIN kfifo = 1 .. Len(kfifo) /\ Len(kfifo) \in Nat
      /\ DOMAIN kfifo' = 1 .. Len(kfifo) - 1
      /\ \A k \in 1 .. Len(kfifo) - 1 : kfifo'[k] = kfifo[k + 1]
      /\ \A k \in DOMAIN kfifo : kfifo[k] \in Block
      /\ Head(kfifo) = kfifo[1]
  BY <1>1, <1>2
<1>4. Queue \in Seq(Nat \X Nat) /\ Len(Queue) = Len(kfifo)
  <2>1. \A k \in 1 .. Len(kfifo) : <<kfifo[k].lo, kfifo[k].hi>> \in Nat \X Nat
    BY <1>3 DEF Block
  <2> QED
    BY <1>3, <2>1 DEF Queue
<1>5. Queue # <<>> /\ Head(Queue) = <<kfifo[1].lo, kfifo[1].hi>>
  BY <1>1, <1>3, <1>4 DEF Queue
<1>6. Queue' = Tail(Queue)
  <2>1. /\ Tail(Queue) \in Seq(Nat \X Nat)
        /\ Len(Tail(Queue)) = Len(kfifo) - 1
        /\ \A k \in 1 .. Len(kfifo) - 1 : Tail(Queue)[k] = Queue[k + 1]
    BY <1>4, <1>5, HeadTailProperties
  <2>2. \A k \in 1 .. Len(kfifo) - 1 :
          Queue[k + 1] = <<kfifo[k + 1].lo, kfifo[k + 1].hi>>
    BY <1>3 DEF Queue
  <2>3. \A k \in 1 .. Len(kfifo) - 1 :
          <<kfifo[k + 1].lo, kfifo[k + 1].hi>> \in Nat \X Nat
    BY <1>3 DEF Block
  <2>4. Queue' = [k \in 1 .. Len(kfifo) - 1 |->
                    <<kfifo[k + 1].lo, kfifo[k + 1].hi>>]
    BY <1>3 DEF Queue
  <2>5. Queue' \in Seq(Nat \X Nat) /\ Len(Queue') = Len(kfifo) - 1
    <3>1. Len(kfifo') = Len(kfifo) - 1 /\ kfifo' \in Seq(Block)
      BY <1>1, <1>2
    <3>2. Len(kfifo') \in Nat /\ DOMAIN kfifo' = 1 .. Len(kfifo')
          /\ \A k \in 1 .. Len(kfifo') : kfifo'[k] \in Block
      BY <3>1
    <3>3. \A k \in 1 .. Len(kfifo') : <<kfifo'[k].lo, kfifo'[k].hi>> \in Nat \X Nat
      BY <3>2 DEF Block
    <3> QED
      BY <3>1, <3>2, <3>3 DEF Queue
  <2>6. \A k \in 1 .. Len(Queue') : Queue'[k] = Tail(Queue)[k]
    BY <2>1, <2>2, <2>4, <2>5
  <2> DEFINE s == Tail(Queue)
             t == Queue'
  <2>7. /\ s \in Seq(Nat \X Nat) /\ t \in Seq(Nat \X Nat) /\ Len(t) = Len(s)
        /\ \A k \in 1 .. Len(t) : t[k] = s[k]
    BY <2>1, <2>5, <2>6
  <2> HIDE DEF s, t
  <2>8. t = s
    BY <2>7, SeqEqual
  <2> QED
    BY <2>8 DEF s, t
<1>7. kfifo[1].lo = delivered + 1
  BY <1>1 DEF KeepUpInv, QueueInv
<1> QED
  BY <1>1, <1>3, <1>5, <1>6, <1>7 DEF Stream!HandOver, Queue

\* Refinement: every step of WzCyclic is a step of BlockStream or a stutter.
LEMMA StreamNext ==
  ASSUME KeepUp, TypeOK, IrqInv, KeepUpInv, [Next]_vars
  PROVE  [Stream!Next]_(Stream!vars)
<1> USE DEF ringVars, hwVars, workVars, extVars, appVars, irqVars
<1>1. ASSUME NEW eop \in BOOLEAN, HwComplete(eop) PROVE Stream!Fill
  BY <1>1 DEF HwComplete, Stream!Fill
<1>2. CASE ScanReport
  BY <1>2, StreamPublish DEF Stream!Next
<1>3. ASSUME NEW r \in Readers, GetbufTake(r) PROVE Stream!HandOver
  BY <1>3, StreamHandOver
<1>4. CASE Start \/ ChannelIrq \/ StopRequest \/ StopFree \/ Finished
           \/ UNCHANGED vars
  <2>1. UNCHANGED <<fills, reported, kfifo, delivered>>
    BY <1>4 DEF Start, ChannelIrq, StopRequest, StopFree, Finished, vars
  <2> QED
    BY <2>1, StreamStutter
<1>5. CASE HwFetch \/ HwFetchBadMagic \/ HwStop
  <2>1. UNCHANGED <<fills, reported, kfifo, delivered>>
    BY <1>5 DEF HwFetch, HwFetchBadMagic, HwStop
  <2> QED
    BY <2>1, StreamStutter
<1>6. CASE WorkBegin \/ ScanEnd \/ ScanPostpone \/ ScanShift \/ WorkShutdown
           \/ WorkFinish
  <2>1. UNCHANGED <<fills, reported, kfifo, delivered>>
    BY <1>6 DEF WorkBegin, ScanEnd, ScanPostpone, ScanShift, WorkShutdown,
                WorkFinish
  <2> QED
    BY <2>1, StreamStutter
<1>7. ASSUME NEW r \in Readers, \/ GetbufEnter(r) \/ GetbufCheck(r)
             \/ GetbufSignal(r) \/ GetbufNotRunning(r) \/ GetbufTakeNothing(r)
      PROVE  UNCHANGED Stream!vars
  <2>1. UNCHANGED <<fills, reported, kfifo, delivered>>
    BY <1>7 DEF GetbufEnter, GetbufCheck, GetbufSignal, GetbufNotRunning,
                GetbufTakeNothing
  <2> QED
    BY <2>1, StreamStutter
<1>8. CASE Confirm
  <2>1. UNCHANGED <<fills, reported, kfifo, delivered>>
    BY <1>8 DEF Confirm, ConfirmEnter, ConfirmFields, ConfirmControl
  <2> QED
    BY <2>1, StreamStutter
<1> QED
  BY <1>1, <1>2, <1>3, <1>4, <1>5, <1>6, <1>7, <1>8
     DEF Next, Hardware, Worker, Getbuf, Stream!Next

\* While the application keeps up, the ring, the interrupt path, the worker
\* and GETBUF together behave like one ordered stream of blocks: every filled
\* buffer is reported and handed over once, in order.
THEOREM AcquisitionIsStream ==
  ASSUME KeepUp
  PROVE  Spec => LosslessInOrder
<1>1. TypeOK /\ IrqInv /\ KeepUpInv /\ [Next]_vars => [Stream!Next]_(Stream!vars)
  BY KeepUp, StreamNext
<1> QED
  BY <1>1, StreamInit, KeepInvariant, PTL DEF Spec, LosslessInOrder, Stream!Spec

=============================================================================
