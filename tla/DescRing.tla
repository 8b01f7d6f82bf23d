----------------------------- MODULE DescRing -----------------------------
(***************************************************************************)
(* The ring of DMA buffers and descriptors of the wz extension: buffer i   *)
(* and descriptor i (0 .. NOFBUFS-1) belong together and descriptor i is   *)
(* linked to descriptor (i+1) & (NOFBUFS-1).                               *)
(*                                                                         *)
(* A half-open stretch a, a+1, .. , b-1 of the ring is written as the pair *)
(* (a, b); a = b is the empty stretch.                                     *)
(***************************************************************************)
EXTENDS Naturals

CONSTANT NOFBUFS  \* WZ_DMA_NOFBUFS

\* wz-xdma-consts.h: the number of buffers "MUST BE A POWER OF 2".
ASSUME NofbufsAssumption ==
  /\ NOFBUFS \in Nat
  /\ NOFBUFS >= 2
  /\ \E k \in 1 .. NOFBUFS : NOFBUFS = 2^k

Desc == 0 .. NOFBUFS - 1

\* Mutant: the index is not wrapped.
NextDescNoWrap(i) == i + 1

\* (i + 1) & (WZ_DMA_NOFBUFS - 1), with NOFBUFS a power of two.
NextDesc(i) == (i + 1) % NOFBUFS

\* Number of steps along the ring from a to b.
Dist(a, b) == IF a <= b THEN b - a ELSE b + NOFBUFS - a

\* i lies in the stretch (a, b).
InRing(i, a, b) == Dist(a, i) < Dist(a, b)

\* i lies in the closed stretch a .. b, which may be the whole ring.
InBlock(i, a, b) == Dist(a, i) <= Dist(a, b)

=============================================================================
