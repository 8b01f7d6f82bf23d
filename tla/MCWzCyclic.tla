---------------------------- MODULE MCWzCyclic ----------------------------
(* Model-checking instances of WzCyclic; the constants are in the cfg      *)
(* files: WzCyclicKeepUp, WzCyclicOverrun, WzCyclicOverrunData and         *)
(* WzCyclicTwoReaders.                                                     *)
EXTENDS WzCyclicInv

=============================================================================
