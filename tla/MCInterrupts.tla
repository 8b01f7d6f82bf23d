---------------------------- MODULE MCInterrupts ----------------------------
(***************************************************************************)
(* Model-checking instance of Interrupts: an engine with an acquisition    *)
(* and one without, as a PERF ioctl uses it; one user interrupt and two    *)
(* processes, of which one or both have its events device open.            *)
(***************************************************************************)
EXTENDS Interrupts
=============================================================================
