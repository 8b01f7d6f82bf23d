------------------------------ MODULE MCDmover ------------------------------
(***************************************************************************)
(* Model-checking instance of Dmover.                                      *)
(***************************************************************************)
EXTENDS Dmover
=============================================================================
