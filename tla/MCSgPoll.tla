------------------------------ MODULE MCSgPoll ------------------------------
(***************************************************************************)
(* Model-checking instances of SgPoll.                                     *)
(***************************************************************************)
EXTENDS SgPoll
=============================================================================
