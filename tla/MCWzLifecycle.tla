--------------------------- MODULE MCWzLifecycle ---------------------------
(***************************************************************************)
(* Model-checking instances of WzLifecycle.                                *)
(***************************************************************************)
EXTENDS WzLifecycle
=============================================================================
