---------------------------- MODULE MCLifecycle ----------------------------
(***************************************************************************)
(* Instances of Lifecycle for TLC.  Each .cfg gives the sizes; the slots   *)
(* are not symmetric, as the master visits them in the order of their      *)
(* numbers.                                                                *)
(***************************************************************************)
EXTENDS Lifecycle
=============================================================================
