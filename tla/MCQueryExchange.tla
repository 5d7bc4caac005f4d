-------------------------- MODULE MCQueryExchange --------------------------
(***************************************************************************)
(* Instances of QueryExchange for TLC.  Each .cfg gives the sizes; nothing *)
(* is symmetric, as the master visits the workers in the order of their    *)
(* numbers.                                                                *)
(***************************************************************************)
EXTENDS QueryExchange
=============================================================================
