------------------------------ MODULE MCServer ------------------------------
(***************************************************************************)
(* Instances of Server for TLC: two threads, browsers c1 to c3, and on the *)
(* command port s1, which asks for STATS, and d1, which asks for SHUTDOWN. *)
(***************************************************************************)
EXTENDS Server, TLC

CONSTANTS t1, t2, c1, c2, c3, s1, d1, d2, f0, f1, f2

Interchangeable ==
  Permutations({t1, t2}) \cup Permutations(Fd) \cup Permutations(Client)
=============================================================================
