------------------------------ MODULE MCApiServer ------------------------------
(* Instances of ApiServer.tla for TLC. *)
EXTENDS ApiServer, TLC

\* Request goroutines, sandbox IDs and hosts are interchangeable.
Symmetry ==
  Permutations(Callers) \cup Permutations(Sandboxes) \cup Permutations(Hosts)
===============================================================================
