------------------------------ MODULE MCScheduler ------------------------------
(* Instances of Scheduler.tla for TLC. *)
EXTENDS Scheduler, TLC

\* Sandboxes and hosts are interchangeable.
Symmetry == Permutations(Sandboxes) \cup Permutations(Hosts)
===============================================================================
