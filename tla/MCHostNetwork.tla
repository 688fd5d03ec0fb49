---------------------------- MODULE MCHostNetwork ----------------------------
(***************************************************************************)
(* Three sandboxes of a host: the IDs of a and b begin alike, and the      *)
(* slots of b and c are 16384 apart, so both get the same subnet; that of  *)
(* a is the one before c's, across a boundary of the last byte.            *)
(***************************************************************************)
EXTENDS HostNetwork, TLC

CONSTANTS a, b, c, n1, n2

MCPrefix == (a :> n1) @@ (b :> n1) @@ (c :> n2)
MCTail   == (a :> 65062) @@ (b :> 16447) @@ (c :> 63)

==============================================================================
