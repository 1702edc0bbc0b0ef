--------------------------- MODULE MCSearchIndex ---------------------------
(***************************************************************************)
(* SearchIndex with two clients, one embedding and two snapshots.          *)
(***************************************************************************)
EXTENDS SearchIndex, TLC

CONSTANTS c1, c2, e1

\* Clients take the same steps.
ClientSymmetry == Permutations(Clients)
=============================================================================
