--------------------------- MODULE MCGreenServer ---------------------------
(* Bounded instances of GreenServer for TLC. *)
EXTENDS GreenServerInv, TLC

\* Clients get their ids in the order of their INIT calls and play no other
\* part, so any permutation of them is a symmetry.
ClientSymmetry == Permutations(Clients)

=============================================================================
