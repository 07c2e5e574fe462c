------------------------- MODULE MCConnectionManager -------------------------
(* Small instances of ConnectionManager for TLC. *)
EXTENDS ConnectionManager, TLC

Symmetry == Permutations(Threads) \union Permutations(Conns)
=============================================================================
