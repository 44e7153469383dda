------------------------------ MODULE MCOffchain ------------------------------
(* Offchain for TLC: clients are alike *)
EXTENDS Offchain

Symmetry == Permutations(Clients)
=============================================================================
