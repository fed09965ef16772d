----------------------------- MODULE MCTrsScreen -----------------------------
(* TLC instance of TrsScreen: sets of model values and their symmetries. *)
EXTENDS TrsScreen, TLC

Symmetry == Permutations(Conns) \cup Permutations(Stbs) \cup Permutations(Phones)
==============================================================================
