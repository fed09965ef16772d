-------------------------------- MODULE MCFoss --------------------------------
(* TLC instance of Foss: sets of model values and their symmetries.          *)
EXTENDS Foss, TLC

Symmetry == Permutations(Trss) \cup Permutations(Stbs) \cup Permutations(Conns) \cup Permutations(Mysqls)
================================================================================
