------------------------------- MODULE MCJson -------------------------------
(***************************************************************************)
(* Symmetry for model checking JsonObjects: variables are named alike, and *)
(* so are keys.                                                            *)
(***************************************************************************)
EXTENDS JsonRefinement, TLC

MCSymmetry == Permutations(Vars) \cup Permutations(Keys)

=============================================================================
