----------------------- MODULE MCInspirationPlanning ------------------------
(* Turns and publications are interchangeable.                               *)
EXTENDS InspirationPlanning, TLC

Symmetry == Permutations(Turns) \union Permutations(Pubs)
=============================================================================
