----------------------- MODULE MCInspirationResources -----------------------
(* Two requests at a time, up to three rows and three requests in all; two    *)
(* suffixes, so that a replaced image moves, and two names, so that a text   *)
(* does.  Requests are interchangeable.                                      *)
EXTENDS InspirationResources, TLC

Symmetry == Permutations(Ops)
=============================================================================
