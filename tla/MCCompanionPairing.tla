------------------------- MODULE MCCompanionPairing -------------------------
(* One device that loses its state file once, and so comes back under a      *)
(* second device id; two Connect RPCs that overlap; two requests to pair at   *)
(* a time; three codes, one wrong answer, one command on its way.            *)
EXTENDS CompanionPairing, TLC

Symmetry == Permutations(Devices) \union Permutations(Streams) \union Permutations(Jobs)
=============================================================================
