-------------------------- MODULE MCRemoteTerminals -------------------------
(* Operations and terminals are interchangeable.                             *)
EXTENDS RemoteTerminals, TLC

Symmetry == Permutations(Ops) \union Permutations(Terminals)
=============================================================================
