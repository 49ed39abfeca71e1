-------------------------- MODULE MCCodeNavigation --------------------------
(***************************************************************************)
(* CodeNavigation with up to three requests on two files in two      *)
(* directories.                                                             *)
(***************************************************************************)
EXTENDS CodeNavigation, TLC

CONSTANTS f1, f2, top, sub, r1, r2, r3

MCDirOf == (f1 :> top) @@ (f2 :> sub)

MCDefining == {1, 2}

\* Walks for path lists share nothing with the other requests: three of them
\* run, or two of the others.
MCBound ==
  LET begun == {r \in Requests : req[r].pc # "idle"}
      walks == {r \in begun : req[r].kind \in {"paths", "refresh"}}
  IN  walks = begun \/ (walks = {} /\ Cardinality(begun) <= 2)

MCSymmetry == Permutations(Requests)
=============================================================================
