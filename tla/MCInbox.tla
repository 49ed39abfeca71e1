------------------------------ MODULE MCInbox ------------------------------
(* Two requests at a time; two goals one after the other, so that the second *)
(* gets the id of the first, or both; two tasks; two requests for Next Moves *)
(* and two feedback rows, of which a request looks at one: a dismissal goes   *)
(* out of sight.  Not all of these bounds are met at once.  Users may rest:  *)
(* the system may stop.                                                      *)
EXTENDS Inbox, TLC

\* no liveness is checked under it
MCBound == made + asks + Len(feedback) <= 5

Symmetry == Permutations(Ops) \union Permutations(Tasks)
=============================================================================
