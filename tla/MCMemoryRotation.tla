-------------------------- MODULE MCMemoryRotation --------------------------
(* Days of two hours and four hours in all, so that days end; an audit       *)
(* window of two hours and two entries, so that a file is rotated by age and *)
(* by size; files expire after three hours; an operation may have waited one *)
(* hour for the lock, so that it acts on a time that is past.  Two entries   *)
(* and three audit files, one failure between two writes, one save of the    *)
(* user.                                                                     *)
EXTENDS MemoryRotation, TLC

Symmetry == Permutations(Entries)
=============================================================================
