--------------------------- MODULE MCAgentActivity --------------------------
(* Two sessions that live in the agent space of the first task; sessions and *)
(* turns are interchangeable.                                                *)
EXTENDS AgentActivity, TLC

CONSTANTS t1, t2

InFirstTask == [s \in Sessions |-> t1]

Symmetry == Permutations(Sessions) \union Permutations(Turns)
=============================================================================
