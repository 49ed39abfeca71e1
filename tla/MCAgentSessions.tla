-------------------------- MODULE MCAgentSessions ---------------------------
(* Two tasks that can get the same space id one after the other, two         *)
(* operations that overlap, agents that write one piece before they end,     *)
(* two terminations or releases, one fault.  The ids of sessions, requests,    *)
(* operations and tasks are interchangeable.                                 *)
EXTENDS AgentSessions, TLC

Symmetry == Permutations(Tasks) \union Permutations(Sessions)
              \union Permutations(Requests) \union Permutations(Ops)
=============================================================================
