-------------------------- MODULE MCCompanionLink ---------------------------
(* The smallest case with everything in it: a Companion that reconnects, and *)
(* two requests, of which one may hold the connection the other closes.      *)
EXTENDS CompanionLink

MCCompanions == {"desk"}
MCConns == {"first", "second"}
MCCalls == {"start", "stop"}
=============================================================================
