---------------------------- MODULE MCFloatBall ----------------------------
(* Two Companions, so that the target moves while a start or a restore is    *)
(* under way; two connections in all, so that a Companion connects again or  *)
(* both are there; one browser session and one start of its user; a stop is  *)
(* sent to a Companion with no request waiting.  Helpers and users may rest: *)
(* the system may stop.                                                      *)
EXTENDS FloatBall
=============================================================================
