--------------------------- MODULE AtMostOnceCall ---------------------------
(***************************************************************************)
(* What a command sent to a Companion promises its caller, whatever happens *)
(* to the control connection: the command runs at most once, and "answered" *)
(* is reported only for a command that ran.  "closed" and "timeout" promise *)
(* nothing: the command may have run, or may still run after the caller was *)
(* told.  CompanionLink implements this specification.                      *)
(***************************************************************************)
EXTENDS Naturals

CONSTANT Calls            \* identifiers of the calls (the request_id uuids)

VARIABLES
  outcome,    \* [Calls -> Outcomes]: what the caller knows
  runs        \* [Calls -> Nat]: how often the Companion ran the command

avars == <<outcome, runs>>

Settled == {"answered", "closed", "timeout"}

Outcomes == {"idle", "waiting"} \union Settled

AInit ==
  /\ outcome = [r \in Calls |-> "idle"]
  /\ runs = [r \in Calls |-> 0]

Begin(r) ==
  /\ outcome[r] = "idle"
  /\ outcome' = [outcome EXCEPT ![r] = "waiting"]
  /\ UNCHANGED runs

\* The Companion may run a command its caller has already given up on, never
\* one nobody issued, and none twice.
Run(r) ==
  /\ outcome[r] # "idle"
  /\ runs[r] = 0
  /\ runs' = [runs EXCEPT ![r] = 1]
  /\ UNCHANGED outcome

Settle(r, how) ==
  /\ outcome[r] = "waiting"
  /\ how = "answered" => runs[r] = 1
  /\ outcome' = [outcome EXCEPT ![r] = how]
  /\ UNCHANGED runs

ANext ==
  \E r \in Calls : Begin(r) \/ Run(r) \/ \E how \in Settled : Settle(r, how)

ASpec == AInit /\ [][ANext]_avars
=============================================================================
