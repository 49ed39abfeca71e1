--------------------------- MODULE AgentActivity ----------------------------
(***************************************************************************)
(* The agent activity read model (domains/agent_activity/service.py).       *)
(*                                                                         *)
(* Hooks of the agent runtimes and OpenFocus' own agent sessions send       *)
(* runtime signals.  Each is handled in one database transaction: it is     *)
(* correlated to a task, finds or creates a turn, and rewrites the session, *)
(* the turn and the one activity row of the task, from which the float ball *)
(* and the dashboard count what is running and what waits for the user.     *)
(*                                                                         *)
(* Signals come from separate hook processes, over a socket or a spool file *)
(* that is read later, so any order and any mixture is possible.  Left out: *)
(* the journal, summaries, severities and times, and the agent's name.      *)
(***************************************************************************)
EXTENDS Naturals, FiniteSets

CONSTANTS
  Tasks, Sessions,
  Turns,      \* turn ids, the ones signals carry and the fresh uuids
  Kinds,      \* the turn signals that arrive, of those StateForKind names
  Place,      \* [Sessions -> Tasks or None]: the task the AgentSession, the
              \* terminal or the directory of a session leads to
  None

ASSUME TurnsAssumption == IsFiniteSet(Turns)
ASSUME NoneAssumption == None \notin Tasks \union Sessions \union Turns
ASSUME PlaceAssumption == Place \in [Sessions -> Tasks \union {None}]

VARIABLES
  task,       \* the tasks that exist
  turn,       \* [Turns -> TurnRows or NoTurn]: agent_turns
  session,    \* [Sessions -> SessionRows]: agent_runtime_sessions
  row         \* [Tasks -> ActivityRows or NoRow]: task_agent_activity

vars == <<task, turn, session, row>>

ActiveStates == {"running", "waiting"}
TurnStates == ActiveStates \union {"completed", "failed", "canceled", "stale"}
RowStates == (TurnStates \ {"completed"}) \union {"review_ready"}
SessionStates == {"absent", "idle", "running", "waiting", "ended", "offline"}

(* The turn kinds of _state_for_kind, and the state each leads to.           *)
StateForKind ==
  [submitted |-> "running", activity |-> "running", waiting |-> "waiting",
   completed |-> "completed", failed |-> "failed", canceled |-> "canceled",
   stale |-> "stale"]

ASSUME KindsAssumption == Kinds \subseteq DOMAIN StateForKind

RowState(s) == IF s = "completed" THEN "review_ready" ELSE s
SessionState(s) == IF s \in ActiveStates THEN s ELSE "idle"

\* nr is the autoincremented id: turns are searched newest first.
NoTurn == [nr |-> 0, state |-> "stale", session |-> None, task |-> None]
NoRow == [state |-> "stale", turn |-> None, kind |-> "stale", hidden |-> FALSE]

Init ==
  /\ task = Tasks
  /\ turn = [u \in Turns |-> NoTurn]
  /\ session = [s \in Sessions |-> [state |-> "absent", task |-> None]]
  /\ row = [t \in Tasks |-> NoRow]

Known == {u \in Turns : turn[u].nr # 0}
Active == {u \in Known : turn[u].state \in ActiveStates}
Newest(U) == {u \in U : \A v \in U : turn[v].nr <= turn[u].nr}
-----------------------------------------------------------------------------
(* _correlate_task_public_id: a task named by the signal if it exists, then  *)
(* what the session was last correlated to, then where the session lives.    *)
Correlate(direct, s) ==
  IF direct \in task THEN direct
  ELSE IF s = None THEN None
  ELSE IF session[s].task # None THEN session[s].task ELSE Place[s]

\* the latest active turn of the task is not looked for
FindTurn_SessionOnly(u, s, t) ==
  LET ofSession == {v \in Active : s # None /\ turn[v].session = s} IN
  CASE u \in Known -> {u}
    [] u \notin Known /\ ofSession # {} -> Newest(ofSession)
    [] OTHER -> {}

(* _find_active_turn, as a set of at most one turn: the turn the signal      *)
(* names, whatever its state, else the latest active turn of the session,    *)
(* else of the task.                                                         *)
FindTurn(u, s, t) ==
  LET ofSession == {v \in Active : s # None /\ turn[v].session = s}
      ofTask == {v \in Active : turn[v].task = t} IN
  CASE u \in Known -> {u}
    [] u \notin Known /\ ofSession # {} -> Newest(ofSession)
    [] u \notin Known /\ ofSession = {} /\ ofTask # {} -> Newest(ofTask)
    [] OTHER -> {}

UpsertSession(s, state, t) ==
  session' = IF s = None THEN session
             ELSE [session EXCEPT ![s].state = state,
                                  ![s].task = IF t # None THEN t ELSE @]

(* A turn that a signal creates gets the id the signal carries, or a uuid.   *)
NewId(u) == IF u # None THEN {u} ELSE Turns \ Known

\* the old row keeps its turn
WriteTurn_KeepRowTurn(v, k, s, t) ==
  LET state == StateForKind[k]
      old == turn[v] IN
  /\ turn' = [turn EXCEPT ![v] =
       [nr |-> IF v \in Known THEN old.nr ELSE Cardinality(Known) + 1,
        state |-> state,
        session |-> IF s # None THEN s ELSE old.session,
        task |-> t]]
  /\ UpsertSession(s, SessionState(state), t)
  /\ row' = [row EXCEPT ![t] =
       [state |-> RowState(state), turn |-> IF @.turn # None THEN @.turn ELSE v,
        kind |-> k, hidden |-> FALSE]]

(* handle_runtime_signal from the turn on: the turn moves to the signal's    *)
(* session and task, and the task's row now speaks of this turn.             *)
WriteTurn(v, k, s, t) ==
  LET state == StateForKind[k]
      old == turn[v] IN
  /\ turn' = [turn EXCEPT ![v] =
       [nr |-> IF v \in Known THEN old.nr ELSE Cardinality(Known) + 1,
        state |-> state,
        session |-> IF s # None THEN s ELSE old.session,
        task |-> t]]
  /\ UpsertSession(s, SessionState(state), t)
  /\ row' = [row EXCEPT ![t] = [state |-> RowState(state), turn |-> v,
                                kind |-> k, hidden |-> FALSE]]

\* an activity signal opens a turn like any other
TurnSignal_AnyOpens(k, u, s, direct) ==
  LET t == Correlate(direct, s)
      found == FindTurn(u, s, t) IN
  /\ t \in task
  /\ \E v \in IF found # {} THEN found ELSE NewId(u) : WriteTurn(v, k, s, t)
  /\ UNCHANGED task

(* A runtime.turn signal.  It is ignored if no existing task is found, and   *)
(* an activity signal (a tool hook) never opens a turn.                      *)
TurnSignal(k, u, s, direct) ==
  LET t == Correlate(direct, s)
      found == FindTurn(u, s, t) IN
  /\ t \in task
  /\ k = "activity" => found # {}
  /\ \E v \in IF found # {} THEN found ELSE NewId(u) : WriteTurn(v, k, s, t)
  /\ UNCHANGED task

(* runtime.session.started and resumed.                                      *)
SessionStarted(s, direct) ==
  /\ UpsertSession(s, "idle", Correlate(direct, s))
  /\ UNCHANGED <<task, turn, row>>

(* The rows of the tasks of the turns that went stale.  The loop writes the  *)
(* row of a task once per turn, in an order the query does not fix.          *)
WriteStale(stale) ==
  /\ turn' = [v \in Turns |->
       IF v \in stale THEN [turn[v] EXCEPT !.state = "stale"] ELSE turn[v]]
  /\ \E last \in [Tasks -> stale \union {None}] :
       /\ \A t \in Tasks :
            IF \E v \in stale : turn[v].task = t
            THEN last[t] \in stale /\ turn[last[t]].task = t
            ELSE last[t] = None
       /\ row' = [t \in Tasks |->
            IF last[t] = None THEN row[t]
            ELSE [state |-> "stale", turn |-> last[t], kind |-> "stale",
                  hidden |-> FALSE]]

\* only the turns of the task that the signal names go stale
SessionOver_Named(s, state, direct) ==
  /\ UpsertSession(s, state, Correlate(direct, s))
  /\ WriteStale({v \in Active : turn[v].session = s /\ turn[v].task = direct})
  /\ UNCHANGED task

\* the rows are left as they are
SessionOver_KeepRows(s, state, direct) ==
  /\ UpsertSession(s, state, Correlate(direct, s))
  /\ turn' = [v \in Turns |->
       IF v \in Active /\ turn[v].session = s /\ turn[v].task \in task
       THEN [turn[v] EXCEPT !.state = "stale"] ELSE turn[v]]
  /\ UNCHANGED <<task, row>>

(* runtime.session.ended and offline: every active turn of the session whose *)
(* task still exists goes stale.                                             *)
SessionOver(s, state, direct) ==
  /\ UpsertSession(s, state, Correlate(direct, s))
  /\ WriteStale({v \in Active : turn[v].session = s /\ turn[v].task \in task})
  /\ UNCHANGED task

(* dismiss_activity hides a row until the next signal of its task.           *)
Dismiss(t) ==
  /\ row[t] # NoRow
  /\ row' = [row EXCEPT ![t].hidden = TRUE]
  /\ UNCHANGED <<task, turn, session>>

(* delete_task of domains/goals/service.py leaves turns and rows behind.     *)
DeleteTask(t) ==
  /\ t \in task
  /\ task' = task \ {t}
  /\ UNCHANGED <<turn, session, row>>
-----------------------------------------------------------------------------
SessionSignal(s, direct) ==
  \/ SessionStarted(s, direct)
  \/ \E state \in {"ended", "offline"} : SessionOver(s, state, direct)

UserStep(t) == Dismiss(t) \/ DeleteTask(t)

(* A signal that names a turn carries its session too: hooks always send     *)
(* session_id, and agent sessions send both.  A signal without a session     *)
(* names its task only.                                                      *)
Next ==
  \/ \E s \in Sessions, direct \in Tasks \union {None} :
       \/ SessionSignal(s, direct)
       \/ \E k \in Kinds, u \in Turns \union {None} : TurnSignal(k, u, s, direct)
  \/ \E k \in Kinds, t \in Tasks : TurnSignal(k, None, None, t)
  \/ \E t \in Tasks : UserStep(t)

Spec == Init /\ [][Next]_vars

(* The hooks of a runtime without turn ids, in sessions that stay in place:  *)
(* each was started in the agent space of one task, whose id its hooks carry *)
(* or leave to the lookup of the directory.                                  *)
HookNext ==
  \/ \E s \in Sessions : \E direct \in {Place[s], None} :
       \/ SessionSignal(s, direct)
       \/ \E k \in Kinds : TurnSignal(k, None, s, direct)
  \/ \E t \in Tasks : UserStep(t)

HookSpec == Init /\ [][HookNext]_vars
-----------------------------------------------------------------------------
TurnRows == [nr : Nat, state : TurnStates, session : Sessions \union {None},
             task : Tasks \union {None}]

TypeOK ==
  /\ task \in SUBSET Tasks
  /\ turn \in [Turns -> TurnRows]
  /\ session \in [Sessions -> [state : SessionStates, task : Tasks \union {None}]]
  /\ row \in [Tasks -> [state : RowStates, turn : Turns \union {None},
                        kind : DOMAIN StateForKind, hidden : BOOLEAN]]

(* Whatever signals arrive, a task's row never lies about the turn it names: *)
(* as long as that turn belongs to the task, the row shows the turn's state. *)
RowTellsItsTurn ==
  \A t \in Tasks : row[t] # NoRow =>
    /\ row[t].turn \in Known
    /\ turn[row[t].turn].task = t => row[t].state = RowState(turn[row[t].turn].state)

(* A session that ended or went offline leaves no turn running or waiting,   *)
(* so the float ball never counts an agent whose process is gone; a turn of  *)
(* a deleted task is the exception.                                          *)
EndedSessionsAreQuiet ==
  \A s \in Sessions : session[s].state \in {"ended", "offline"} =>
    ~ \E u \in Active : turn[u].session = s /\ turn[u].task \in task

(* Signals without turn ids never make two turns of a task active at once:   *)
(* a second session that works on the task takes over the active turn.       *)
OneActiveTurnPerTask ==
  \A u, v \in Active : turn[u].task = turn[v].task => u = v

(* With such signals a row is running or waiting exactly if a turn of  *)
(* its task is, and the badges count turns.                                  *)
RowShowsActiveTurn ==
  \A t \in task, s \in ActiveStates :
    (row[t] # NoRow /\ row[t].state = s)
      <=> \E u \in Active : turn[u].task = t /\ turn[u].state = s

(* A tool hook that arrives after its turn ended, from the spool say, does   *)
(* not bring the task back to running.                                       *)
LateActivityIgnored ==
  [][\A t \in Tasks :
       row[t].state \notin ActiveStates /\ row'[t].state = "running"
         => row'[t].kind # "activity"]_vars
=============================================================================
