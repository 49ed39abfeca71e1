------------------------ MODULE AgentActivityProofs -------------------------
(***************************************************************************)
(* Proofs about AgentActivity for any tasks, sessions and (finitely many)   *)
(* turns: its types, that rows tell the truth about the turn they name and  *)
(* that sessions that are over have no active turn, all under any signals;  *)
(* and that hooks without turn ids keep at most one active turn per task.   *)
(***************************************************************************)
EXTENDS AgentActivity, FiniteSetTheorems, TLAPS

(* The number of turns is a natural number, so a created turn gets an id     *)
(* and is no longer NoTurn.                                                  *)
LEMMA FreshNumber == Cardinality(Known) \in Nat
  BY TurnsAssumption, FS_Subset, FS_CardinalityType DEF Known

(* What a signal is correlated to is a task or None.                         *)
LEMMA CorrelateTyped ==
  ASSUME TypeOK, NEW s \in Sessions \union {None},
         NEW direct \in Tasks \union {None}
  PROVE  Correlate(direct, s) \in Tasks \union {None}
  BY PlaceAssumption DEF TypeOK, Correlate

(* The search returns turns, and if the signal's id is unknown, active ones. *)
LEMMA FoundTurns ==
  ASSUME NEW u, NEW s, NEW t
  PROVE  /\ FindTurn(u, s, t) \subseteq Known
         /\ u \notin Known => FindTurn(u, s, t) \subseteq Active
         /\ u \notin Known =>
              \A v \in FindTurn(u, s, t) :
                (s # None /\ turn[v].session = s) \/ turn[v].task = t
  BY DEF FindTurn, Newest, Active

(* The upsert keeps the sessions typed and touches only the signal's own.    *)
LEMMA UpsertTyped ==
  ASSUME TypeOK, NEW s \in Sessions \union {None}, NEW t \in Tasks \union {None},
         NEW state \in SessionStates, UpsertSession(s, state, t)
  PROVE  /\ session' \in [Sessions -> [state : SessionStates,
                                        task : Tasks \union {None}]]
         /\ \A q \in Sessions : session'[q].state =
              IF q = s THEN state ELSE session[q].state
         /\ \A q \in Sessions : session'[q].task =
              IF q = s /\ t # None THEN t ELSE session[q].task
  BY NoneAssumption DEF TypeOK, UpsertSession

\* A turn id that is not in use has no row.
BlankTurns == \A v \in Turns \ Known : turn[v] = NoTurn

Inv == TypeOK /\ RowTellsItsTurn /\ EndedSessionsAreQuiet /\ BlankTurns

(* The initial tables are empty.                                             *)
LEMMA InitInv == Init => Inv
  BY DEF Init, Inv, BlankTurns, TypeOK, RowTellsItsTurn, EndedSessionsAreQuiet, NoTurn,
         NoRow, TurnRows, TurnStates, ActiveStates, RowStates, SessionStates,
         StateForKind, Known, Active

(* A turn signal writes its turn and the row of its task together.           *)
LEMMA TurnSignalInv ==
  ASSUME Inv, NEW k \in Kinds, NEW u \in Turns \union {None},
         NEW s \in Sessions \union {None}, NEW direct \in Tasks \union {None},
         u # None => s # None,
         TurnSignal(k, u, s, direct)
  PROVE  Inv'
<1> DEFINE t == Correlate(direct, s)
<1>1. PICK v \in IF FindTurn(u, s, t) # {} THEN FindTurn(u, s, t) ELSE NewId(u) :
             WriteTurn(v, k, s, t)
  BY DEF TurnSignal
<1>2. t \in Tasks /\ t \in task /\ UNCHANGED task /\ TypeOK
  BY DEF TurnSignal, Inv, TypeOK
<1> HIDE DEF t
<1> DEFINE st == StateForKind[k]
<1>3. v \in Turns
  BY <1>1, FoundTurns DEF NewId, Known
<1>4. /\ st \in TurnStates
      /\ RowState(st) \in RowStates
      /\ SessionState(st) \in SessionStates
      /\ SessionState(st) \notin {"ended", "offline"}
      /\ k \in DOMAIN StateForKind
  BY KindsAssumption DEF StateForKind, TurnStates, ActiveStates, RowState,
     RowStates, SessionState, SessionStates
<1> DEFINE n == IF v \in Known THEN turn[v].nr ELSE Cardinality(Known) + 1
           q == IF s # None THEN s ELSE turn[v].session
<1>5. /\ n \in Nat
      /\ q \in Sessions \union {None}
  BY <1>2, <1>3, FreshNumber DEF TypeOK, TurnRows
<1>6. /\ turn' = [turn EXCEPT ![v] =
                   [nr |-> n, state |-> st, session |-> q, task |-> t]]
      /\ UpsertSession(s, SessionState(st), t)
      /\ row' = [row EXCEPT ![t] = [state |-> RowState(st), turn |-> v,
                                    kind |-> k, hidden |-> FALSE]]
  BY <1>1 DEF WriteTurn
<1>7. n # 0
  BY FreshNumber DEF Known
<1> HIDE DEF st, n, q
<1>8. TypeOK'
  <2>1. turn' \in [Turns -> TurnRows]
    BY <1>2, <1>3, <1>4, <1>5, <1>6 DEF TypeOK, TurnRows
  <2>2. row' \in [Tasks -> [state : RowStates, turn : Turns \union {None},
                            kind : DOMAIN StateForKind, hidden : BOOLEAN]]
    BY <1>2, <1>3, <1>4, <1>6 DEF TypeOK
  <2>3. QED
    BY <1>2, <1>4, <1>6, <2>1, <2>2, UpsertTyped DEF TypeOK
<1>9. RowTellsItsTurn'
  BY <1>2, <1>3, <1>5, <1>6, <1>7
     DEF Inv, TypeOK, RowTellsItsTurn, Known, NoRow
<1>10. EndedSessionsAreQuiet'
  <2> SUFFICES ASSUME NEW z \in Sessions, session'[z].state \in {"ended", "offline"},
                      NEW w \in Active', turn'[w].session = z,
                      turn'[w].task \in task
               PROVE  FALSE
    BY <1>2 DEF EndedSessionsAreQuiet
  <2>1. z # s /\ session[z].state \in {"ended", "offline"}
    BY <1>2, <1>4, <1>6, UpsertTyped
  <2>2. w = v
    BY <1>2, <1>3, <1>6, <2>1
       DEF Inv, TypeOK, EndedSessionsAreQuiet, Active, Known
  <2>3. q = z
    BY <1>2, <1>3, <1>6, <2>2 DEF TypeOK
  <2>4. s = None /\ turn[v].session = z /\ u = None
    BY <2>1, <2>3 DEF q
  <2>5. u \notin Known
    BY <2>4, NoneAssumption DEF Known
  <2>6. CASE FindTurn(u, s, t) # {}
    <3>1. v \in Active /\ turn[v].task = t
      BY <1>1, <2>4, <2>5, <2>6, FoundTurns
    <3>2. QED
      BY <1>2, <2>1, <2>4, <3>1 DEF Inv, EndedSessionsAreQuiet
  <2>7. CASE FindTurn(u, s, t) = {}
    <3>1. v \notin Known
      BY <1>1, <2>4, <2>7 DEF NewId
    <3>2. QED
      BY <1>3, <2>4, <3>1, NoneAssumption DEF Inv, BlankTurns, NoTurn
  <2>8. QED
    BY <2>6, <2>7
<1>11. BlankTurns'
  BY <1>2, <1>3, <1>5, <1>6, <1>7 DEF Inv, BlankTurns, TypeOK, Known
<1>12. QED
  BY <1>8, <1>9, <1>10, <1>11 DEF Inv

(* The end of a session writes each stale turn and the row of its task.      *)
LEMMA SessionOverInv ==
  ASSUME Inv, NEW s \in Sessions, NEW state \in {"ended", "offline"},
         NEW direct \in Tasks \union {None},
         SessionOver(s, state, direct)
  PROVE  Inv'
<1> DEFINE over == {v \in Active : turn[v].session = s /\ turn[v].task \in task}
<1>1. /\ UpsertSession(s, state, Correlate(direct, s))
      /\ turn' = [v \in Turns |->
           IF v \in over THEN [turn[v] EXCEPT !.state = "stale"] ELSE turn[v]]
      /\ UNCHANGED task
  BY DEF SessionOver, WriteStale
<1>2. PICK last \in [Tasks -> over \union {None}] :
        /\ \A t \in Tasks :
             IF \E v \in over : turn[v].task = t
             THEN last[t] \in over /\ turn[last[t]].task = t
             ELSE last[t] = None
        /\ row' = [t \in Tasks |->
             IF last[t] = None THEN row[t]
             ELSE [state |-> "stale", turn |-> last[t], kind |-> "stale",
                   hidden |-> FALSE]]
  BY DEF SessionOver, WriteStale
<1>3. TypeOK /\ over \subseteq Known /\ Known \subseteq Turns
  BY DEF Inv, Active, Known
<1>4. Correlate(direct, s) \in Tasks \union {None} /\ state \in SessionStates
  BY <1>3, CorrelateTyped DEF SessionStates
<1>5. \A v \in Turns :
        /\ turn'[v] \in TurnRows
        /\ turn'[v].task = turn[v].task
        /\ turn'[v].session = turn[v].session
        /\ turn'[v].state = IF v \in over THEN "stale" ELSE turn[v].state
        /\ turn'[v].nr = turn[v].nr
        /\ v \notin over => turn'[v] = turn[v]
  BY <1>1, <1>3 DEF TypeOK, TurnRows, TurnStates
<1>6. TypeOK'
  <2>1. turn' \in [Turns -> TurnRows]
    BY <1>1, <1>5
  <2>2. row' \in [Tasks -> [state : RowStates, turn : Turns \union {None},
                            kind : DOMAIN StateForKind, hidden : BOOLEAN]]
    BY <1>2, <1>3 DEF TypeOK, RowStates, TurnStates, StateForKind
  <2>3. QED
    BY <1>1, <1>3, <1>4, <2>1, <2>2, UpsertTyped DEF TypeOK
<1>7. \A v \in over : v \in Known'
  BY <1>3, <1>5 DEF Known
<1>8. \A v \in Known : v \in Known'
  BY <1>5, <1>7 DEF Known
<1> HIDE DEF over
<1>9. RowTellsItsTurn'
  <2> SUFFICES ASSUME NEW t \in Tasks, row'[t] # NoRow
               PROVE  /\ row'[t].turn \in Known'
                      /\ turn'[row'[t].turn].task = t =>
                           row'[t].state = RowState(turn'[row'[t].turn].state)
    BY DEF RowTellsItsTurn
  <2>1. CASE last[t] # None
    BY <1>2, <1>3, <1>5, <1>7, <2>1 DEF RowState
  <2>2. CASE last[t] = None
    <3>1. row'[t] = row[t]
      BY <1>2, <2>2
    <3>2. row[t].turn \in Known /\ row[t].turn \in Turns
      BY <1>3, <3>1 DEF Inv, RowTellsItsTurn
    <3>3. row[t].turn \notin over \/ turn[row[t].turn].task # t
      BY <1>2, <1>3, <2>2, <3>2, NoneAssumption
    <3>4. QED
      BY <1>5, <1>8, <3>1, <3>2, <3>3 DEF Inv, RowTellsItsTurn
  <2>3. QED
    BY <2>1, <2>2
<1>10. EndedSessionsAreQuiet'
  <2> SUFFICES ASSUME NEW z \in Sessions, session'[z].state \in {"ended", "offline"},
                      NEW w \in Active', turn'[w].session = z,
                      turn'[w].task \in task
               PROVE  FALSE
    BY <1>1 DEF EndedSessionsAreQuiet
  <2>1. w \notin over /\ w \in Turns
    BY <1>5 DEF Active, Known, ActiveStates
  <2>2. w \in Active /\ turn[w].session = z /\ turn[w].task \in task
    BY <1>5, <2>1 DEF Active, Known
  <2>3. z = s
    BY <1>1, <1>3, <1>4, <2>2, UpsertTyped DEF Inv, EndedSessionsAreQuiet
  <2>4. QED
    BY <2>1, <2>2, <2>3 DEF over
<1>11. BlankTurns'
  BY <1>3, <1>5 DEF Inv, BlankTurns, Known
<1>12. QED
  BY <1>6, <1>9, <1>10, <1>11 DEF Inv

(* The other steps leave the turns alone.                                    *)
LEMMA OtherInv ==
  ASSUME Inv,
         \/ UNCHANGED vars
         \/ \E t \in Tasks : UserStep(t)
         \/ \E s \in Sessions, direct \in Tasks \union {None} :
              SessionStarted(s, direct)
  PROVE  Inv'
<1>1. CASE UNCHANGED vars
  BY <1>1 DEF vars, Inv, TypeOK, RowTellsItsTurn, EndedSessionsAreQuiet, BlankTurns,
              Active, Known
<1>2. ASSUME NEW t \in Tasks, Dismiss(t) PROVE Inv'
  <2>1. TypeOK'
    BY <1>2 DEF Dismiss, Inv, TypeOK
  <2>2. RowTellsItsTurn'
    <3>1. \A u \in Tasks : /\ row'[u] # NoRow => row[u] # NoRow
                           /\ row'[u].turn = row[u].turn /\ row'[u].state = row[u].state
      BY <1>2 DEF Dismiss, Inv, TypeOK
    <3>2. QED
      BY <1>2, <3>1 DEF Dismiss, Inv, RowTellsItsTurn, Known
  <2>3. EndedSessionsAreQuiet' /\ BlankTurns'
    BY <1>2 DEF Dismiss, Inv, EndedSessionsAreQuiet, BlankTurns, Active, Known
  <2>4. QED
    BY <2>1, <2>2, <2>3 DEF Inv
<1>3. ASSUME NEW t \in Tasks, DeleteTask(t) PROVE Inv'
  BY <1>3 DEF DeleteTask, Inv, TypeOK, RowTellsItsTurn, EndedSessionsAreQuiet, BlankTurns,
              Active, Known
<1>4. ASSUME NEW s \in Sessions, NEW direct \in Tasks \union {None},
             SessionStarted(s, direct)
      PROVE  Inv'
  <2>1. TypeOK
    BY DEF Inv
  <2>2. /\ UpsertSession(s, "idle", Correlate(direct, s))
        /\ UNCHANGED <<task, turn, row>>
        /\ "idle" \in SessionStates
    BY <1>4 DEF SessionStarted, SessionStates
  <2>3. /\ session' \in [Sessions -> [state : SessionStates,
                                       task : Tasks \union {None}]]
        /\ \A q \in Sessions : session'[q].state =
             IF q = s THEN "idle" ELSE session[q].state
    BY <2>1, <2>2, UpsertTyped, CorrelateTyped
  <2>4. QED
    BY <2>2, <2>3 DEF Inv, TypeOK, RowTellsItsTurn, EndedSessionsAreQuiet, BlankTurns,
                      Active, Known
<1>5. QED
  BY <1>1, <1>2, <1>3, <1>4 DEF UserStep

(* Every step of the full specification keeps the invariant.                 *)
LEMMA StepInv == Inv /\ [Next]_vars => Inv'
<1> SUFFICES ASSUME Inv, [Next]_vars PROVE Inv'
  OBVIOUS
<1>1. ASSUME NEW s \in Sessions, NEW direct \in Tasks \union {None},
             SessionSignal(s, direct)
      PROVE  Inv'
  BY <1>1, SessionOverInv, OtherInv DEF SessionSignal
<1>2. ASSUME NEW s \in Sessions, NEW direct \in Tasks \union {None},
             NEW k \in Kinds, NEW u \in Turns \union {None},
             TurnSignal(k, u, s, direct)
      PROVE  Inv'
  BY <1>2, TurnSignalInv, NoneAssumption
<1>3. ASSUME NEW t \in Tasks, NEW k \in Kinds, TurnSignal(k, None, None, t)
      PROVE  Inv'
  BY <1>3, TurnSignalInv
<1>4. QED
  BY <1>1, <1>2, <1>3, OtherInv DEF Next

(* Under any signals, the tables keep their types, a row tells the truth     *)
(* about the turn it names, and a session that is over has no active turn.   *)
THEOREM ActivityConsistent ==
  Spec => [](TypeOK /\ RowTellsItsTurn /\ EndedSessionsAreQuiet)
<1>1. Spec => []Inv
  BY InitInv, StepInv, PTL DEF Spec
<1>2. QED
  BY <1>1, PTL DEF Inv
-----------------------------------------------------------------------------
(* In HookSpec sessions are only ever correlated to their place, and active  *)
(* turns belong to a session and to its place.                               *)
InPlace ==
  /\ \A s \in Sessions : session[s].task \in {None, Place[s]}
  /\ \A v \in Active : /\ turn[v].session \in Sessions
                       /\ turn[v].task = Place[turn[v].session]
                       /\ turn[v].task \in Tasks

HookInv == Inv /\ InPlace /\ OneActiveTurnPerTask

(* A hook is correlated to the place of its session if that task exists.     *)
LEMMA HookPlace ==
  ASSUME HookInv, NEW s \in Sessions, NEW direct \in {Place[s], None}
  PROVE  /\ Correlate(direct, s) \in task => Correlate(direct, s) = Place[s]
         /\ Correlate(direct, s) \in {None, Place[s]}
  BY NoneAssumption, PlaceAssumption DEF HookInv, Inv, TypeOK, InPlace, Correlate

(* If the task has an active turn, a hook finds exactly that turn.           *)
LEMMA HookFinds ==
  ASSUME HookInv, NEW s \in Sessions, NEW v \in Active, turn[v].task = Place[s]
  PROVE  FindTurn(None, s, Place[s]) = {v}
<1>1. \A w \in Active : turn[w].session = s \/ turn[w].task = Place[s] => w = v
  BY DEF HookInv, InPlace, OneActiveTurnPerTask
<1>2. v \in Turns /\ turn[v].nr <= turn[v].nr
  BY DEF HookInv, Inv, TypeOK, TurnRows, Active, Known
<1>3. None \notin Known /\ s # None
  BY NoneAssumption DEF Known
<1> DEFINE ofSession == {w \in Active : s # None /\ turn[w].session = s}
           ofTask == {w \in Active : turn[w].task = Place[s]}
<1>4. ofTask = {v} /\ ofSession \in {{}, {v}}
  BY <1>1
<1>5. Newest({v}) = {v}
  BY <1>2 DEF Newest
<1>6. FindTurn(None, s, Place[s]) =
        IF ofSession # {} THEN Newest(ofSession)
        ELSE IF ofTask # {} THEN Newest(ofTask) ELSE {}
  BY <1>3, <1>4 DEF FindTurn
<1>7. QED
  BY <1>4, <1>5, <1>6

(* So a hook's turn signal leaves one active turn on the task.               *)
LEMMA HookTurnInv ==
  ASSUME HookInv, NEW k \in Kinds, NEW s \in Sessions,
         NEW direct \in {Place[s], None}, TurnSignal(k, None, s, direct)
  PROVE  HookInv'
<1>1. Inv'
  BY TurnSignalInv, PlaceAssumption DEF HookInv
<1>2. Correlate(direct, s) = Place[s] /\ Place[s] \in Tasks /\ s # None /\ TypeOK
  BY HookPlace, NoneAssumption DEF TurnSignal, HookInv, Inv, TypeOK
<1> DEFINE t == Place[s]
<1>3. PICK v \in IF FindTurn(None, s, t) # {} THEN FindTurn(None, s, t)
                 ELSE NewId(None) :
             WriteTurn(v, k, s, t)
  BY <1>2 DEF TurnSignal
<1>4. v \in Turns
  BY <1>3, FoundTurns DEF NewId, Known
<1>5. \A w \in Active : turn[w].task = t => w = v
  BY <1>3, HookFinds
<1>6. /\ turn'[v].session = s
      /\ turn'[v].task = t
      /\ \A w \in Turns \ {v} : turn'[w] = turn[w]
  BY <1>2, <1>3, <1>4 DEF WriteTurn, TypeOK
<1>7. \A w \in Active' : w = v \/ (w \in Active /\ turn'[w] = turn[w])
  BY <1>6 DEF Active, Known
<1>8. \A q \in Sessions :
        session'[q].task = IF q = s THEN t ELSE session[q].task
  <2>1. SessionState(StateForKind[k]) \in SessionStates
    BY KindsAssumption DEF StateForKind, SessionState, SessionStates, ActiveStates
  <2>2. QED
    BY <1>2, <1>3, <2>1, NoneAssumption, UpsertTyped DEF WriteTurn
<1>9. InPlace'
  BY <1>2, <1>6, <1>7, <1>8 DEF InPlace, HookInv
<1>10. OneActiveTurnPerTask'
  BY <1>5, <1>6, <1>7 DEF OneActiveTurnPerTask, HookInv
<1>11. QED
  BY <1>1, <1>9, <1>10 DEF HookInv

(* The other steps make no turn active.                                      *)
LEMMA HookOtherInv ==
  ASSUME HookInv,
         \/ UNCHANGED vars
         \/ \E t \in Tasks : UserStep(t)
         \/ \E s \in Sessions : \E direct \in {Place[s], None} :
              SessionSignal(s, direct)
  PROVE  HookInv'
<1>1. CASE UNCHANGED vars
  <2>1. Inv'
    BY <1>1, OtherInv DEF HookInv
  <2>2. QED
    BY <1>1, <2>1 DEF vars, HookInv, InPlace, OneActiveTurnPerTask, Active, Known
<1>2. ASSUME NEW t \in Tasks, UserStep(t) PROVE HookInv'
  <2>1. Inv'
    BY <1>2, OtherInv DEF HookInv
  <2>2. UNCHANGED <<turn, session>>
    BY <1>2 DEF UserStep, Dismiss, DeleteTask
  <2>3. QED
    BY <2>1, <2>2 DEF HookInv, InPlace, OneActiveTurnPerTask, Active, Known
<1>3. ASSUME NEW s \in Sessions, NEW direct \in {Place[s], None},
             SessionSignal(s, direct)
      PROVE  HookInv'
  <2>1. direct \in Tasks \union {None} /\ Inv
    BY PlaceAssumption DEF HookInv
  <2>2. Inv'
    BY <1>3, <2>1, SessionOverInv, OtherInv DEF SessionSignal
  <2>3. \A v \in Active' : /\ v \in Active
                           /\ turn'[v].task = turn[v].task
                           /\ turn'[v].session = turn[v].session
    <3>1. CASE SessionStarted(s, direct)
      BY <3>1 DEF SessionStarted, Active, Known
    <3>2. ASSUME NEW state \in {"ended", "offline"}, SessionOver(s, state, direct)
          PROVE  \A v \in Active' : /\ v \in Active
                                    /\ turn'[v].task = turn[v].task
                                    /\ turn'[v].session = turn[v].session
      <4> DEFINE over == {v \in Active : turn[v].session = s /\ turn[v].task \in task}
      <4>1. turn' = [v \in Turns |->
               IF v \in over THEN [turn[v] EXCEPT !.state = "stale"] ELSE turn[v]]
        BY <3>2 DEF SessionOver, WriteStale
      <4>2. \A v \in over : turn'[v].state = "stale"
        BY <2>1, <4>1 DEF Inv, TypeOK, TurnRows, Active, Known
      <4>3. QED
        BY <4>1, <4>2 DEF Active, Known, ActiveStates
    <3>3. QED
      BY <1>3, <3>1, <3>2 DEF SessionSignal
  <2>4. \A q \in Sessions : session'[q].task \in {session[q].task, None, Place[q]}
    <3>1. PICK state \in SessionStates :
                 UpsertSession(s, state, Correlate(direct, s))
      BY <1>3 DEF SessionSignal, SessionStarted, SessionOver, SessionStates
    <3>2. QED
      BY <2>1, <3>1, HookPlace, UpsertTyped, CorrelateTyped DEF Inv
  <2>5. QED
    BY <2>2, <2>3, <2>4 DEF HookInv, InPlace, OneActiveTurnPerTask
<1>4. QED
  BY <1>1, <1>2, <1>3

(* Hooks without turn ids, from any number of sessions, never make two turns *)
(* of one task active.                                                       *)
THEOREM HooksKeepOneTurn == HookSpec => []OneActiveTurnPerTask
<1>1. Init => HookInv
  BY InitInv
     DEF Init, HookInv, InPlace, OneActiveTurnPerTask, Active, Known, NoTurn
<1>2. HookInv /\ [HookNext]_vars => HookInv'
  BY HookTurnInv, HookOtherInv DEF HookNext
<1>3. HookInv => OneActiveTurnPerTask
  BY DEF HookInv
<1>4. QED
  BY <1>1, <1>2, <1>3, PTL DEF HookSpec

-----------------------------------------------------------------------------
(* Under HookSpec a turn never changes its task, so the row of a task speaks *)
(* of a turn of the task, and of the active one if there is one.             *)
RowsOwnTheirTurns ==
  \A t \in Tasks : row[t] # NoRow => turn[row[t].turn].task = t

ActiveTurnsHaveTheRow ==
  \A v \in Active : turn[v].task \in task =>
    row[turn[v].task] # NoRow /\ row[turn[v].task].turn = v

BadgeInv == HookInv /\ RowsOwnTheirTurns /\ ActiveTurnsHaveTheRow

(* A hook's turn signal writes the row of the turn it found or created.      *)
LEMMA BadgeTurnInv ==
  ASSUME BadgeInv, NEW k \in Kinds, NEW s \in Sessions,
         NEW direct \in {Place[s], None}, TurnSignal(k, None, s, direct)
  PROVE  RowsOwnTheirTurns' /\ ActiveTurnsHaveTheRow'
<1> DEFINE t == Place[s]
           found == FindTurn(None, s, t)
<1>1. HookInv /\ Inv /\ TypeOK /\ None \notin Known
  BY NoneAssumption DEF BadgeInv, HookInv, Inv, Known
<1>2. Correlate(direct, s) = t /\ t \in Tasks /\ t \in task /\ UNCHANGED task
  BY <1>1, HookPlace, NoneAssumption DEF TurnSignal, TypeOK
<1>3. PICK v \in IF found # {} THEN found ELSE NewId(None) : WriteTurn(v, k, s, t)
  BY <1>2 DEF TurnSignal
<1>4. v \in Turns
  BY <1>3, FoundTurns DEF NewId, Known
<1>5. \A w \in Active : turn[w].task = t => w = v
  BY <1>1, <1>3, HookFinds
<1>6. v \in Known => turn[v].task = t
  <2>1. CASE found # {}
    <3>1. v \in Active /\ (turn[v].session = s \/ turn[v].task = t)
      BY <1>1, <1>3, <2>1, FoundTurns
    <3>2. QED
      BY <1>1, <3>1 DEF HookInv, InPlace
  <2>2. CASE found = {}
    BY <1>3, <2>2 DEF NewId
  <2>3. QED
    BY <2>1, <2>2
<1>7. /\ turn'[v].task = t /\ \A w \in Turns \ {v} : turn'[w] = turn[w]
      /\ row'[t].turn = v /\ \A x \in Tasks \ {t} : row'[x] = row[x]
  BY <1>1, <1>2, <1>3, <1>4 DEF WriteTurn, TypeOK
<1>8. row'[t] # NoRow
  BY <1>4, <1>7, NoneAssumption DEF NoRow
<1>9. RowsOwnTheirTurns'
  <2> SUFFICES ASSUME NEW x \in Tasks, row'[x] # NoRow PROVE turn'[row'[x].turn].task = x
    BY DEF RowsOwnTheirTurns
  <2>1. CASE x = t
    BY <1>7, <2>1
  <2>2. CASE x # t
    <3>1. row[x].turn \in Known /\ turn[row[x].turn].task = x
      BY <1>1, <1>7, <2>2 DEF Inv, RowTellsItsTurn, BadgeInv, RowsOwnTheirTurns
    <3>2. row[x].turn # v
      BY <1>6, <2>2, <3>1
    <3>3. QED
      BY <1>7, <2>2, <3>1, <3>2 DEF Known
  <2>3. QED
    BY <2>1, <2>2
<1>10. ActiveTurnsHaveTheRow'
  <2> SUFFICES ASSUME NEW w \in Active', turn'[w].task \in task
               PROVE  row'[turn'[w].task] # NoRow /\ row'[turn'[w].task].turn = w
    BY <1>2 DEF ActiveTurnsHaveTheRow
  <2>1. CASE w = v
    BY <1>7, <1>8, <2>1
  <2>2. CASE w # v
    <3>1. w \in Active /\ turn'[w] = turn[w]
      BY <1>7, <2>2 DEF Active, Known
    <3>2. turn[w].task # t /\ turn[w].task \in Tasks
      BY <1>1, <1>5, <2>2, <3>1 DEF HookInv, InPlace
    <3>3. QED
      BY <1>7, <3>1, <3>2 DEF BadgeInv, ActiveTurnsHaveTheRow
  <2>3. QED
    BY <2>1, <2>2
<1>11. QED
  BY <1>9, <1>10

(* The end of a session writes the row of every task whose turn went stale.  *)
LEMMA BadgeOverInv ==
  ASSUME BadgeInv, NEW s \in Sessions, NEW state \in {"ended", "offline"},
         NEW direct \in {Place[s], None}, SessionOver(s, state, direct)
  PROVE  RowsOwnTheirTurns' /\ ActiveTurnsHaveTheRow'
<1> DEFINE over == {v \in Active : turn[v].session = s /\ turn[v].task \in task}
<1>1. HookInv /\ TypeOK /\ UNCHANGED task /\ None \notin over
  BY NoneAssumption DEF BadgeInv, HookInv, Inv, SessionOver, Active, Known
<1>2. turn' = [v \in Turns |->
        IF v \in over THEN [turn[v] EXCEPT !.state = "stale"] ELSE turn[v]]
  BY DEF SessionOver, WriteStale
<1>3. PICK last \in [Tasks -> over \union {None}] :
        /\ \A t \in Tasks :
             IF \E v \in over : turn[v].task = t
             THEN last[t] \in over /\ turn[last[t]].task = t
             ELSE last[t] = None
        /\ row' = [t \in Tasks |->
             IF last[t] = None THEN row[t]
             ELSE [state |-> "stale", turn |-> last[t], kind |-> "stale",
                   hidden |-> FALSE]]
  BY DEF SessionOver, WriteStale
<1>4. /\ over \subseteq Turns /\ over \subseteq Active
      /\ \A v \in Turns : turn'[v].task = turn[v].task
      /\ \A v \in Turns \ over : turn'[v] = turn[v]
      /\ \A v \in over : turn'[v].state = "stale"
  BY <1>1, <1>2 DEF TypeOK, TurnRows, Active, Known
<1> HIDE DEF over
<1>5. \A t \in Tasks : \/ row'[t] = row[t] /\ ~ \E v \in over : turn[v].task = t
                       \/ /\ row'[t].turn \in over /\ turn[row'[t].turn].task = t
  BY <1>1, <1>3
<1>6. RowsOwnTheirTurns'
  <2> SUFFICES ASSUME NEW t \in Tasks, row'[t] # NoRow PROVE turn'[row'[t].turn].task = t
    BY DEF RowsOwnTheirTurns
  <2>1. CASE row'[t] = row[t]
    <3>1. row[t].turn \in Turns /\ turn[row[t].turn].task = t
      BY <2>1 DEF BadgeInv, HookInv, Inv, RowTellsItsTurn, Known, RowsOwnTheirTurns
    <3>2. QED
      BY <1>4, <2>1, <3>1
  <2>2. CASE row'[t].turn \in over /\ turn[row'[t].turn].task = t
    BY <1>4, <2>2
  <2>3. QED
    BY <1>5, <2>1, <2>2
<1>7. ActiveTurnsHaveTheRow'
  <2> SUFFICES ASSUME NEW w \in Active', turn'[w].task \in task
               PROVE  row'[turn'[w].task] # NoRow /\ row'[turn'[w].task].turn = w
    BY <1>1 DEF ActiveTurnsHaveTheRow
  <2>1. w \in Turns \ over /\ w \in Active /\ turn'[w] = turn[w]
    BY <1>4 DEF Active, Known, ActiveStates
  <2>2. turn[w].task \in Tasks
    BY <1>1, <2>1 DEF HookInv, InPlace
  <2>3. ~ \E v \in over : turn[v].task = turn[w].task
    BY <1>1, <1>4, <2>1 DEF HookInv, OneActiveTurnPerTask
  <2>4. row'[turn[w].task] = row[turn[w].task]
    BY <1>5, <2>2, <2>3
  <2>5. QED
    BY <2>1, <2>4 DEF BadgeInv, ActiveTurnsHaveTheRow
<1>8. QED
  BY <1>6, <1>7

(* So it is whatever happens.                                                *)
LEMMA BadgeStep == BadgeInv /\ [HookNext]_vars => BadgeInv'
<1> SUFFICES ASSUME BadgeInv, [HookNext]_vars PROVE BadgeInv'
  OBVIOUS
<1>1. HookInv'
  BY HookTurnInv, HookOtherInv DEF BadgeInv, HookNext
<1>2. CASE UNCHANGED <<turn, row>> /\ task' \subseteq task
  BY <1>1, <1>2 DEF BadgeInv, RowsOwnTheirTurns, ActiveTurnsHaveTheRow, Active, Known
<1>3. ASSUME NEW t \in Tasks, Dismiss(t) PROVE BadgeInv'
  <2>1. /\ UNCHANGED <<task, turn>> /\ row[t] # NoRow
        /\ \A x \in Tasks : row'[x].turn = row[x].turn
        /\ \A x \in Tasks \ {t} : row'[x] = row[x]
    BY <1>3 DEF Dismiss, BadgeInv, HookInv, Inv, TypeOK
  <2>2. row[t].turn # None
    BY <2>1, NoneAssumption DEF BadgeInv, HookInv, Inv, RowTellsItsTurn, Known
  <2>3. \A x \in Tasks : row'[x] # NoRow <=> row[x] # NoRow
    BY <2>1, <2>2 DEF NoRow
  <2>4. RowsOwnTheirTurns'
    BY <2>1, <2>3 DEF BadgeInv, RowsOwnTheirTurns
  <2>5. ActiveTurnsHaveTheRow'
    BY <2>1, <2>3
       DEF BadgeInv, HookInv, Inv, TypeOK, ActiveTurnsHaveTheRow, Active, Known
  <2>6. QED
    BY <1>1, <2>4, <2>5 DEF BadgeInv
<1>4. ASSUME NEW t \in Tasks, DeleteTask(t) PROVE BadgeInv'
  BY <1>2, <1>4 DEF DeleteTask
<1>5. ASSUME NEW s \in Sessions, NEW direct \in {Place[s], None}, SessionSignal(s, direct)
      PROVE  BadgeInv'
  BY <1>1, <1>2, <1>5, BadgeOverInv DEF SessionSignal, SessionStarted, BadgeInv
<1>6. ASSUME NEW s \in Sessions, NEW direct \in {Place[s], None}, NEW k \in Kinds,
             TurnSignal(k, None, s, direct)
      PROVE  BadgeInv'
  BY <1>1, <1>6, BadgeTurnInv DEF BadgeInv
<1>7. CASE UNCHANGED vars
  BY <1>2, <1>7 DEF vars
<1>8. QED
  BY <1>3, <1>4, <1>5, <1>6, <1>7 DEF HookNext, UserStep

LEMMA BadgeInit == Init => BadgeInv
  BY InitInv DEF Init, BadgeInv, HookInv, InPlace, OneActiveTurnPerTask,
     RowsOwnTheirTurns, ActiveTurnsHaveTheRow, Active, Known, NoTurn

(* Hooks without turn ids leave a row running or waiting exactly if a turn   *)
(* of its task is, so that what the float ball counts are turns.             *)
THEOREM RowsShowActiveTurns == HookSpec => []RowShowsActiveTurn
<1>1. BadgeInv => RowShowsActiveTurn
  <2> SUFFICES ASSUME BadgeInv, NEW t \in task, NEW s \in ActiveStates
               PROVE  (row[t] # NoRow /\ row[t].state = s)
                        <=> \E u \in Active : turn[u].task = t /\ turn[u].state = s
    BY DEF RowShowsActiveTurn
  <2>1. t \in Tasks /\ \A u \in Known : turn[u].state \in TurnStates
    BY DEF BadgeInv, HookInv, Inv, TypeOK, TurnRows, Known
  <2>2. \A state \in TurnStates : RowState(state) = s <=> state = s
    BY DEF RowState, TurnStates, ActiveStates
  <2>3. ASSUME row[t] # NoRow
        PROVE  /\ row[t].turn \in Known /\ turn[row[t].turn].task = t
               /\ row[t].state = s <=> turn[row[t].turn].state = s
    BY <2>1, <2>2, <2>3
       DEF BadgeInv, HookInv, Inv, RowTellsItsTurn, RowsOwnTheirTurns
  <2>4. ASSUME NEW u \in Active, turn[u].task = t
        PROVE  row[t] # NoRow /\ row[t].turn = u
    BY <2>4 DEF BadgeInv, ActiveTurnsHaveTheRow
  <2>5. QED
    BY <2>3, <2>4 DEF Active
<1>2. QED
  BY <1>1, BadgeInit, BadgeStep, PTL DEF HookSpec

(* With such hooks a tool hook that arrives late never brings a task back to *)
(* running: it finds no active turn and writes nothing.                      *)
THEOREM LateHooksIgnored == HookSpec => LateActivityIgnored
<1> DEFINE Revived(t) == /\ row[t].state \notin ActiveStates /\ row'[t].state = "running"
                         /\ row'[t].kind = "activity"
<1>1. ASSUME BadgeInv, [HookNext]_vars, NEW t \in Tasks, Revived(t)
      PROVE  FALSE
  <2>1. HookInv /\ TypeOK /\ row'[t] # row[t] /\ row[t].state # "running"
    BY <1>1 DEF BadgeInv, HookInv, Inv, ActiveStates
  <2>2. ASSUME NEW s \in Sessions, NEW direct \in {Place[s], None}, NEW k \in Kinds,
               TurnSignal(k, None, s, direct)
        PROVE  FALSE
    <3> DEFINE c == Correlate(direct, s)
               found == FindTurn(None, s, c)
    <3>1. c = Place[s] /\ c \in Tasks /\ c \in task
      BY <2>1, <2>2, HookPlace DEF TurnSignal, TypeOK
    <3>2. PICK v \in IF found # {} THEN found ELSE NewId(None) : WriteTurn(v, k, s, c)
      BY <2>2 DEF TurnSignal
    <3>3. k = "activity" => found # {}
      BY <2>2 DEF TurnSignal
    <3> HIDE DEF c
    <3>4. c = t /\ k = "activity"
      BY <1>1, <2>1, <3>1, <3>2 DEF WriteTurn, TypeOK
    <3>5. v \in Active /\ (turn[v].session = s \/ turn[v].task = t)
      <4>1. None \notin Known /\ v \in found
        BY <3>2, <3>3, <3>4, NoneAssumption DEF Known
      <4>2. QED
        BY <3>4, <4>1, FoundTurns
    <3>6. turn[v].task = t
      BY <2>1, <3>1, <3>4, <3>5 DEF HookInv, InPlace
    <3>7. row[t] # NoRow /\ row[t].turn = v /\ row[t].state = RowState(turn[v].state)
      <4>1. row[t] # NoRow /\ row[t].turn = v
        BY <1>1, <3>1, <3>4, <3>5, <3>6 DEF BadgeInv, ActiveTurnsHaveTheRow
      <4>2. RowTellsItsTurn
        BY <1>1 DEF BadgeInv, HookInv, Inv
      <4>3. QED
        BY <1>1, <3>6, <4>1, <4>2 DEF RowTellsItsTurn
    <3>8. QED
      BY <1>1, <3>5, <3>7 DEF RowState, Active, ActiveStates
  <2>3. ASSUME NEW s \in Sessions, NEW direct \in {Place[s], None}, SessionSignal(s, direct)
        PROVE  FALSE
    BY <1>1, <2>1, <2>3
       DEF SessionSignal, SessionStarted, SessionOver, WriteStale, TypeOK
  <2>4. ASSUME NEW x \in Tasks, UserStep(x) PROVE FALSE
    BY <1>1, <2>1, <2>4 DEF UserStep, Dismiss, DeleteTask, TypeOK
  <2>5. ~ UNCHANGED vars
    BY <2>1 DEF vars
  <2>6. QED
    BY <1>1, <2>2, <2>3, <2>4, <2>5 DEF HookNext
<1>2. BadgeInv /\ [HookNext]_vars =>
        [\A t \in Tasks :
           row[t].state \notin ActiveStates /\ row'[t].state = "running"
             => row'[t].kind # "activity"]_vars
  BY <1>1
<1>3. QED
  BY <1>2, BadgeInit, BadgeStep, PTL DEF HookSpec, LateActivityIgnored
=============================================================================
