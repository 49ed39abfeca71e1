------------------------ MODULE InspirationPlanning -------------------------
(***************************************************************************)
(* The planning workflow of the inspiration spaces: planner turns, drafts   *)
(* and publishing (domains/inspirations/service.py, publishing.py and the   *)
(* lifecycle of workspace.py).                                              *)
(*                                                                         *)
(* A turn adds a pending message and starts a background task that calls    *)
(* the language model and then settles the message, with a draft if a plan  *)
(* was asked for.  Publishing marks the space and starts a background task  *)
(* that writes the goal in a worker thread and then releases the space's    *)
(* terminals.  Every transaction is an action.  Turns, closing, confirming  *)
(* and the release run on the event loop, one at a time; reopening,         *)
(* deleting and the worker run in threads, and SQLite takes no lock before  *)
(* the first write of a transaction, so those of Racing are split into the  *)
(* read that checks the status and the write.                               *)
(*                                                                         *)
(* Ids are SQLite rowids: a new row gets the highest id of the table plus   *)
(* one, so the id of a deleted row may come back.                           *)
(*                                                                         *)
(* Left out: the resources, contents and versions (any draft of a space may *)
(* be named), user and system messages, the choice of tasks, the audit.     *)
(***************************************************************************)
EXTENDS Naturals, FiniteSets

CONSTANTS
  Turns,       \* the planner turns, one background task each
  Pubs,        \* the confirmed publications, one background task each
  MaxSpaces,   \* how many spaces there are at a time
  MaxGens,     \* how often an id is used for a space
  Racing,      \* the threaded transactions others may come in between
  None

Threaded == {"reopen", "delete", "publish"}

ASSUME BoundsAssumption == MaxSpaces \in Nat /\ MaxGens \in Nat
ASSUME RacingAssumption == Racing \subseteq Threaded
ASSUME TurnsAssumption == IsFiniteSet(Turns)

SpaceIds == 1..MaxSpaces
RowIds == 1..Cardinality(Turns)      \* message and draft ids: one per turn at most

VARIABLES
  space,    \* [SpaceIds -> SpaceRows]; gen counts the spaces that had this id
  msg,      \* [RowIds -> MsgRows]: the assistant's messages of the turns
  draft,    \* [RowIds -> SpaceIds or 0]: the space of each draft, 0 for no row
  turn,     \* [Turns -> TurnTasks]: the kickoff_followup tasks
  pub,      \* [Pubs -> PubTasks]: the kickoff_publish tasks
  checked   \* the threaded requests between their check and their write

vars == <<space, msg, draft, turn, pub, checked>>

Out == {"publishing_releasing", "published"}       \* its goal is written
Statuses == {"open", "closed", "publishing"} \union Out

NoMsg == [space |-> 0, kind |-> "none"]

Init ==
  /\ space = [i \in SpaceIds |-> [status |-> "none", gen |-> 0]]
  /\ msg = [m \in RowIds |-> NoMsg]
  /\ draft = [d \in RowIds |-> 0]
  /\ turn = [t \in Turns |-> [pc |-> "idle", space |-> 0, msg |-> 0, plan |-> FALSE]]
  /\ pub = [p \in Pubs |-> [pc |-> "idle", space |-> 0, draft |-> 0,
                            prev |-> None, goal |-> 0]]
  /\ checked = {}

Exists(i) == space[i].status # "none"
Waiting(i) == \E m \in RowIds : msg[m] = [space |-> i, kind |-> "pending"]

\* The rowid of the next row, when used are those in use.
IsNext(n, used) == \A m \in used : m < n /\ (n = 1 \/ n - 1 \in used)
NextIn(Ids, used) == {n \in Ids : IsNext(n, used) /\ (used = {} => n = 1)}

SetStatus(i, s) == space' = [space EXCEPT ![i].status = s]
-----------------------------------------------------------------------------
(* Lifecycle.                                                                *)

\* POST /api/inspirations and fork_space
Create ==
  \E i \in NextIn(SpaceIds, {j \in SpaceIds : Exists(j)}) :
    /\ space[i].gen < MaxGens
    /\ space' = [space EXCEPT ![i] = [status |-> "open", gen |-> @.gen + 1]]
    /\ UNCHANGED <<msg, draft, turn, pub, checked>>

\* close_space deletes the drafts and their messages, whatever is pending
Close(i) ==
  /\ space[i].status = "open"
  /\ SetStatus(i, "closed")
  /\ draft' = [d \in RowIds |-> IF draft[d] = i THEN 0 ELSE draft[d]]
  /\ msg' = [m \in RowIds |->
       IF msg[m] = [space |-> i, kind |-> "draft_generated"] THEN NoMsg ELSE msg[m]]
  /\ UNCHANGED <<turn, pub, checked>>

Allowed(what, i) ==
  IF what = "reopen" THEN space[i].status = "closed"
  ELSE space[i].status \notin {"none", "published"}

Check(what, i) ==
  /\ what \in Racing
  /\ Allowed(what, i)
  /\ <<what, i>> \notin checked
  /\ checked' = checked \union {<<what, i>>}
  /\ UNCHANGED <<space, msg, draft, turn, pub>>

MayWrite(what, i) ==
  \/ <<what, i>> \in checked
  \/ what \notin Racing /\ Allowed(what, i)

\* The status is written whatever it is by now; an update of no row fails.
Reopen(i) ==
  /\ MayWrite("reopen", i)
  /\ checked' = checked \ {<<"reopen", i>>}
  /\ IF Exists(i) THEN SetStatus(i, "open") ELSE UNCHANGED space
  /\ UNCHANGED <<msg, draft, turn, pub>>

\* delete_space, with every row of the space
Delete(i) ==
  /\ MayWrite("delete", i)
  /\ checked' = checked \ {<<"delete", i>>}
  /\ SetStatus(i, "none")
  /\ msg' = [m \in RowIds |-> IF msg[m].space = i THEN NoMsg ELSE msg[m]]
  /\ draft' = [d \in RowIds |-> IF draft[d] = i THEN 0 ELSE draft[d]]
  /\ UNCHANGED <<turn, pub>>
-----------------------------------------------------------------------------
(* Turns.  kickoff_followup first reads the rows and returns if one is gone; *)
(* that read changes nothing and is part of its later steps.                 *)

\* enqueue_turn
Enqueue(t, i) ==
  /\ turn[t].pc = "idle"
  /\ space[i].status = "open"
  /\ ~ Waiting(i)
  /\ \E m \in NextIn(RowIds, {n \in RowIds : msg[n] # NoMsg}), plan \in BOOLEAN :
       /\ msg' = [msg EXCEPT ![m] = [space |-> i, kind |-> "pending"]]
       /\ turn' = [turn EXCEPT ![t] =
            [pc |-> "thinking", space |-> i, msg |-> m, plan |-> plan]]
  /\ UNCHANGED <<space, draft, pub, checked>>

TurnRowsExist(t) == msg[turn[t].msg] # NoMsg /\ Exists(turn[t].space)

TurnAt(t, pc) == turn' = [turn EXCEPT ![t].pc = pc]

\* The model answered: settle the message, with a new draft for a plan.  If a
\* row is gone the task ends.  The space's status is not looked at.
Answer(t) ==
  LET m == turn[t].msg IN
  /\ turn[t].pc = "thinking"
  /\ \/ ~ TurnRowsExist(t) /\ TurnAt(t, "done") /\ UNCHANGED <<msg, draft>>
     \/ /\ TurnRowsExist(t) /\ turn[t].plan
        /\ \E d \in NextIn(RowIds, {e \in RowIds : draft[e] # 0}) :
             draft' = [draft EXCEPT ![d] = turn[t].space]
        /\ msg' = [msg EXCEPT ![m].kind = "draft_generated"]
        /\ TurnAt(t, "answered")
     \/ /\ TurnRowsExist(t) /\ ~ turn[t].plan
        /\ msg' = [msg EXCEPT ![m].kind = "message"]
        /\ TurnAt(t, "answered")
        /\ UNCHANGED draft
  /\ UNCHANGED <<space, pub, checked>>

\* the error is reported only while the space is open
TurnFails_OpenOnly(t) ==
  LET m == turn[t].msg IN
  /\ turn[t].pc \in {"thinking", "answered"}
  /\ msg' = IF msg[m] = NoMsg \/ space[turn[t].space].status # "open" THEN msg
            ELSE [msg EXCEPT ![m].kind = "error"]
  /\ TurnAt(t, "done")
  /\ UNCHANGED <<space, draft, pub, checked>>

\* The timeout, or any exception, also of the phase summary after the answer:
\* the message becomes an error.
TurnFails(t) ==
  LET m == turn[t].msg IN
  /\ turn[t].pc \in {"thinking", "answered"}
  /\ msg' = IF msg[m] = NoMsg THEN msg ELSE [msg EXCEPT ![m].kind = "error"]
  /\ TurnAt(t, "done")
  /\ UNCHANGED <<space, draft, pub, checked>>

TurnEnds(t) ==
  /\ turn[t].pc = "answered"
  /\ TurnAt(t, "done")
  /\ UNCHANGED <<space, msg, draft, pub, checked>>
-----------------------------------------------------------------------------
(* Publishing.                                                               *)
PubAt(p, pc) == pub' = [pub EXCEPT ![p].pc = pc]

PubTask(i, d, prev) ==
  [pc |-> "queued", space |-> i, draft |-> d, prev |-> prev, goal |-> 0]

\* prepare_publish accepts a space whatever its status
Confirm_AnyStatus(p, i, d) ==
  /\ pub[p].pc = "idle"
  /\ Exists(i)
  /\ ~ Waiting(i)
  /\ draft[d] = i
  /\ SetStatus(i, "publishing")
  /\ pub' = [pub EXCEPT ![p] = PubTask(i, d, space[i].status)]
  /\ UNCHANGED <<msg, draft, turn, checked>>

\* prepare_publish: the user confirmed draft d
Confirm(p, i, d) ==
  /\ pub[p].pc = "idle"
  /\ space[i].status \in {"open", "closed"}
  /\ ~ Waiting(i)
  /\ draft[d] = i
  /\ SetStatus(i, "publishing")
  /\ pub' = [pub EXCEPT ![p] = PubTask(i, d, space[i].status)]
  /\ UNCHANGED <<msg, draft, turn, checked>>

Publishable(p) ==
  /\ space[pub[p].space].status = "publishing"
  /\ draft[pub[p].draft] = pub[p].space

\* load_publish_snapshot, and the check at the head of the writing transaction
Load(p) ==
  /\ \/ pub[p].pc = "queued" /\ PubAt(p, IF Publishable(p) THEN "loaded" ELSE "failing")
     \/ /\ pub[p].pc = "loaded"
        /\ "publish" \in Racing \/ ~ Publishable(p)
        /\ PubAt(p, IF Publishable(p) THEN "checked" ELSE "failing")
  /\ UNCHANGED <<space, msg, draft, turn, checked>>

\* any other exception of publish_sync
PublishFails(p) ==
  /\ pub[p].pc \in {"queued", "loaded", "checked"}
  /\ PubAt(p, "failing")
  /\ UNCHANGED <<space, msg, draft, turn, checked>>

\* the goal, the tasks, the summary, the record and the status, in one commit;
\* it fails if the space is gone
Publish(p) ==
  LET i == pub[p].space IN
  /\ \/ pub[p].pc = "checked"
     \/ pub[p].pc = "loaded" /\ "publish" \notin Racing /\ Publishable(p)
  /\ \/ /\ Exists(i)
        /\ SetStatus(i, "publishing_releasing")
        /\ pub' = [pub EXCEPT ![p].pc = "written", ![p].goal = space[i].gen]
     \/ ~ Exists(i) /\ PubAt(p, "failing") /\ UNCHANGED space
  /\ UNCHANGED <<msg, draft, turn, checked>>

\* the exception handler only writes its message
Restore_Forget(p) ==
  /\ pub[p].pc = "failing"
  /\ PubAt(p, "written")
  /\ UNCHANGED <<space, msg, draft, turn, checked>>

\* The except block of publish_sync restores the status the space had, whatever
\* it is by now; the task then goes on to the release.
Restore(p) ==
  LET i == pub[p].space IN
  /\ pub[p].pc = "failing"
  /\ PubAt(p, "written")
  /\ IF Exists(i) THEN SetStatus(i, pub[p].prev) ELSE UNCHANGED space
  /\ UNCHANGED <<msg, draft, turn, checked>>

\* If the except block raises too, record_publish_background_failure restores
\* what is still in progress.
RecordFailure(p) ==
  LET i == pub[p].space
      status == space[i].status IN
  /\ pub[p].pc = "failing"
  /\ PubAt(p, "done")
  /\ SetStatus(i, CASE status = "publishing" -> pub[p].prev
                    [] status = "publishing_releasing" -> "published"
                    [] OTHER -> status)
  /\ UNCHANGED <<msg, draft, turn, checked>>

\* complete_publish_release, up to the awaited release of the terminals
BeginRelease(p) ==
  /\ pub[p].pc = "written"
  /\ PubAt(p, IF space[pub[p].space].status \in Out THEN "releasing" ELSE "done")
  /\ UNCHANGED <<space, msg, draft, turn, checked>>

\* a release that fails leaves the status as it is
EndRelease_OnSuccess(p) ==
  LET i == pub[p].space IN
  /\ pub[p].pc = "releasing"
  /\ PubAt(p, "done")
  /\ \/ /\ space[i].status = "publishing_releasing"
        /\ SetStatus(i, "published")
     \/ UNCHANGED space
  /\ UNCHANGED <<msg, draft, turn, checked>>

\* its end, also record_publish_release_failure
EndRelease(p) ==
  LET i == pub[p].space IN
  /\ pub[p].pc = "releasing"
  /\ PubAt(p, "done")
  /\ IF space[i].status = "publishing_releasing" THEN SetStatus(i, "published")
     ELSE UNCHANGED space
  /\ UNCHANGED <<msg, draft, turn, checked>>
-----------------------------------------------------------------------------
UserStep(i) ==
  \/ Close(i) \/ Reopen(i) \/ Delete(i)
  \/ \E what \in {"reopen", "delete"} : Check(what, i)
  \/ \E t \in Turns : Enqueue(t, i)
  \/ \E p \in Pubs, d \in RowIds : Confirm(p, i, d)

TurnStep(t) == Answer(t) \/ TurnFails(t) \/ TurnEnds(t)

PubStep(p) ==
  \/ Load(p) \/ Publish(p) \/ PublishFails(p)
  \/ Restore(p) \/ RecordFailure(p)
  \/ BeginRelease(p) \/ EndRelease(p)

Finished ==
  /\ \A t \in Turns : turn[t].pc \in {"idle", "done"}
  /\ \A p \in Pubs : pub[p].pc \in {"idle", "done"}
  /\ UNCHANGED vars

Next ==
  \/ Create
  \/ \E i \in SpaceIds : UserStep(i)
  \/ \E t \in Turns : TurnStep(t)
  \/ \E p \in Pubs : PubStep(p)
  \/ Finished

Spec == Init /\ [][Next]_vars

(* The background tasks run on: the model call has a timeout, and so have    *)
(* the stops of the terminals.  Nothing is assumed of the users.             *)
FairSpec ==
  /\ Spec
  /\ \A t \in Turns : WF_vars(TurnStep(t))
  /\ \A p \in Pubs : WF_vars(PubStep(p))
-----------------------------------------------------------------------------
SpaceRows == [status : Statuses \union {"none"}, gen : 0..MaxGens]
MsgRows == [space : 0..MaxSpaces,
            kind : {"none", "pending", "message", "draft_generated", "error"}]
TurnTasks == [pc : {"idle", "thinking", "answered", "done"},
              space : 0..MaxSpaces, msg : {0} \union RowIds, plan : BOOLEAN]
PubTasks == [pc : {"idle", "queued", "loaded", "checked", "failing",
                   "written", "releasing", "done"},
             space : 0..MaxSpaces, draft : {0} \union RowIds,
             prev : {"open", "closed", None}, goal : 0..MaxGens]

TypeOK ==
  /\ space \in [SpaceIds -> SpaceRows]
  /\ msg \in [RowIds -> MsgRows]
  /\ draft \in [RowIds -> 0..MaxSpaces]
  /\ turn \in [Turns -> TurnTasks]
  /\ pub \in [Pubs -> PubTasks]
  /\ checked \subseteq {"reopen", "delete"} \X SpaceIds

Goals(i) == {p \in Pubs : pub[p].space = i /\ pub[p].goal = space[i].gen}

(* A space has its one goal exactly if it shows as published or about to be: *)
(* a publication that fails leaves no goal, one that succeeded is never      *)
(* taken back by another task, and no two succeed.  For a space whose id was *)
(* not used before, and a reopening that nothing comes in between of.        *)
GoalMeansPublished ==
  \A i \in SpaceIds : space[i].gen = 1 /\ Exists(i) =>
    Cardinality(Goals(i)) = IF space[i].status \in Out THEN 1 ELSE 0

(* A pending message has a task that will settle it, so that a space never   *)
(* waits for nobody: neither closing, reopening, deleting nor a reused id    *)
(* strands one.                                                              *)
WaitingHasTurn ==
  \A m \in RowIds : msg[m].kind = "pending" =>
    \E t \in Turns : turn[t].pc = "thinking" /\ turn[t].msg = m
                       /\ turn[t].space = msg[m].space

(* A space that shows as being published has a task that will change that,   *)
(* also if publications and deletions overlap or fail.                       *)
PublishingHasTask ==
  \A i \in SpaceIds : space[i].status \in {"publishing", "publishing_releasing"} =>
    \E p \in Pubs : pub[p].space = i /\ pub[p].pc \notin {"idle", "done"}

(* So with tasks that run on every turn is settled ...                       *)
TurnsSettle == \A i \in SpaceIds : Waiting(i) ~> ~ Waiting(i)

(* ... and every publication ends: "escaped publish/release exceptions       *)
(* restore a user-visible terminal state".                                   *)
PublishingEnds ==
  \A i \in SpaceIds :
    space[i].status \in {"publishing", "publishing_releasing"}
      ~> space[i].status \in {"none", "open", "closed", "published"}
=============================================================================
