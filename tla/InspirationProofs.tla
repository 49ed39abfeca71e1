------------------------- MODULE InspirationProofs -------------------------
(***************************************************************************)
(* Proofs about an inspiration space, for any number of requests.            *)
(*                                                                         *)
(* InspirationPlanning: its types, that a pending message has its turn, that *)
(* a space shown as being published has a task, and that its goal is written *)
(* exactly if it shows so.                                                   *)
(*                                                                         *)
(* InspirationResources: its types, that a resource shows its file, that a   *)
(* file is one resource, and that deleted resources stay deleted.            *)
(***************************************************************************)
EXTENDS InspirationPlanning, InspirationResources, FiniteSetTheorems,
        WellFoundedInduction, TLAPS

-----------------------------------------------------------------------------
(* The inductive invariant.                                                  *)

\* a turn on its way has a message and a space
TurnsKnow ==
  \A t \in Turns : turn[t].pc \in {"thinking", "answered"} =>
    turn[t].msg \in RowIds /\ turn[t].space \in SpaceIds

\* a publication has a space, and the status it found there
PubsKnow ==
  \A p \in Pubs :
    IF pub[p].pc = "idle" THEN pub[p].space = 0
    ELSE pub[p].space \in SpaceIds /\ pub[p].prev \in {"open", "closed"}

\* a space that exists was created, and only such a space is published
GensCount ==
  \A i \in SpaceIds : space[i].gen = 0 =>
    ~ Exists(i) /\ \A p \in Pubs : pub[p].space # i

\* only what others may come in between of is ever between check and write
ChecksRace == checked \subseteq Racing \X SpaceIds

Known == TypeOK /\ TurnsKnow /\ PubsKnow /\ GensCount /\ ChecksRace

\* the messages of a space are deleted with it
MessagesHaveSpace ==
  \A m \in RowIds : msg[m] # NoMsg =>
    msg[m].space \in SpaceIds /\ Exists(msg[m].space)

\* on its way to the writing transaction, or to its except block
Before(p) == pub[p].pc \in {"queued", "loaded", "checked", "failing"}

\* on its way to the end of the release
After(p) == pub[p].pc \in {"written", "releasing"}

\* a space in progress has a task that is as far
TasksAreAsFar ==
  \A i \in SpaceIds :
    /\ space[i].status = "publishing" => \E p \in Pubs : pub[p].space = i /\ Before(p)
    /\ space[i].status = "publishing_releasing" =>
         \E p \in Pubs : pub[p].space = i /\ After(p)

\* a space whose id is not used again is published by one task at a time,
\* and its goal is that of the task that wrote it
OneAtATime ==
  \A i \in SpaceIds : space[i].gen = 1 /\ Exists(i) =>
    /\ \A p \in Pubs : pub[p].space = i /\ Before(p) => space[i].status = "publishing"
    /\ \A p, q \in Pubs :
         pub[p].space = i /\ pub[q].space = i /\ Before(p) /\ Before(q) => p = q
    /\ IF space[i].status \in Out THEN \E p \in Pubs : Goals(i) = {p} ELSE Goals(i) = {}

Inv == Known /\ MessagesHaveSpace /\ WaitingHasTurn /\ TasksAreAsFar

-----------------------------------------------------------------------------
(* The shape of the steps.                                                   *)

(* What setting a status does to the spaces.                                 *)
LEMMA StatusSet ==
  ASSUME TypeOK, NEW i \in SpaceIds, NEW s \in Statuses \union {"none"}, SetStatus(i, s)
  PROVE  /\ space' \in [SpaceIds -> SpaceRows]
         /\ space'[i].status = s /\ space'[i].gen = space[i].gen
         /\ \A j \in SpaceIds \ {i} : space'[j] = space[j]
  BY DEF TypeOK, SetStatus, SpaceRows

(* What a step of a publication's task does to the publications.             *)
LEMMA PubMoved ==
  ASSUME TypeOK, NEW p \in Pubs,
         NEW pc \in {"idle", "queued", "loaded", "checked", "failing",
                     "written", "releasing", "done"},
         PubAt(p, pc)
  PROVE  /\ pub' \in [Pubs -> PubTasks] /\ pub'[p].pc = pc /\ pub'[p].space = pub[p].space
         /\ pub'[p].prev = pub[p].prev /\ pub'[p].goal = pub[p].goal
         /\ \A q \in Pubs \ {p} : pub'[q] = pub[q]
  BY DEF TypeOK, PubTasks, PubAt

(* The bounds are numbers, and an id of a space is one.                      *)
LEMMA IdsTyped ==
  /\ MaxSpaces \in Nat /\ MaxGens \in Nat
  /\ SpaceIds \subseteq 0..MaxSpaces /\ 0 \notin SpaceIds
  BY BoundsAssumption DEF SpaceIds

-----------------------------------------------------------------------------
(* What is known of turns, publications and ids.                             *)

LEMMA InitKnown == Init => Known
<1> SUFFICES ASSUME Init PROVE Known
  OBVIOUS
<1>1. TypeOK
  BY IdsTyped DEF Init, TypeOK, SpaceRows, MsgRows, NoMsg, TurnTasks, PubTasks, Statuses, Out
<1>2. TurnsKnow /\ PubsKnow /\ GensCount /\ ChecksRace
  BY IdsTyped DEF Init, TurnsKnow, PubsKnow, GensCount, ChecksRace, Exists
<1>3. QED
  BY <1>1, <1>2 DEF Known

(* A space that is created has an id that was counted.                       *)
LEMMA CreateKnown ==
  ASSUME Known, Create
  PROVE  Known'
<1>1. PICK i \in SpaceIds :
        /\ space[i].gen < MaxGens
        /\ space' = [space EXCEPT ![i] = [status |-> "open", gen |-> @.gen + 1]]
        /\ UNCHANGED <<msg, draft, turn, pub, checked>>
  BY DEF Create, NextIn
<1>2. space[i].gen \in 0..MaxGens /\ MaxGens \in Nat
  BY IdsTyped DEF Known, TypeOK, SpaceRows
<1>3. /\ space' \in [SpaceIds -> SpaceRows]
      /\ space'[i].gen > 0 /\ \A j \in SpaceIds \ {i} : space'[j] = space[j]
  BY <1>1, <1>2 DEF Known, TypeOK, SpaceRows, Statuses
<1>4. QED
  BY <1>1, <1>3 DEF Known, TypeOK, TurnsKnow, PubsKnow, GensCount, ChecksRace, Exists

(* A status that is set only to a space that exists leaves the rest.         *)
LEMMA StatusKnown ==
  ASSUME Known, NEW i \in SpaceIds, NEW s \in Statuses \union {"none"}, SetStatus(i, s),
         s = "none" \/ Exists(i), UNCHANGED pub
  PROVE  space' \in [SpaceIds -> SpaceRows] /\ PubsKnow' /\ GensCount'
  BY StatusSet DEF Known, PubsKnow, GensCount, Exists

(* What a task's step may do to what is known.                               *)
LEMMA PubKnown ==
  ASSUME Known, NEW p \in Pubs, PubAt(p, "written") \/ PubAt(p, "done")
                                \/ PubAt(p, "failing") \/ PubAt(p, "loaded")
                                \/ PubAt(p, "checked") \/ PubAt(p, "releasing"),
         pub[p].pc # "idle",
         \/ UNCHANGED space
         \/ \E s \in Statuses : Exists(pub[p].space) /\ SetStatus(pub[p].space, s),
         UNCHANGED <<msg, draft, turn, checked>>
  PROVE  Known'
<1>1. pub[p].space \in SpaceIds
  BY DEF Known, PubsKnow
<1>2. /\ pub' \in [Pubs -> PubTasks] /\ pub'[p].pc # "idle"
      /\ pub'[p].space = pub[p].space /\ pub'[p].prev = pub[p].prev
      /\ \A q \in Pubs \ {p} : pub'[q] = pub[q]
  BY PubMoved DEF Known
<1>3. PubsKnow'
  BY <1>2 DEF Known, PubsKnow
<1>4. /\ space' \in [SpaceIds -> SpaceRows]
      /\ \A i \in SpaceIds : space'[i].gen = space[i].gen
      /\ \A i \in SpaceIds : space[i].gen = 0 => space'[i] = space[i]
  BY <1>1, StatusSet DEF Known, TypeOK, GensCount
<1>5. \A q \in Pubs : pub'[q].space = pub[q].space
  BY <1>2
<1>6. GensCount'
  BY <1>4, <1>5 DEF Known, GensCount, Exists
<1>7. QED
  BY <1>2, <1>3, <1>4, <1>6 DEF Known, TypeOK, TurnsKnow, ChecksRace

LEMMA KnownStep == Known /\ [Next]_vars => Known'
<1> SUFFICES ASSUME Known, [Next]_vars PROVE Known'
  OBVIOUS
<1>1. ASSUME NEW i \in SpaceIds, Close(i) PROVE Known'
  <2>1. /\ draft' \in [RowIds -> 0..MaxSpaces] /\ msg' \in [RowIds -> MsgRows]
        /\ UNCHANGED <<turn, pub, checked>>
    BY <1>1, IdsTyped DEF Close, Known, TypeOK, MsgRows, NoMsg
  <2>2. space' \in [SpaceIds -> SpaceRows] /\ PubsKnow' /\ GensCount'
    BY <1>1, StatusKnown DEF Close, Statuses, Exists
  <2>3. QED
    BY <2>1, <2>2 DEF Known, TypeOK, TurnsKnow, ChecksRace
<1>2. ASSUME NEW i \in SpaceIds, Reopen(i) PROVE Known'
  <2>1. /\ UNCHANGED <<msg, draft, turn, pub>> /\ checked' \subseteq checked
        /\ (SetStatus(i, "open") /\ Exists(i)) \/ UNCHANGED space
    BY <1>2 DEF Reopen
  <2>2. space' \in [SpaceIds -> SpaceRows] /\ PubsKnow' /\ GensCount'
    <3>1. CASE UNCHANGED space
      BY <2>1, <3>1 DEF Known, TypeOK, PubsKnow, GensCount, Exists
    <3>2. CASE SetStatus(i, "open") /\ Exists(i)
      BY <2>1, <3>2, StatusKnown DEF Statuses
    <3>3. QED
      BY <2>1, <3>1, <3>2
  <2>3. QED
    BY <2>1, <2>2 DEF Known, TypeOK, TurnsKnow, ChecksRace
<1>3. ASSUME NEW i \in SpaceIds, Delete(i) PROVE Known'
  <2>1. /\ draft' \in [RowIds -> 0..MaxSpaces] /\ msg' \in [RowIds -> MsgRows]
        /\ UNCHANGED <<turn, pub>> /\ checked' \subseteq checked
    BY <1>3, IdsTyped DEF Delete, Known, TypeOK, MsgRows, NoMsg
  <2>2. space' \in [SpaceIds -> SpaceRows] /\ PubsKnow' /\ GensCount'
    BY <1>3, StatusKnown DEF Delete
  <2>3. QED
    BY <2>1, <2>2 DEF Known, TypeOK, TurnsKnow, ChecksRace
<1>4. ASSUME NEW i \in SpaceIds, NEW what \in {"reopen", "delete"}, Check(what, i)
      PROVE  Known'
  BY <1>4 DEF Check, Known, TypeOK, TurnsKnow, PubsKnow, GensCount, Exists, ChecksRace
<1>5. ASSUME NEW i \in SpaceIds, NEW t \in Turns, Enqueue(t, i) PROVE Known'
  <2>1. PICK m \in RowIds, plan \in BOOLEAN :
          /\ msg' = [msg EXCEPT ![m] = [space |-> i, kind |-> "pending"]]
          /\ turn' = [turn EXCEPT ![t] =
               [pc |-> "thinking", space |-> i, msg |-> m, plan |-> plan]]
    BY <1>5 DEF Enqueue, NextIn
  <2>2. i \in 0..MaxSpaces /\ UNCHANGED <<space, draft, pub, checked>>
    BY <1>5, IdsTyped DEF Enqueue
  <2>3. msg' \in [RowIds -> MsgRows] /\ turn' \in [Turns -> TurnTasks]
    BY <2>1, <2>2 DEF Known, TypeOK, MsgRows, TurnTasks
  <2>4. TurnsKnow'
    BY <2>1 DEF Known, TypeOK, TurnsKnow
  <2>5. QED
    BY <2>2, <2>3, <2>4 DEF Known, TypeOK, PubsKnow, GensCount, Exists, ChecksRace
<1>6. ASSUME NEW i \in SpaceIds, NEW p \in Pubs, NEW d \in RowIds, Confirm(p, i, d)
      PROVE  Known'
  <2>1. /\ space[i].status \in {"open", "closed"} /\ SetStatus(i, "publishing")
        /\ pub' = [pub EXCEPT ![p] = PubTask(i, d, space[i].status)]
        /\ UNCHANGED <<msg, draft, turn, checked>>
    BY <1>6 DEF Confirm
  <2>2. PubTask(i, d, space[i].status) \in PubTasks
    BY <2>1, IdsTyped DEF PubTask, PubTasks
  <2>3. pub' \in [Pubs -> PubTasks]
    BY <2>1, <2>2 DEF Known, TypeOK
  <2>4. /\ space' \in [SpaceIds -> SpaceRows] /\ space'[i].gen = space[i].gen
        /\ space[i].gen # 0 /\ \A j \in SpaceIds \ {i} : space'[j] = space[j]
    BY <2>1, StatusSet DEF Known, Statuses, GensCount, Exists
  <2>5. PubsKnow' /\ GensCount'
    <3>1. /\ pub'[p].pc = "queued" /\ pub'[p].space = i
          /\ pub'[p].prev \in {"open", "closed"}
          /\ \A q \in Pubs \ {p} : pub'[q] = pub[q]
      BY <2>1 DEF PubTask, Known, TypeOK
    <3>2. QED
      BY <2>4, <3>1 DEF Known, PubsKnow, GensCount, Exists
  <2>6. QED
    BY <2>1, <2>3, <2>4, <2>5 DEF Known, TypeOK, TurnsKnow, ChecksRace
<1>7. ASSUME NEW t \in Turns, TurnStep(t) PROVE Known'
  <2>1. UNCHANGED <<space, pub, checked>>
    BY <1>7 DEF TurnStep, Answer, TurnFails, TurnEnds
  <2>2. PICK pc \in {"done", "answered"} :
          TurnAt(t, pc) /\ (pc = "answered" => turn[t].pc = "thinking")
    BY <1>7 DEF TurnStep, Answer, TurnFails, TurnEnds
  <2>3. turn' \in [Turns -> TurnTasks] /\ TurnsKnow'
    BY <2>2 DEF TurnAt, Known, TypeOK, TurnTasks, TurnsKnow
  <2>4. /\ \/ UNCHANGED msg
           \/ \E kind \in {"draft_generated", "message", "error"} :
                msg' = [msg EXCEPT ![turn[t].msg].kind = kind]
        /\ \/ UNCHANGED draft
           \/ \E d \in RowIds : draft' = [draft EXCEPT ![d] = turn[t].space]
    BY <1>7 DEF TurnStep, Answer, TurnFails, TurnEnds, NextIn
  <2>5. draft' \in [RowIds -> 0..MaxSpaces]
    <3>1. turn[t].space \in 0..MaxSpaces
      BY DEF Known, TypeOK, TurnTasks
    <3>2. QED
      BY <2>4, <3>1 DEF Known, TypeOK
  <2>6. msg' \in [RowIds -> MsgRows]
    BY <2>4 DEF Known, TypeOK, MsgRows
  <2>7. QED
    BY <2>1, <2>3, <2>5, <2>6 DEF Known, TypeOK, PubsKnow, GensCount, Exists, ChecksRace
<1>8. ASSUME NEW p \in Pubs, Publish(p) PROVE Known'
  <2>1. pub[p].pc # "idle" /\ UNCHANGED <<msg, draft, turn, checked>>
    BY <1>8 DEF Publish
  <2>2. CASE ~ Exists(pub[p].space)
    <3>1. PubAt(p, "failing") /\ UNCHANGED space
      BY <1>8, <2>2 DEF Publish
    <3>2. QED
      BY <2>1, <3>1, PubKnown
  <2>3. CASE Exists(pub[p].space)
    <3> DEFINE i == pub[p].space
    <3>1. /\ SetStatus(i, "publishing_releasing") /\ i \in SpaceIds
          /\ pub' = [pub EXCEPT ![p].pc = "written", ![p].goal = space[i].gen]
      BY <1>8, <2>1, <2>3 DEF Publish, Known, PubsKnow
    <3>2. /\ space' \in [SpaceIds -> SpaceRows] /\ space[i].gen # 0
          /\ \A j \in SpaceIds : space'[j].gen = space[j].gen
          /\ \A j \in SpaceIds \ {i} : space'[j] = space[j]
      BY <2>3, <3>1, StatusSet DEF Known, Statuses, Out, GensCount
    <3>3. space[i].gen \in 0..MaxGens
      BY <3>1 DEF Known, TypeOK, SpaceRows
    <3>4. /\ pub' \in [Pubs -> PubTasks] /\ pub'[p].pc = "written"
          /\ pub'[p].prev = pub[p].prev
          /\ \A q \in Pubs : pub'[q].space = pub[q].space
          /\ \A q \in Pubs \ {p} : pub'[q] = pub[q]
      <4> DEFINE task == [pub[p] EXCEPT !.pc = "written", !.goal = space[i].gen]
      <4>1. pub[p] \in PubTasks
        BY DEF Known, TypeOK
      <4>2. /\ task \in PubTasks /\ task.pc = "written"
            /\ task.prev = pub[p].prev /\ task.space = pub[p].space
        BY <3>3, <4>1 DEF PubTasks
      <4>3. pub' = [pub EXCEPT ![p] = task]
        BY <3>1, <4>1 DEF Known, TypeOK, PubTasks
      <4> HIDE DEF task
      <4>4. QED
        BY <4>2, <4>3 DEF Known, TypeOK
    <3>5. PubsKnow' /\ GensCount'
      BY <2>1, <3>1, <3>2, <3>4 DEF Known, PubsKnow, GensCount, Exists
    <3>6. QED
      BY <2>1, <3>2, <3>4, <3>5 DEF Known, TypeOK, TurnsKnow, ChecksRace
  <2>4. QED
    BY <2>2, <2>3
<1>9. ASSUME NEW p \in Pubs, Load(p) \/ PublishFails(p) \/ BeginRelease(p) PROVE Known'
  <2>1. /\ pub[p].pc # "idle" /\ UNCHANGED <<space, msg, draft, turn, checked>>
        /\ \/ PubAt(p, "loaded") \/ PubAt(p, "checked") \/ PubAt(p, "failing")
           \/ PubAt(p, "releasing") \/ PubAt(p, "done")
    BY <1>9 DEF Load, PublishFails, BeginRelease
  <2>2. QED
    BY <2>1, PubKnown
<1>10. ASSUME NEW p \in Pubs, Restore(p) PROVE Known'
  <2>1. /\ pub[p].pc # "idle" /\ UNCHANGED <<msg, draft, turn, checked>>
        /\ PubAt(p, "written") /\ pub[p].prev \in {"open", "closed"}
        /\ \/ UNCHANGED space
           \/ Exists(pub[p].space) /\ SetStatus(pub[p].space, pub[p].prev)
    BY <1>10 DEF Restore, Known, PubsKnow
  <2>2. pub[p].prev \in Statuses
    BY <2>1 DEF Statuses
  <2>3. QED
    BY <2>1, <2>2, PubKnown
<1>11. ASSUME NEW p \in Pubs, RecordFailure(p) PROVE Known'
  <2> DEFINE i == pub[p].space
             s == CASE space[i].status = "publishing" -> pub[p].prev
                    [] space[i].status = "publishing_releasing" -> "published"
                    [] OTHER -> space[i].status
  <2>1. /\ pub[p].pc # "idle" /\ UNCHANGED <<msg, draft, turn, checked>>
        /\ PubAt(p, "done") /\ pub[p].prev \in {"open", "closed"} /\ i \in SpaceIds
        /\ SetStatus(i, s)
    BY <1>11 DEF RecordFailure, Known, PubsKnow
  <2>2. space[i] \in SpaceRows
    BY <2>1 DEF Known, TypeOK
  <2>3. CASE Exists(i)
    <3>1. s \in Statuses
      BY <2>1, <2>2, <2>3 DEF Exists, SpaceRows, Statuses, Out
    <3> HIDE DEF s
    <3>2. QED
      BY <2>1, <2>3, <3>1, PubKnown
  <2>4. CASE ~ Exists(i)
    <3>1. s = space[i].status
      BY <2>4 DEF Exists
    <3> HIDE DEF s
    <3>2. UNCHANGED space
      BY <2>1, <2>2, <3>1 DEF SetStatus, Known, TypeOK, SpaceRows
    <3>3. QED
      BY <2>1, <3>2, PubKnown
  <2>5. QED
    BY <2>3, <2>4
<1>12. ASSUME NEW p \in Pubs, EndRelease(p) PROVE Known'
  <2>1. /\ pub[p].pc # "idle" /\ UNCHANGED <<msg, draft, turn, checked>>
        /\ PubAt(p, "done")
        /\ \/ UNCHANGED space
           \/ Exists(pub[p].space) /\ SetStatus(pub[p].space, "published")
    BY <1>12 DEF EndRelease, Exists
  <2>2. "published" \in Statuses
    BY DEF Statuses, Out
  <2>3. QED
    BY <2>1, <2>2, PubKnown
<1>13. CASE UNCHANGED vars
  BY <1>13 DEF vars, Known, TypeOK, TurnsKnow, PubsKnow, GensCount, Exists, ChecksRace
<1>14. QED
  BY <1>1, <1>2, <1>3, <1>4, <1>5, <1>6, <1>7, <1>8, <1>9, <1>10, <1>11, <1>12, <1>13,
     CreateKnown DEF Next, UserStep, PubStep, Finished

-----------------------------------------------------------------------------
(* A pending message has the turn that will settle it.                       *)

(* A space goes only by being deleted.                                       *)
LEMMA OnlyDeleted ==
  ASSUME Known, [Next]_vars, ~ \E i \in SpaceIds : Delete(i)
  PROVE  \A j \in SpaceIds : Exists(j) => Exists(j)'
<1>1. ASSUME NEW i \in SpaceIds, NEW s \in Statuses, SetStatus(i, s)
      PROVE  \A j \in SpaceIds : Exists(j) => Exists(j)'
  BY <1>1, StatusSet DEF Known, Exists, Statuses, Out
<1>2. CASE UNCHANGED space
  BY <1>2 DEF Exists
<1>3. CASE Create
  BY <1>3 DEF Create, NextIn, Known, TypeOK, Exists
<1>4. ASSUME NEW i \in SpaceIds,
             Close(i) \/ Reopen(i) \/ \E p \in Pubs, d \in RowIds : Confirm(p, i, d)
      PROVE  \A j \in SpaceIds : Exists(j) => Exists(j)'
  <2>1. UNCHANGED space \/ \E s \in {"closed", "open", "publishing"} : SetStatus(i, s)
    BY <1>4 DEF Close, Reopen, Confirm
  <2>2. QED
    BY <1>1, <1>2, <2>1 DEF Statuses
<1>5. ASSUME NEW p \in Pubs, PubStep(p)
      PROVE  \A j \in SpaceIds : Exists(j) => Exists(j)'
  <2> DEFINE i == pub[p].space
  <2>1. CASE Publish(p) \/ Restore(p) \/ EndRelease(p)
    <3>1. i \in SpaceIds /\ pub[p].prev \in {"open", "closed"}
      BY <2>1 DEF Publish, Restore, EndRelease, Known, PubsKnow
    <3>2. UNCHANGED space
          \/ \E s \in {"publishing_releasing", pub[p].prev, "published"} : SetStatus(i, s)
      BY <2>1 DEF Publish, Restore, EndRelease
    <3>3. QED
      BY <1>1, <1>2, <3>1, <3>2 DEF Statuses, Out
  <2>2. CASE RecordFailure(p)
    <3>1. i \in SpaceIds /\ pub[p].prev \in {"open", "closed"}
      BY <2>2 DEF RecordFailure, Known, PubsKnow
    <3>2. \E s : SetStatus(i, s) /\ s \in {pub[p].prev, "published", space[i].status}
      BY <2>2 DEF RecordFailure
    <3>3. PICK s \in {pub[p].prev, "published", space[i].status} : SetStatus(i, s)
      BY <3>2
    <3>4. s \in Statuses \union {"none"} /\ (Exists(i) => s # "none")
      BY <3>1, <3>3 DEF Known, TypeOK, SpaceRows, Statuses, Out, Exists
    <3>5. QED
      BY <3>1, <3>3, <3>4, StatusSet DEF Known, Exists
  <2>3. CASE Load(p) \/ PublishFails(p) \/ BeginRelease(p)
    BY <1>2, <2>3 DEF Load, PublishFails, BeginRelease
  <2>4. QED
    BY <1>5, <2>1, <2>2, <2>3 DEF PubStep
<1>6. ASSUME NEW i \in SpaceIds, \/ \E t \in Turns : Enqueue(t, i)
                                 \/ \E what \in {"reopen", "delete"} : Check(what, i)
      PROVE  UNCHANGED space
  BY <1>6 DEF Enqueue, Check
<1>7. ASSUME NEW t \in Turns, TurnStep(t) PROVE UNCHANGED space
  BY <1>7 DEF TurnStep, Answer, TurnFails, TurnEnds
<1>8. CASE UNCHANGED vars
  BY <1>2, <1>8 DEF vars
<1>9. QED
  BY <1>2, <1>3, <1>4, <1>5, <1>6, <1>7, <1>8 DEF Next, UserStep, Finished

(* Where neither turns nor their messages change, nothing else matters.      *)
LEMMA WaitKept ==
  ASSUME MessagesHaveSpace, WaitingHasTurn, UNCHANGED <<msg, turn>>,
         \A i \in SpaceIds : Exists(i) => Exists(i)'
  PROVE  MessagesHaveSpace' /\ WaitingHasTurn'
  BY DEF MessagesHaveSpace, WaitingHasTurn

LEMMA WaitStep ==
  Known /\ MessagesHaveSpace /\ WaitingHasTurn /\ [Next]_vars
    => MessagesHaveSpace' /\ WaitingHasTurn'
<1> SUFFICES ASSUME Known, MessagesHaveSpace, WaitingHasTurn, [Next]_vars
             PROVE  MessagesHaveSpace' /\ WaitingHasTurn'
  OBVIOUS
<1>1. ASSUME NEW i \in SpaceIds, Close(i) PROVE MessagesHaveSpace' /\ WaitingHasTurn'
  <2>1. /\ \A j \in SpaceIds : Exists(j) => Exists(j)'
        /\ \A m \in RowIds : msg'[m] = msg[m] \/ msg'[m] = NoMsg
        /\ UNCHANGED turn
    BY <1>1, StatusSet DEF Close, Known, Exists, Statuses
  <2>2. QED
    BY <2>1 DEF MessagesHaveSpace, WaitingHasTurn, NoMsg
<1>2. ASSUME NEW i \in SpaceIds, Delete(i) PROVE MessagesHaveSpace' /\ WaitingHasTurn'
  <2>1. /\ \A j \in SpaceIds \ {i} : Exists(j) => Exists(j)'
        /\ \A m \in RowIds : IF msg[m].space = i THEN msg'[m] = NoMsg ELSE msg'[m] = msg[m]
        /\ UNCHANGED turn
    BY <1>2, StatusSet DEF Delete, Known, Exists
  <2>2. QED
    BY <2>1 DEF MessagesHaveSpace, WaitingHasTurn, NoMsg
<1>3. ASSUME NEW i \in SpaceIds, NEW t \in Turns, Enqueue(t, i)
      PROVE  MessagesHaveSpace' /\ WaitingHasTurn'
  <2> DEFINE used == {n \in RowIds : msg[n] # NoMsg}
  <2>1. PICK m \in NextIn(RowIds, used), plan \in BOOLEAN :
          /\ msg' = [msg EXCEPT ![m] = [space |-> i, kind |-> "pending"]]
          /\ turn' = [turn EXCEPT ![t] =
               [pc |-> "thinking", space |-> i, msg |-> m, plan |-> plan]]
    BY <1>3 DEF Enqueue
  <2>2. m \in RowIds
    BY <2>1 DEF NextIn
  <2>3. /\ turn[t].pc = "idle" /\ Exists(i) /\ UNCHANGED space
    BY <1>3 DEF Enqueue, Exists
  <2>4. /\ msg'[m] = [space |-> i, kind |-> "pending"]
        /\ \A n \in RowIds \ {m} : msg'[n] = msg[n]
        /\ turn'[t].pc = "thinking" /\ turn'[t].msg = m /\ turn'[t].space = i
        /\ \A u \in Turns \ {t} : turn'[u] = turn[u]
    BY <2>1, <2>2 DEF Known, TypeOK
  <2>5. MessagesHaveSpace'
    BY <2>3, <2>4 DEF MessagesHaveSpace, Exists
  <2>6. WaitingHasTurn'
    BY <2>2, <2>3, <2>4 DEF WaitingHasTurn
  <2>7. QED
    BY <2>5, <2>6
<1>4. ASSUME NEW t \in Turns, TurnStep(t) PROVE MessagesHaveSpace' /\ WaitingHasTurn'
  <2> DEFINE m == turn[t].msg
  <2>1. /\ UNCHANGED space /\ \E pc \in {"done", "answered"} : TurnAt(t, pc)
        /\ turn[t].pc \in {"thinking", "answered"}
    BY <1>4 DEF TurnStep, Answer, TurnFails, TurnEnds
  <2>2. m \in RowIds /\ turn[t].space \in SpaceIds
    BY <2>1 DEF Known, TurnsKnow
  <2>3. \A u \in Turns \ {t} : turn'[u] = turn[u]
    BY <2>1 DEF TurnAt, Known, TypeOK
  \* the message of the turn is not pending after its step, unless by another turn
  <2>4. \/ UNCHANGED msg /\ (turn[t].pc = "thinking" => msg[m] = NoMsg \/ ~ TurnRowsExist(t))
        \/ /\ msg[m] # NoMsg
           /\ \E kind \in {"draft_generated", "message", "error"} :
                msg' = [msg EXCEPT ![m].kind = kind]
    <3>1. ASSUME Answer(t)
          PROVE  \/ UNCHANGED msg /\ ~ TurnRowsExist(t)
                 \/ TurnRowsExist(t) /\ \E kind \in {"draft_generated", "message"} :
                                           msg' = [msg EXCEPT ![m].kind = kind]
      BY <3>1 DEF Answer
    <3>2. TurnRowsExist(t) => msg[m] # NoMsg
      BY DEF TurnRowsExist
    <3>3. ASSUME TurnFails(t)
          PROVE  \/ UNCHANGED msg /\ msg[m] = NoMsg
                 \/ msg[m] # NoMsg /\ msg' = [msg EXCEPT ![m].kind = "error"]
      BY <3>3 DEF TurnFails
    <3>4. TurnEnds(t) => UNCHANGED msg /\ turn[t].pc # "thinking"
      BY DEF TurnEnds
    <3>5. QED
      BY <1>4, <3>1, <3>2, <3>3, <3>4 DEF TurnStep
  <2>5. CASE UNCHANGED msg /\ (turn[t].pc = "thinking" => msg[m] = NoMsg \/ ~ TurnRowsExist(t))
    <3>1. MessagesHaveSpace'
      BY <2>1, <2>5 DEF MessagesHaveSpace, Exists
    <3>2. ASSUME NEW n \in RowIds, msg[n].kind = "pending"
          PROVE  \E u \in Turns : turn'[u].pc = "thinking" /\ turn'[u].msg = n
                                    /\ turn'[u].space = msg[n].space
      <4>1. PICK u \in Turns : turn[u].pc = "thinking" /\ turn[u].msg = n
                                 /\ turn[u].space = msg[n].space
        BY <3>2 DEF WaitingHasTurn
      <4>2. msg[n] # NoMsg /\ Exists(msg[n].space)
        BY <3>2 DEF NoMsg, MessagesHaveSpace
      <4>3. u # t
        BY <2>5, <4>1, <4>2 DEF TurnRowsExist
      <4>4. QED
        BY <2>3, <4>1, <4>3
    <3>3. WaitingHasTurn'
      BY <2>5, <3>2 DEF WaitingHasTurn
    <3>4. QED
      BY <3>1, <3>3
  <2>6. CASE /\ msg[m] # NoMsg
             /\ \E kind \in {"draft_generated", "message", "error"} :
                  msg' = [msg EXCEPT ![m].kind = kind]
    <3>1. /\ msg'[m].kind # "pending" /\ msg'[m].space = msg[m].space
          /\ \A n \in RowIds \ {m} : msg'[n] = msg[n]
      BY <2>2, <2>6 DEF Known, TypeOK, MsgRows
    <3>2. MessagesHaveSpace'
      BY <2>1, <2>6, <3>1 DEF MessagesHaveSpace, Exists
    <3>3. WaitingHasTurn'
      BY <2>3, <3>1 DEF WaitingHasTurn
    <3>4. QED
      BY <3>2, <3>3
  <2>7. QED
    BY <2>4, <2>5, <2>6
<1>5. CASE UNCHANGED <<msg, turn>> /\ ~ \E i \in SpaceIds : Delete(i)
  BY <1>5, OnlyDeleted, WaitKept
<1>6. ASSUME NEW i \in SpaceIds,
             \/ Reopen(i) \/ \E what \in {"reopen", "delete"} : Check(what, i)
             \/ \E p \in Pubs, d \in RowIds : Confirm(p, i, d)
      PROVE  UNCHANGED <<msg, turn>>
  BY <1>6 DEF Reopen, Check, Confirm
<1>7. ASSUME NEW p \in Pubs, PubStep(p) PROVE UNCHANGED <<msg, turn>>
  BY <1>7 DEF PubStep, Load, Publish, PublishFails, Restore, RecordFailure,
              BeginRelease, EndRelease
<1>8. Create \/ UNCHANGED vars => UNCHANGED <<msg, turn>>
  BY DEF Create, vars
<1>9. QED
  BY <1>1, <1>2, <1>3, <1>4, <1>5, <1>6, <1>7, <1>8 DEF Next, UserStep, Finished

-----------------------------------------------------------------------------
(* A space in progress has its task.                                         *)

(* A step of a task is one of its space: the task goes on before the write;  *)
(* it writes; it gives the space its status back; or it releases.            *)
LEMMA PubStepIs ==
  ASSUME Known, NEW p \in Pubs, PubStep(p)
  PROVE  LET i == pub[p].space IN
    /\ i \in SpaceIds /\ pub'[p].space = i
    /\ \A q \in Pubs \ {p} : pub'[q] = pub[q]
    /\ \A j \in SpaceIds : space'[j].gen = space[j].gen
    /\ \A j \in SpaceIds \ {i} : space'[j] = space[j]
    /\ \/ /\ Before(p) /\ Before(p)' /\ UNCHANGED space /\ pub'[p].goal = pub[p].goal
       \/ /\ Before(p) /\ ~ Before(p)' /\ After(p)'
          /\ Exists(i) /\ space'[i].status = "publishing_releasing"
          /\ pub'[p].goal = space[i].gen
       \/ /\ Before(p) /\ ~ Before(p)' /\ pub'[p].goal = pub[p].goal
          /\ space'[i].status \notin {"publishing", "publishing_releasing"}
          /\ space[i].status = "publishing" => space'[i].status \in {"open", "closed"}
          /\ space'[i].status = "published" => space[i].status \in Out
          /\ Exists(i)' => Exists(i)
       \/ /\ ~ Before(p) /\ ~ Before(p)' /\ pub'[p].goal = pub[p].goal
          /\ space'[i].status = "publishing_releasing" => After(p)'
          /\ \/ space'[i].status = space[i].status
             \/ /\ space[i].status = "publishing_releasing"
                /\ space'[i].status = "published"
<1> DEFINE i == pub[p].space
<1>1. i \in SpaceIds /\ pub[p].pc # "idle" /\ pub[p].prev \in {"open", "closed"}
  BY DEF PubStep, Load, Publish, PublishFails, Restore, RecordFailure, BeginRelease,
         EndRelease, Known, PubsKnow
<1>2. TypeOK /\ space[i] \in SpaceRows
  BY <1>1 DEF Known, TypeOK
<1>3. CASE Load(p) \/ PublishFails(p)
  <2>1. PICK pc \in {"loaded", "checked", "failing"} : PubAt(p, pc)
    BY <1>3 DEF Load, PublishFails
  <2>2. /\ UNCHANGED space /\ Before(p)
    BY <1>3 DEF Load, PublishFails, Before
  <2>3. QED
    BY <1>1, <1>2, <2>1, <2>2, PubMoved DEF Before
<1>4. CASE Publish(p) /\ ~ Exists(i)
  <2>1. PubAt(p, "failing") /\ UNCHANGED space /\ Before(p)
    BY <1>4 DEF Publish, Before
  <2>2. QED
    BY <1>1, <1>2, <2>1, PubMoved DEF Before
<1>5. CASE Publish(p) /\ Exists(i)
  <2>1. /\ SetStatus(i, "publishing_releasing") /\ Before(p)
        /\ pub' = [pub EXCEPT ![p].pc = "written", ![p].goal = space[i].gen]
    BY <1>5 DEF Publish, Before
  <2>2. /\ pub'[p].pc = "written" /\ pub'[p].goal = space[i].gen /\ pub'[p].space = i
        /\ \A q \in Pubs \ {p} : pub'[q] = pub[q]
    BY <1>2, <2>1 DEF TypeOK, PubTasks
  <2>3. /\ space'[i].status = "publishing_releasing"
        /\ \A j \in SpaceIds : space'[j].gen = space[j].gen
        /\ \A j \in SpaceIds \ {i} : space'[j] = space[j]
    BY <1>1, <1>2, <2>1, StatusSet DEF Statuses, Out
  <2>4. QED
    BY <1>1, <1>5, <2>1, <2>2, <2>3 DEF Before, After
<1>6. CASE Restore(p)
  <2>1. /\ PubAt(p, "written") /\ Before(p)
        /\ IF Exists(i) THEN SetStatus(i, pub[p].prev) ELSE UNCHANGED space
    BY <1>6 DEF Restore, Before
  <2>2. /\ IF Exists(i) THEN space'[i].status = pub[p].prev ELSE space' = space
        /\ \A j \in SpaceIds : space'[j].gen = space[j].gen
        /\ \A j \in SpaceIds \ {i} : space'[j] = space[j]
    BY <1>1, <1>2, <2>1, StatusSet DEF Statuses
  <2>3. /\ pub'[p].pc = "written" /\ pub'[p].goal = pub[p].goal /\ pub'[p].space = i
        /\ \A q \in Pubs \ {p} : pub'[q] = pub[q]
    BY <1>2, <2>1, PubMoved
  <2>4. QED
    BY <1>1, <2>1, <2>2, <2>3 DEF Before, Exists, Out
<1>7. CASE RecordFailure(p)
  <2>1. PubAt(p, "done") /\ Before(p)
    BY <1>7 DEF RecordFailure, Before
  <2>2. PICK s : /\ SetStatus(i, s)
                 /\ s = CASE space[i].status = "publishing" -> pub[p].prev
                          [] space[i].status = "publishing_releasing" -> "published"
                          [] OTHER -> space[i].status
    BY <1>7 DEF RecordFailure
  <2>3. /\ space[i].status = "publishing" => s = pub[p].prev
        /\ space[i].status = "publishing_releasing" => s = "published"
        /\ space[i].status \notin {"publishing", "publishing_releasing"} => s = space[i].status
    BY <2>2
  <2>4. s \in Statuses \union {"none"}
    BY <1>1, <1>2, <2>3 DEF SpaceRows, Statuses, Out
  <2>5. /\ space'[i].status = s
        /\ \A j \in SpaceIds : space'[j].gen = space[j].gen
        /\ \A j \in SpaceIds \ {i} : space'[j] = space[j]
    BY <1>1, <1>2, <2>2, <2>4, StatusSet
  <2>6. /\ pub'[p].pc = "done" /\ pub'[p].goal = pub[p].goal /\ pub'[p].space = i
        /\ \A q \in Pubs \ {p} : pub'[q] = pub[q]
    BY <1>2, <2>1, PubMoved
  <2>7. QED
    BY <1>1, <2>1, <2>3, <2>5, <2>6 DEF Before, Exists, Out
<1>8. CASE BeginRelease(p)
  <2>1. PICK pc \in {"releasing", "done"} :
          PubAt(p, pc) /\ (space[i].status \in Out => pc = "releasing")
    BY <1>8 DEF BeginRelease
  <2>2. UNCHANGED space /\ ~ Before(p)
    BY <1>8 DEF BeginRelease, Before
  <2>3. QED
    BY <1>1, <1>2, <2>1, <2>2, PubMoved DEF Before, After, Out
<1>9. CASE EndRelease(p)
  <2>1. /\ PubAt(p, "done") /\ ~ Before(p)
        /\ IF space[i].status = "publishing_releasing" THEN SetStatus(i, "published")
           ELSE UNCHANGED space
    BY <1>9 DEF EndRelease, Before
  <2>2. /\ IF space[i].status = "publishing_releasing" THEN space'[i].status = "published"
           ELSE space' = space
        /\ \A j \in SpaceIds : space'[j].gen = space[j].gen
        /\ \A j \in SpaceIds \ {i} : space'[j] = space[j]
    BY <1>1, <1>2, <2>1, StatusSet DEF Statuses, Out
  <2>3. /\ pub'[p].pc = "done" /\ pub'[p].goal = pub[p].goal /\ pub'[p].space = i
        /\ \A q \in Pubs \ {p} : pub'[q] = pub[q]
    BY <1>2, <2>1, PubMoved
  <2>4. QED
    BY <1>1, <2>1, <2>2, <2>3 DEF Before
<1>10. QED
  BY <1>3, <1>4, <1>5, <1>6, <1>7, <1>8, <1>9 DEF PubStep

(* What a step of a user or a turn does to the publications: nothing, or the *)
(* space is neither in progress before nor after.                            *)
LEMMA OtherStepIs ==
  ASSUME Known, [Next]_vars, ~ \E p \in Pubs : PubStep(p),
         ~ \E i \in SpaceIds, p \in Pubs, d \in RowIds : Confirm(p, i, d)
  PROVE  /\ UNCHANGED pub
         /\ \A j \in SpaceIds :
              \/ space'[j] = space[j]
              \/ ~ Exists(j)'
              \/ ~ Exists(j) /\ space'[j].status = "open" /\ space'[j].gen = space[j].gen + 1
              \/ /\ space'[j].status \in {"open", "closed"} /\ space'[j].gen = space[j].gen
                 /\ "reopen" \in Racing \/ space[j].status \in {"open", "closed"}
<1>1. CASE Create
  <2>1. PICK i \in NextIn(SpaceIds, {j \in SpaceIds : Exists(j)}) :
          /\ space' = [space EXCEPT ![i] = [status |-> "open", gen |-> @.gen + 1]]
          /\ UNCHANGED pub
    BY <1>1 DEF Create
  <2>2. i \in SpaceIds /\ ~ Exists(i)
    <3>1. i \in SpaceIds
      BY <2>1 DEF NextIn
    <3>2. ~ (i < i)
      BY <3>1, IdsTyped DEF SpaceIds
    <3>3. QED
      BY <2>1, <3>1, <3>2 DEF NextIn, IsNext
  <2>3. QED
    BY <2>1, <2>2 DEF Known, TypeOK
<1>2. ASSUME NEW i \in SpaceIds, Close(i)
      PROVE  /\ UNCHANGED pub /\ space'[i].status = "closed" /\ space'[i].gen = space[i].gen
             /\ space[i].status = "open" /\ \A j \in SpaceIds \ {i} : space'[j] = space[j]
  BY <1>2, StatusSet DEF Close, Known, Statuses
<1>3. ASSUME NEW i \in SpaceIds, Reopen(i)
      PROVE  /\ UNCHANGED pub /\ \A j \in SpaceIds \ {i} : space'[j] = space[j]
             /\ \/ space' = space
                \/ /\ space'[i].status = "open" /\ space'[i].gen = space[i].gen
                   /\ "reopen" \in Racing \/ space[i].status = "closed"
  <2>1. /\ UNCHANGED pub
        /\ space' = space \/ SetStatus(i, "open")
        /\ <<"reopen", i>> \in checked \/ space[i].status = "closed"
    BY <1>3 DEF Reopen, MayWrite, Allowed
  <2>2. <<"reopen", i>> \in checked => "reopen" \in Racing
    BY DEF Known, ChecksRace
  <2>3. QED
    BY <2>1, <2>2, StatusSet DEF Known, Statuses
<1>4. ASSUME NEW i \in SpaceIds, Delete(i)
      PROVE  /\ UNCHANGED pub /\ space'[i].status = "none"
             /\ \A j \in SpaceIds \ {i} : space'[j] = space[j]
  BY <1>4, StatusSet DEF Delete, Known
<1>5. ASSUME NEW i \in SpaceIds, \/ \E t \in Turns : Enqueue(t, i)
                                 \/ \E what \in {"reopen", "delete"} : Check(what, i)
      PROVE  UNCHANGED <<space, pub>>
  BY <1>5 DEF Enqueue, Check
<1>6. ASSUME NEW t \in Turns, TurnStep(t) PROVE UNCHANGED <<space, pub>>
  BY <1>6 DEF TurnStep, Answer, TurnFails, TurnEnds
<1>7. UNCHANGED vars => UNCHANGED <<space, pub>>
  BY DEF vars
<1>8. QED
  BY <1>1, <1>2, <1>3, <1>4, <1>5, <1>6, <1>7 DEF Next, UserStep, Finished, Exists

LEMMA TasksStep == Known /\ TasksAreAsFar /\ [Next]_vars => TasksAreAsFar'
<1> SUFFICES ASSUME Known, TasksAreAsFar, [Next]_vars PROVE TasksAreAsFar'
  OBVIOUS
<1>1. ASSUME NEW p \in Pubs, PubStep(p) PROVE TasksAreAsFar'
  <2> DEFINE i == pub[p].space
  <2>1. /\ i \in SpaceIds /\ pub'[p].space = i
        /\ \A q \in Pubs \ {p} : pub'[q] = pub[q]
        /\ \A j \in SpaceIds \ {i} : space'[j] = space[j]
    BY <1>1, PubStepIs
  <2>2. \A q \in Pubs \ {p} : (Before(q)' <=> Before(q)) /\ (After(q)' <=> After(q))
    BY <2>1 DEF Before, After
  <2>3. ASSUME NEW j \in SpaceIds \ {i}
        PROVE  /\ space'[j].status = "publishing" =>
                    \E q \in Pubs : pub'[q].space = j /\ Before(q)'
               /\ space'[j].status = "publishing_releasing" =>
                    \E q \in Pubs : pub'[q].space = j /\ After(q)'
    BY <2>1, <2>2 DEF TasksAreAsFar
  <2>4. /\ space'[i].status = "publishing" => \E q \in Pubs : pub'[q].space = i /\ Before(q)'
        /\ space'[i].status = "publishing_releasing" =>
             \E q \in Pubs : pub'[q].space = i /\ After(q)'
    <3>1. CASE Before(p)' /\ UNCHANGED space
      <4>1. ~ After(p)
        BY <1>1, <3>1, PubStepIs DEF Before, After
      <4>2. QED
        BY <2>1, <2>2, <3>1, <4>1 DEF TasksAreAsFar
    <3>2. CASE After(p)' /\ space'[i].status = "publishing_releasing"
      BY <2>1, <3>2
    <3>3. CASE space'[i].status \notin {"publishing", "publishing_releasing"}
      BY <3>3
    <3>4. CASE /\ ~ Before(p)
               /\ space'[i].status = "publishing_releasing" => After(p)'
               /\ \/ space'[i].status = space[i].status
                  \/ space'[i].status = "published"
      <4>1. space'[i].status = "publishing" => space[i].status = "publishing"
        BY <3>4
      <4>2. QED
        BY <2>1, <2>2, <3>4, <4>1 DEF TasksAreAsFar
    <3>5. QED
      BY <1>1, <3>1, <3>2, <3>3, <3>4, PubStepIs
  <2>5. QED
    BY <2>3, <2>4 DEF TasksAreAsFar
<1>2. ASSUME NEW i \in SpaceIds, NEW p \in Pubs, NEW d \in RowIds, Confirm(p, i, d)
      PROVE  TasksAreAsFar'
  <2>1. /\ pub[p].pc = "idle" /\ SetStatus(i, "publishing")
        /\ pub' = [pub EXCEPT ![p] = PubTask(i, d, space[i].status)]
    BY <1>2 DEF Confirm
  <2>2. /\ pub'[p].space = i /\ Before(p)' /\ ~ Before(p) /\ ~ After(p)
        /\ \A q \in Pubs \ {p} : pub'[q] = pub[q]
    BY <2>1 DEF Known, TypeOK, PubTask, Before, After
  <2>3. space'[i].status = "publishing" /\ \A j \in SpaceIds \ {i} : space'[j] = space[j]
    BY <2>1, StatusSet DEF Known, Statuses
  <2>4. QED
    BY <2>2, <2>3 DEF TasksAreAsFar, Before, After
<1>3. CASE /\ ~ \E p \in Pubs : PubStep(p)
           /\ ~ \E i \in SpaceIds, p \in Pubs, d \in RowIds : Confirm(p, i, d)
  BY <1>3, OtherStepIs DEF TasksAreAsFar, Before, After, Exists
<1>4. QED
  BY <1>1, <1>2, <1>3

-----------------------------------------------------------------------------
(* The goal.                                                                 *)

(* A space that exists was created.                                          *)
LEMMA Counted ==
  ASSUME Known, NEW i \in SpaceIds
  PROVE  /\ space[i].gen \in Nat
         /\ space[i].gen = 0 => ~ Exists(i) /\ \A p \in Pubs : pub[p].space # i
  BY IdsTyped DEF Known, TypeOK, SpaceRows, GensCount

LEMMA GoalStep ==
  ASSUME "reopen" \notin Racing, Known, OneAtATime, [Next]_vars
  PROVE  OneAtATime'
<1>1. ASSUME NEW p \in Pubs, PubStep(p) PROVE OneAtATime'
  <2> DEFINE i == pub[p].space
  <2>1. /\ i \in SpaceIds /\ pub'[p].space = i
        /\ \A q \in Pubs \ {p} : pub'[q] = pub[q]
        /\ \A j \in SpaceIds : space'[j].gen = space[j].gen
        /\ \A j \in SpaceIds \ {i} : space'[j] = space[j]
    BY <1>1, PubStepIs
  <2>2. \A q \in Pubs \ {p} : Before(q)' <=> Before(q)
    BY <2>1 DEF Before
  <2>3. SUFFICES ASSUME NEW j \in SpaceIds, space'[j].gen = 1, Exists(j)'
        PROVE  /\ \A q \in Pubs : pub'[q].space = j /\ Before(q)' =>
                    space'[j].status = "publishing"
               /\ \A q, r \in Pubs : pub'[q].space = j /\ pub'[r].space = j
                                      /\ Before(q)' /\ Before(r)' => q = r
               /\ IF space'[j].status \in Out THEN \E q \in Pubs : Goals(j)' = {q}
                  ELSE Goals(j)' = {}
    BY DEF OneAtATime
  <2>4. CASE j # i
    <3>1. Exists(j) /\ space[j].gen = 1 /\ space'[j] = space[j]
      BY <2>1, <2>3, <2>4 DEF Exists
    <3>2. Goals(j)' = Goals(j)
      BY <2>1, <2>4, <3>1 DEF Goals
    <3>3. QED
      BY <2>1, <2>2, <2>4, <3>1, <3>2 DEF OneAtATime
  <2>5. CASE j = i
    <3>1. space[i].gen = 1
      BY <2>1, <2>3, <2>5
    <3>2. CASE /\ Before(p) /\ Before(p)' /\ UNCHANGED space
               /\ pub'[p].goal = pub[p].goal
      <4>1. Exists(i) /\ Goals(j)' = Goals(i)
        BY <2>1, <2>3, <2>5, <3>2 DEF Goals, Exists
      <4>2. QED
        BY <2>1, <2>2, <2>5, <3>1, <3>2, <4>1 DEF OneAtATime
    <3>3. CASE /\ Before(p) /\ ~ Before(p)' /\ After(p)'
               /\ Exists(i) /\ space'[i].status = "publishing_releasing"
               /\ pub'[p].goal = space[i].gen
      <4>1. /\ space[i].status = "publishing" /\ Goals(i) = {}
            /\ \A q \in Pubs : pub[q].space = i /\ Before(q) => q = p
        BY <2>1, <3>1, <3>3 DEF OneAtATime, Out
      <4>2. Goals(j)' = {p}
        BY <2>1, <2>5, <3>1, <3>3, <4>1 DEF Goals
      <4>3. \A q \in Pubs : ~ (pub'[q].space = i /\ Before(q)')
        BY <2>1, <2>2, <3>3, <4>1
      <4>4. QED
        BY <2>5, <3>3, <4>2, <4>3 DEF Out
    <3>4. CASE /\ Before(p) /\ ~ Before(p)' /\ pub'[p].goal = pub[p].goal
               /\ space[i].status = "publishing" => space'[i].status \in {"open", "closed"}
               /\ Exists(i)' => Exists(i)
      <4>1. /\ space[i].status = "publishing" /\ Goals(i) = {}
            /\ \A q \in Pubs : pub[q].space = i /\ Before(q) => q = p
        BY <2>1, <2>3, <2>5, <3>1, <3>4 DEF OneAtATime, Out
      <4>2. Goals(j)' = {}
        BY <2>1, <2>3, <2>5, <3>1, <3>4, <4>1 DEF Goals
      <4>3. \A q \in Pubs : ~ (pub'[q].space = i /\ Before(q)')
        BY <2>1, <2>2, <3>4, <4>1
      <4>4. QED
        BY <2>5, <3>4, <4>1, <4>2, <4>3 DEF Out
    <3>5. CASE /\ ~ Before(p) /\ ~ Before(p)' /\ pub'[p].goal = pub[p].goal
               /\ \/ space'[i].status = space[i].status
                  \/ /\ space[i].status = "publishing_releasing"
                     /\ space'[i].status = "published"
      <4>1. Exists(i) /\ Goals(j)' = Goals(i)
        BY <2>1, <2>3, <2>5, <3>5 DEF Goals, Exists
      <4>2. (space'[i].status \in Out <=> space[i].status \in Out)
            /\ \A q \in Pubs : Before(q)' <=> Before(q)
        BY <2>2, <3>5 DEF Out
      <4>3. space[i].status = "publishing" => space'[i].status = "publishing"
        BY <3>5
      <4>4. QED
        BY <2>1, <2>5, <3>1, <4>1, <4>2, <4>3 DEF OneAtATime
    <3>6. QED
      BY <1>1, <3>2, <3>3, <3>4, <3>5, PubStepIs
  <2>6. QED
    BY <2>4, <2>5
<1>2. ASSUME NEW i \in SpaceIds, NEW p \in Pubs, NEW d \in RowIds, Confirm(p, i, d)
      PROVE  OneAtATime'
  <2>1. /\ pub[p].pc = "idle" /\ SetStatus(i, "publishing")
        /\ space[i].status \in {"open", "closed"}
        /\ pub' = [pub EXCEPT ![p] = PubTask(i, d, space[i].status)]
    BY <1>2 DEF Confirm
  <2>2. /\ pub'[p].space = i /\ pub'[p].goal = 0 /\ pub[p].space \notin SpaceIds
        /\ Before(p)' /\ \A q \in Pubs \ {p} : pub'[q] = pub[q]
    BY <2>1, IdsTyped DEF Known, TypeOK, PubsKnow, PubTask, Before
  <2>3. /\ space'[i].status = "publishing" /\ space'[i].gen = space[i].gen
        /\ \A j \in SpaceIds \ {i} : space'[j] = space[j]
    BY <2>1, StatusSet DEF Known, Statuses
  <2>4. ASSUME NEW j \in SpaceIds, space'[j].gen = 1 PROVE Goals(j)' = Goals(j)
    BY <2>2, <2>3, <2>4 DEF Goals
  <2>5. \A q \in Pubs \ {p} : Before(q)' <=> Before(q)
    BY <2>2 DEF Before
  <2>6. space[i].gen = 1 =>
          Goals(i) = {} /\ \A q \in Pubs : ~ (pub[q].space = i /\ Before(q))
    BY <2>1 DEF OneAtATime, Exists, Out
  <2>7. "publishing" \notin Out
    BY DEF Out
  <2>8. QED
    BY <2>2, <2>3, <2>4, <2>5, <2>6, <2>7 DEF OneAtATime, Exists
<1>3. CASE /\ ~ \E p \in Pubs : PubStep(p)
           /\ ~ \E i \in SpaceIds, p \in Pubs, d \in RowIds : Confirm(p, i, d)
  <2> SUFFICES ASSUME NEW j \in SpaceIds, space'[j].gen = 1, Exists(j)'
               PROVE  /\ \A q \in Pubs : pub[q].space = j /\ Before(q) =>
                           space'[j].status = "publishing"
                      /\ \A q, r \in Pubs : pub[q].space = j /\ pub[r].space = j
                                             /\ Before(q) /\ Before(r) => q = r
                      /\ IF space'[j].status \in Out THEN \E q \in Pubs : Goals(j)' = {q}
                         ELSE Goals(j)' = {}
    BY <1>3, OtherStepIs DEF OneAtATime, Before
  <2>1. UNCHANGED pub
    BY <1>3, OtherStepIs
  <2>2. CASE space'[j] = space[j]
    BY <2>1, <2>2 DEF OneAtATime, Goals, Exists
  <2>3. CASE ~ Exists(j) /\ space'[j].status = "open" /\ space'[j].gen = space[j].gen + 1
    <3>1. \A p \in Pubs : pub[p].space # j
      BY <2>3, Counted
    <3>2. Goals(j)' = {}
      BY <2>1, <3>1 DEF Goals
    <3>3. QED
      BY <2>3, <3>1, <3>2 DEF Out
  <2>4. CASE /\ space'[j].status \in {"open", "closed"} /\ space'[j].gen = space[j].gen
             /\ space[j].status \in {"open", "closed"}
    <3>1. Goals(j)' = Goals(j) /\ Exists(j)
      BY <2>1, <2>4 DEF Goals, Exists
    <3>2. QED
      BY <2>4, <3>1 DEF OneAtATime, Out
  <2>5. QED
    BY <1>3, <2>2, <2>3, <2>4, OtherStepIs
<1>4. QED
  BY <1>1, <1>2, <1>3

-----------------------------------------------------------------------------
(* A pending message always has a turn that will settle it, and a space that *)
(* shows as being published always has a task that will change that, however *)
(* closing, reopening, deleting, reused ids and other publications come in   *)
(* between.                                                                  *)
THEOREM NothingWaitsForNobody == Spec => [](TypeOK /\ WaitingHasTurn /\ PublishingHasTask)
<1>1. Init => Inv
  <2> SUFFICES ASSUME Init PROVE Inv
    OBVIOUS
  <2>1. MessagesHaveSpace /\ WaitingHasTurn /\ TasksAreAsFar
    BY DEF Init, NoMsg, MessagesHaveSpace, WaitingHasTurn, TasksAreAsFar
  <2>2. QED
    BY <2>1, InitKnown DEF Inv
<1>2. Inv /\ [Next]_vars => Inv'
  BY KnownStep, WaitStep, TasksStep DEF Inv
<1>3. Inv => TypeOK /\ WaitingHasTurn /\ PublishingHasTask
  BY DEF Inv, Known, TasksAreAsFar, PublishingHasTask, Before, After
<1>4. QED
  BY <1>1, <1>2, <1>3, PTL DEF Spec

(* A space has its one goal exactly if it shows as published or about to be. *)
(* Only the first space of an id, and reopenings that nothing comes between  *)
(* are meant: one that checked a closed space, and writes after it was       *)
(* published, takes it back and lets it be published again.                  *)
THEOREM GoalIsPublished ==
  ASSUME "reopen" \notin Racing
  PROVE  Spec => []GoalMeansPublished
<1> DEFINE GoalInv == Known /\ OneAtATime
<1>1. Init => GoalInv
  <2> SUFFICES ASSUME Init PROVE GoalInv
    OBVIOUS
  <2>1. OneAtATime
    BY DEF Init, OneAtATime, Exists
  <2>2. QED
    BY <2>1, InitKnown
<1>2. GoalInv /\ [Next]_vars => GoalInv'
  BY KnownStep, GoalStep
<1>3. GoalInv => GoalMeansPublished
  <2> SUFFICES ASSUME GoalInv, NEW i \in SpaceIds, space[i].gen = 1, Exists(i)
               PROVE  Cardinality(Goals(i)) = IF space[i].status \in Out THEN 1 ELSE 0
    BY DEF GoalMeansPublished
  <2>1. IF space[i].status \in Out THEN \E p \in Pubs : Goals(i) = {p} ELSE Goals(i) = {}
    BY DEF OneAtATime
  <2>2. QED
    BY <2>1, FS_EmptySet, FS_Singleton
<1>4. QED
  BY <1>1, <1>2, <1>3, PTL DEF Spec
\* a space that shows as published, or about to be, has a goal
PublishedHasGoal ==
  \A i \in SpaceIds : space[i].status \in Out => Goals(i) # {}

(* No step takes a goal from the space that shows it.                        *)
LEMMA PublishedStep ==
  ASSUME Known, PublishedHasGoal, [Next]_vars
  PROVE  PublishedHasGoal'
<1>1. ASSUME NEW p \in Pubs, PubStep(p) PROVE PublishedHasGoal'
  <2> DEFINE i == pub[p].space
  <2>1. /\ i \in SpaceIds /\ pub'[p].space = i
        /\ \A q \in Pubs \ {p} : pub'[q] = pub[q]
        /\ \A j \in SpaceIds : space'[j].gen = space[j].gen
        /\ \A j \in SpaceIds \ {i} : space'[j] = space[j]
    BY <1>1, PubStepIs
  <2>2. CASE pub'[p].goal = space[i].gen /\ space'[i].status \in Out
    <3>1. p \in Goals(i)'
      BY <2>1, <2>2 DEF Goals
    <3>2. \A j \in SpaceIds \ {i} : Goals(j)' = Goals(j)
      BY <2>1 DEF Goals
    <3>3. QED
      BY <2>1, <3>1, <3>2 DEF PublishedHasGoal
  <2>3. CASE /\ pub'[p].goal = pub[p].goal
             /\ space'[i].status \in Out => space[i].status \in Out
    <3>1. \A j \in SpaceIds : Goals(j)' = Goals(j)
      BY <2>1, <2>3 DEF Goals
    <3>2. QED
      BY <2>1, <2>3, <3>1 DEF PublishedHasGoal
  <2>4. QED
    BY <1>1, <2>2, <2>3, PubStepIs DEF Out
<1>2. ASSUME NEW i \in SpaceIds, NEW p \in Pubs, NEW d \in RowIds, Confirm(p, i, d)
      PROVE  PublishedHasGoal'
  <2>1. /\ pub[p].pc = "idle" /\ SetStatus(i, "publishing")
        /\ pub' = [pub EXCEPT ![p] = PubTask(i, d, space[i].status)]
    BY <1>2 DEF Confirm
  <2>2. \A q \in Pubs \ {p} : pub'[q] = pub[q]
    BY <2>1 DEF Known, TypeOK
  <2>3. pub[p].space = 0
    BY <2>1 DEF Known, PubsKnow
  <2>4. space'[i].status = "publishing" /\ \A j \in SpaceIds \ {i} : space'[j] = space[j]
    BY <2>1, StatusSet DEF Known, Statuses
  <2>5. ASSUME NEW j \in SpaceIds, space'[j].status \in Out PROVE Goals(j)' # {}
    <3>1. j # i /\ space'[j] = space[j]
      BY <2>4, <2>5 DEF Out
    <3>2. PICK q \in Goals(j) : TRUE
      BY <2>5, <3>1 DEF PublishedHasGoal
    <3>3. q # p
      BY <2>3, <3>2, IdsTyped DEF Goals
    <3>4. q \in Goals(j)'
      BY <2>2, <3>1, <3>2, <3>3 DEF Goals
    <3>5. QED
      BY <3>4
  <2>6. QED
    BY <2>5 DEF PublishedHasGoal
<1>3. CASE /\ ~ \E p \in Pubs : PubStep(p)
           /\ ~ \E i \in SpaceIds, p \in Pubs, d \in RowIds : Confirm(p, i, d)
  <2>1. ASSUME NEW j \in SpaceIds, space'[j].status \in Out
        PROVE  space'[j] = space[j] /\ UNCHANGED pub
    BY <1>3, <2>1, OtherStepIs DEF Exists, Out
  <2>2. QED
    BY <2>1 DEF PublishedHasGoal, Goals
<1>4. QED
  BY <1>1, <1>2, <1>3

(* Whatever comes in between checks and writes, also of reopenings, and also *)
(* for ids that are used again: a space that shows as published, or about to *)
(* be, has the goal of a publication of its own.                             *)
THEOREM PublishedSpacesHaveGoals == Spec => []PublishedHasGoal
<1>1. Init => Known /\ PublishedHasGoal
  BY InitKnown DEF Init, PublishedHasGoal, Out
<1>2. Known /\ PublishedHasGoal /\ [Next]_vars => (Known /\ PublishedHasGoal)'
  BY KnownStep, PublishedStep
<1>3. QED
  BY <1>1, <1>2, PTL DEF Spec

-----------------------------------------------------------------------------
(* The resources of a space.  The inductive invariant.                       *)

\* the two files of a space that carry no id
Seen == {Draft, Notes}

Dead == DOMAIN rows \ Live

Listed ==
  /\ ResourcesTypeOK
  /\ IsFiniteSet(DOMAIN disk)
  /\ \A o \in Ops : IsFiniteSet(op[o].paths)

\* an id is given out once
SeqsDiffer ==
  \A i, j \in DOMAIN rows : i # j /\ rows[i].seq = rows[j].seq => rows[i].seq \in Bad

\* the file of a row carries the row's id
PathsAreOwn ==
  \A i \in DOMAIN rows :
    rows[i].path \in Seen \/ rows[i].path.seq = rows[i].seq \/ rows[i].path.seq \in Bad

\* what a row is and shows is told by the suffix of its file
KindsFit ==
  \A i \in DOMAIN rows :
    /\ (rows[i].kind = "image") <=> (rows[i].path.tag \in Exts)
    /\ rows[i].path = Draft => rows[i].kind = "summary"
    /\ rows[i].path = Notes => rows[i].kind = "text"
    /\ rows[i].path.tag \notin Exts => rows[i].shows = Text

\* ... and so it is for a file
FilesFit == \A p \in DOMAIN disk : p.tag \notin Exts => disk[p] = Text

\* the files without an id have one row
OneSummary ==
  \A i, j \in Live :
    \/ rows[i].kind = "summary" /\ rows[j].kind = "summary"
    \/ rows[i].path = Notes /\ rows[j].path = Notes
    => i = j

\* a file with an id has a row, is of a deleted one, or a request has it in hand
Owned(p) ==
  \/ p \in Seen \/ p.seq \in Bad
  \/ p \in LivePaths
  \/ \E i \in Dead : rows[i].seq = p.seq
  \/ InHand(p)

FilesAreOwned == \A p \in DOMAIN disk : Owned(p)

OnDisk(o) == op[o].path \in DOMAIN disk /\ disk[op[o].path] = op[o].shows

\* the new file is there until the row is, unless the id was given out twice
Creating(o) ==
  /\ op[o].path.seq # 0 /\ op[o].path.tag \in Exts \union Names
  /\ op[o].path.tag \notin Exts => op[o].shows = Text
  /\ op[o].path.seq \notin Bad \union Seqs => OnDisk(o)

\* the file has moved, and its row will follow
Moved(i, old, new) ==
  /\ rows[i].path = old /\ new \in DOMAIN disk
  /\ old \in DOMAIN disk => old = new \/ old \in Seen \/ old.seq \in Bad

Updating(o) ==
  /\ op[o].row \in DOMAIN rows /\ rows[op[o].row].kind # "image"
  /\ op[o].path.seq = rows[op[o].row].seq /\ op[o].path.tag \in Names
  /\ op[o].row \in Live /\ rows[op[o].row].seq \notin Bad =>
       Moved(op[o].row, op[o].old, op[o].path)

Uploading(o) == op[o].path.seq # 0 /\ op[o].path.tag \in Exts

\* the new picture is there until the row says so, unless the row is deleted
Replacing(o) ==
  /\ op[o].row \in DOMAIN rows /\ rows[op[o].row].kind = "image"
  /\ op[o].path.seq = rows[op[o].row].seq /\ op[o].path.tag \in Exts
  /\ op[o].pc = "written" /\ op[o].row \in Live /\ rows[op[o].row].seq \notin Bad => OnDisk(o)

\* a file about to go is that of no resource
Unlinking(o) ==
  /\ \A i \in Live : rows[i].path = op[o].path => op[o].path.seq \in Bad
  /\ \/ op[o].path \in Seen \/ op[o].path.seq \in Bad
     \/ op[o].kind = "delete" /\ \E i \in Dead : rows[i].seq = op[o].path.seq
     \/ op[o].kind = "replace" /\ op[o].path.tag \in Exts /\ op[o].path.seq \in Seqs

Fits(o) ==
  \/ op[o] = Idle
  \/ At(o, "create", "written") /\ Creating(o)
  \/ At(o, "update", "written") /\ Updating(o)
  \/ At(o, "upload", "slot") /\ Uploading(o)
  \/ op[o].pc \in {"slot", "written"} /\ op[o].kind = "replace" /\ Replacing(o)
  \/ op[o].pc = "unlink" /\ op[o].kind \in {"delete", "replace"} /\ Unlinking(o)
  \/ At(o, "sync", "scanned")

RequestsFit == \A o \in Ops : Fits(o)

\* the event loop is inside one request at most
OneOnTheLoop ==
  \A o, u \in Ops : AtWork(o) /\ AtWork(u)
    /\ op[o].kind \in {"create", "replace"} /\ op[u].kind \in {"create", "replace"} => o = u

\* two updates of one row at a time are noticed
UpdatesRace ==
  \A o, u \in Ops : At(o, "update", "written") /\ At(u, "update", "written")
    /\ op[o].row = op[u].row /\ o # u => rows[op[o].row].seq \in Bad

RowsInv == SeqsDiffer /\ PathsAreOwn /\ KindsFit /\ OneSummary
RequestsInv == RequestsFit /\ OneOnTheLoop /\ UpdatesRace

ResourcesInv == Listed /\ RowsInv /\ FilesFit /\ FilesAreOwned /\ RequestsInv /\ RowShowsItsFile

-----------------------------------------------------------------------------
(* Ids.                                                                      *)
LessNat == {ss \in Nat \X Nat : ss[1] < ss[2]}

(* The order of the natural numbers is well-founded.                         *)
LEMMA LeastNat ==
  ASSUME NEW U \in SUBSET Nat, U # {}
  PROVE  \E m \in U : \A k \in U : m <= k
<1>1. IsWellFoundedOn(LessNat, Nat)
  BY NatLessThanWellFounded DEF OpToRel, LessNat
<1>2. PICK m \in U : \A k \in U : <<k, m>> \notin LessNat
  BY <1>1, WFMin
<1>3. \A k \in U : ~(k < m)
  <2> TAKE k \in U
  <2>1. <<k, m>>[1] = k /\ <<k, m>>[2] = m /\ <<k, m>> \in Nat \X Nat
    OBVIOUS
  <2>2. QED
    BY <1>2, <2>1 DEF LessNat
<1>4. QED
  BY <1>3

(* The greatest is the least of the upper bounds.                            *)
LEMMA GreatestNat ==
  ASSUME NEW S \in SUBSET Nat, NEW n \in Nat, \A x \in S : x <= n, S # {}
  PROVE  Max(S) \in S /\ \A y \in S : y <= Max(S)
<1> DEFINE U == {m \in Nat : \A y \in S : y <= m}
<1>1. PICK m \in U : \A k \in U : m <= k
  BY LeastNat
<1>2. m \in S
  <2> SUFFICES ASSUME m \notin S PROVE FALSE
    OBVIOUS
  <2>1. \A y \in S : y <= m - 1
    OBVIOUS
  <2>2. m - 1 \in Nat
    <3>1. PICK y \in S : TRUE
      OBVIOUS
    <3>2. QED
      BY <2>1, <3>1
  <2>3. m <= m - 1
    BY <1>1, <2>1, <2>2
  <2>4. QED
    BY <2>2, <2>3
<1>3. QED
  BY <1>1, <1>2 DEF Max

(* What a row's fields are.                                                  *)
LEMMA RowTyped ==
  ASSUME rows \in Seq(Rows), NEW i \in DOMAIN rows
  PROVE  /\ rows[i] \in Rows /\ rows[i].path \in Files
         /\ rows[i].seq \in Nat \ {0} /\ rows[i].shows \in Nat /\ rows[i].live \in BOOLEAN
<1>1. rows[i] \in Rows
  OBVIOUS
<1>2. QED
  BY <1>1 DEF Rows

(* The ids are bounded: consider the first rows up to which they are not.    *)
LEMMA SeqsBounded ==
  ASSUME rows \in Seq(Rows)
  PROVE  \E b \in Nat : \A i \in DOMAIN rows : rows[i].seq <= b
<1> DEFINE Below(k, b) == \A i \in DOMAIN rows : i <= k => rows[i].seq <= b
           U == {k \in Nat : ~ \E b \in Nat : Below(k, b)}
<1>1. DOMAIN rows = 1..Len(rows) /\ Len(rows) \in Nat
  OBVIOUS
<1>2. \A i \in DOMAIN rows : rows[i].seq \in Nat
  BY RowTyped
<1>3. \A k \in Nat : k \in U \/ \E b \in Nat : Below(k, b)
  OBVIOUS
<1>4. \A k \in U : k \in Nat /\ \A b \in Nat : ~ Below(k, b)
  OBVIOUS
<1>5. Below(0, 0)
  BY <1>1
<1>6. ASSUME NEW k \in Nat, NEW b \in Nat, Below(k, b)
      PROVE  \E c \in Nat : Below(k + 1, c)
  <2>1. CASE k + 1 \notin DOMAIN rows
    BY <1>1, <1>6, <2>1
  <2>2. CASE k + 1 \in DOMAIN rows
    <3> DEFINE n == rows[k + 1].seq
    <3>1. n \in Nat
      BY <1>2, <2>2
    <3>2. \A i \in DOMAIN rows : i <= k + 1 =>
            rows[i].seq \in Nat /\ (rows[i].seq <= b \/ rows[i].seq = n)
      BY <1>1, <1>2, <1>6
    <3> HIDE DEF n
    <3>3. b + n \in Nat /\ \A m \in Nat : m <= b \/ m = n => m <= b + n
      BY <3>1
    <3>4. QED
      BY <3>2, <3>3
  <2>3. QED
    BY <2>1, <2>2
<1> HIDE DEF Below, U
<1>7. U = {}
  <2> SUFFICES ASSUME U # {} PROVE FALSE
    OBVIOUS
  <2>1. U \in SUBSET Nat
    BY <1>4
  <2>2. PICK k \in U : \A m \in U : k <= m
    BY <2>1, LeastNat
  <2>3. k \in Nat /\ k # 0
    BY <1>4, <1>5
  <2>4. k - 1 \in Nat /\ k - 1 \notin U /\ (k - 1) + 1 = k
    BY <2>2, <2>3
  <2>5. PICK b \in Nat : Below(k - 1, b)
    BY <1>3, <2>4
  <2>6. QED
    BY <1>4, <1>6, <2>4, <2>5
<1>8. PICK b \in Nat : Below(Len(rows), b)
  BY <1>1, <1>3, <1>7
<1>9. QED
  BY <1>1, <1>8 DEF Below

(* NextSeq is an id that no row has.                                         *)
LEMMA NextSeqIsNew ==
  ASSUME rows \in Seq(Rows)
  PROVE  NextSeq \in Nat \ {0} /\ \A i \in DOMAIN rows : rows[i].seq < NextSeq
<1>1. PICK b \in Nat : \A i \in DOMAIN rows : rows[i].seq <= b
  BY SeqsBounded
<1>2. \A i \in DOMAIN rows : rows[i].seq \in Nat
  BY RowTyped
<1> DEFINE S == {0} \union Seqs
<1>3. S \in SUBSET Nat /\ S # {} /\ \A x \in S : x <= b
  BY <1>1, <1>2 DEF Seqs
<1> HIDE DEF S
<1>4. Max(S) \in S /\ \A y \in S : y <= Max(S)
  BY <1>3, GreatestNat
<1> DEFINE m == Max(S)
<1>5. m \in Nat /\ \A y \in S : y <= m
  BY <1>3, <1>4
<1>6. NextSeq = 1 + m
  BY DEF NextSeq, S
<1> HIDE DEF m
<1>7. \A i \in DOMAIN rows : rows[i].seq \in S
  BY DEF S, Seqs
<1>8. QED
  BY <1>2, <1>5, <1>6, <1>7

-----------------------------------------------------------------------------
(* Files, rows and requests.                                                 *)
LEMMA FileFields ==
  ASSUME NEW n \in Nat, NEW t
  PROVE  /\ File(n, t).seq = n /\ File(n, t).tag = t
         /\ t \in Exts \union Names \union {"draft", "notes"} => File(n, t) \in Files
  BY DEF File, Files

LEMMA SeenFields ==
  /\ Draft \in Files /\ Notes \in Files /\ Draft # Notes
  /\ Draft.seq = 0 /\ Notes.seq = 0 /\ Draft.tag = "draft" /\ Notes.tag = "notes"
  /\ Draft.tag \notin Exts \union Names /\ Notes.tag \notin Exts \union Names
  BY ResourcesAssumption DEF Draft, Notes, File, Files

(* A file that has an id is neither of the two without.                      *)
LEMMA NotSeen ==
  ASSUME NEW p \in Files, p.seq # 0 \/ p.tag \in Exts \union Names
  PROVE  p \notin Seen
  BY SeenFields DEF Seen

LEMMA RowFields ==
  ASSUME NEW n \in Nat \ {0}, NEW p \in Files, NEW c \in Nat
  PROVE  /\ Row(n, p, c) \in Rows
         /\ Row(n, p, c).seq = n /\ Row(n, p, c).kind = Kind(p)
         /\ Row(n, p, c).path = p /\ Row(n, p, c).shows = c /\ Row(n, p, c).live = TRUE
<1>1. Kind(p) \in {"text", "image", "summary"}
  BY DEF Kind
<1>2. QED
  BY <1>1 DEF Row, Rows

LEMMA KindOf ==
  ASSUME NEW p \in Files
  PROVE  /\ (Kind(p) = "image") <=> (p.tag \in Exts)
         /\ (Kind(p) = "summary") <=> (p = Draft)
         /\ p = Notes => Kind(p) = "text"
  BY SeenFields DEF Kind

LEMMA IdleFields ==
  /\ Idle \in OpStates
  /\ Idle.pc = "idle" /\ Idle.kind = "none" /\ Idle.paths = {}
  BY SeenFields DEF Idle, OpStates, Text

-----------------------------------------------------------------------------
(* What steps leave alone.                                                   *)

\* the requests other than o
OthersWait(o) == \A u \in Ops \ {o} : op'[u] = op[u]

BadGrows == Bad \subseteq Bad'

(* What beginning and ending a request leaves alone.                         *)
LEMMA Begun ==
  ASSUME Listed, NEW o \in Ops, NEW rec \in OpStates, BeginRequest(o, rec),
         IsFiniteSet(rec.paths)
  PROVE  /\ op[o] = Idle /\ op'[o] = rec /\ OthersWait(o)
         /\ op' \in [Ops -> OpStates] /\ requests' \in 0..MaxRequests
         /\ \A u \in Ops : IsFiniteSet(op'[u].paths)
  BY ResourcesAssumption DEF Listed, ResourcesTypeOK, BeginRequest, OthersWait

LEMMA Ended ==
  ASSUME Listed, NEW o \in Ops, EndRequest(o)
  PROVE  /\ op'[o] = Idle /\ OthersWait(o) /\ op' \in [Ops -> OpStates]
         /\ \A u \in Ops : IsFiniteSet(op'[u].paths)
<1>1. IsFiniteSet(Idle.paths) /\ Idle \in OpStates
  BY IdleFields, FS_EmptySet
<1>2. QED
  BY <1>1 DEF Listed, ResourcesTypeOK, EndRequest, OthersWait

(* Rows that stay as they are stay in order.                                 *)
LEMMA RowsKept ==
  ASSUME RowsInv, rows' = rows, BadGrows
  PROVE  RowsInv' /\ Live' = Live /\ Dead' = Dead /\ Seqs' = Seqs /\ LivePaths' = LivePaths
<1>1. Live' = Live /\ Dead' = Dead /\ Seqs' = Seqs /\ LivePaths' = LivePaths
  BY DEF Live, Dead, Seqs, LivePaths
<1>2. SeqsDiffer' /\ PathsAreOwn'
  BY DEF RowsInv, SeqsDiffer, PathsAreOwn, BadGrows
<1>3. KindsFit'
  BY DEF RowsInv, KindsFit
<1>4. OneSummary'
  BY <1>1 DEF RowsInv, OneSummary
<1>5. QED
  BY <1>1, <1>2, <1>3, <1>4 DEF RowsInv

(* A request that waits while nothing else moves.                            *)
LEMMA FitsKept ==
  ASSUME NEW u \in Ops, Fits(u), op'[u] = op[u], rows' = rows, disk' = disk, BadGrows
  PROVE  Fits(u)'
<1>1. Live' = Live /\ Dead' = Dead /\ Seqs' = Seqs
  BY DEF Live, Dead, Seqs
<1>2. \A k, pc : At(u, k, pc)' <=> At(u, k, pc)
  BY DEF At
<1>3. OnDisk(u)' <=> OnDisk(u)
  BY DEF OnDisk
<1>4. Creating(u) => Creating(u)'
  BY <1>1, <1>3 DEF Creating, BadGrows
<1>5. Updating(u) => Updating(u)'
  BY <1>1 DEF Updating, Moved, BadGrows
<1>6. Replacing(u) => Replacing(u)'
  BY <1>1, <1>3 DEF Replacing, BadGrows
<1>7. Unlinking(u) => Unlinking(u)'
  BY <1>1 DEF Unlinking, BadGrows
<1>8. Uploading(u) => Uploading(u)'
  BY DEF Uploading
<1>9. QED
  BY <1>2, <1>4, <1>5, <1>6, <1>7, <1>8 DEF Fits

(* A file stays owned while the rows stay.                                   *)
LEMMA OwnedKept ==
  ASSUME NEW p, Owned(p), rows' = rows, BadGrows, InHand(p) => Owned(p)'
  PROVE  Owned(p)'
<1>1. Dead' = Dead /\ LivePaths' = LivePaths
  BY DEF Live, Dead, LivePaths
<1>2. QED
  BY <1>1 DEF Owned, BadGrows

(* Other requests have in hand what they had.                                *)
LEMMA InOtherHands ==
  ASSUME NEW o \in Ops, OthersWait(o), NEW p, InHand(p)
  PROVE  InHand(p)' \/ (AtWork(o) /\ op[o].path = p)
  BY DEF InHand, OthersWait, AtWork

(* A request comes onto the loop only when it is free.                       *)
LEMMA LoopKept ==
  ASSUME NEW o \in Ops, OthersWait(o), OneOnTheLoop,
         AtWork(o)' /\ op'[o].kind \in {"create", "replace"} =>
           LoopFree \/ (AtWork(o) /\ op[o].kind \in {"create", "replace"})
  PROVE  OneOnTheLoop'
  BY DEF OneOnTheLoop, LoopFree, AtWork, OthersWait

(* No update begins: the overlapping ones stay noticed.                      *)
LEMMA UpdatesKept ==
  ASSUME NEW o \in Ops, OthersWait(o), UpdatesRace, RequestsFit, BadGrows,
         ~ (op'[o].pc = "written" /\ op'[o].kind = "update"),
         \A i \in DOMAIN rows : rows'[i].seq = rows[i].seq
  PROVE  UpdatesRace'
<1>1. \A u \in Ops : At(u, "update", "written") => op[u].row \in DOMAIN rows
  <2> TAKE u \in Ops
  <2>1. Fits(u)
    BY DEF RequestsFit
  <2>2. QED
    BY <2>1, IdleFields DEF Fits, At, Updating
<1>2. \A u \in Ops : At(u, "update", "written")' =>
        u # o /\ At(u, "update", "written") /\ op'[u] = op[u]
  BY DEF At, OthersWait
<1>3. QED
  BY <1>1, <1>2 DEF UpdatesRace, BadGrows

(* Nothing but the requests has moved.                                       *)
LEMMA OnlyRequests ==
  ASSUME ResourcesInv, NEW o \in Ops, OthersWait(o), BadGrows, rows' = rows, disk' = disk,
         Listed', Fits(o)',
         AtWork(o)' => AtWork(o),
         AtWork(o)' /\ op'[o].kind \in {"create", "replace"} =>
           op[o].kind \in {"create", "replace"},
         ~ (op'[o].pc = "written" /\ op'[o].kind = "update"),
         \A p \in Files : AtWork(o) /\ op[o].path = p => Owned(p)',
         \A i \in Live : op[o].pc = "written" /\ op[o].kind # "create" /\ op[o].row = i =>
           \/ rows[i].seq \in Bad' \/ rows[i].path.seq \in Bad'
           \/ rows[i].path \in DOMAIN disk /\ disk[rows[i].path] = rows[i].shows
  PROVE  ResourcesInv'
<1>1. RowsInv' /\ Live' = Live
  BY RowsKept DEF ResourcesInv
<1>2. FilesFit'
  BY DEF ResourcesInv, FilesFit
<1>3. FilesAreOwned'
  <2> SUFFICES ASSUME NEW p \in DOMAIN disk PROVE Owned(p)'
    BY DEF FilesAreOwned
  <2>1. InHand(p)' => Owned(p)'
    BY DEF Owned
  <2>2. InHand(p) => Owned(p)'
    <3>1. p \in Files
      BY DEF ResourcesInv, Listed, ResourcesTypeOK
    <3>2. QED
      BY <2>1, <3>1, InOtherHands
  <2>3. QED
    BY <2>2, OwnedKept DEF ResourcesInv, FilesAreOwned
<1>4. RequestsFit'
  <2> SUFFICES ASSUME NEW u \in Ops PROVE Fits(u)'
    BY DEF RequestsFit
  <2>1. CASE u = o
    BY <2>1
  <2>2. CASE u # o
    <3>1. op'[u] = op[u] /\ Fits(u)
      BY <2>2 DEF OthersWait, ResourcesInv, RequestsInv, RequestsFit
    <3>2. QED
      BY <3>1, FitsKept
  <2>3. QED
    BY <2>1, <2>2
<1>5. OneOnTheLoop' /\ UpdatesRace'
  BY LoopKept, UpdatesKept DEF ResourcesInv, RequestsInv
<1>6. RowShowsItsFile'
  <2> SUFFICES ASSUME NEW i \in Live, Orderly(i)', ~ Between(i)'
               PROVE  rows[i].path \in DOMAIN disk /\ disk[rows[i].path] = rows[i].shows
    BY <1>1 DEF RowShowsItsFile
  <2>1. Orderly(i) /\ rows[i].seq \notin Bad' /\ rows[i].path.seq \notin Bad'
    BY DEF Orderly, BadGrows
  <2>2. CASE Between(i)
    <3>1. op[o].pc = "written" /\ op[o].kind # "create" /\ op[o].row = i
      BY <2>2 DEF Between, OthersWait
    <3>2. QED
      BY <2>1, <3>1
  <2>3. CASE ~ Between(i)
    BY <2>1, <2>3 DEF ResourcesInv, RowShowsItsFile
  <2>4. QED
    BY <2>2, <2>3
<1>7. QED
  BY <1>1, <1>2, <1>3, <1>4, <1>5, <1>6 DEF ResourcesInv, RequestsInv

(* What the types say of a request and of the rows.                          *)
LEMMA OpTyped ==
  ASSUME Listed, NEW o \in Ops
  PROVE  /\ op[o] \in OpStates /\ op[o].path \in Files /\ op[o].old \in Files
         /\ op[o].row \in Nat /\ op[o].shows \in Nat /\ op[o].paths \in SUBSET Files
         /\ IsFiniteSet(op[o].paths)
<1>1. op[o] \in OpStates
  BY DEF Listed, ResourcesTypeOK
<1>2. QED
  BY <1>1 DEF Listed, OpStates

LEMMA RowsTyped ==
  ASSUME Listed
  PROVE  /\ rows \in Seq(Rows) /\ DOMAIN rows = 1..Len(rows) /\ Len(rows) \in Nat
         /\ NextSeq \in Nat \ {0} /\ \A i \in DOMAIN rows : rows[i].seq < NextSeq
         /\ \A i \in DOMAIN rows : /\ rows[i].path \in Files /\ rows[i].seq \in Nat \ {0}
                                  /\ rows[i].shows \in Nat /\ rows[i].live \in BOOLEAN
<1>1. rows \in Seq(Rows) /\ DOMAIN rows = 1..Len(rows) /\ Len(rows) \in Nat
  BY DEF Listed, ResourcesTypeOK
<1>2. QED
  BY <1>1, NextSeqIsNew, RowTyped

(* The empty space is in order.                                              *)
LEMMA ResourcesInitInv == ResourcesInit => ResourcesInv
<1> SUFFICES ASSUME ResourcesInit PROVE ResourcesInv
  OBVIOUS
<1>1. /\ DOMAIN rows = {} /\ DOMAIN disk = {} /\ Bad = {} /\ rows \in Seq(Rows) /\ Len(rows) = 0
      /\ \A o \in Ops : op[o] = Idle
  BY DEF ResourcesInit, Bad
<1>2. Listed
  <2>1. IsFiniteSet({})
    BY FS_EmptySet
  <2>2. op \in [Ops -> OpStates]
    BY <1>1, IdleFields DEF ResourcesInit
  <2>3. IsFiniteSet(DOMAIN disk) /\ \A o \in Ops : IsFiniteSet(op[o].paths)
    BY <1>1, <2>1, IdleFields
  <2>4. open \in BOOLEAN /\ requests \in 0..MaxRequests /\ Len(rows) <= MaxRows
    BY <1>1, ResourcesAssumption DEF ResourcesInit
  <2>5. DOMAIN disk \subseteq Files /\ (\A p \in DOMAIN disk : disk[p] \in Nat) /\ Bad \subseteq Nat
    BY <1>1
  <2>6. QED
    BY <1>1, <2>2, <2>3, <2>4, <2>5 DEF Listed, ResourcesTypeOK
<1>3. Live = {}
  BY <1>1 DEF Live
<1>4. RowsInv
  BY <1>1, <1>3 DEF RowsInv, SeqsDiffer, PathsAreOwn, KindsFit, OneSummary
<1>5. RequestsInv
  BY <1>1, IdleFields DEF RequestsInv, RequestsFit, OneOnTheLoop, UpdatesRace, Fits, AtWork, At
<1>6. QED
  BY <1>1, <1>2, <1>3, <1>4, <1>5 DEF ResourcesInv, FilesFit, FilesAreOwned, RowShowsItsFile

(* A request that begins with nothing but itself.                            *)
LEMMA OnlyBegins ==
  ASSUME ResourcesInv, NEW o \in Ops, NEW rec \in OpStates, BeginRequest(o, rec),
         IsFiniteSet(rec.paths), rec.pc \notin {"written", "unlink"}, Fits(o)',
         UNCHANGED <<open, rows, disk, history>>
  PROVE  ResourcesInv'
<1>1. Bad' = Bad /\ BadGrows
  BY DEF Bad, BadGrows, history
<1>2. /\ op[o] = Idle /\ op'[o] = rec /\ OthersWait(o)
      /\ op' \in [Ops -> OpStates] /\ requests' \in 0..MaxRequests
      /\ \A u \in Ops : IsFiniteSet(op'[u].paths)
  BY Begun DEF ResourcesInv
<1>3. Listed'
  BY <1>1, <1>2 DEF Listed, ResourcesTypeOK, ResourcesInv
<1>4. ~ AtWork(o) /\ ~ AtWork(o)' /\ op[o].pc # "written" /\ op'[o].pc # "written"
  BY <1>2, IdleFields DEF AtWork
<1>5. QED
  BY <1>1, <1>2, <1>3, <1>4, OnlyRequests

(* An upload that waits for its bytes has no file and no row.                *)
LEMMA BeginUploadStep ==
  ASSUME ResourcesInv, NEW o \in Ops, NEW ext \in Exts, BeginUpload(o, ext)
  PROVE  ResourcesInv'
<1> DEFINE p == File(NextSeq, ext)
           rec == [Idle EXCEPT !.pc = "slot", !.kind = "upload", !.path = p,
                               !.shows = requests + 1]
<1>1. NextSeq \in Nat \ {0}
  BY RowsTyped DEF ResourcesInv
<1>2. p \in Files /\ p.seq # 0 /\ p.tag = ext
  BY <1>1, FileFields
<1>3. requests + 1 \in Nat
  BY ResourcesAssumption DEF ResourcesInv, Listed, ResourcesTypeOK
<1>4. BeginRequest(o, rec) /\ UNCHANGED <<open, rows, disk, history>>
  BY DEF BeginUpload
<1> HIDE DEF p
<1>5. rec \in OpStates /\ rec.pc = "slot" /\ rec.kind = "upload" /\ rec.path = p /\ rec.paths = {}
  BY <1>2, <1>3, IdleFields DEF Idle, OpStates
<1> HIDE DEF rec
<1>6. IsFiniteSet(rec.paths)
  BY <1>5, FS_EmptySet
<1>7. op'[o] = rec
  BY <1>4, <1>5, <1>6, Begun DEF ResourcesInv
<1>8. Fits(o)'
  BY <1>2, <1>5, <1>7 DEF Fits, At, Uploading
<1>9. QED
  BY <1>4, <1>5, <1>6, <1>8, OnlyBegins

(* Nor has a replacement: it remembers a row and its id.                     *)
LEMMA BeginReplaceStep ==
  ASSUME ResourcesInv, NEW o \in Ops, NEW i \in DOMAIN rows, NEW ext \in Exts,
         BeginReplace(o, i, ext)
  PROVE  ResourcesInv'
<1> DEFINE p == File(rows[i].seq, ext)
           rec == [Idle EXCEPT !.pc = "slot", !.kind = "replace", !.row = i, !.path = p,
                               !.shows = requests + 1]
<1>1. rows[i].seq \in Nat /\ i \in Nat
  BY RowsTyped DEF ResourcesInv
<1>2. p \in Files /\ p.seq = rows[i].seq /\ p.tag = ext
  BY <1>1, FileFields
<1>3. requests + 1 \in Nat
  BY ResourcesAssumption DEF ResourcesInv, Listed, ResourcesTypeOK
<1>4. BeginRequest(o, rec) /\ UNCHANGED <<open, rows, disk, history>> /\ rows[i].kind = "image"
  BY DEF BeginReplace
<1> HIDE DEF p
<1>5. /\ rec \in OpStates /\ rec.pc = "slot" /\ rec.kind = "replace" /\ rec.path = p
      /\ rec.paths = {} /\ rec.row = i
  BY <1>1, <1>2, <1>3, IdleFields DEF Idle, OpStates
<1> HIDE DEF rec
<1>6. IsFiniteSet(rec.paths)
  BY <1>5, FS_EmptySet
<1>7. op'[o] = rec
  BY <1>4, <1>5, <1>6, Begun DEF ResourcesInv
<1>8. Fits(o)'
  BY <1>2, <1>4, <1>5, <1>7 DEF Fits, Replacing
<1>9. QED
  BY <1>4, <1>5, <1>6, <1>8, OnlyBegins

(* A synchronisation that has listed the files holds none of them.           *)
LEMMA ScanStep ==
  ASSUME ResourcesInv, NEW o \in Ops, Scan(o)
  PROVE  ResourcesInv'
<1> DEFINE S == {p \in DOMAIN disk : ~ Buried(p)}
           rec == [Idle EXCEPT !.pc = "scanned", !.kind = "sync", !.paths = S,
                               !.shown = LivePaths]
<1>1. S \in SUBSET Files /\ IsFiniteSet(S)
  BY FS_Subset DEF ResourcesInv, Listed, ResourcesTypeOK
<1>2. LivePaths \in SUBSET Files
  BY RowsTyped DEF ResourcesInv, LivePaths, Live
<1>3. BeginRequest(o, rec) /\ UNCHANGED <<open, rows, disk, history>>
  BY DEF Scan
<1> HIDE DEF S
<1>4. rec \in OpStates /\ rec.pc = "scanned" /\ rec.kind = "sync" /\ rec.paths = S
  BY <1>1, <1>2, IdleFields DEF Idle, OpStates
<1> HIDE DEF rec
<1>5. op'[o] = rec
  BY <1>1, <1>3, <1>4, Begun DEF ResourcesInv
<1>6. Fits(o)'
  BY <1>4, <1>5 DEF Fits, At
<1>7. QED
  BY <1>1, <1>3, <1>4, <1>6, OnlyBegins

(* Opening and closing touch no row, file or request.                        *)
LEMMA OpenStep ==
  ASSUME ResourcesInv, CloseSpace \/ ReopenSpace \/ UNCHANGED resourceVars
  PROVE  ResourcesInv'
<1>1. UNCHANGED <<rows, disk, op, requests, history>> /\ open' \in BOOLEAN
  BY DEF CloseSpace, ReopenSpace, resourceVars, ResourcesInv, Listed, ResourcesTypeOK
<1>2. Bad' = Bad /\ BadGrows
  BY <1>1 DEF Bad, BadGrows, history
<1>3. Listed'
  BY <1>1, <1>2 DEF Listed, ResourcesTypeOK, ResourcesInv
<1>4. RowsInv' /\ Live' = Live
  BY <1>1, <1>2, RowsKept DEF ResourcesInv
<1>5. RequestsFit'
  BY <1>1, <1>2, FitsKept DEF ResourcesInv, RequestsInv, RequestsFit
<1>6. OneOnTheLoop' /\ UpdatesRace'
  BY <1>1, <1>2 DEF ResourcesInv, RequestsInv, OneOnTheLoop, UpdatesRace, AtWork, At
<1>7. FilesFit' /\ FilesAreOwned'
  <2>1. \A p : Owned(p) => Owned(p)'
    BY <1>1, <1>2 DEF Owned, InHand, AtWork, LivePaths, Live, Dead
  <2>2. QED
    BY <1>1, <2>1 DEF ResourcesInv, FilesFit, FilesAreOwned
<1>8. RowShowsItsFile'
  BY <1>1, <1>2, <1>4 DEF ResourcesInv, RowShowsItsFile, Orderly, Between
<1>9. QED
  BY <1>3, <1>4, <1>5, <1>6, <1>7, <1>8 DEF ResourcesInv, RequestsInv

-----------------------------------------------------------------------------
(* Steps on the files.                                                       *)

\* what the request u counts on of the files
Stays(u) ==
  /\ At(u, "create", "written") /\ Creating(u) /\ op[u].path.seq \notin Bad' \union Seqs
       => OnDisk(u)'
  /\ At(u, "replace", "written") /\ Replacing(u) /\ op[u].row \in Live
     /\ rows[op[u].row].seq \notin Bad' => OnDisk(u)'
  /\ At(u, "update", "written") /\ Updating(u) /\ op[u].row \in Live
     /\ rows[op[u].row].seq \notin Bad' => Moved(op[u].row, op[u].old, op[u].path)'

(* A request keeps its place if the disk keeps its files.                    *)
LEMMA StaysFit ==
  ASSUME NEW u \in Ops, Fits(u), op'[u] = op[u], rows' = rows, BadGrows, Stays(u)
  PROVE  Fits(u)'
<1>1. Live' = Live /\ Dead' = Dead /\ Seqs' = Seqs
  BY DEF Live, Dead, Seqs
<1>2. \A k, pc : At(u, k, pc)' <=> At(u, k, pc)
  BY DEF At
<1>3. At(u, "create", "written") /\ Creating(u) => Creating(u)'
  BY <1>1 DEF Creating, Stays
<1>4. At(u, "update", "written") /\ Updating(u) => Updating(u)'
  BY <1>1 DEF Updating, Stays
<1>5. op[u].kind = "replace" /\ Replacing(u) => Replacing(u)'
  BY <1>1 DEF Replacing, Stays, At
<1>6. Unlinking(u) => Unlinking(u)'
  BY <1>1 DEF Unlinking, BadGrows
<1>7. Uploading(u) => Uploading(u)'
  BY DEF Uploading
<1>8. QED
  BY <1>2, <1>3, <1>4, <1>5, <1>6, <1>7 DEF Fits

(* A step that changes the disk and one request, and no row.                 *)
LEMMA DiskStep ==
  ASSUME ResourcesInv, NEW o \in Ops, OthersWait(o), BadGrows, rows' = rows,
         Listed', FilesFit', Fits(o)', UpdatesRace',
         op[o].pc # "written" \/ op'[o] = op[o],
         AtWork(o)' /\ op'[o].kind \in {"create", "replace"} =>
           LoopFree \/ (AtWork(o) /\ op[o].kind \in {"create", "replace"}),
         \A u \in Ops \ {o} : Stays(u),
         \A p \in DOMAIN disk' \ DOMAIN disk : Owned(p)',
         \A p \in DOMAIN disk' : AtWork(o) /\ op[o].path = p => Owned(p)',
         \A i \in Live :
           /\ rows[i].seq \notin Bad' /\ rows[i].path.seq \notin Bad' /\ ~ Between(i)'
           /\ rows[i].path \in DOMAIN disk /\ disk[rows[i].path] = rows[i].shows
           => rows[i].path \in DOMAIN disk' /\ disk'[rows[i].path] = rows[i].shows
  PROVE  ResourcesInv'
<1>1. RowsInv' /\ Live' = Live
  BY RowsKept DEF ResourcesInv
<1>2. FilesAreOwned'
  <2> SUFFICES ASSUME NEW p \in DOMAIN disk' PROVE Owned(p)'
    BY DEF FilesAreOwned
  <2>1. CASE p \in DOMAIN disk
    <3>1. Owned(p)
      BY <2>1 DEF ResourcesInv, FilesAreOwned
    <3>2. InHand(p) => Owned(p)'
      BY InOtherHands DEF Owned
    <3>3. QED
      BY <3>1, <3>2, OwnedKept
  <2>2. QED
    BY <2>1
<1>3. RequestsFit'
  <2> SUFFICES ASSUME NEW u \in Ops, u # o PROVE Fits(u)'
    BY DEF RequestsFit
  <2>1. op'[u] = op[u] /\ Fits(u)
    BY DEF OthersWait, ResourcesInv, RequestsInv, RequestsFit
  <2>2. QED
    BY <2>1, StaysFit
<1>4. OneOnTheLoop'
  BY LoopKept DEF ResourcesInv, RequestsInv
<1>5. RowShowsItsFile'
  <2> SUFFICES ASSUME NEW i \in Live, Orderly(i)', ~ Between(i)'
               PROVE  rows[i].path \in DOMAIN disk' /\ disk'[rows[i].path] = rows[i].shows
    BY <1>1 DEF RowShowsItsFile
  <2>1. Orderly(i) /\ rows[i].seq \notin Bad' /\ rows[i].path.seq \notin Bad'
    BY DEF Orderly, BadGrows
  <2>2. ~ Between(i)
    BY DEF Between, OthersWait
  <2>3. QED
    BY <2>1, <2>2 DEF ResourcesInv, RowShowsItsFile
<1>6. QED
  BY <1>1, <1>2, <1>3, <1>4, <1>5 DEF ResourcesInv, RequestsInv

(* Nothing that carries an id is touched by the agent.                       *)
LEMMA AgentStep ==
  ASSUME ResourcesInv, NEW q \in Seen, AgentWrites(q)
  PROVE  ResourcesInv'
<1>1. disk' = Write(disk, q, Text) /\ UNCHANGED <<open, rows, op, requests, history>>
  BY DEF AgentWrites
<1>2. Bad' = Bad /\ BadGrows
  BY <1>1 DEF Bad, BadGrows, history
<1>3. /\ DOMAIN disk' = DOMAIN disk \union {q} /\ disk'[q] = Text
      /\ \A p \in DOMAIN disk : p # q => disk'[p] = disk[p]
  BY <1>1 DEF Write
<1>4. q \in Files /\ q.seq = 0 /\ q.tag \notin Exts \union Names
  BY SeenFields DEF Seen
<1>5. Listed'
  <2>1. IsFiniteSet(DOMAIN disk')
    BY <1>3, FS_AddElement DEF ResourcesInv, Listed
  <2>2. \A p \in DOMAIN disk' : disk'[p] \in Nat
    BY <1>3 DEF ResourcesInv, Listed, ResourcesTypeOK, Text
  <2>3. QED
    BY <1>1, <1>2, <1>3, <1>4, <2>1, <2>2 DEF ResourcesInv, Listed, ResourcesTypeOK
<1>6. FilesFit'
  BY <1>3 DEF ResourcesInv, FilesFit
<1>7. \A u \in Ops : Stays(u)
  <2> TAKE u \in Ops
  <2>1. Creating(u) \/ Replacing(u) \/ Updating(u) => op[u].path # q
    BY <1>4 DEF Creating, Replacing, Updating
  <2>2. op'[u] = op[u]
    BY <1>1
  <2>3. OnDisk(u) /\ op[u].path # q => OnDisk(u)'
    BY <1>3, <2>2 DEF OnDisk
  <2>4. Moved(op[u].row, op[u].old, op[u].path) => Moved(op[u].row, op[u].old, op[u].path)'
    BY <1>1, <1>2, <1>3, <2>2 DEF Moved
  <2>5. QED
    BY <1>2, <2>1, <2>2, <2>3, <2>4 DEF Stays, Creating, Replacing, Updating, At
<1>8. UpdatesRace'
  BY <1>1, <1>2 DEF ResourcesInv, RequestsInv, UpdatesRace, At
<1>9. \A u \in Ops : Fits(u)'
  BY <1>1, <1>2, <1>7, StaysFit DEF ResourcesInv, RequestsInv, RequestsFit
<1>10. PICK o \in Ops : TRUE
  BY ResourcesAssumption
<1>11. OthersWait(o) /\ op'[o] = op[o] /\ (AtWork(o)' <=> AtWork(o))
  BY <1>1 DEF OthersWait, AtWork
<1>12. \A p : InHand(p) => Owned(p)'
  BY <1>1 DEF InHand, AtWork, Owned
<1>13. \A p \in DOMAIN disk' \ DOMAIN disk : Owned(p)'
  BY <1>3 DEF Owned
<1>14. \A i \in Live : rows[i].path \in DOMAIN disk /\ disk[rows[i].path] = rows[i].shows
         => rows[i].path \in DOMAIN disk' /\ disk'[rows[i].path] = rows[i].shows
  BY <1>3, <1>4 DEF ResourcesInv, RowsInv, KindsFit, Live
<1>15. QED
  BY <1>1, <1>2, <1>5, <1>6, <1>7, <1>8, <1>9, <1>11, <1>12, <1>13, <1>14, DiskStep DEF InHand

(* While the event loop is free no file is being created or replaced.        *)
LEMMA LoopIsFree ==
  ASSUME LoopFree, NEW u \in Ops
  PROVE  ~ At(u, "create", "written") /\ ~ At(u, "replace", "written")
  BY DEF LoopFree, AtWork, At

(* What a request at a place knows.                                          *)
LEMMA FitsOf ==
  ASSUME ResourcesInv, NEW u \in Ops
  PROVE  /\ Fits(u)
         /\ At(u, "create", "written") => Creating(u)
         /\ At(u, "update", "written") => Updating(u)
         /\ At(u, "upload", "slot") => Uploading(u)
         /\ op[u].kind = "replace" /\ op[u].pc # "unlink" => Replacing(u)
         /\ op[u].pc = "unlink" => op[u].kind \in {"delete", "replace"} /\ Unlinking(u)
<1>1. Fits(u)
  BY DEF ResourcesInv, RequestsInv, RequestsFit
<1>2. QED
  BY <1>1, IdleFields DEF Fits, At

(* A file that is written while the event loop is free.                      *)
LEMMA FreeWrite ==
  ASSUME ResourcesInv, LoopFree, NEW o \in Ops, NEW q \in Files, NEW c \in Nat,
         OthersWait(o), BadGrows, rows' = rows, open' = open, disk' = Write(disk, q, c),
         op' \in [Ops -> OpStates], requests' \in 0..MaxRequests, Bad' \subseteq Nat,
         \A u \in Ops : IsFiniteSet(op'[u].paths),
         q.tag \notin Exts => c = Text, Fits(o)',
         op[o].pc \notin {"written", "unlink"},
         ~ (op'[o].pc = "written" /\ op'[o].kind = "update"), Owned(q)',
         \A i \in Live : rows[i].kind # "image" /\ rows[i].seq \notin Bad' /\ rows[i].path = q =>
           q.seq \in Bad',
         \A i \in Live : rows[i].seq \notin Bad' /\ rows[i].path = q /\ q.seq \notin Bad' =>
           Between(i)' \/ rows[i].shows = c
  PROVE  ResourcesInv'
<1>1. /\ DOMAIN disk' = DOMAIN disk \union {q} /\ disk'[q] = c
      /\ \A p \in DOMAIN disk : p # q => disk'[p] = disk[p]
  BY DEF Write
<1>2. Listed'
  <2>1. IsFiniteSet(DOMAIN disk')
    BY <1>1, FS_AddElement DEF ResourcesInv, Listed
  <2>2. \A p \in DOMAIN disk' : p \in Files /\ disk'[p] \in Nat
    BY <1>1 DEF ResourcesInv, Listed, ResourcesTypeOK
  <2>3. QED
    BY <2>1, <2>2 DEF ResourcesInv, Listed, ResourcesTypeOK
<1>3. FilesFit'
  BY <1>1 DEF ResourcesInv, FilesFit
<1>4. UpdatesRace'
  BY UpdatesKept DEF ResourcesInv, RequestsInv
<1>5. \A u \in Ops \ {o} : Stays(u)
  <2> SUFFICES ASSUME NEW u \in Ops \ {o}, At(u, "update", "written"), Updating(u),
                      op[u].row \in Live, rows[op[u].row].seq \notin Bad'
               PROVE  Moved(op[u].row, op[u].old, op[u].path)'
    BY LoopIsFree DEF Stays
  <2> DEFINE i == op[u].row
  <2>1. rows[i].path = op[u].old /\ op[u].path \in DOMAIN disk /\ rows[i].kind # "image"
        /\ (op[u].old \in DOMAIN disk =>
              op[u].old = op[u].path \/ op[u].old \in Seen \/ op[u].old.seq \in Bad)
    BY DEF Updating, Moved, BadGrows
  <2>2. op[u].old = q => q.seq \in Bad'
    BY <2>1
  <2>3. op'[u] = op[u]
    BY DEF OthersWait
  <2>4. QED
    BY <1>1, <2>1, <2>2, <2>3 DEF Moved, BadGrows
<1>6. ~ AtWork(o) /\ op[o].pc # "written"
  BY DEF AtWork
<1>7. QED
  BY <1>1, <1>2, <1>3, <1>4, <1>5, <1>6, DiskStep

(* The file of a new text is of an id that no row has; an upload may hold    *)
(* that id, and is told by Clash.                                            *)
LEMMA BeginTextStep ==
  ASSUME ResourcesInv, NEW o \in Ops, NEW name \in Names, BeginText(o, name)
  PROVE  ResourcesInv'
<1>1. NextSeq \in Nat \ {0} /\ \A i \in DOMAIN rows : rows[i].seq < NextSeq /\ rows[i].seq \in Nat
  BY RowsTyped DEF ResourcesInv
<1>2. PICK p \in Files : p = File(NextSeq, name)
  BY <1>1, FileFields
<1>3. p.seq = NextSeq /\ p.tag \in Names /\ p.tag \notin Exts
  BY <1>1, <1>2, FileFields, ResourcesAssumption
<1> DEFINE rec == [Idle EXCEPT !.pc = "written", !.kind = "create", !.path = p]
<1>4. BeginRequest(o, rec) /\ disk' = Write(disk, p, Text) /\ LoopFree
      /\ UNCHANGED <<open, rows, history>>
  BY <1>2 DEF BeginText
<1>5. /\ rec \in OpStates /\ rec.pc = "written" /\ rec.kind = "create" /\ rec.path = p
      /\ rec.paths = {} /\ rec.shows = Text
  BY <1>2, IdleFields DEF Idle, OpStates
<1> HIDE DEF rec
<1>6. IsFiniteSet(rec.paths)
  BY <1>5, FS_EmptySet
<1>7. /\ op[o] = Idle /\ op'[o] = rec /\ OthersWait(o)
      /\ op' \in [Ops -> OpStates] /\ requests' \in 0..MaxRequests
      /\ \A u \in Ops : IsFiniteSet(op'[u].paths)
  BY <1>4, <1>5, <1>6, Begun DEF ResourcesInv
<1>8. Bad' = Bad /\ BadGrows /\ Bad' \subseteq Nat
  BY <1>4 DEF Bad, BadGrows, history, ResourcesInv, Listed, ResourcesTypeOK
<1>9. OnDisk(o)'
  BY <1>4, <1>5, <1>7 DEF OnDisk, Write
<1>10. Fits(o)'
  BY <1>1, <1>3, <1>5, <1>7, <1>9 DEF Fits, At, Creating
<1>11. Owned(p)'
  BY <1>5, <1>7 DEF Owned, InHand, AtWork
<1>12. p \notin Seen
  BY <1>1, <1>3, NotSeen
<1>13. \A i \in Live : rows[i].path = p => p.seq \in Bad
  <2> SUFFICES ASSUME NEW i \in DOMAIN rows, rows[i].path = p PROVE p.seq \in Bad
    BY DEF Live
  <2>1. rows[i].seq # p.seq
    BY <1>1, <1>3
  <2>2. QED
    BY <1>12, <2>1 DEF ResourcesInv, RowsInv, PathsAreOwn
<1>14. ~ (op'[o].pc = "written" /\ op'[o].kind = "update") /\ op[o].pc \notin {"written", "unlink"}
  BY <1>5, <1>7, IdleFields
<1>15. rows' = rows /\ open' = open /\ Text \in Nat
  BY <1>4 DEF Text
<1>16. QED
  BY <1>3, <1>4, <1>7, <1>8, <1>10, <1>11, <1>13, <1>14, <1>15, FreeWrite

(* The id of an upload is tested again when its bytes are stored.            *)
LEMMA StoreUploadStep ==
  ASSUME ResourcesInv, NEW o \in Ops, StoreUpload(o)
  PROVE  ResourcesInv'
<1>1. PICK p \in Files, c \in Nat : p = op[o].path /\ c = op[o].shows
  BY OpTyped DEF ResourcesInv
<1>2. /\ At(o, "upload", "slot") /\ LoopFree /\ disk' = Write(disk, p, c)
      /\ raced' = Clash(p.seq, DOMAIN disk)
      /\ spoiled' = IF open THEN spoiled ELSE spoiled \union {p.seq}
      /\ IF open THEN op' = [op EXCEPT ![o].pc = "written", ![o].kind = "create"]
         ELSE EndRequest(o)
      /\ UNCHANGED <<open, rows, requests, stray>>
  BY <1>1 DEF StoreUpload
<1>3. op[o] \in OpStates /\ p.seq \in Nat /\ IsFiniteSet(op[o].paths)
  BY OpTyped DEF ResourcesInv, Files
<1>4. p.seq # 0 /\ p.tag \in Exts
  BY <1>1, <1>2, FitsOf DEF Uploading
<1>5. raced \subseteq raced' /\ raced' \subseteq raced \union {p.seq}
      /\ (p.seq \in Seqs => p.seq \in raced')
  BY <1>2 DEF Clash
<1>6. BadGrows /\ Bad' \subseteq Nat /\ (p.seq \in Seqs => p.seq \in Bad')
      /\ (~ open => p.seq \in Bad')
  BY <1>2, <1>3, <1>5 DEF Bad, BadGrows, ResourcesInv, Listed, ResourcesTypeOK
<1>7. /\ OthersWait(o) /\ op' \in [Ops -> OpStates] /\ \A u \in Ops : IsFiniteSet(op'[u].paths)
      /\ ~ (op'[o].pc = "written" /\ op'[o].kind = "update") /\ Fits(o)' /\ Owned(p)'
  <2>1. CASE open
    <3> DEFINE rec == [op[o] EXCEPT !.pc = "written", !.kind = "create"]
    <3>1. /\ rec \in OpStates /\ rec.pc = "written" /\ rec.kind = "create"
          /\ rec.path = p /\ rec.shows = c /\ rec.paths = op[o].paths
      BY <1>1, <1>3 DEF OpStates
    <3>2. op' = [op EXCEPT ![o] = rec]
      BY <1>2, <2>1
    <3> HIDE DEF rec
    <3>3. op'[o] = rec /\ OthersWait(o) /\ op' \in [Ops -> OpStates]
          /\ \A u \in Ops : IsFiniteSet(op'[u].paths)
      BY <1>3, <3>1, <3>2 DEF OthersWait, ResourcesInv, Listed, ResourcesTypeOK
    <3>4. OnDisk(o)'
      BY <1>2, <3>1, <3>3 DEF OnDisk, Write
    <3>5. Fits(o)'
      BY <1>4, <3>1, <3>3, <3>4 DEF Fits, At, Creating
    <3>6. Owned(p)'
      BY <3>1, <3>3 DEF Owned, InHand, AtWork
    <3>7. QED
      BY <3>1, <3>3, <3>5, <3>6
  <2>2. CASE ~ open
    <3>1. EndRequest(o)
      BY <1>2, <2>2
    <3>2. op'[o] = Idle /\ OthersWait(o) /\ op' \in [Ops -> OpStates]
          /\ \A u \in Ops : IsFiniteSet(op'[u].paths)
      BY <3>1, Ended DEF ResourcesInv
    <3>3. Owned(p)'
      BY <1>6, <2>2 DEF Owned
    <3>4. QED
      BY <3>2, <3>3, IdleFields DEF Fits
  <2>3. QED
    BY <2>1, <2>2
<1>8. p \notin Seen
  BY <1>4, NotSeen
<1>9. \A i \in Live : rows[i].path = p => p.seq \in Bad'
  BY <1>6, <1>8 DEF Live, Seqs, ResourcesInv, RowsInv, PathsAreOwn, BadGrows
<1>10. op[o].pc \notin {"written", "unlink"} /\ rows' = rows /\ open' = open
       /\ requests' \in 0..MaxRequests
  BY <1>2 DEF At, ResourcesInv, Listed, ResourcesTypeOK
<1>11. QED
  BY <1>2, <1>4, <1>6, <1>7, <1>9, <1>10, FreeWrite

(* The picture overwrites no file but the row's own.                         *)
LEMMA StoreReplaceStep ==
  ASSUME ResourcesInv, NEW o \in Ops, StoreReplace(o)
  PROVE  ResourcesInv'
<1>1. PICK p \in Files, c \in Nat, i \in DOMAIN rows :
        p = op[o].path /\ c = op[o].shows /\ i = op[o].row
  <2>1. At(o, "replace", "slot")
    BY DEF StoreReplace
  <2>2. Replacing(o)
    BY <2>1, FitsOf DEF At
  <2>3. QED
    BY <2>2, OpTyped DEF ResourcesInv, Replacing
<1>2. /\ At(o, "replace", "slot") /\ LoopFree /\ disk' = Write(disk, p, c)
      /\ op' = [op EXCEPT ![o].pc = "written"]
      /\ UNCHANGED <<open, rows, requests, history>>
  BY <1>1 DEF StoreReplace
<1>3. op[o] \in OpStates /\ IsFiniteSet(op[o].paths)
  BY OpTyped DEF ResourcesInv
<1>4. Replacing(o) /\ op[o].kind = "replace"
  BY <1>2, FitsOf DEF At
<1>5. p.seq = rows[i].seq /\ p.tag \in Exts /\ rows[i].kind = "image" /\ p.seq # 0
  BY <1>1, <1>4, RowsTyped DEF Replacing, ResourcesInv
<1>6. Bad' = Bad /\ BadGrows /\ Bad' \subseteq Nat
  BY <1>2 DEF Bad, BadGrows, history, ResourcesInv, Listed, ResourcesTypeOK
<1> DEFINE rec == [op[o] EXCEPT !.pc = "written"]
<1>7. /\ rec \in OpStates /\ rec.pc = "written" /\ rec.kind = "replace" /\ rec.row = i
      /\ rec.path = p /\ rec.shows = c /\ rec.paths = op[o].paths
  BY <1>1, <1>3, <1>4 DEF OpStates
<1>8. op' = [op EXCEPT ![o] = rec]
  BY <1>2
<1> HIDE DEF rec
<1>9. op'[o] = rec /\ OthersWait(o) /\ op' \in [Ops -> OpStates]
      /\ \A u \in Ops : IsFiniteSet(op'[u].paths)
  BY <1>3, <1>7, <1>8 DEF OthersWait, ResourcesInv, Listed, ResourcesTypeOK
<1>10. OnDisk(o)'
  <2>1. op'[o].path = p /\ op'[o].shows = c
    BY <1>7, <1>9
  <2>2. p \in DOMAIN disk' /\ disk'[p] = c
    BY <1>2 DEF Write
  <2>3. QED
    BY <2>1, <2>2 DEF OnDisk
<1>11. rows' = rows /\ open' = open /\ requests' \in 0..MaxRequests
  BY <1>2 DEF ResourcesInv, Listed, ResourcesTypeOK
<1>12. Fits(o)'
  BY <1>5, <1>7, <1>9, <1>10, <1>11 DEF Fits, Replacing
<1>13. Owned(p)'
  BY <1>7, <1>9 DEF Owned, InHand, AtWork
<1>14. p \notin Seen
  BY <1>5, NotSeen
<1>15. \A k \in Live : rows[k].path = p /\ p.seq \notin Bad' => k = i
  <2> SUFFICES ASSUME NEW k \in DOMAIN rows, rows[k].path = p, p.seq \notin Bad, k # i
               PROVE  FALSE
    BY <1>6 DEF Live
  <2>1. rows[k].seq = p.seq
    BY <1>14 DEF ResourcesInv, RowsInv, PathsAreOwn
  <2>2. QED
    BY <1>5, <2>1 DEF ResourcesInv, RowsInv, SeqsDiffer
<1>16. Between(i)'
  BY <1>7, <1>9 DEF Between
<1>17. \A k \in Live : rows[k].kind # "image" => rows[k].path # p
  BY <1>5 DEF ResourcesInv, RowsInv, KindsFit, Live
<1>18. op[o].pc \notin {"written", "unlink"} /\ ~ (op'[o].pc = "written" /\ op'[o].kind = "update")
  BY <1>2, <1>7, <1>9 DEF At
<1>19. QED
  BY <1>2, <1>5, <1>6, <1>9, <1>11, <1>12, <1>13, <1>15, <1>16, <1>17, <1>18, FreeWrite

(* Two resources have one file only if an id went wrong.                     *)
LEMMA OnePath ==
  ASSUME RowsInv, NEW i \in Live, NEW j \in Live, i # j, rows[i].path = rows[j].path
  PROVE  rows[j].path.seq \in Bad
<1>1. i \in DOMAIN rows /\ j \in DOMAIN rows
  BY DEF Live
<1>2. rows[i].path \notin Seen
  BY <1>1 DEF Seen, RowsInv, OneSummary, KindsFit
<1>3. QED
  BY <1>1, <1>2 DEF RowsInv, PathsAreOwn, SeqsDiffer

(* An update moves the row's file; the row follows at its commit.            *)
LEMMA BeginUpdateStep ==
  ASSUME ResourcesInv, NEW o \in Ops, NEW i \in DOMAIN rows, NEW name \in Names,
         BeginUpdate(o, i, name)
  PROVE  ResourcesInv'
<1>1. PICK new \in Files, old \in Files, n \in Nat \ {0} :
        n = rows[i].seq /\ new = File(n, name) /\ old = rows[i].path /\ i \in Nat
  <2>1. rows[i].path \in Files /\ rows[i].seq \in Nat \ {0} /\ i \in Nat
    BY RowsTyped DEF ResourcesInv
  <2>2. File(rows[i].seq, name) \in Files
    BY <2>1, FileFields
  <2>3. QED
    BY <2>1, <2>2
<1>2. new.seq = n /\ new.tag = name /\ new.tag \notin Exts /\ new \notin Seen
  BY <1>1, FileFields, NotSeen, ResourcesAssumption
<1> DEFINE rec == [Idle EXCEPT !.pc = "written", !.kind = "update", !.row = i,
                               !.path = new, !.old = old]
<1>3. /\ BeginRequest(o, rec) /\ i \in Live /\ rows[i].kind # "image"
      /\ disk' = IF old = new THEN Write(disk, new, Text) ELSE Without(Write(disk, new, Text), old)
      /\ raced' = IF \E u \in Ops : At(u, "update", "written") /\ op[u].row = i
                  THEN raced \union {n} ELSE raced
      /\ UNCHANGED <<open, rows, spoiled, stray>>
  BY <1>1 DEF BeginUpdate
<1>4. /\ rec \in OpStates /\ rec.pc = "written" /\ rec.kind = "update" /\ rec.row = i
      /\ rec.path = new /\ rec.old = old /\ rec.paths = {}
  BY <1>1, IdleFields DEF Idle, OpStates
<1> HIDE DEF rec
<1>5. IsFiniteSet(rec.paths)
  BY <1>4, FS_EmptySet
<1>6. /\ op[o] = Idle /\ op'[o] = rec /\ OthersWait(o)
      /\ op' \in [Ops -> OpStates] /\ requests' \in 0..MaxRequests
      /\ \A u \in Ops : IsFiniteSet(op'[u].paths)
  BY <1>3, <1>4, <1>5, Begun DEF ResourcesInv
<1>7. BadGrows /\ Bad' \subseteq Nat
  BY <1>3 DEF Bad, BadGrows, ResourcesInv, Listed, ResourcesTypeOK
<1>8. \A u \in Ops : At(u, "update", "written") /\ op[u].row = i => n \in Bad'
  BY <1>3 DEF Bad
<1>9. /\ new \in DOMAIN disk' /\ disk'[new] = Text
      /\ \A p \in DOMAIN disk : p # old /\ p # new => p \in DOMAIN disk' /\ disk'[p] = disk[p]
      /\ \A p \in DOMAIN disk' : p = new \/ (p \in DOMAIN disk /\ p # old /\ disk'[p] = disk[p])
  <2>1. CASE old = new
    BY <1>3, <2>1 DEF Write
  <2>2. CASE old # new
    BY <1>3, <2>2 DEF Write, Without
  <2>3. QED
    BY <2>1, <2>2
<1>10. rows[i].seq = n /\ rows[i].path = old /\ old.tag \notin Exts
       /\ (old \in Seen \/ old.seq = n \/ old.seq \in Bad)
  BY <1>1, <1>3 DEF ResourcesInv, RowsInv, KindsFit, PathsAreOwn
<1>11. Listed'
  <2>1. IsFiniteSet(DOMAIN disk')
    <3>1. IsFiniteSet(DOMAIN disk \union {new})
      BY FS_AddElement DEF ResourcesInv, Listed
    <3>2. DOMAIN disk' \in SUBSET (DOMAIN disk \union {new})
      BY <1>9
    <3>3. QED
      BY <3>1, <3>2, FS_Subset
  <2>2. \A p \in DOMAIN disk' : p \in Files /\ disk'[p] \in Nat
    BY <1>9 DEF ResourcesInv, Listed, ResourcesTypeOK, Text
  <2>3. QED
    BY <1>3, <1>6, <1>7, <2>1, <2>2 DEF ResourcesInv, Listed, ResourcesTypeOK
<1>12. FilesFit'
  BY <1>9 DEF ResourcesInv, FilesFit
<1>13. Fits(o)'
  <2>1. Live' = Live
    BY <1>3 DEF Live
  <2>2. op'[o].row = i /\ op'[o].path = new /\ op'[o].old = old /\ At(o, "update", "written")'
    BY <1>4, <1>6 DEF At
  <2>3. Moved(i, old, new)'
    BY <1>3, <1>9, <1>10 DEF Moved
  <2>4. Updating(o)'
    BY <1>2, <1>3, <1>10, <2>2, <2>3 DEF Updating
  <2>5. QED
    BY <2>2, <2>4 DEF Fits
<1>14. UpdatesRace'
  <2> SUFFICES ASSUME NEW u \in Ops, NEW v \in Ops, At(u, "update", "written")',
                      At(v, "update", "written")', op'[u].row = op'[v].row, u # v
               PROVE  rows[op'[u].row].seq \in Bad'
    BY <1>3 DEF UpdatesRace
  <2>1. CASE u # o /\ v # o
    <3>1. op'[u] = op[u] /\ op'[v] = op[v]
      BY <1>6, <2>1 DEF OthersWait
    <3>2. QED
      BY <1>7, <3>1 DEF At, ResourcesInv, RequestsInv, UpdatesRace, BadGrows
  <2>2. CASE u = o
    <3>1. op'[v] = op[v] /\ op'[u].row = i
      BY <1>4, <1>6, <2>2 DEF OthersWait
    <3>2. QED
      BY <1>8, <1>10, <3>1 DEF At
  <2>3. CASE v = o
    <3>1. op'[u] = op[u] /\ op'[v].row = i
      BY <1>4, <1>6, <2>3 DEF OthersWait
    <3>2. QED
      BY <1>8, <1>10, <3>1 DEF At
  <2>4. QED
    BY <2>1, <2>2, <2>3
<1>15. \A u \in Ops \ {o} : Stays(u)
  <2> TAKE u \in Ops \ {o}
  <2>1. op'[u] = op[u]
    BY <1>6 DEF OthersWait
  <2>2. PICK q \in Files : q = op[u].path
    BY OpTyped DEF ResourcesInv
  <2>3. OnDisk(u) /\ q # old /\ q # new => OnDisk(u)'
    BY <1>9, <2>1, <2>2 DEF OnDisk
  <2>4. Creating(u) /\ q.seq \notin Bad' \union Seqs => OnDisk(u)'
    <3> HAVE Creating(u) /\ q.seq \notin Bad' \union Seqs
    <3>1. q.seq # 0 /\ OnDisk(u)
      BY <1>7, <2>2 DEF Creating, BadGrows
    <3>2. q \notin Seen
      BY <3>1, NotSeen
    <3>3. n \in Seqs
      BY <1>10 DEF Seqs
    <3>4. QED
      BY <1>2, <1>7, <1>10, <2>3, <3>1, <3>2, <3>3 DEF BadGrows
  <2>5. At(u, "replace", "written") /\ Replacing(u) /\ op[u].row \in Live
        /\ rows[op[u].row].seq \notin Bad' => OnDisk(u)'
    BY <1>2, <1>7, <1>10, <2>2, <2>3 DEF Replacing, At, BadGrows
  <2>6. ASSUME At(u, "update", "written"), Updating(u), op[u].row \in Live,
               rows[op[u].row].seq \notin Bad'
        PROVE  Moved(op[u].row, op[u].old, op[u].path)'
    <3>1. PICK k \in DOMAIN rows, was \in Files : k = op[u].row /\ was = op[u].old
      BY <2>6, OpTyped DEF Updating, ResourcesInv
    <3>2. /\ q.seq = rows[k].seq /\ q.tag \in Names /\ rows[k].path = was /\ q \in DOMAIN disk
          /\ rows[k].seq \notin Bad
          /\ was \in DOMAIN disk => was = q \/ was \in Seen \/ was.seq \in Bad
      BY <1>7, <2>2, <2>6, <3>1 DEF Updating, Moved, BadGrows
    <3>3. k # i
      BY <1>8, <1>10, <2>6, <3>1
    <3>4. rows[k].seq # n
      BY <1>10, <3>2, <3>3 DEF ResourcesInv, RowsInv, SeqsDiffer
    <3>5. q \notin Seen
      BY <3>2, NotSeen
    <3>6. q \in DOMAIN disk'
      BY <1>9, <1>10, <3>2, <3>4, <3>5
    <3>7. was = new => was.seq \in Bad
      BY <1>2, <3>2, <3>4 DEF ResourcesInv, RowsInv, PathsAreOwn
    <3>8. was \in DOMAIN disk' => was = q \/ was \in Seen \/ was.seq \in Bad
      BY <1>9, <3>2, <3>7
    <3>9. QED
      BY <1>3, <1>7, <2>1, <2>2, <3>1, <3>2, <3>6, <3>8 DEF Moved, BadGrows
  <2>7. QED
    BY <2>2, <2>4, <2>5, <2>6 DEF Stays
<1>16. \A p \in DOMAIN disk' \ DOMAIN disk : Owned(p)'
  <2>1. Owned(new)'
    BY <1>4, <1>6 DEF Owned, InHand, AtWork
  <2>2. QED
    BY <1>9, <2>1
<1>17. ASSUME NEW j \in Live, rows[j].seq \notin Bad', rows[j].path.seq \notin Bad', ~ Between(j)',
              rows[j].path \in DOMAIN disk, disk[rows[j].path] = rows[j].shows
       PROVE  rows[j].path \in DOMAIN disk' /\ disk'[rows[j].path] = rows[j].shows
  <2>1. Between(i)'
    BY <1>4, <1>6 DEF Between
  <2>2. rows[j].path # old
    BY <1>3, <1>7, <1>10, <1>17, <2>1, OnePath DEF ResourcesInv, BadGrows
  <2>3. rows[j].path = new => rows[j].shows = Text
    BY <1>2 DEF ResourcesInv, RowsInv, KindsFit, Live
  <2>4. QED
    BY <1>9, <1>17, <2>2, <2>3
<1>18. /\ op[o].pc # "written" /\ ~ AtWork(o) /\ rows' = rows
       /\ op'[o].kind \notin {"create", "replace"}
  BY <1>3, <1>4, <1>6, IdleFields DEF AtWork
<1>19. QED
  BY <1>6, <1>7, <1>11, <1>12, <1>13, <1>14, <1>15, <1>16, <1>17, <1>18, DiskStep

(* A file that is removed is that of no resource.                            *)
LEMMA UnlinkStep ==
  ASSUME ResourcesInv, NEW o \in Ops, UnlinkFile(o)
  PROVE  ResourcesInv'
<1>1. PICK p \in Files : p = op[o].path
  BY OpTyped DEF ResourcesInv
<1>2. /\ op[o].pc = "unlink" /\ disk' = Without(disk, p) /\ EndRequest(o)
      /\ UNCHANGED <<open, rows, requests, history>>
  BY <1>1 DEF UnlinkFile
<1>3. op'[o] = Idle /\ OthersWait(o) /\ op' \in [Ops -> OpStates]
      /\ \A u \in Ops : IsFiniteSet(op'[u].paths)
  BY <1>2, Ended DEF ResourcesInv
<1>4. Bad' = Bad /\ BadGrows /\ Bad' \subseteq Nat
  BY <1>2 DEF Bad, BadGrows, history, ResourcesInv, Listed, ResourcesTypeOK
<1>5. DOMAIN disk' = DOMAIN disk \ {p} /\ \A q \in DOMAIN disk : q # p => disk'[q] = disk[q]
  BY <1>2 DEF Without
<1>6. /\ \A i \in Live : rows[i].path = p => p.seq \in Bad
      /\ \/ p \in Seen \/ p.seq \in Bad
         \/ op[o].kind = "delete" /\ \E i \in Dead : rows[i].seq = p.seq
         \/ op[o].kind = "replace" /\ p.tag \in Exts /\ p.seq \in Seqs
  BY <1>1, <1>2, FitsOf DEF Unlinking
<1>7. Listed'
  <2>1. IsFiniteSet(DOMAIN disk')
    BY <1>5, FS_Subset DEF ResourcesInv, Listed
  <2>2. QED
    BY <1>2, <1>3, <1>4, <1>5, <2>1 DEF ResourcesInv, Listed, ResourcesTypeOK
<1>8. FilesFit'
  BY <1>5 DEF ResourcesInv, FilesFit
<1>9. \A k \in Live : rows[k].seq = p.seq /\ op[o].kind = "delete" => p.seq \in Bad \/ p \in Seen
  BY <1>6 DEF ResourcesInv, RowsInv, SeqsDiffer, Live, Dead
<1>10. \A u \in Ops \ {o} : Stays(u)
  <2> TAKE u \in Ops \ {o}
  <2>1. op'[u] = op[u]
    BY <1>3 DEF OthersWait
  <2>2. PICK q \in Files : q = op[u].path
    BY OpTyped DEF ResourcesInv
  <2>3. OnDisk(u) /\ q # p => OnDisk(u)'
    BY <1>5, <2>1, <2>2 DEF OnDisk
  <2>4. Creating(u) /\ q.seq \notin Bad' \union Seqs => OnDisk(u)'
    <3> HAVE Creating(u) /\ q.seq \notin Bad' \union Seqs
    <3>1. q.seq # 0 /\ OnDisk(u)
      BY <1>4, <2>2 DEF Creating
    <3>2. q \notin Seen
      BY <3>1, NotSeen
    <3>3. q # p
      BY <1>4, <1>6, <3>2 DEF Seqs, Dead
    <3>4. QED
      BY <2>3, <3>1, <3>3
  <2>5. At(u, "replace", "written") /\ Replacing(u) /\ op[u].row \in Live
        /\ rows[op[u].row].seq \notin Bad' => OnDisk(u)'
    <3> HAVE At(u, "replace", "written") /\ Replacing(u) /\ op[u].row \in Live
             /\ rows[op[u].row].seq \notin Bad'
    <3>1. q.seq = rows[op[u].row].seq /\ q.tag \in Exts /\ OnDisk(u)
      BY <1>4, <2>2 DEF Replacing, At
    <3>2. q \notin Seen
      BY <3>1, NotSeen
    <3>3. op[o].kind # "replace"
      BY <1>2 DEF ResourcesInv, RequestsInv, OneOnTheLoop, AtWork, At
    <3>4. q # p
      BY <1>4, <1>6, <1>9, <3>1, <3>2, <3>3
    <3>5. QED
      BY <2>3, <3>1, <3>4
  <2>6. ASSUME Updating(u), op[u].row \in Live, rows[op[u].row].seq \notin Bad'
        PROVE  Moved(op[u].row, op[u].old, op[u].path)'
    <3>1. q.seq = rows[op[u].row].seq /\ q.tag \in Names /\ q.tag \notin Exts
          /\ Moved(op[u].row, op[u].old, op[u].path)
      BY <1>4, <2>2, <2>6, ResourcesAssumption DEF Updating
    <3>2. q \notin Seen
      BY <3>1, NotSeen
    <3>3. q # p
      BY <1>4, <1>6, <1>9, <2>6, <3>1, <3>2
    <3>4. QED
      BY <1>2, <1>4, <1>5, <2>1, <2>2, <3>1, <3>3 DEF Moved
  <2>7. QED
    BY <2>2, <2>4, <2>5, <2>6 DEF Stays
<1>11. op[o].pc # "written" /\ ~ AtWork(o)' /\ rows' = rows /\ op'[o].pc # "written" /\ Fits(o)'
  BY <1>2, <1>3, IdleFields DEF AtWork, Fits
<1>12. UpdatesRace'
  BY <1>3, <1>4, <1>11, UpdatesKept DEF ResourcesInv, RequestsInv
<1>13. \A q \in DOMAIN disk' : op[o].path # q
  BY <1>1, <1>5
<1>14. \A q \in DOMAIN disk' : q \in DOMAIN disk
  BY <1>5
<1>15. \A i \in Live : /\ rows[i].path.seq \notin Bad'
                       /\ rows[i].path \in DOMAIN disk /\ disk[rows[i].path] = rows[i].shows
         => rows[i].path \in DOMAIN disk' /\ disk'[rows[i].path] = rows[i].shows
  BY <1>4, <1>5, <1>6
<1>16. QED
  BY <1>3, <1>4, <1>7, <1>8, <1>10, <1>11, <1>12, <1>13, <1>14, <1>15, DiskStep

-----------------------------------------------------------------------------
(* Steps on the rows.                                                        *)

\* row i is new, or says something else of its file
Changes(i) ==
  \/ i \notin DOMAIN rows
  \/ rows'[i].path # rows[i].path \/ rows'[i].shows # rows[i].shows

\* rows are added, deleted and changed; their ids and suffixes stay
RowsStay ==
  \A i \in DOMAIN rows :
    /\ i \in DOMAIN rows' /\ rows'[i].seq = rows[i].seq
    /\ rows'[i].live => rows[i].live
    /\ (rows'[i].kind = "image") <=> (rows[i].kind = "image")

LEMMA StayFacts ==
  ASSUME RowsStay
  PROVE  /\ Seqs \subseteq Seqs'
         /\ \A i \in Dead : i \in Dead' /\ rows'[i].seq = rows[i].seq
         /\ \A i \in DOMAIN rows : i \in Live' => i \in Live
  BY DEF RowsStay, Seqs, Dead, Live

(* A request that waits while the rows change.                               *)
LEMMA RowsFit ==
  ASSUME NEW u \in Ops, Fits(u), op'[u] = op[u], BadGrows, disk' = disk, RowsStay,
         At(u, "update", "written") /\ op[u].row \in Live
           /\ rows[op[u].row].seq \notin Bad' => rows'[op[u].row].path = rows[op[u].row].path,
         \A i \in Live' :
           op[u].pc = "unlink" /\ Changes(i) /\ rows'[i].path = op[u].path =>
             op[u].path.seq \in Bad'
  PROVE  Fits(u)'
<1>1. \A k, pc : At(u, k, pc)' <=> At(u, k, pc)
  BY DEF At
<1>2. OnDisk(u)' <=> OnDisk(u)
  BY DEF OnDisk
<1>3. Creating(u) => Creating(u)'
  BY <1>2, StayFacts DEF Creating, BadGrows
<1>4. Uploading(u) => Uploading(u)'
  BY DEF Uploading
<1>5. Replacing(u) => Replacing(u)'
  BY <1>2, StayFacts DEF Replacing, BadGrows, RowsStay
<1>6. At(u, "update", "written") /\ Updating(u) => Updating(u)'
  BY StayFacts DEF Updating, Moved, BadGrows, RowsStay
<1>7. op[u].pc = "unlink" /\ Unlinking(u) => Unlinking(u)'
  <2> HAVE op[u].pc = "unlink" /\ Unlinking(u)
  <2>1. ASSUME NEW i \in Live', rows'[i].path = op[u].path PROVE op[u].path.seq \in Bad'
    <3>1. CASE Changes(i)
      BY <2>1, <3>1
    <3>2. CASE ~ Changes(i)
      <4>1. i \in Live /\ rows[i].path = op[u].path
        BY <2>1, <3>2, StayFacts DEF Changes
      <4>2. QED
        BY <4>1 DEF Unlinking, BadGrows
    <3>3. QED
      BY <3>1, <3>2
  <2>2. \/ op[u].path \in Seen \/ op[u].path.seq \in Bad'
        \/ op[u].kind = "delete" /\ \E i \in Dead' : rows'[i].seq = op[u].path.seq
        \/ op[u].kind = "replace" /\ op[u].path.tag \in Exts /\ op[u].path.seq \in Seqs'
    BY StayFacts DEF Unlinking, BadGrows
  <2>3. QED
    BY <2>1, <2>2 DEF Unlinking
<1>8. QED
  BY <1>1, <1>3, <1>4, <1>5, <1>6, <1>7 DEF Fits

(* A step that changes rows and one request, and leaves the disk alone.      *)
LEMMA RowsStep ==
  ASSUME ResourcesInv, NEW o \in Ops, OthersWait(o), BadGrows, disk' = disk, RowsStay,
         Listed', RowsInv', Fits(o)',
         UpdatesRace',
         AtWork(o)' /\ op'[o].kind \in {"create", "replace"} =>
           AtWork(o) /\ op[o].kind \in {"create", "replace"},
         \A p \in DOMAIN disk : AtWork(o) /\ op[o].path = p => Owned(p)',
         \A i \in Live, p \in DOMAIN disk : i \in Live' /\ rows[i].path = p /\ rows'[i].path # p
           => Owned(p)',
         \A u \in Ops \ {o} : At(u, "update", "written") /\ op[u].row \in Live
           /\ rows[op[u].row].seq \notin Bad' => rows'[op[u].row].path = rows[op[u].row].path,
         \A u \in Ops \ {o}, i \in Live' :
           op[u].pc = "unlink" /\ Changes(i) /\ rows'[i].path = op[u].path =>
             op[u].path.seq \in Bad',
         \A i \in Live' :
           /\ Changes(i) \/ (op[o].pc = "written" /\ op[o].kind # "create" /\ op[o].row = i)
           /\ rows'[i].seq \notin Bad' /\ rows'[i].path.seq \notin Bad' /\ ~ Between(i)'
           => rows'[i].path \in DOMAIN disk /\ disk[rows'[i].path] = rows'[i].shows
  PROVE  ResourcesInv'
<1>1. FilesFit'
  BY DEF ResourcesInv, FilesFit
<1>2. FilesAreOwned'
  <2> SUFFICES ASSUME NEW p \in DOMAIN disk PROVE Owned(p)'
    BY DEF FilesAreOwned
  <2>1. Owned(p)
    BY DEF ResourcesInv, FilesAreOwned
  <2>2. CASE p \in Seen \/ p.seq \in Bad
    BY <2>2 DEF Owned, BadGrows
  <2>3. CASE \E i \in Dead : rows[i].seq = p.seq
    BY <2>3, StayFacts DEF Owned
  <2>4. CASE InHand(p)
    <3>1. InHand(p)' => Owned(p)'
      BY DEF Owned
    <3>2. QED
      BY <2>4, <3>1, InOtherHands
  <2>5. CASE p \in LivePaths /\ p \notin Seen /\ p.seq \notin Bad
    <3>1. PICK i \in Live : rows[i].path = p
      BY <2>5 DEF LivePaths
    <3>2. i \in DOMAIN rows
      BY DEF Live
    <3>3. CASE i \in Live' /\ rows'[i].path = p
      <4>1. p \in LivePaths'
        BY <3>3 DEF LivePaths
      <4>2. QED
        BY <4>1 DEF Owned
    <3>4. CASE i \in Live' /\ rows'[i].path # p
      BY <3>1, <3>4
    <3>5. CASE i \notin Live'
      <4>1. i \in Dead' /\ rows'[i].seq = p.seq
        BY <2>5, <3>1, <3>2, <3>5 DEF Dead, RowsStay, ResourcesInv, RowsInv, PathsAreOwn
      <4>2. QED
        BY <4>1 DEF Owned
    <3>6. QED
      BY <3>3, <3>4, <3>5
  <2>6. QED
    BY <2>1, <2>2, <2>3, <2>4, <2>5 DEF Owned
<1>3. RequestsFit'
  <2> SUFFICES ASSUME NEW u \in Ops, u # o PROVE Fits(u)'
    BY DEF RequestsFit
  <2>1. op'[u] = op[u] /\ Fits(u)
    BY DEF OthersWait, ResourcesInv, RequestsInv, RequestsFit
  <2>2. QED
    BY <2>1, RowsFit
<1>4. OneOnTheLoop'
  BY LoopKept DEF ResourcesInv, RequestsInv
<1>5. RowShowsItsFile'
  <2> SUFFICES ASSUME NEW i \in Live', Orderly(i)', ~ Between(i)'
               PROVE  rows'[i].path \in DOMAIN disk /\ disk[rows'[i].path] = rows'[i].shows
    BY DEF RowShowsItsFile
  <2>1. rows'[i].seq \notin Bad' /\ rows'[i].path.seq \notin Bad'
    BY DEF Orderly
  <2>2. CASE Changes(i) \/ (op[o].pc = "written" /\ op[o].kind # "create" /\ op[o].row = i)
    BY <2>1, <2>2
  <2>3. CASE ~ Changes(i) /\ ~ (op[o].pc = "written" /\ op[o].kind # "create" /\ op[o].row = i)
    <3>1. /\ i \in Live /\ rows'[i].path = rows[i].path /\ rows'[i].shows = rows[i].shows
          /\ rows'[i].seq = rows[i].seq
      BY <2>3, StayFacts DEF Changes, RowsStay
    <3>2. Orderly(i)
      BY <2>1, <3>1 DEF Orderly, BadGrows
    <3>3. ~ Between(i)
      BY <2>3 DEF Between, OthersWait
    <3>4. QED
      BY <3>1, <3>2, <3>3 DEF ResourcesInv, RowShowsItsFile
  <2>4. QED
    BY <2>2, <2>3
<1>6. QED
  BY <1>1, <1>2, <1>3, <1>4, <1>5 DEF ResourcesInv, RequestsInv

(* One more row, for the file p.                                             *)
LEMMA RowAdded ==
  ASSUME Listed, RowsInv, BadGrows, NEW n \in Nat \ {0}, NEW p \in Files, NEW c \in Nat,
         rows' = Append(rows, Row(n, p, c)),
         n \in Seqs => n \in Bad',
         p \in Seen \/ p.seq = n \/ p.seq \in Bad',
         p.tag \notin Exts => c = Text,
         p = Draft => Summaries = {},
         \A i \in Live : p = Notes => rows[i].path # Notes
  PROVE  /\ RowsInv' /\ RowsStay /\ rows' \in Seq(Rows) /\ Len(rows') = Len(rows) + 1
         /\ Len(rows) + 1 \in Live' /\ rows'[Len(rows) + 1].path = p
         /\ \A i \in Live' : Changes(i) => /\ rows'[i].path = p /\ rows'[i].shows = c
                                          /\ rows'[i].seq = n
         /\ \A i \in DOMAIN rows : rows'[i] = rows[i]
<1>1. PICK N \in Nat : N = Len(rows) + 1
  BY RowsTyped
<1>2. PICK r \in Rows : r = Row(n, p, c)
  BY RowFields
<1>3. /\ r.seq = n /\ r.kind = Kind(p) /\ r.path = p /\ r.shows = c /\ r.live = TRUE
  BY <1>2 DEF Row
<1>4. /\ rows \in Seq(Rows) /\ DOMAIN rows = 1..Len(rows) /\ Len(rows) \in Nat
      /\ rows' = Append(rows, r)
  BY <1>2, RowsTyped
<1>5. /\ rows' \in Seq(Rows) /\ Len(rows') = N /\ N \notin DOMAIN rows
      /\ DOMAIN rows' = DOMAIN rows \union {N} /\ rows'[N] = r
      /\ \A i \in DOMAIN rows : rows'[i] = rows[i]
  BY <1>1, <1>4
<1>6. Live' = Live \union {N} /\ N \notin Live
  BY <1>3, <1>5 DEF Live
<1>7. SeqsDiffer'
  <2>1. \A i \in DOMAIN rows : rows[i].seq = n => n \in Bad'
    BY DEF Seqs
  <2>2. QED
    BY <1>3, <1>5, <2>1 DEF RowsInv, SeqsDiffer, BadGrows
<1>8. PathsAreOwn'
  BY <1>3, <1>5 DEF RowsInv, PathsAreOwn, BadGrows
<1>9. KindsFit'
  BY <1>3, <1>5, KindOf DEF RowsInv, KindsFit
<1>10. OneSummary'
  <2>1. \A i \in Live : /\ ~ (rows[i].kind = "summary" /\ r.kind = "summary")
                        /\ ~ (rows[i].path = Notes /\ r.path = Notes)
    BY <1>3, KindOf DEF Summaries
  <2>2. \A i \in Live : rows'[i] = rows[i]
    BY <1>5 DEF Live
  <2> SUFFICES ASSUME NEW i \in Live', NEW j \in Live', i # j,
                      \/ rows'[i].kind = "summary" /\ rows'[j].kind = "summary"
                      \/ rows'[i].path = Notes /\ rows'[j].path = Notes
               PROVE  FALSE
    BY DEF OneSummary
  <2>3. CASE i = N
    BY <1>5, <1>6, <2>1, <2>2, <2>3
  <2>4. CASE j = N
    BY <1>5, <1>6, <2>1, <2>2, <2>4
  <2>5. CASE i # N /\ j # N
    BY <1>6, <2>2, <2>5 DEF RowsInv, OneSummary
  <2>6. QED
    BY <2>3, <2>4, <2>5
<1>11. \A i \in Live' : Changes(i) => i = N
  BY <1>5, <1>6 DEF Changes, Live
<1>12. RowsStay
  BY <1>5 DEF RowsStay
<1>13. QED
  BY <1>1, <1>3, <1>5, <1>6, <1>7, <1>8, <1>9, <1>10, <1>11, <1>12 DEF RowsInv

(* The row of a creation is of the file that is there.                       *)
LEMMA CreateStep ==
  ASSUME ResourcesInv, NEW o \in Ops, CreateResource(o)
  PROVE  ResourcesInv'
<1>1. At(o, "create", "written") /\ Creating(o)
  BY FitsOf DEF CreateResource
<1>2. PICK p \in Files, c \in Nat, n \in Nat \ {0} :
        p = op[o].path /\ c = op[o].shows /\ n = p.seq
  BY <1>1, OpTyped DEF ResourcesInv, Creating, Files
<1>3. /\ rows' = Append(rows, Row(n, p, c)) /\ Len(rows) < MaxRows /\ raced' = Clash(n, {})
      /\ EndRequest(o) /\ UNCHANGED <<open, disk, requests, spoiled, stray>>
  BY <1>2 DEF CreateResource
<1>4. op'[o] = Idle /\ OthersWait(o) /\ op' \in [Ops -> OpStates]
      /\ \A u \in Ops : IsFiniteSet(op'[u].paths)
  BY <1>3, Ended DEF ResourcesInv
<1>5. BadGrows /\ Bad' \subseteq Nat /\ (n \in Seqs => n \in Bad')
  BY <1>2, <1>3 DEF Bad, BadGrows, Clash, ResourcesInv, Listed, ResourcesTypeOK
<1>6. /\ p.seq = n /\ (p.tag \notin Exts => c = Text)
      /\ (n \notin Bad \union Seqs => p \in DOMAIN disk /\ disk[p] = c)
  BY <1>1, <1>2 DEF Creating, OnDisk
<1>7. p \notin Seen /\ p # Draft /\ p # Notes
  BY <1>2, NotSeen DEF Seen
<1>8. /\ RowsInv' /\ RowsStay /\ rows' \in Seq(Rows) /\ Len(rows') = Len(rows) + 1
      /\ Len(rows) + 1 \in Live' /\ rows'[Len(rows) + 1].path = p
      /\ \A i \in Live' : Changes(i) => /\ rows'[i].path = p /\ rows'[i].shows = c
                                       /\ rows'[i].seq = n
      /\ \A i \in DOMAIN rows : rows'[i] = rows[i]
  BY <1>3, <1>5, <1>6, <1>7, RowAdded DEF ResourcesInv
<1>9. Listed'
  BY <1>3, <1>4, <1>5, <1>8, RowsTyped, ResourcesAssumption
     DEF ResourcesInv, Listed, ResourcesTypeOK
<1>10. Fits(o)' /\ ~ AtWork(o)'
  BY <1>4, IdleFields DEF Fits, AtWork
<1>11. Owned(p)'
  BY <1>8 DEF Owned, LivePaths
<1>12. \A u \in Ops \ {o} : op[u].pc = "unlink" /\ p = op[u].path => p.seq \in Bad'
  <2> TAKE u \in Ops \ {o}
  <2> HAVE op[u].pc = "unlink" /\ p = op[u].path
  <2>1. Unlinking(u)
    BY FitsOf
  <2>2. p.seq \in Seqs \/ p.seq \in Bad
    BY <1>7, <2>1 DEF Unlinking, Seqs, Dead
  <2>3. QED
    BY <1>5, <1>6, <2>2 DEF BadGrows
<1>13. \A i \in Live' : Changes(i) /\ rows'[i].seq \notin Bad' =>
         rows'[i].path \in DOMAIN disk /\ disk[rows'[i].path] = rows'[i].shows
  BY <1>5, <1>6, <1>8 DEF BadGrows
<1>14. op[o].kind = "create"
  BY <1>1 DEF At
<1>15. \A i \in Live : rows'[i].path = rows[i].path
  BY <1>8 DEF Live
<1>16. UpdatesRace'
  BY <1>4, <1>5, <1>8, <1>10, UpdatesKept DEF ResourcesInv, RequestsInv, AtWork
<1>17. QED
  BY <1>2, <1>3, <1>4, <1>5, <1>8, <1>9, <1>10, <1>11, <1>12, <1>13, <1>14, <1>15, <1>16,
     RowsStep

(* One row that goes over to another file, or is deleted.                    *)
LEMMA RowChanged ==
  ASSUME Listed, RowsInv, BadGrows, NEW i \in DOMAIN rows, NEW r \in Rows,
         rows' = [rows EXCEPT ![i] = r],
         r.seq = rows[i].seq, r.live => rows[i].live, r.kind = rows[i].kind,
         r.path \in Seen \/ r.path.seq = r.seq \/ r.path.seq \in Bad',
         (r.path.tag \in Exts) <=> (r.kind = "image"),
         r.path = Draft => r.kind = "summary",
         r.path = Notes => rows[i].path = Notes,
         r.path.tag \notin Exts => r.shows = Text
  PROVE  /\ RowsInv' /\ RowsStay /\ rows' \in Seq(Rows) /\ Len(rows') = Len(rows)
         /\ rows'[i] = r /\ \A k \in DOMAIN rows \ {i} : rows'[k] = rows[k] /\ ~ Changes(k)
         /\ DOMAIN rows' = DOMAIN rows
<1>1. rows \in Seq(Rows) /\ DOMAIN rows = 1..Len(rows) /\ Len(rows) \in Nat
  BY RowsTyped
<1>2. /\ rows' \in Seq(Rows) /\ Len(rows') = Len(rows) /\ DOMAIN rows' = DOMAIN rows
      /\ rows'[i] = r /\ \A k \in DOMAIN rows \ {i} : rows'[k] = rows[k]
  BY <1>1
<1>3. RowsStay
  BY <1>2 DEF RowsStay
<1>4. SeqsDiffer'
  <2>1. \A k \in DOMAIN rows : rows'[k].seq = rows[k].seq
    BY <1>2
  <2>2. QED
    BY <1>2, <2>1 DEF RowsInv, SeqsDiffer, BadGrows
<1>5. PathsAreOwn'
  BY <1>2 DEF RowsInv, PathsAreOwn, BadGrows
<1>6. KindsFit'
  BY <1>2 DEF RowsInv, KindsFit
<1>7. OneSummary'
  <2>1. \A k \in Live' : k \in Live /\ rows'[k].kind = rows[k].kind
                         /\ (rows'[k].path = Notes => rows[k].path = Notes)
    BY <1>2 DEF Live
  <2>2. QED
    BY <2>1 DEF RowsInv, OneSummary
<1>8. \A k \in DOMAIN rows \ {i} : ~ Changes(k)
  BY <1>2 DEF Changes
<1>9. QED
  BY <1>2, <1>3, <1>4, <1>5, <1>6, <1>7, <1>8 DEF RowsInv

(* The row follows its file, unless another update was first.                *)
LEMMA UpdateStep ==
  ASSUME ResourcesInv, NEW o \in Ops, Update(o)
  PROVE  ResourcesInv'
<1>1. At(o, "update", "written") /\ Updating(o)
  BY FitsOf DEF Update
<1>2. PICK i \in DOMAIN rows, new \in Files, old \in Files :
        i = op[o].row /\ new = op[o].path /\ old = op[o].old
  BY <1>1, OpTyped DEF ResourcesInv, Updating
<1>3. /\ rows' = IF new = old THEN rows ELSE [rows EXCEPT ![i].path = new]
      /\ EndRequest(o) /\ UNCHANGED <<open, disk, requests, history>>
  BY <1>2 DEF Update
<1>4. op'[o] = Idle /\ OthersWait(o) /\ op' \in [Ops -> OpStates]
      /\ \A u \in Ops : IsFiniteSet(op'[u].paths)
  BY <1>3, Ended DEF ResourcesInv
<1>5. Bad' = Bad /\ BadGrows /\ Bad' \subseteq Nat
  BY <1>3 DEF Bad, BadGrows, history, ResourcesInv, Listed, ResourcesTypeOK
<1>6. /\ new.seq = rows[i].seq /\ new.tag \in Names /\ new.tag \notin Exts
      /\ rows[i].kind # "image"
      /\ i \in Live /\ rows[i].seq \notin Bad =>
           /\ rows[i].path = old /\ new \in DOMAIN disk
           /\ old \in DOMAIN disk => old = new \/ old \in Seen \/ old.seq \in Bad
  BY <1>1, <1>2, ResourcesAssumption DEF Updating, Moved
<1>7. new \notin Seen /\ new # Draft /\ new # Notes
  BY <1>6, NotSeen DEF Seen
<1>8. rows[i].path.tag \notin Exts /\ rows[i].shows = Text /\ rows[i] \in Rows
  BY <1>6, RowTyped DEF ResourcesInv, RowsInv, KindsFit, Listed, ResourcesTypeOK
<1>9. new \in DOMAIN disk => disk[new] = Text
  BY <1>6 DEF ResourcesInv, FilesFit
<1>10. Fits(o)' /\ ~ AtWork(o)' /\ op'[o].pc # "written"
  BY <1>4, IdleFields DEF Fits, AtWork
<1>11. CASE new = old
  <2>1. rows' = rows /\ disk' = disk
    BY <1>3, <1>11
  <2>2. Listed'
    BY <1>3, <1>4, <1>5, <2>1 DEF ResourcesInv, Listed, ResourcesTypeOK
  <2>3. Live' = Live /\ Dead' = Dead
    BY <2>1 DEF Live, Dead
  <2>4. Owned(new)'
    <3>1. CASE i \in Live /\ rows[i].seq \notin Bad
      BY <1>6, <1>11, <2>1, <2>3, <3>1 DEF Owned, LivePaths
    <3>2. CASE i \notin Live
      BY <1>6, <2>1, <2>3, <3>2 DEF Owned, Dead
    <3>3. CASE rows[i].seq \in Bad
      BY <1>5, <1>6, <3>3 DEF Owned
    <3>4. QED
      BY <3>1, <3>2, <3>3
  <2>5. i \in Live =>
          \/ rows[i].seq \in Bad'
          \/ rows[i].path \in DOMAIN disk /\ disk[rows[i].path] = rows[i].shows
    BY <1>5, <1>6, <1>8, <1>9, <1>11
  <2>6. QED
    BY <1>2, <1>4, <1>5, <1>10, <2>1, <2>2, <2>4, <2>5, OnlyRequests
<1>12. CASE new # old
  <2>1. PICK r \in Rows : r = [rows[i] EXCEPT !.path = new]
    BY <1>8 DEF Rows
  <2>2. /\ r.seq = rows[i].seq /\ r.live = rows[i].live /\ r.kind = rows[i].kind
        /\ r.path = new /\ r.shows = Text
    BY <1>8, <2>1 DEF Rows
  <2>3. rows' = [rows EXCEPT ![i] = r]
    BY <1>3, <1>12, <2>1
  <2>4. /\ RowsInv' /\ RowsStay /\ rows' \in Seq(Rows) /\ Len(rows') = Len(rows)
        /\ rows'[i] = r /\ \A k \in DOMAIN rows \ {i} : rows'[k] = rows[k] /\ ~ Changes(k)
        /\ DOMAIN rows' = DOMAIN rows
    BY <1>5, <1>6, <1>7, <2>2, <2>3, RowChanged DEF ResourcesInv
  <2>5. Listed'
    BY <1>3, <1>4, <1>5, <2>4 DEF ResourcesInv, Listed, ResourcesTypeOK
  <2>6. (i \in Live' <=> i \in Live) /\ (i \in Live' \/ i \in Dead')
    BY <2>2, <2>4 DEF Live, Dead
  <2>7. Owned(new)'
    <3>1. i \in Live' => new \in LivePaths'
      BY <2>2, <2>4 DEF LivePaths
    <3>2. QED
      BY <1>6, <2>2, <2>4, <2>6, <3>1 DEF Owned
  <2>8. \A k \in Live, p \in DOMAIN disk : k \in Live' /\ rows[k].path = p /\ rows'[k].path # p
          => Owned(p)'
    <3> TAKE k \in Live, p \in DOMAIN disk
    <3> HAVE k \in Live' /\ rows[k].path = p /\ rows'[k].path # p
    <3>1. k = i
      BY <2>4 DEF Live
    <3>2. p \in Seen \/ p.seq \in Bad
      BY <1>6, <1>12, <3>1 DEF ResourcesInv, RowsInv, PathsAreOwn
    <3>3. QED
      BY <1>5, <3>2 DEF Owned
  <2>9. \A u \in Ops \ {o} : At(u, "update", "written") /\ op[u].row \in Live
          /\ rows[op[u].row].seq \notin Bad' => rows'[op[u].row].path = rows[op[u].row].path
    <3> TAKE u \in Ops \ {o}
    <3> HAVE At(u, "update", "written") /\ op[u].row \in Live /\ rows[op[u].row].seq \notin Bad'
    <3>1. op[u].row # i
      BY <1>1, <1>2, <1>5 DEF ResourcesInv, RequestsInv, UpdatesRace
    <3>2. QED
      BY <2>4, <3>1 DEF Live
  <2>10. \A u \in Ops \ {o}, k \in Live' :
           op[u].pc = "unlink" /\ Changes(k) /\ rows'[k].path = op[u].path =>
             op[u].path.seq \in Bad'
    <3> TAKE u \in Ops \ {o}, k \in Live'
    <3> HAVE op[u].pc = "unlink" /\ Changes(k) /\ rows'[k].path = op[u].path
    <3>1. Unlinking(u)
      BY FitsOf
    <3>2. k = i /\ op[u].path = new /\ i \in Live
      BY <2>2, <2>4, <2>6 DEF Live
    <3>3. new.seq \in Bad \/ \E d \in Dead : rows[d].seq = new.seq
      BY <1>6, <1>7, <3>1, <3>2 DEF Unlinking
    <3>4. new.seq \in Bad
      BY <1>6, <3>2, <3>3 DEF ResourcesInv, RowsInv, SeqsDiffer, Dead, Live
    <3>5. QED
      BY <1>5, <3>2, <3>4
  <2>11. \A k \in Live' : (Changes(k) \/ k = i) /\ rows'[k].seq \notin Bad' =>
           rows'[k].path \in DOMAIN disk /\ disk[rows'[k].path] = rows'[k].shows
    <3> TAKE k \in Live'
    <3> HAVE (Changes(k) \/ k = i) /\ rows'[k].seq \notin Bad'
    <3>1. k = i
      BY <2>4 DEF Live
    <3>2. QED
      BY <1>5, <1>6, <1>9, <2>2, <2>4, <2>6, <3>1
  <2>12. UpdatesRace'
    BY <1>4, <1>5, <1>10, <2>4, UpdatesKept DEF ResourcesInv, RequestsInv, RowsStay
  <2>13. disk' = disk
    BY <1>3
  <2>14. QED
    BY <1>2, <1>4, <1>5, <1>10, <2>4, <2>5, <2>7, <2>8, <2>9, <2>10, <2>11, <2>12, <2>13,
       RowsStep
<1>13. QED
  BY <1>11, <1>12

(* The file of a deleted row is that row's alone, and may go.                *)
LEMMA DeleteStep ==
  ASSUME ResourcesInv, NEW o \in Ops, NEW i \in DOMAIN rows, DeleteResource(o, i)
  PROVE  ResourcesInv'
<1>1. PICK p \in Files : p = rows[i].path
  BY RowsTyped DEF ResourcesInv
<1> DEFINE rec == [Idle EXCEPT !.pc = "unlink", !.kind = "delete", !.path = p]
<1>2. /\ i \in Live /\ rows' = [rows EXCEPT ![i].live = FALSE] /\ BeginRequest(o, rec)
      /\ UNCHANGED <<open, disk, history>>
  BY <1>1 DEF DeleteResource
<1>3. /\ rec \in OpStates /\ rec.pc = "unlink" /\ rec.kind = "delete" /\ rec.path = p
      /\ rec.paths = {}
  BY IdleFields DEF Idle, OpStates
<1> HIDE DEF rec
<1>4. IsFiniteSet(rec.paths)
  BY <1>3, FS_EmptySet
<1>5. /\ op[o] = Idle /\ op'[o] = rec /\ OthersWait(o)
      /\ op' \in [Ops -> OpStates] /\ requests' \in 0..MaxRequests
      /\ \A u \in Ops : IsFiniteSet(op'[u].paths)
  BY <1>2, <1>3, <1>4, Begun DEF ResourcesInv
<1>6. Bad' = Bad /\ BadGrows /\ Bad' \subseteq Nat
  BY <1>2 DEF Bad, BadGrows, history, ResourcesInv, Listed, ResourcesTypeOK
<1>7. PICK r \in Rows : r = [rows[i] EXCEPT !.live = FALSE]
  <2>1. rows[i] \in Rows
    BY RowTyped DEF ResourcesInv, Listed, ResourcesTypeOK
  <2>2. QED
    BY <2>1 DEF Rows
<1>8. /\ r.seq = rows[i].seq /\ r.live = FALSE /\ r.kind = rows[i].kind
      /\ r.path = p /\ r.shows = rows[i].shows
  <2>1. rows[i] \in Rows
    BY RowTyped DEF ResourcesInv, Listed, ResourcesTypeOK
  <2>2. QED
    BY <1>1, <1>7, <2>1 DEF Rows
<1>9. rows' = [rows EXCEPT ![i] = r]
  BY <1>2, <1>7
<1>10. /\ p \in Seen \/ p.seq = r.seq \/ p.seq \in Bad
       /\ (p.tag \in Exts) <=> (r.kind = "image")
       /\ p = Draft => r.kind = "summary"
       /\ p.tag \notin Exts => r.shows = Text
  BY <1>1, <1>8 DEF ResourcesInv, RowsInv, PathsAreOwn, KindsFit
<1>11. /\ RowsInv' /\ RowsStay /\ rows' \in Seq(Rows) /\ Len(rows') = Len(rows)
       /\ rows'[i] = r /\ \A k \in DOMAIN rows \ {i} : rows'[k] = rows[k] /\ ~ Changes(k)
       /\ DOMAIN rows' = DOMAIN rows
  BY <1>1, <1>6, <1>8, <1>9, <1>10, RowChanged DEF ResourcesInv
<1>12. Listed'
  BY <1>2, <1>5, <1>6, <1>11 DEF ResourcesInv, Listed, ResourcesTypeOK
<1>13. i \notin Live' /\ i \in Dead' /\ \A k \in Live' : k \in Live /\ k # i /\ ~ Changes(k)
         /\ rows'[k].path = rows[k].path
  BY <1>8, <1>11 DEF Live, Dead
<1>14. Fits(o)'
  <2>1. \A k \in Live' : rows'[k].path = p => p.seq \in Bad'
    BY <1>1, <1>2, <1>6, <1>13, OnePath DEF ResourcesInv
  <2>2. op'[o].pc = "unlink" /\ op'[o].kind = "delete" /\ op'[o].path = p
    BY <1>3, <1>5
  <2>3. Unlinking(o)'
    BY <1>6, <1>8, <1>10, <1>11, <1>13, <2>1, <2>2 DEF Unlinking
  <2>4. QED
    BY <2>2, <2>3 DEF Fits
<1>15. op'[o].kind = "delete" /\ op'[o].pc = "unlink" /\ op[o].pc # "written" /\ ~ AtWork(o)
  BY <1>3, <1>5, IdleFields DEF AtWork
<1>16. UpdatesRace'
  BY <1>5, <1>6, <1>11, <1>15, UpdatesKept DEF ResourcesInv, RequestsInv, RowsStay
<1>17. \A u \in Ops \ {o} : At(u, "update", "written") /\ op[u].row \in Live
         /\ rows[op[u].row].seq \notin Bad' => rows'[op[u].row].path = rows[op[u].row].path
  BY <1>1, <1>8, <1>11 DEF Live
<1>18. disk' = disk
  BY <1>2
<1>19. QED
  BY <1>5, <1>6, <1>11, <1>12, <1>13, <1>14, <1>15, <1>16, <1>17, <1>18, RowsStep

(* The row shows the picture that was stored; its former file may go.        *)
LEMMA ReplaceStep ==
  ASSUME ResourcesInv, NEW o \in Ops, Replace(o)
  PROVE  ResourcesInv'
<1>1. At(o, "replace", "written") /\ Replacing(o) /\ op[o].pc = "written" /\ op[o].kind = "replace"
  BY FitsOf DEF Replace, At
<1>2. PICK i \in DOMAIN rows, new \in Files, old \in Files, c \in Nat :
        i = op[o].row /\ new = op[o].path /\ old = rows[i].path /\ c = op[o].shows
  BY <1>1, OpTyped, RowsTyped DEF ResourcesInv, Replacing
<1>3. /\ new.seq = rows[i].seq /\ new.tag \in Exts /\ rows[i].kind = "image"
      /\ i \in Live /\ rows[i].seq \notin Bad => new \in DOMAIN disk /\ disk[new] = c
  BY <1>1, <1>2 DEF Replacing, OnDisk
<1>4. new \notin Seen /\ new # Draft /\ new # Notes
  BY <1>3, NotSeen DEF Seen
<1>5. UNCHANGED <<open, disk, requests, raced, stray>>
  BY DEF Replace
<1>6. CASE ~ (open /\ i \in Live)
  <2>1. spoiled' = spoiled \union {rows[i].seq} /\ EndRequest(o) /\ rows' = rows
    BY <1>2, <1>6 DEF Replace
  <2>2. op'[o] = Idle /\ OthersWait(o) /\ op' \in [Ops -> OpStates]
        /\ \A u \in Ops : IsFiniteSet(op'[u].paths)
    BY <2>1, Ended DEF ResourcesInv
  <2>3. rows[i].seq \in Nat
    BY RowsTyped DEF ResourcesInv
  <2>4. BadGrows /\ Bad' \subseteq Nat /\ rows[i].seq \in Bad'
    BY <1>5, <2>1, <2>3 DEF Bad, BadGrows, ResourcesInv, Listed, ResourcesTypeOK
  <2>5. Listed'
    BY <1>5, <2>1, <2>2, <2>4 DEF ResourcesInv, Listed, ResourcesTypeOK
  <2>6. Fits(o)' /\ ~ AtWork(o)' /\ op'[o].pc # "written"
    BY <2>2, IdleFields DEF Fits, AtWork
  <2>7. Owned(new)'
    BY <1>3, <2>4 DEF Owned
  <2>8. QED
    BY <1>2, <1>5, <2>1, <2>2, <2>4, <2>5, <2>6, <2>7, OnlyRequests
<1>7. CASE open /\ i \in Live
  <2> DEFINE rec == IF old = new THEN Idle
                    ELSE [Idle EXCEPT !.pc = "unlink", !.kind = "replace", !.path = old]
  <2>1. /\ rows' = [rows EXCEPT ![i].path = new, ![i].shows = c]
        /\ op' = [op EXCEPT ![o] = rec] /\ spoiled' = spoiled
    BY <1>2, <1>7 DEF Replace
  <2>2. /\ rec \in OpStates /\ rec.paths = {} /\ rec.pc # "written"
        /\ rec = Idle \/ (rec.pc = "unlink" /\ rec.kind = "replace" /\ rec.path = old /\ old # new)
        /\ old # new => rec.pc = "unlink" /\ rec.path = old
    BY IdleFields DEF Idle, OpStates
  <2> HIDE DEF rec
  <2>3. op'[o] = rec /\ OthersWait(o) /\ op' \in [Ops -> OpStates]
        /\ \A u \in Ops : IsFiniteSet(op'[u].paths)
    BY <2>1, <2>2, FS_EmptySet DEF OthersWait, ResourcesInv, Listed, ResourcesTypeOK
  <2>4. Bad' = Bad /\ BadGrows /\ Bad' \subseteq Nat
    BY <1>5, <2>1 DEF Bad, BadGrows, ResourcesInv, Listed, ResourcesTypeOK
  <2>5. rows[i] \in Rows
    BY RowTyped DEF ResourcesInv, Listed, ResourcesTypeOK
  <2>6. PICK r \in Rows : r = [rows[i] EXCEPT !.path = new, !.shows = c]
    BY <2>5 DEF Rows
  <2>7. /\ r.seq = rows[i].seq /\ r.live = rows[i].live /\ r.kind = rows[i].kind
        /\ r.path = new /\ r.shows = c
    BY <2>5, <2>6 DEF Rows
  <2>8. rows' = [rows EXCEPT ![i] = r]
    BY <2>1, <2>6
  <2>9. /\ RowsInv' /\ RowsStay /\ rows' \in Seq(Rows) /\ Len(rows') = Len(rows)
        /\ rows'[i] = r /\ \A k \in DOMAIN rows \ {i} : rows'[k] = rows[k] /\ ~ Changes(k)
        /\ DOMAIN rows' = DOMAIN rows
    BY <1>3, <1>4, <2>4, <2>7, <2>8, RowChanged DEF ResourcesInv
  <2>10. Listed'
    BY <1>5, <2>3, <2>4, <2>9 DEF ResourcesInv, Listed, ResourcesTypeOK
  <2>11. /\ old.tag \in Exts /\ old \notin Seen
         /\ old.seq = rows[i].seq \/ old.seq \in Bad
    <3>1. old.tag \in Exts
      BY <1>2, <1>3 DEF ResourcesInv, RowsInv, KindsFit
    <3>2. old \notin Seen
      BY <3>1, NotSeen
    <3>3. QED
      BY <1>2, <3>1, <3>2 DEF ResourcesInv, RowsInv, PathsAreOwn
  <2>12. i \in Live' /\ \A k \in Live' : k \in Live /\ (k # i => rows'[k].path = rows[k].path)
    BY <1>7, <2>7, <2>9 DEF Live
  <2>13. Fits(o)'
    <3>1. CASE old = new
      BY <2>2, <2>3, <3>1 DEF Fits
    <3>2. CASE old # new
      <4>1. \A k \in Live' : rows'[k].path = old => old.seq \in Bad'
        BY <1>2, <1>7, <2>4, <2>7, <2>9, <2>12, <3>2, OnePath DEF ResourcesInv
      <4>2. op'[o].pc = "unlink" /\ op'[o].kind = "replace" /\ op'[o].path = old
        BY <2>2, <2>3, <3>2, IdleFields
      <4>3. rows[i].seq \in Seqs'
        BY <2>7, <2>9 DEF Seqs
      <4>4. Unlinking(o)'
        BY <2>4, <2>11, <4>1, <4>2, <4>3 DEF Unlinking
      <4>5. QED
        BY <4>2, <4>4 DEF Fits
    <3>3. QED
      BY <3>1, <3>2
  <2>14. Owned(new)'
    BY <2>7, <2>9, <2>12 DEF Owned, LivePaths
  <2>15. old # new => Owned(old)'
    BY <2>2, <2>3 DEF Owned, InHand, AtWork
  <2>16. \A k \in Live, p \in DOMAIN disk : k \in Live' /\ rows[k].path = p /\ rows'[k].path # p
           => Owned(p)'
    BY <1>2, <2>7, <2>9, <2>12, <2>15
  <2>17. \A u \in Ops \ {o} : At(u, "update", "written") /\ op[u].row \in Live
           /\ rows[op[u].row].seq \notin Bad' => rows'[op[u].row].path = rows[op[u].row].path
    BY <1>3, <2>9, FitsOf DEF Updating, Live
  <2>18. \A u \in Ops \ {o}, k \in Live' :
           op[u].pc = "unlink" /\ Changes(k) /\ rows'[k].path = op[u].path =>
             op[u].path.seq \in Bad'
    <3> TAKE u \in Ops \ {o}, k \in Live'
    <3> HAVE op[u].pc = "unlink" /\ Changes(k) /\ rows'[k].path = op[u].path
    <3>1. op[u].kind \in {"delete", "replace"} /\ Unlinking(u)
      BY FitsOf
    <3>2. k = i /\ op[u].path = new
      BY <2>7, <2>9, <2>12 DEF Live
    <3>3. op[u].kind # "replace"
      BY <1>1 DEF ResourcesInv, RequestsInv, OneOnTheLoop, AtWork
    <3>4. new.seq \in Bad \/ \E d \in Dead : rows[d].seq = new.seq
      BY <1>4, <3>1, <3>2, <3>3 DEF Unlinking
    <3>5. new.seq \in Bad
      BY <1>3, <1>7, <3>4 DEF ResourcesInv, RowsInv, SeqsDiffer, Dead, Live
    <3>6. QED
      BY <2>4, <3>2, <3>5
  <2>19. \A k \in Live' : (Changes(k) \/ k = i) /\ rows'[k].seq \notin Bad' =>
           rows'[k].path \in DOMAIN disk /\ disk[rows'[k].path] = rows'[k].shows
    <3> TAKE k \in Live'
    <3> HAVE (Changes(k) \/ k = i) /\ rows'[k].seq \notin Bad'
    <3>1. k = i
      BY <2>9, <2>12 DEF Live
    <3>2. QED
      BY <1>3, <1>7, <2>4, <2>7, <2>9, <3>1
  <2>20. op'[o].pc # "written" /\ disk' = disk /\ AtWork(o)
    BY <1>1, <1>5, <2>2, <2>3 DEF AtWork
  <2>21. UpdatesRace'
    BY <2>3, <2>4, <2>9, <2>20, UpdatesKept DEF ResourcesInv, RequestsInv, RowsStay
  <2>22. QED
    BY <1>1, <1>2, <2>3, <2>4, <2>9, <2>10, <2>13, <2>14, <2>16, <2>17, <2>18, <2>19, <2>20,
       <2>21, RowsStep
<1>8. QED
  BY <1>6, <1>7

-----------------------------------------------------------------------------
(* Synchronisation.                                                          *)

(* Of the summaries there is one.                                            *)
LEMMA NewestSummary ==
  ASSUME ResourcesInv
  PROVE  /\ Newest(Summaries) = Summaries
         /\ RowsOf(Draft) \subseteq Summaries /\ Newest(RowsOf(Draft)) = RowsOf(Draft)
<1>1. Summaries \subseteq Nat /\ \A i, j \in Summaries : i = j
  BY RowsTyped DEF ResourcesInv, RowsInv, OneSummary, Summaries, Live
<1>2. RowsOf(Draft) \subseteq Summaries
  BY DEF RowsOf, Summaries, ResourcesInv, RowsInv, KindsFit, Live
<1>3. ASSUME NEW I \in SUBSET Summaries PROVE Newest(I) = I
  <2>1. \A i \in I : i \in Nat /\ \A k \in I : k = i
    BY <1>1
  <2>2. \A i \in I : \A k \in I : k <= i
    BY <2>1
  <2>3. QED
    BY <2>2 DEF Newest
<1>4. QED
  BY <1>2, <1>3

(* What a synchronisation does to the rows is in order if the rows of files  *)
(* it took that carry an id are marked, and those that lose their file are.  *)
LEMMA SyncedRows ==
  ASSUME ResourcesInv, NEW o \in Ops, OthersWait(o), BadGrows, disk' = disk, RowsStay,
         Listed', RowsInv', Fits(o)', UpdatesRace',
         op'[o] = op[o] \/ (op'[o] = Idle /\ op[o].pc = "scanned"),
         \A i \in Live : rows'[i].path # rows[i].path => rows[i].seq \in Bad',
         \A i \in Live' : Changes(i) /\ rows'[i].path.seq \notin Bad' =>
           /\ ~ InHand(rows'[i].path)
           /\ rows'[i].seq \notin Bad' =>
                rows'[i].path \in DOMAIN disk /\ disk[rows'[i].path] = rows'[i].shows
  PROVE  ResourcesInv'
<1>1. /\ AtWork(o)' => AtWork(o) /\ op'[o] = op[o]
      /\ op[o].pc = "written" => op'[o] = op[o]
  BY IdleFields DEF AtWork
<1>2. \A p : AtWork(o) /\ op[o].path = p => Owned(p)'
  BY IdleFields DEF Owned, InHand, AtWork
<1>3. \A i \in Live, p \in DOMAIN disk : i \in Live' /\ rows[i].path = p /\ rows'[i].path # p
        => Owned(p)'
  <2> TAKE i \in Live, p \in DOMAIN disk
  <2> HAVE i \in Live' /\ rows[i].path = p /\ rows'[i].path # p
  <2>1. p \in Seen \/ p.seq \in Bad'
    BY DEF Live, ResourcesInv, RowsInv, PathsAreOwn, BadGrows
  <2>2. QED
    BY <2>1 DEF Owned
<1>4. \A u \in Ops \ {o}, i \in Live' :
        op[u].pc = "unlink" /\ Changes(i) /\ rows'[i].path = op[u].path => op[u].path.seq \in Bad'
  BY DEF InHand, AtWork
<1>5. \A i \in Live' :
        /\ Changes(i) \/ (op[o].pc = "written" /\ op[o].kind # "create" /\ op[o].row = i)
        /\ rows'[i].seq \notin Bad' /\ rows'[i].path.seq \notin Bad' /\ ~ Between(i)'
        => rows'[i].path \in DOMAIN disk /\ disk[rows'[i].path] = rows'[i].shows
  BY <1>1 DEF Between
<1>6. QED
  BY <1>1, <1>2, <1>3, <1>4, <1>5, RowsStep

(* The draft summary becomes the file of the only summary.                   *)
LEMMA SyncDraftStep ==
  ASSUME ResourcesInv, SyncDraft
  PROVE  ResourcesInv'
<1>1. /\ LoopFree /\ Draft \in DOMAIN disk /\ Repointed
      /\ raced' = IF InHand(Draft) THEN raced \union {Draft.seq} ELSE raced
      /\ UNCHANGED <<open, disk, op, requests, spoiled>>
  BY DEF SyncDraft
<1>2. disk[Draft] = Text /\ Draft \in Files /\ Draft.seq = 0 /\ Draft \in Seen /\ Draft # Notes
      /\ Draft.tag \notin Exts
  BY <1>1, SeenFields DEF ResourcesInv, FilesFit, Seen
<1>3. \A i \in Live : rows[i].seq \in Nat
  BY RowsTyped DEF ResourcesInv, Live
<1>4. BadGrows /\ Bad' \subseteq Nat /\ (InHand(Draft) => Draft.seq \in Bad')
      /\ \A i \in Live : rows'[i].path # rows[i].path => rows[i].seq \in Bad'
  BY <1>1, <1>2, <1>3 DEF Bad, BadGrows, Repointed, ResourcesInv, Listed, ResourcesTypeOK
<1>5. /\ RowsInv' /\ RowsStay /\ rows' \in Seq(Rows) /\ Len(rows') <= MaxRows
      /\ \A i \in Live' : Changes(i) => rows'[i].path = Draft /\ rows'[i].shows = Text
  <2>1. CASE /\ Summaries = {} /\ Len(rows) < MaxRows
             /\ rows' = Append(rows, Row(NextSeq, Draft, Text))
    <3>1. PICK n \in Nat \ {0} : n = NextSeq /\ n \notin Seqs
      BY RowsTyped DEF ResourcesInv, Seqs
    <3>2. PICK p \in Files, c \in Nat : p = Draft /\ c = Text
      BY <1>2 DEF Text
    <3>3. rows' = Append(rows, Row(n, p, c))
      BY <2>1, <3>1, <3>2
    <3>4. /\ RowsInv' /\ RowsStay /\ rows' \in Seq(Rows) /\ Len(rows') = Len(rows) + 1
          /\ \A i \in Live' : Changes(i) => rows'[i].path = p /\ rows'[i].shows = c
      <4>1. n \notin Seqs /\ p \in Seen /\ c = Text /\ p # Notes /\ Summaries = {}
        BY <1>2, <2>1, <3>1, <3>2
      <4>2. Listed /\ RowsInv /\ BadGrows
        BY <1>4 DEF ResourcesInv
      <4>3. QED
        BY <3>3, <4>1, <4>2, RowAdded
    <3>5. Len(rows) + 1 <= MaxRows
      BY <2>1, RowsTyped, ResourcesAssumption DEF ResourcesInv
    <3>6. QED
      BY <3>2, <3>4, <3>5
  <2>2. CASE rows' = rows
    <3>1. RowsInv'
      BY <1>4, <2>2, RowsKept DEF ResourcesInv
    <3>2. QED
      BY <2>2, <3>1 DEF RowsStay, Changes, Live, ResourcesInv, Listed, ResourcesTypeOK
  <2>3. ASSUME NEW i \in Newest(Summaries), rows' = [rows EXCEPT ![i].path = Draft]
        PROVE  /\ RowsInv' /\ RowsStay /\ rows' \in Seq(Rows) /\ Len(rows') <= MaxRows
               /\ \A k \in Live' : Changes(k) => rows'[k].path = Draft /\ rows'[k].shows = Text
    <3>1. i \in DOMAIN rows /\ rows[i].kind = "summary" /\ i \in Live
      BY <2>3 DEF Newest, Summaries, Live
    <3>2. rows[i] \in Rows /\ rows[i].shows = Text
      BY <3>1, RowTyped DEF ResourcesInv, RowsInv, KindsFit, Listed, ResourcesTypeOK
    <3>3. PICK r \in Rows : r = [rows[i] EXCEPT !.path = Draft]
      BY <1>2, <3>2 DEF Rows
    <3>4. /\ r.seq = rows[i].seq /\ r.live = rows[i].live /\ r.kind = "summary"
          /\ r.path = Draft /\ r.shows = Text
      BY <3>1, <3>2, <3>3 DEF Rows
    <3>5. rows' = [rows EXCEPT ![i] = r]
      BY <2>3, <3>3
    <3>6. /\ RowsInv' /\ RowsStay /\ rows' \in Seq(Rows) /\ Len(rows') = Len(rows)
          /\ rows'[i] = r /\ \A k \in DOMAIN rows \ {i} : rows'[k] = rows[k] /\ ~ Changes(k)
          /\ DOMAIN rows' = DOMAIN rows
      BY <1>2, <1>4, <3>1, <3>4, <3>5, RowChanged DEF ResourcesInv
    <3>7. QED
      BY <3>4, <3>6 DEF Live, ResourcesInv, Listed, ResourcesTypeOK
  <2>4. QED
    BY <2>1, <2>2, <2>3 DEF SyncDraft
<1>6. Listed'
  BY <1>1, <1>4, <1>5 DEF ResourcesInv, Listed, ResourcesTypeOK
<1>7. PICK o \in Ops : TRUE
  BY ResourcesAssumption
<1>8. OthersWait(o) /\ op'[o] = op[o] /\ disk' = disk
  BY <1>1 DEF OthersWait
<1>9. UpdatesRace'
  <2>1. \A u \in Ops : At(u, "update", "written") => op[u].row \in DOMAIN rows
    BY FitsOf DEF Updating
  <2>2. op' = op
    BY <1>1
  <2>3. QED
    BY <1>4, <1>5, <2>1, <2>2 DEF ResourcesInv, RequestsInv, UpdatesRace, At, RowsStay, BadGrows
<1>10. \A i \in Live' : Changes(i) /\ rows'[i].path.seq \notin Bad' =>
         /\ ~ InHand(rows'[i].path)
         /\ rows'[i].path \in DOMAIN disk /\ disk[rows'[i].path] = rows'[i].shows
  BY <1>1, <1>2, <1>4, <1>5
<1>11. Fits(o)'
  <2>1. Fits(o)
    BY FitsOf
  <2>2. At(o, "update", "written") /\ op[o].row \in Live /\ rows[op[o].row].seq \notin Bad'
          => rows'[op[o].row].path = rows[op[o].row].path
    BY <1>4
  <2>3. \A i \in Live' :
          op[o].pc = "unlink" /\ Changes(i) /\ rows'[i].path = op[o].path => op[o].path.seq \in Bad'
    BY <1>10 DEF InHand, AtWork
  <2>4. QED
    BY <1>4, <1>5, <1>8, <2>1, <2>2, <2>3, RowsFit
<1>12. QED
  BY <1>4, <1>5, <1>6, <1>8, <1>9, <1>10, <1>11, SyncedRows

(* What going through the files S does to the row i.                         *)
LEMMA SyncedFacts ==
  ASSUME ResourcesInv, NEW S \in SUBSET Files, NEW i \in DOMAIN rows
  PROVE  /\ Synced(i, S) \in Rows
         /\ Synced(i, S).seq = rows[i].seq /\ Synced(i, S).live = rows[i].live
         /\ Synced(i, S).shows = rows[i].shows
         /\ \/ i \notin DraftRow(S) /\ Synced(i, S).path = rows[i].path
               /\ (Synced(i, S).kind = rows[i].kind \/ Synced(i, S).kind = Kind(rows[i].path))
            \/ i \in DraftRow(S) /\ Synced(i, S).path = Draft /\ Synced(i, S).kind = "summary"
<1>1. rows[i] \in Rows /\ rows[i].path \in Files
  BY RowTyped DEF ResourcesInv, Listed, ResourcesTypeOK
<1>2. Kind(rows[i].path) \in {"text", "image", "summary"}
  BY DEF Kind
<1>3. CASE i \in DraftRow(S)
  <2>1. Synced(i, S) = [rows[i] EXCEPT !.path = Draft, !.kind = "summary"]
    BY <1>3 DEF Synced
  <2>2. QED
    BY <1>1, <1>3, <2>1, SeenFields DEF Rows
<1>4. CASE i \notin DraftRow(S)
  <2>1. Synced(i, S) = rows[i] \/ Synced(i, S) = [rows[i] EXCEPT !.kind = Kind(rows[i].path)]
    BY <1>4 DEF Synced
  <2>2. CASE Synced(i, S) = rows[i]
    BY <1>1, <1>4, <2>2 DEF Rows
  <2>3. CASE Synced(i, S) = [rows[i] EXCEPT !.kind = Kind(rows[i].path)]
    BY <1>1, <1>2, <1>4, <2>3 DEF Rows
  <2>4. QED
    BY <2>1, <2>2, <2>3
<1>5. QED
  BY <1>3, <1>4

(* The row that becomes the draft's is a summary; without one there is none. *)
LEMMA DraftRowFacts ==
  ASSUME ResourcesInv, NEW S
  PROVE  /\ DraftRow(S) \subseteq Summaries
         /\ Draft \in S /\ DraftRow(S) = {} => Summaries = {}
  BY NewestSummary DEF DraftRow

(* Going through the files changes no kind against its suffix.               *)
LEMMA KindKept ==
  ASSUME ResourcesInv, NEW S \in SUBSET Files, NEW i \in DOMAIN rows
  PROVE  /\ (Synced(i, S).kind = "image") <=> (rows[i].kind = "image")
         /\ Synced(i, S).kind = "summary" => rows[i].kind = "summary"
         /\ Synced(i, S).path = Notes =>
              rows[i].path = Notes /\ Synced(i, S).kind = "text"
         /\ Synced(i, S).path = Draft => Synced(i, S).kind = "summary"
         /\ (Synced(i, S).kind = "image") <=> (Synced(i, S).path.tag \in Exts)
         /\ Synced(i, S).path.tag \notin Exts => Synced(i, S).shows = Text
<1>1. rows[i].path \in Files
  BY RowsTyped DEF ResourcesInv
<1>2. /\ (rows[i].kind = "image") <=> (rows[i].path.tag \in Exts)
      /\ rows[i].path = Draft => rows[i].kind = "summary"
      /\ rows[i].path = Notes => rows[i].kind = "text"
      /\ rows[i].path.tag \notin Exts => rows[i].shows = Text
  BY DEF ResourcesInv, RowsInv, KindsFit
<1>3. i \in DraftRow(S) => rows[i].kind = "summary"
  BY DraftRowFacts DEF Summaries
<1>4. QED
  BY <1>1, <1>2, <1>3, KindOf, SyncedFacts, SeenFields

\* f goes through the new files of S
Enumerates(f, S) ==
  /\ f \in [1..Cardinality(New(S)) -> New(S)]
  /\ \A j, k \in DOMAIN f : f[j] = f[k] => j = k

(* An order gives every new file once.                                       *)
LEMMA OrdersEnumerate ==
  ASSUME NEW S, IsFiniteSet(S), NEW f \in Orders(New(S))
  PROVE  Enumerates(f, S) /\ Cardinality(New(S)) \in Nat
<1>1. IsFiniteSet(New(S)) /\ Cardinality(New(S)) \in Nat
  <2>1. New(S) \in SUBSET S
    BY DEF New
  <2>2. QED
    BY <2>1, FS_Subset, FS_CardinalityType
<1> DEFINE m == Cardinality(New(S))
           T == New(S)
<1>2. f \in [1..m -> T] /\ \A p \in T : \E k \in 1..m : f[k] = p
  BY DEF Orders
<1>3. IsFiniteSet(1..m) /\ Cardinality(1..m) = m
  <2>1. m \in Int /\ 1 \in Int /\ (1 > m => m = 0) /\ m - 1 + 1 = m
    BY <1>1
  <2>2. QED
    BY <2>1, FS_Interval
<1> HIDE DEF T
<1>4. f \in Surjection(1..m, T)
  BY <1>2 DEF Surjection
<1>5. f \in Injection(1..m, T)
  BY <1>1, <1>3, <1>4, FS_SurjSameCardinalityImpliesInj DEF T
<1>6. QED
  <2>1. \A j, k \in 1..m : f[j] = f[k] => j = k
    BY <1>5 DEF Injection, IsInjective
  <2>2. DOMAIN f = 1..m
    BY <1>2
  <2>3. QED
    BY <1>1, <1>2, <2>1, <2>2 DEF Enumerates, T

\* what o's synchronisation of the files S does, with the new files in the order f
Goes(o, S, f, n, m) ==
  /\ S \subseteq Files /\ S \subseteq op[o].paths /\ Enumerates(f, S)
  /\ n = Len(rows) /\ m = Cardinality(New(S)) /\ n + m <= MaxRows
  /\ rows' = [i \in 1..(n + m) |-> IF i <= n THEN Synced(i, S) ELSE Added(f[i - n], i - n)]
  /\ raced' = raced \union {p.seq : p \in {q \in S : Unsettled(o, q)}}
  /\ Repointed /\ EndRequest(o)
  /\ UNCHANGED <<open, disk, requests, spoiled>>

(* The rows after a synchronisation.                                         *)
LEMMA SyncRows ==
  ASSUME ResourcesInv, NEW o \in Ops, NEW S \in SUBSET Files, NEW n \in Nat, NEW m \in Nat,
         NEW f, Goes(o, S, f, n, m)
  PROVE  /\ rows' \in Seq(Rows) /\ Len(rows') = n + m /\ DOMAIN rows' = 1..(n + m)
         /\ \A i \in DOMAIN rows : i \in 1..(n + m) /\ rows'[i] = Synced(i, S)
         /\ \A i \in 1..(n + m) : i \notin DOMAIN rows =>
              /\ f[i - n] \in New(S) /\ i - n \in 1..m
              /\ rows'[i].seq \in Nat /\ rows'[i].seq = NextSeq + (i - n) - 1
              /\ rows'[i].path = f[i - n] /\ rows'[i].live = TRUE
              /\ rows'[i].kind = Kind(f[i - n])
              /\ rows'[i].shows = IF f[i - n] \in DOMAIN disk THEN disk[f[i - n]] ELSE Text
<1>1. DOMAIN rows = 1..n /\ NextSeq \in Nat \ {0}
  BY RowsTyped DEF ResourcesInv, Goes
<1> rows' = [i \in 1..(n + m) |-> IF i <= n THEN Synced(i, S) ELSE Added(f[i - n], i - n)]
  BY DEF Goes
<1>2. \A i \in 1..n : i \in 1..(n + m) /\ rows'[i] = Synced(i, S) /\ rows'[i] \in Rows
  <2> TAKE i \in 1..n
  <2>1. i \in 1..(n + m) /\ i <= n
    OBVIOUS
  <2>2. rows'[i] = Synced(i, S)
    BY <2>1
  <2>3. QED
    BY <1>1, <2>1, <2>2, SyncedFacts
<1>3. ASSUME NEW i \in 1..(n + m), i \notin 1..n
      PROVE  /\ f[i - n] \in New(S) /\ i - n \in 1..m
             /\ rows'[i] \in Rows
             /\ rows'[i].seq = NextSeq + (i - n) - 1 /\ rows'[i].seq \in Nat
             /\ rows'[i].path = f[i - n] /\ rows'[i].live = TRUE
             /\ rows'[i].kind = Kind(f[i - n])
             /\ rows'[i].shows = IF f[i - n] \in DOMAIN disk THEN disk[f[i - n]] ELSE Text
  <2>1. i - n \in 1..m /\ ~ (i <= n)
    BY <1>3
  <2>2. PICK k \in 1..m : k = i - n
    BY <2>1
  <2>3. f[k] \in New(S)
    BY DEF Goes, Enumerates
  <2>4. PICK p \in Files : p = f[k] /\ p \in New(S)
    BY <2>3 DEF New
  <2>5. PICK c \in Nat : c = IF p \in DOMAIN disk THEN disk[p] ELSE Text
    BY DEF ResourcesInv, Listed, ResourcesTypeOK, Text
  <2>6. PICK s \in Nat \ {0} : s = NextSeq + k - 1
    <3>1. NextSeq + k - 1 \in Nat \ {0}
      BY <1>1
    <3>2. QED
      BY <3>1
  <2>7. rows'[i] = Row(s, p, c)
    BY <2>1, <2>2, <2>4, <2>5, <2>6 DEF Added
  <2>8. /\ rows'[i] \in Rows /\ rows'[i].seq = s /\ rows'[i].path = p /\ rows'[i].live = TRUE
        /\ rows'[i].kind = Kind(p) /\ rows'[i].shows = c
    <3>1. Row(s, p, c) \in Rows
      BY RowFields
    <3>2. QED
      BY <2>7, <3>1 DEF Row
  <2>9. QED
    BY <2>1, <2>2, <2>4, <2>5, <2>6, <2>8
<1>4. rows' \in [1..(n + m) -> Rows]
  <2>1. \A i \in 1..(n + m) : rows'[i] \in Rows
    BY <1>2, <1>3
  <2>2. rows' = [i \in 1..(n + m) |-> rows'[i]]
    OBVIOUS
  <2>3. QED
    BY <2>1, <2>2
<1>5. rows' \in Seq(Rows) /\ Len(rows') = n + m /\ DOMAIN rows' = 1..(n + m)
  <2>1. PICK k \in Nat : k = n + m
    OBVIOUS
  <2>2. rows' \in [1..k -> Rows]
    BY <1>4, <2>1
  <2>3. rows' \in Seq(Rows) /\ Len(rows') = k /\ DOMAIN rows' = 1..k
    BY <2>2
  <2>4. QED
    BY <2>1, <2>3
<1>6. QED
  BY <1>1, <1>2, <1>3, <1>5

(* A synchronisation goes through finitely many files.                       *)
LEMMA SyncGoes ==
  ASSUME ResourcesInv, NEW o \in Ops, Sync(o)
  PROVE  /\ op[o].pc = "scanned"
         /\ \E S \in SUBSET Files, n, m \in Nat : \E f : Goes(o, S, f, n, m)
<1>1. PICK S \in SUBSET Files : S = Taken(o) /\ S \subseteq op[o].paths /\ IsFiniteSet(S)
  <2>1. op[o].paths \in SUBSET Files /\ IsFiniteSet(op[o].paths)
    BY OpTyped DEF ResourcesInv
  <2>2. Taken(o) \in SUBSET op[o].paths
    BY DEF Taken
  <2>3. IsFiniteSet(Taken(o))
    BY <2>1, <2>2, FS_Subset
  <2>4. QED
    BY <2>1, <2>2, <2>3
<1>2. PICK f \in Orders(New(S)) :
        rows' = [i \in 1..(Len(rows) + Cardinality(New(S))) |->
                   IF i <= Len(rows) THEN Synced(i, S) ELSE Added(f[i - Len(rows)], i - Len(rows))]
  BY <1>1 DEF Sync
<1>3. Enumerates(f, S) /\ Cardinality(New(S)) \in Nat
  BY <1>1, OrdersEnumerate
<1>4. Len(rows) \in Nat
  BY RowsTyped DEF ResourcesInv
<1>5. Goes(o, S, f, Len(rows), Cardinality(New(S)))
  BY <1>1, <1>2, <1>3 DEF Sync, Goes
<1>6. op[o].pc = "scanned"
  BY DEF Sync, At
<1>7. QED
  BY <1>3, <1>4, <1>5, <1>6

(* Rows lose their file, and files with an id get a row, only where a        *)
(* synchronisation was overtaken.                                            *)
LEMMA GoesBad ==
  ASSUME ResourcesInv, NEW o \in Ops, NEW S \in SUBSET Files, NEW n \in Nat, NEW m \in Nat,
         NEW f, Goes(o, S, f, n, m)
  PROVE  /\ BadGrows /\ Bad' \subseteq Nat
         /\ \A i \in Live : rows'[i].path # rows[i].path => rows[i].seq \in Bad'
         /\ \A p \in S : Unsettled(o, p) => p.seq \in Bad'
         /\ \A p \in New(S) : p \in Seen \/ p.seq \in Bad'
<1>0. /\ rows' \in Seq(Rows) /\ Len(rows') = n + m /\ DOMAIN rows' = 1..(n + m)
      /\ \A i \in DOMAIN rows : i \in 1..(n + m) /\ rows'[i] = Synced(i, S)
      /\ \A i \in 1..(n + m) : i \notin DOMAIN rows =>
           /\ f[i - n] \in New(S) /\ i - n \in 1..m
           /\ rows'[i].seq \in Nat /\ rows'[i].seq = NextSeq + (i - n) - 1
           /\ rows'[i].path = f[i - n] /\ rows'[i].live = TRUE
           /\ rows'[i].kind = Kind(f[i - n])
           /\ rows'[i].shows = IF f[i - n] \in DOMAIN disk THEN disk[f[i - n]] ELSE Text
  BY SyncRows
<1>1. \A i \in Live : i \in DOMAIN rows /\ rows[i].seq \in Nat
  BY RowsTyped DEF ResourcesInv, Live
<1>2. \A p \in S : p.seq \in Nat
  BY DEF Files
<1>3. /\ spoiled' = spoiled
      /\ raced' = raced \union {p.seq : p \in {q \in S : Unsettled(o, q)}}
      /\ stray' = stray \union {rows[i].seq : i \in {k \in Live : rows'[k].path # rows[k].path}}
  BY DEF Goes, Repointed
<1>4. BadGrows /\ Bad' \subseteq Nat
  BY <1>1, <1>2, <1>3 DEF Bad, BadGrows, ResourcesInv, Listed, ResourcesTypeOK
<1>5. /\ \A i \in Live : rows'[i].path # rows[i].path => rows[i].seq \in Bad'
      /\ \A p \in S : Unsettled(o, p) => p.seq \in Bad'
  BY <1>3 DEF Bad
<1>6. ASSUME NEW p \in New(S), p \notin Seen, p.seq \notin Bad'
      PROVE  FALSE
  <2>1. p \in S /\ p # Draft /\ RowsOf(p) \subseteq DraftRow(S)
    BY <1>6 DEF New, Seen
  <2>2. p \in DOMAIN disk /\ ~ InHand(p) /\ ~ Buried(p)
    BY <1>5, <1>6, <2>1 DEF Unsettled
  <2>3. Owned(p) /\ p.seq \notin Bad
    BY <1>4, <1>6, <2>2 DEF ResourcesInv, FilesAreOwned, BadGrows
  <2>4. CASE p \in LivePaths
    <3>1. PICK i \in Live : rows[i].path = p
      BY <2>4 DEF LivePaths
    <3>2. i \in DraftRow(S)
      BY <2>1, <3>1 DEF RowsOf
    <3>3. rows'[i].path = Draft
      <4>1. rows'[i] = Synced(i, S)
        BY <1>0, <1>1
      <4>2. QED
        BY <1>1, <3>2, <4>1, SyncedFacts
    <3>4. rows[i].seq \in Bad'
      BY <1>5, <2>1, <3>1, <3>3
    <3>5. rows[i].seq = p.seq
      BY <1>1, <1>6, <2>3, <3>1 DEF ResourcesInv, RowsInv, PathsAreOwn
    <3>6. QED
      BY <1>6, <3>4, <3>5
  <2>5. CASE \E i \in Dead : rows[i].seq = p.seq
    BY <2>2, <2>5 DEF Buried, Tombstones, Dead
  <2>6. QED
    BY <1>6, <2>2, <2>3, <2>4, <2>5 DEF Owned
<1>7. QED
  BY <1>4, <1>5, <1>6

(* Rows get ids above all others, files that had no row, and what the files  *)
(* show.                                                                     *)
LEMMA GoesRows ==
  ASSUME ResourcesInv, NEW o \in Ops, NEW S \in SUBSET Files, NEW n \in Nat, NEW m \in Nat,
         NEW f, Goes(o, S, f, n, m)
  PROVE  RowsInv' /\ RowsStay
<1>1. /\ DOMAIN rows = 1..n /\ NextSeq \in Nat \ {0}
      /\ \A i \in DOMAIN rows : rows[i].seq \in Nat /\ rows[i].seq < NextSeq
  BY RowsTyped DEF ResourcesInv, Goes
<1>2. /\ rows' \in Seq(Rows) /\ Len(rows') = n + m /\ DOMAIN rows' = 1..(n + m)
      /\ \A i \in DOMAIN rows : i \in 1..(n + m) /\ rows'[i] = Synced(i, S)
      /\ \A i \in 1..(n + m) : i \notin DOMAIN rows =>
           /\ f[i - n] \in New(S) /\ i - n \in 1..m
           /\ rows'[i].seq \in Nat /\ rows'[i].seq = NextSeq + (i - n) - 1
           /\ rows'[i].path = f[i - n] /\ rows'[i].live = TRUE
           /\ rows'[i].kind = Kind(f[i - n])
           /\ rows'[i].shows = IF f[i - n] \in DOMAIN disk THEN disk[f[i - n]] ELSE Text
  BY SyncRows
<1>3. BadGrows /\ \A p \in New(S) : p \in Seen \/ p.seq \in Bad'
  BY GoesBad
<1>4. \A i \in DOMAIN rows :
        /\ rows'[i].seq = rows[i].seq /\ rows'[i].live = rows[i].live
        /\ (rows'[i].kind = "image") <=> (rows[i].kind = "image")
        /\ rows'[i].kind = "summary" => rows[i].kind = "summary"
        /\ rows'[i].path = Notes => rows[i].path = Notes
        /\ rows'[i].path = rows[i].path \/ rows'[i].path = Draft
  <2> TAKE i \in DOMAIN rows
  <2>1. rows'[i] = Synced(i, S)
    BY <1>2
  <2>2. QED
    BY <2>1, SyncedFacts, KindKept
<1>5. RowsStay
  BY <1>2, <1>4 DEF RowsStay
<1>6. SeqsDiffer'
  <2> SUFFICES ASSUME NEW i \in 1..(n + m), NEW j \in 1..(n + m), i # j,
                      rows'[i].seq = rows'[j].seq
               PROVE  rows'[i].seq \in Bad'
    BY <1>2 DEF SeqsDiffer
  <2>1. \A k \in DOMAIN rows, l \in 1..(n + m) : l \notin DOMAIN rows => rows'[k].seq # rows'[l].seq
    <3> TAKE k \in DOMAIN rows, l \in 1..(n + m)
    <3> HAVE l \notin DOMAIN rows
    <3>1. rows'[k].seq \in Nat /\ rows'[k].seq < NextSeq
      BY <1>1, <1>4
    <3>2. l - n \in 1..m /\ rows'[l].seq = NextSeq + (l - n) - 1
      BY <1>2
    <3>3. PICK a \in Nat, b \in Nat, d \in 1..m :
            a = rows'[k].seq /\ b = NextSeq /\ d = l - n
      BY <1>1, <3>1, <3>2
    <3>4. a < b /\ rows'[l].seq = b + d - 1
      BY <3>1, <3>2, <3>3
    <3>5. a # b + d - 1
      BY <3>4
    <3>6. QED
      BY <3>3, <3>4, <3>5
  <2>2. CASE i \in DOMAIN rows /\ j \in DOMAIN rows
    BY <1>3, <1>4, <2>2 DEF ResourcesInv, RowsInv, SeqsDiffer, BadGrows
  <2>3. CASE i \notin DOMAIN rows /\ j \notin DOMAIN rows
    <3>1. PICK b \in Nat, d \in 1..m, e \in 1..m : b = NextSeq /\ d = i - n /\ e = j - n
      BY <1>1, <1>2, <2>3
    <3>2. b + d - 1 = b + e - 1
      BY <1>2, <2>3, <3>1
    <3>3. d # e
      BY <3>1
    <3>4. QED
      BY <3>2, <3>3
  <2>4. QED
    BY <2>1, <2>2, <2>3
<1>7. PathsAreOwn'
  <2> SUFFICES ASSUME NEW i \in 1..(n + m)
               PROVE  \/ rows'[i].path \in Seen \/ rows'[i].path.seq = rows'[i].seq
                      \/ rows'[i].path.seq \in Bad'
    BY <1>2 DEF PathsAreOwn
  <2>1. CASE i \in DOMAIN rows
    BY <1>3, <1>4, <2>1 DEF ResourcesInv, RowsInv, PathsAreOwn, Seen, BadGrows
  <2>2. CASE i \notin DOMAIN rows
    BY <1>2, <1>3, <2>2
  <2>3. QED
    BY <2>1, <2>2
<1>8. KindsFit'
  <2> SUFFICES ASSUME NEW i \in 1..(n + m)
               PROVE  /\ (rows'[i].kind = "image") <=> (rows'[i].path.tag \in Exts)
                      /\ rows'[i].path = Draft => rows'[i].kind = "summary"
                      /\ rows'[i].path = Notes => rows'[i].kind = "text"
                      /\ rows'[i].path.tag \notin Exts => rows'[i].shows = Text
    BY <1>2 DEF KindsFit
  <2>1. CASE i \in DOMAIN rows
    BY <1>2, <2>1, KindKept
  <2>2. CASE i \notin DOMAIN rows
    <3>1. PICK p \in Files : p = f[i - n]
      BY <1>2, <2>2 DEF New
    <3>2. /\ rows'[i].path = p /\ rows'[i].kind = Kind(p)
          /\ rows'[i].shows = IF p \in DOMAIN disk THEN disk[p] ELSE Text
      BY <1>2, <2>2, <3>1
    <3>3. p.tag \notin Exts /\ p \in DOMAIN disk => disk[p] = Text
      BY DEF ResourcesInv, FilesFit
    <3>4. QED
      BY <3>2, <3>3, KindOf
  <2>3. QED
    BY <2>1, <2>2
<1>9. OneSummary'
  <2>1. ASSUME NEW i \in Live', i \notin DOMAIN rows
        PROVE  /\ rows'[i].kind = "summary" => rows'[i].path = Draft /\ Draft \in New(S)
               /\ rows'[i].path \in New(S) /\ rows'[i].path = f[i - n] /\ i - n \in 1..m
               /\ i \in 1..(n + m)
    <3>1. i \in 1..(n + m)
      BY <1>2 DEF Live
    <3>2. PICK p \in Files : p = f[i - n] /\ p \in New(S)
      BY <1>2, <2>1, <3>1 DEF New
    <3>3. QED
      BY <1>2, <2>1, <3>1, <3>2, KindOf
  <2>2. Draft \in New(S) => Summaries = {}
    BY DraftRowFacts DEF New
  <2>3. Notes \in New(S) => \A k \in Live : rows[k].path # Notes
    <3> SUFFICES ASSUME Notes \in New(S), NEW k \in Live, rows[k].path = Notes PROVE FALSE
      OBVIOUS
    <3>1. k \in DraftRow(S)
      BY SeenFields DEF New, RowsOf
    <3>2. rows[k].kind = "summary"
      BY <3>1, DraftRowFacts DEF Summaries
    <3>3. QED
      BY <3>2 DEF ResourcesInv, RowsInv, KindsFit, Live
  <2>4. \A i \in Live' : i \in DOMAIN rows => i \in Live
    BY <1>4 DEF Live
  <2> SUFFICES ASSUME NEW i \in Live', NEW j \in Live', i # j,
                      \/ rows'[i].kind = "summary" /\ rows'[j].kind = "summary"
                      \/ rows'[i].path = Notes /\ rows'[j].path = Notes
               PROVE  FALSE
    BY DEF OneSummary
  <2>5. CASE i \in DOMAIN rows /\ j \in DOMAIN rows
    BY <1>4, <2>4, <2>5 DEF ResourcesInv, RowsInv, OneSummary
  <2>6. ASSUME NEW k \in Live', NEW l \in Live', k \in DOMAIN rows, l \notin DOMAIN rows,
               \/ rows'[k].kind = "summary" /\ rows'[l].kind = "summary"
               \/ rows'[k].path = Notes /\ rows'[l].path = Notes
        PROVE  FALSE
    <3>1. k \in Live
      BY <2>4, <2>6
    <3>2. CASE rows'[k].kind = "summary" /\ rows'[l].kind = "summary"
      <4>1. k \in Summaries
        BY <1>4, <2>6, <3>1, <3>2 DEF Summaries
      <4>2. QED
        BY <2>1, <2>2, <2>6, <3>2, <4>1
    <3>3. CASE rows'[k].path = Notes /\ rows'[l].path = Notes
      BY <1>4, <2>1, <2>3, <2>6, <3>1, <3>3
    <3>4. QED
      BY <2>6, <3>2, <3>3
  <2>7. CASE i \notin DOMAIN rows /\ j \notin DOMAIN rows
    <3>1. f[i - n] = f[j - n] /\ i - n \in 1..m /\ j - n \in 1..m
      BY <2>1, <2>7
    <3>2. DOMAIN f = 1..m /\ \A a, b \in DOMAIN f : f[a] = f[b] => a = b
      BY DEF Goes, Enumerates
    <3>3. i - n = j - n
      BY <3>1, <3>2
    <3>4. i \in 1..(n + m) /\ j \in 1..(n + m)
      BY <2>1, <2>7
    <3>5. QED
      BY <3>3, <3>4
  <2>8. QED
    BY <2>5, <2>6, <2>7
<1>10. QED
  BY <1>5, <1>6, <1>7, <1>8, <1>9 DEF RowsInv

(* A synchronisation preserves the invariant.                                *)
LEMMA SyncStep ==
  ASSUME ResourcesInv, NEW o \in Ops, Sync(o)
  PROVE  ResourcesInv'
<1>1. op[o].pc = "scanned"
  BY SyncGoes
<1>0. PICK S \in SUBSET Files, n \in Nat, m \in Nat : \E f : Goes(o, S, f, n, m)
  BY SyncGoes
<1>2. PICK f : Goes(o, S, f, n, m)
  BY <1>0
<1>3. RowsInv' /\ RowsStay
  BY <1>2, GoesRows
<1>4. /\ BadGrows /\ Bad' \subseteq Nat
      /\ \A i \in Live : rows'[i].path # rows[i].path => rows[i].seq \in Bad'
      /\ \A p \in S : Unsettled(o, p) => p.seq \in Bad'
  BY <1>2, GoesBad
<1>5. EndRequest(o) /\ n + m <= MaxRows /\ UNCHANGED <<open, disk, requests, spoiled>>
  BY <1>2 DEF Goes
<1>6. op'[o] = Idle /\ OthersWait(o) /\ op' \in [Ops -> OpStates]
      /\ \A u \in Ops : IsFiniteSet(op'[u].paths)
  BY <1>5, Ended DEF ResourcesInv
<1>7. /\ rows' \in Seq(Rows) /\ Len(rows') = n + m /\ DOMAIN rows' = 1..(n + m)
      /\ \A i \in DOMAIN rows : i \in 1..(n + m) /\ rows'[i] = Synced(i, S)
      /\ \A i \in 1..(n + m) : i \notin DOMAIN rows =>
           /\ f[i - n] \in New(S) /\ i - n \in 1..m
           /\ rows'[i].seq \in Nat /\ rows'[i].seq = NextSeq + (i - n) - 1
           /\ rows'[i].path = f[i - n] /\ rows'[i].live = TRUE
           /\ rows'[i].kind = Kind(f[i - n])
           /\ rows'[i].shows = IF f[i - n] \in DOMAIN disk THEN disk[f[i - n]] ELSE Text
  BY <1>2, SyncRows
<1>8. Listed'
  BY <1>4, <1>5, <1>6, <1>7 DEF ResourcesInv, Listed, ResourcesTypeOK
<1>9. ASSUME NEW i \in Live', Changes(i), rows'[i].path.seq \notin Bad'
      PROVE  /\ ~ InHand(rows'[i].path)
             /\ rows'[i].seq \notin Bad' =>
                  rows'[i].path \in DOMAIN disk /\ disk[rows'[i].path] = rows'[i].shows
  <2>1. CASE i \in DOMAIN rows
    <3>1. i \in DraftRow(S) /\ rows'[i].path = Draft /\ rows'[i].path # rows[i].path
      <4>1. rows'[i] = Synced(i, S)
        BY <1>7, <2>1
      <4>2. QED
        BY <1>9, <2>1, <4>1, SyncedFacts DEF Changes
    <3>2. Draft \in S
      BY <3>1 DEF DraftRow
    <3>3. ~ InHand(Draft)
      BY <1>4, <1>9, <3>1, <3>2 DEF Unsettled
    <3>4. rows'[i].seq = rows[i].seq /\ i \in Live
      BY <1>3, <1>9, <2>1, StayFacts DEF RowsStay
    <3>5. QED
      BY <1>4, <3>1, <3>3, <3>4
  <2>2. CASE i \notin DOMAIN rows
    <3>1. i \in 1..(n + m)
      BY <1>7 DEF Live
    <3>2. PICK p \in S : p = f[i - n]
      BY <1>7, <2>2, <3>1 DEF New
    <3>3. rows'[i].path = p /\ rows'[i].shows = IF p \in DOMAIN disk THEN disk[p] ELSE Text
      BY <1>7, <2>2, <3>1, <3>2
    <3>4. p \in DOMAIN disk /\ ~ InHand(p)
      BY <1>4, <1>9, <3>3 DEF Unsettled
    <3>5. QED
      BY <3>3, <3>4
  <2>3. QED
    BY <2>1, <2>2
<1>10. Fits(o)' /\ op'[o].pc # "written" /\ disk' = disk
  BY <1>5, <1>6, IdleFields DEF Fits
<1>11. UpdatesRace'
  BY <1>3, <1>4, <1>6, <1>10, UpdatesKept DEF ResourcesInv, RequestsInv, RowsStay
<1>12. QED
  BY <1>1, <1>3, <1>4, <1>6, <1>8, <1>9, <1>10, <1>11, SyncedRows

-----------------------------------------------------------------------------
(* Every step.                                                               *)
LEMMA ResourcesStep == ResourcesInv /\ [ResourcesNext]_resourceVars => ResourcesInv'
<1> SUFFICES ASSUME ResourcesInv, [ResourcesNext]_resourceVars PROVE ResourcesInv'
  OBVIOUS
<1>1. ASSUME NEW o \in Ops, NEW i \in DOMAIN rows, OfRow(o, i)
      PROVE  ResourcesInv'
  <2>1. ASSUME NEW name \in Names, BeginUpdate(o, i, name) PROVE ResourcesInv'
    BY <2>1, BeginUpdateStep
  <2>2. ASSUME NEW ext \in Exts, BeginReplace(o, i, ext) PROVE ResourcesInv'
    BY <2>2, BeginReplaceStep
  <2>3. CASE DeleteResource(o, i)
    BY <2>3, DeleteStep
  <2>4. QED
    BY <1>1, <2>1, <2>2, <2>3 DEF OfRow
<1>2. ASSUME NEW o \in Ops, NEW name \in Names, BeginText(o, name) PROVE ResourcesInv'
  BY <1>2, BeginTextStep
<1>3. ASSUME NEW o \in Ops, NEW ext \in Exts, BeginUpload(o, ext) PROVE ResourcesInv'
  BY <1>3, BeginUploadStep
<1>4. ASSUME NEW o \in Ops, CreateResource(o) PROVE ResourcesInv'
  BY <1>4, CreateStep
<1>5. ASSUME NEW o \in Ops, Update(o) PROVE ResourcesInv'
  BY <1>5, UpdateStep
<1>6. ASSUME NEW o \in Ops, StoreUpload(o) PROVE ResourcesInv'
  BY <1>6, StoreUploadStep
<1>7. ASSUME NEW o \in Ops, StoreReplace(o) PROVE ResourcesInv'
  BY <1>7, StoreReplaceStep
<1>8. ASSUME NEW o \in Ops, Replace(o) PROVE ResourcesInv'
  BY <1>8, ReplaceStep
<1>9. ASSUME NEW o \in Ops, UnlinkFile(o) PROVE ResourcesInv'
  BY <1>9, UnlinkStep
<1>10. ASSUME NEW o \in Ops, Scan(o) PROVE ResourcesInv'
  BY <1>10, ScanStep
<1>11. ASSUME NEW o \in Ops, Sync(o) PROVE ResourcesInv'
  BY <1>11, SyncStep
<1>12. CASE SyncDraft
  BY <1>12, SyncDraftStep
<1>13. CASE CloseSpace \/ ReopenSpace \/ UNCHANGED resourceVars
  BY <1>13, OpenStep
<1>14. ASSUME NEW p \in {Draft, Notes}, AgentWrites(p) PROVE ResourcesInv'
  BY <1>14, AgentStep DEF Seen
<1>15. QED
  BY <1>1, <1>2, <1>3, <1>4, <1>5, <1>6, <1>7, <1>8, <1>9, <1>10, <1>11, <1>12, <1>13, <1>14
     DEF ResourcesNext

(* Two resources with one file have an id that was given out twice.          *)
LEMMA OneRowFollows == ResourcesInv => OneRowPerFile
<1> SUFFICES ASSUME ResourcesInv, NEW i \in Live, NEW j \in Live, i # j,
                    Orderly(i), Orderly(j), rows[i].path = rows[j].path
             PROVE  FALSE
  BY DEF OneRowPerFile
<1>1. rows[j].path.seq \in Bad
  BY OnePath DEF ResourcesInv
<1>2. QED
  BY <1>1 DEF Orderly

\* a row that is added is of no deleted resource
NotDeleted(j) ==
  \/ rows'[j].path.seq \in Bad'
  \/ \A i \in DOMAIN rows \ Live :
       rows[i].path # rows'[j].path /\ rows[i].seq # rows'[j].path.seq

(* A creation is of an id that no row has, or it is noticed.                 *)
LEMMA CreateIsNew ==
  ASSUME ResourcesInv, NEW o \in Ops, CreateResource(o), NEW j \in DOMAIN rows' \ DOMAIN rows
  PROVE  NotDeleted(j)
<1>1. At(o, "create", "written") /\ Creating(o)
  BY FitsOf DEF CreateResource
<1>2. PICK p \in Files, c \in Nat, n \in Nat \ {0} :
        p = op[o].path /\ c = op[o].shows /\ n = p.seq
  BY <1>1, OpTyped DEF ResourcesInv, Creating, Files
<1>3. rows' = Append(rows, Row(n, p, c)) /\ raced' = Clash(n, {}) /\ UNCHANGED <<spoiled, stray>>
  BY <1>2 DEF CreateResource
<1>4. Bad \subseteq Bad' /\ (n \in Seqs => n \in Bad')
  BY <1>3 DEF Bad, Clash
<1>5. rows'[j].path = p
  <2>1. DOMAIN rows' = 1..(Len(rows) + 1) /\ rows'[Len(rows) + 1] = Row(n, p, c)
        /\ DOMAIN rows = 1..Len(rows)
    BY <1>3, RowsTyped, RowFields DEF ResourcesInv
  <2>2. j = Len(rows) + 1
    BY <2>1, RowsTyped DEF ResourcesInv
  <2>3. QED
    BY <2>1, <2>2 DEF Row
<1>6. p \notin Seen
  BY <1>2, NotSeen
<1>7. SUFFICES ASSUME n \notin Bad', NEW i \in DOMAIN rows \ Live
               PROVE  rows[i].path # p /\ rows[i].seq # n
  BY <1>2, <1>5 DEF NotDeleted
<1>8. rows[i].seq # n
  BY <1>4, <1>7 DEF Seqs
<1>9. QED
  BY <1>2, <1>4, <1>6, <1>7, <1>8 DEF ResourcesInv, RowsInv, PathsAreOwn

(* A synchronisation compares with the tombstones there are, or it is        *)
(* noticed that it was overtaken.                                            *)
LEMMA SyncIsNew ==
  ASSUME ResourcesInv, NEW o \in Ops, Sync(o), NEW j \in DOMAIN rows' \ DOMAIN rows
  PROVE  NotDeleted(j)
<1>0. PICK S \in SUBSET Files, n \in Nat, m \in Nat : \E f : Goes(o, S, f, n, m)
  BY SyncGoes
<1>1. PICK f : Goes(o, S, f, n, m)
  BY <1>0
<1>2. \A p \in S : Unsettled(o, p) => p.seq \in Bad'
  BY <1>1, GoesBad
<1>3. PICK p \in S : p = rows'[j].path
  <2>1. /\ rows' \in Seq(Rows) /\ Len(rows') = n + m /\ DOMAIN rows' = 1..(n + m)
        /\ \A i \in DOMAIN rows : i \in 1..(n + m) /\ rows'[i] = Synced(i, S)
        /\ \A i \in 1..(n + m) : i \notin DOMAIN rows =>
             /\ f[i - n] \in New(S) /\ i - n \in 1..m
             /\ rows'[i].seq \in Nat /\ rows'[i].seq = NextSeq + (i - n) - 1
             /\ rows'[i].path = f[i - n] /\ rows'[i].live = TRUE
             /\ rows'[i].kind = Kind(f[i - n])
             /\ rows'[i].shows = IF f[i - n] \in DOMAIN disk THEN disk[f[i - n]] ELSE Text
    BY <1>1, SyncRows
  <2>2. rows'[j].path \in New(S)
    BY <2>1
  <2>3. QED
    BY <2>2 DEF New
<1>4. p.seq \in Bad' \/ ~ Buried(p)
  BY <1>2 DEF Unsettled
<1>5. QED
  BY <1>3, <1>4 DEF NotDeleted, Buried, Tombstones

(* The draft summary alone becomes a row unless its own was deleted.         *)
LEMMA SyncDraftIsNew ==
  ASSUME ResourcesInv, SyncDraft, NEW j \in DOMAIN rows' \ DOMAIN rows
  PROVE  NotDeleted(j)
<1>1. rows' = Append(rows, Row(NextSeq, Draft, Text)) /\ \A t \in Tombstones : t.path # Draft
  BY DEF SyncDraft
<1>2. rows'[j].path = Draft
  <2>1. PICK n \in Nat \ {0}, c \in Nat, p \in Files : n = NextSeq /\ c = Text /\ p = Draft
    BY RowsTyped, SeenFields DEF ResourcesInv, Text
  <2>2. DOMAIN rows' = 1..(Len(rows) + 1) /\ rows'[Len(rows) + 1] = Row(n, p, c)
        /\ DOMAIN rows = 1..Len(rows)
    BY <1>1, <2>1, RowsTyped, RowFields DEF ResourcesInv
  <2>3. j = Len(rows) + 1
    BY <2>2, RowsTyped DEF ResourcesInv
  <2>4. QED
    BY <2>1, <2>2, <2>3 DEF Row
<1>3. \A i \in DOMAIN rows \ Live : rows[i].seq # 0 /\ rows[i].path # Draft
  BY <1>1, RowsTyped DEF ResourcesInv, Tombstones
<1>4. QED
  BY <1>2, <1>3, SeenFields DEF NotDeleted

(* Only creations and synchronisations add rows.                             *)
LEMMA NoneReturns ==
  ASSUME ResourcesInv, [ResourcesNext]_resourceVars, NEW j \in DOMAIN rows' \ DOMAIN rows
  PROVE  NotDeleted(j)
<1>1. \A o \in Ops, i \in DOMAIN rows : ~ OfRow(o, i)
  BY DEF OfRow, BeginUpdate, BeginReplace, DeleteResource
<1>2. \A o \in Ops : /\ \A name \in Names : ~ BeginText(o, name)
                     /\ \A ext \in Exts : ~ BeginUpload(o, ext)
                     /\ ~ Update(o) /\ ~ StoreUpload(o) /\ ~ StoreReplace(o)
                     /\ ~ UnlinkFile(o) /\ ~ Scan(o)
  BY DEF BeginText, BeginUpload, Update, StoreUpload, StoreReplace, UnlinkFile, Scan
<1>3. \A o \in Ops : ~ Replace(o)
  BY DEF Replace
<1>4. ~ CloseSpace /\ ~ ReopenSpace /\ (\A p \in {Draft, Notes} : ~ AgentWrites(p))
      /\ ~ UNCHANGED resourceVars
  BY DEF CloseSpace, ReopenSpace, AgentWrites, resourceVars
<1>5. SyncDraft \/ \E o \in Ops : CreateResource(o) \/ Sync(o)
  BY <1>1, <1>2, <1>3, <1>4 DEF ResourcesNext
<1>6. QED
  BY <1>5, CreateIsNew, SyncIsNew, SyncDraftIsNew

-----------------------------------------------------------------------------
(* Whatever users, the agent and synchronisations do to the files of a space *)
(* in whatever order, a resource shows the file that was last accepted for   *)
(* it, and a file is one resource; excepted are the ids that two requests    *)
(* worked on at once and those with a file that a refused upload or an       *)
(* edited summary left behind.                                               *)
THEOREM ResourcesSafe == ResourcesSpec => [](ResourcesTypeOK /\ RowShowsItsFile /\ OneRowPerFile)
<1>1. ResourcesInv => ResourcesTypeOK /\ RowShowsItsFile /\ OneRowPerFile
  BY OneRowFollows DEF ResourcesInv, Listed
<1>2. QED
  BY <1>1, ResourcesInitInv, ResourcesStep, PTL DEF ResourcesSpec

(* No step brings back a deleted resource: of the rows that a creation or a  *)
(* synchronisation adds, none has the file or the id of a deleted row.       *)
THEOREM DeletedStay == ResourcesSpec => DeletedStaysDeleted
<1>1. ResourcesInv /\ [ResourcesNext]_resourceVars =>
        [\A j \in DOMAIN rows' \ DOMAIN rows :
           \/ rows'[j].path.seq \in Bad'
           \/ \A i \in DOMAIN rows \ Live :
                rows[i].path # rows'[j].path /\ rows[i].seq # rows'[j].path.seq]_resourceVars
  BY NoneReturns DEF NotDeleted
<1>2. QED
  BY <1>1, ResourcesInitInv, ResourcesStep, PTL DEF ResourcesSpec, DeletedStaysDeleted
=============================================================================
