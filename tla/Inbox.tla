------------------------------- MODULE Inbox -------------------------------
(***************************************************************************)
(* Goals, tasks and what OpenFocus recommends of them: the goals domain      *)
(* (openfocus/domains/goals/service.py and its routes), the Next Move        *)
(* requests with their feedback (openfocus/domains/recommendations, the      *)
(* agent in openfocus/agent/agents/attention_scheduler.py), the cards of the *)
(* attention inbox (openfocus/domains/attention/service.py) and the task     *)
(* decomposer (openfocus/agent/agents/task_decomposer.py), a process of its   *)
(* own.                                                                      *)
(*                                                                         *)
(* A request runs in a thread.  It reads rows, outside of any transaction,   *)
(* and then writes and commits; SQLite lets one writer at a time in.  So a   *)
(* request is two steps, with the steps of others between them.  Asking for  *)
(* a Next Move waits for a language model between reading and writing.       *)
(*                                                                         *)
(* SQLite gives the id of the last goal to the next one when it was deleted. *)
(* A task is known by its public id, which is never used again.              *)
(*                                                                         *)
(* Left out: texts and dates, task types, audit entries, events that no      *)
(* other part reads, the AgentSpace that goes with a task.  The inbox makes   *)
(* no cards but of Next Moves: the projection of other reports is off        *)
(* (events/service.py), so that completing a task finds none to mark.        *)
(***************************************************************************)
EXTENDS Naturals, Sequences, FiniteSets, FiniteSetsExt, SequencesExt

CONSTANTS
  Ops,          \* requests under way
  GoalIds,      \* the ids a goal can get: 1..n
  Tasks,
  None,
  Limit,        \* feedback rows a request looks at (120 in the code)
  MaxMade,      \* bound: goals created
  MaxAsks,      \* bound: Next Move requests
  MaxFeedback   \* bound: feedback rows

ASSUME InboxAssumption ==
  /\ IsFiniteSet(GoalIds) /\ GoalIds = 1..Cardinality(GoalIds)
  /\ Limit \in Nat \ {0}
  /\ MaxMade \in Nat /\ MaxAsks \in Nat /\ MaxFeedback \in Nat

VARIABLES
  goals,     \* [GoalIds -> Goal or None]
  tasks,     \* [Tasks -> Task]
  cards,     \* the active attention_items: request -> its card's task, or None
  feedback,  \* next_move_feedback, less than a day old: Seq(Tasks)
  op,        \* [Ops -> the request]
  made,      \* goals created so far
  asks,      \* Next Move requests so far
  late       \* history: tasks written after their goal was read and deleted

vars == <<goals, tasks, cards, feedback, op, made, asks, late>>
goalVars == <<goals, tasks, made, late>>
nextVars == <<cards, feedback, asks>>

\* "done" stands for every status that is not open: paused, archived, ...
GoalStatus == {"active", "done"}
\* no: which of the goals ever created it is
Goal == [no : 1..MaxMade, status : GoalStatus]
Task == [goal : GoalIds \union {0}, no : 0..MaxMade,
         status : {"new", "todo", "done", "deleted"}]

ASSUME NoneAssumption == None \notin Goal /\ None \notin Tasks

Idle == [kind |-> "idle"]
\* what a request under way has read, and is to write
SetGoalRequest == [kind : {"setGoal"}, goal : GoalIds, status : GoalStatus]
DeleteGoalRequest == [kind : {"deleteGoal"}, goal : GoalIds, tasks : SUBSET Tasks]
CreateRequest == [kind : {"create"}, goal : GoalIds, no : 1..MaxMade]
SetTaskRequest == [kind : {"setTask"}, task : Tasks, status : {"todo", "done"}]
SetCardRequest == [kind : {"setCard"}, card : 1..MaxAsks]
NextMoveRequest == [kind : {"ask", "answered"}, no : 1..MaxAsks, items : Seq(Tasks),
                    open : SUBSET Tasks, barred : SUBSET Tasks, unwanted : SUBSET Tasks]
Request ==
  SetGoalRequest \union DeleteGoalRequest \union CreateRequest \union SetTaskRequest
    \union SetCardRequest \union NextMoveRequest

Begin(o, request) == op[o] = Idle /\ op' = [op EXCEPT ![o] = request]
End(o) == op' = [op EXCEPT ![o] = Idle]

Goals == {g \in GoalIds : goals[g] # None}
Present == {t \in Tasks : tasks[t].status \in {"todo", "done"}}

Init ==
  /\ goals = [g \in GoalIds |-> None]
  /\ tasks = [t \in Tasks |-> [goal |-> 0, no |-> 0, status |-> "new"]]
  /\ cards = [k \in 1..MaxAsks |-> None] /\ feedback = <<>>
  /\ op = [o \in Ops |-> Idle]
  /\ made = 0 /\ asks = 0
  /\ late = {}

-----------------------------------------------------------------------------
(* Goals.                                                                    *)

CreateGoal ==
  LET g == 1 + Max({0} \union Goals) IN
  /\ made < MaxMade /\ g \in GoalIds
  /\ made' = made + 1
  /\ goals' = [goals EXCEPT ![g] = [no |-> made', status |-> "active"]]
  /\ UNCHANGED <<tasks, op, late, nextVars>>

(* update_goal, mark_goal_done, reopen_goal: what changes the status that     *)
(* was read is written later; an edit may write any.                         *)
BeginSetGoal(o, g, status) ==
  /\ g \in Goals /\ goals[g].status # status
  /\ Begin(o, [kind |-> "setGoal", goal |-> g, status |-> status])
  /\ UNCHANGED <<goalVars, nextVars>>

SetGoal(o) ==
  /\ op[o].kind = "setGoal"
  /\ goals' = IF op[o].goal \in Goals
              THEN [goals EXCEPT ![op[o].goal].status = op[o].status] ELSE goals
  /\ End(o)
  /\ UNCHANGED <<tasks, made, late, nextVars>>

\* only what is left to do is deleted with the goal
TasksOf_Todo(g) == {t \in Present : tasks[t].goal = g /\ tasks[t].status = "todo"}

\* TaskRepository.list_by_goal
TasksOf(g) == {t \in Present : tasks[t].goal = g}

(* delete_goal lists the tasks before it has the right to write.             *)
BeginDeleteGoal(o, g) ==
  /\ g \in Goals
  /\ Begin(o, [kind |-> "deleteGoal", goal |-> g, tasks |-> TasksOf(g)])
  /\ UNCHANGED <<goalVars, nextVars>>

\* delete_task of each of S
Deleted(S) ==
  [t \in Tasks |-> IF t \in S THEN [goal |-> 0, no |-> 0, status |-> "deleted"] ELSE tasks[t]]

DeleteGoal(o) ==
  /\ op[o].kind = "deleteGoal"
  /\ goals' = [goals EXCEPT ![op[o].goal] = None]
  /\ tasks' = Deleted(op[o].tasks)
  /\ late' = (late \union TasksOf(op[o].goal)) \ op[o].tasks
  /\ End(o)
  /\ UNCHANGED <<made, nextVars>>

-----------------------------------------------------------------------------
(* Tasks.                                                                    *)

(* create_task, and a run of the task decomposer: the goal is there.         *)
BeginCreate(o, g) ==
  /\ g \in Goals
  /\ Begin(o, [kind |-> "create", goal |-> g, no |-> goals[g].no])
  /\ UNCHANGED <<goalVars, nextVars>>

\* the goal that request o has read is there no more
GoneSince(o) ==
  \/ op[o].goal \notin Goals
  \/ goals[op[o].goal].no # op[o].no

Write(o, new) ==
  /\ tasks' = [t \in Tasks |->
                 IF t \in new THEN [goal |-> op[o].goal, no |-> op[o].no, status |-> "todo"]
                 ELSE tasks[t]]
  /\ late' = IF GoneSince(o) THEN late \union new ELSE late
  /\ End(o)
  /\ UNCHANGED <<goals, made, nextVars>>

NewTasks == {t \in Tasks : tasks[t].status = "new"}

CreateTask(o) ==
  /\ op[o].kind = "create"
  /\ \E t \in NewTasks : Write(o, {t})

(* The decomposer writes what the model made of the goal, long after: any    *)
(* number of tasks.                                                          *)
Decompose(o) ==
  /\ op[o].kind = "create"
  /\ \E new \in SUBSET NewTasks : Write(o, new)

(* mark_task_done, reopen_task.                                              *)
BeginSetTask(o, t, status) ==
  /\ t \in Present /\ tasks[t].status # status
  /\ Begin(o, [kind |-> "setTask", task |-> t, status |-> status])
  /\ UNCHANGED <<goalVars, nextVars>>

SetTask(o) ==
  /\ op[o].kind = "setTask"
  /\ tasks' = IF op[o].task \in Present
              THEN [tasks EXCEPT ![op[o].task].status = op[o].status] ELSE tasks
  /\ End(o)
  /\ UNCHANGED <<goals, made, late, nextVars>>

(* delete_task: cards, feedback and recommendations of the task stay.        *)
DeleteTask(t) ==
  /\ t \in Present
  /\ tasks' = Deleted({t}) /\ late' = late \ {t}
  /\ UNCHANGED <<goals, op, made, nextVars>>

-----------------------------------------------------------------------------
(* Next Moves.                                                               *)

\* the tasks of RecommendationContextBuilder's open_goals_and_tasks
OpenTasks ==
  {t \in Present : /\ tasks[t].status = "todo"
                   /\ tasks[t].goal \in Goals
                   /\ goals[tasks[t].goal].status = "active"}

\* the oldest rows are looked at, and not the last
NotForNow_Oldest == Range(SubSeq(feedback, 1, Min({Limit, Len(feedback)})))

\* _recent_not_for_now_ids: what the last Limit rows dismiss
NotForNow == {feedback[i] : i \in {j \in DOMAIN feedback : j > Len(feedback) - Limit}}

\* history: the user has dismissed t, with fewer than Limit rows of feedback since
Unwanted == {t \in Tasks : \E i \in DOMAIN feedback :
                             feedback[i] = t /\ Len(feedback) < i + Limit}

(* The context is built.  Without an open task nothing is asked.             *)
Ask(o) ==
  /\ asks < MaxAsks /\ asks' = asks + 1
  /\ Begin(o, [no |-> asks', kind |-> IF OpenTasks = {} THEN "answered" ELSE "ask",
               open |-> OpenTasks, barred |-> NotForNow, items |-> <<>>,
               unwanted |-> Unwanted])
  /\ UNCHANGED <<goalVars, cards, feedback>>

\* _normalize_items makes one of these of any answer; of a failure, <<>>
Answers(o) ==
  LET S == op[o].open \ op[o].barred
  IN {<<>>} \union {<<t>> : t \in S} \union {s \in S \X S : s[1] # s[2]}

ActiveCards(t) == {k \in DOMAIN cards : cards[k] = t}

\* every recommendation gets a card of its own
Carded_Each(k, t) == [cards EXCEPT ![k] = t]

\* maybe_create_from_event: an active card of the task is used again
Carded(k, t) == IF ActiveCards(t) # {} THEN cards ELSE [cards EXCEPT ![k] = t]

\* record_event, for a request's agent.completed: a card for the first task
Projected(k, items) ==
  IF items # <<>> /\ items[1] \in Present THEN Carded(k, items[1]) ELSE cards

(* The agent is done, and the event says so.                                 *)
Answer(o) ==
  /\ op[o].kind = "ask"
  /\ \E items \in Answers(o) :
       /\ op' = [op EXCEPT ![o] = [@ EXCEPT !.kind = "answered", !.items = items]]
       /\ cards' = Projected(op[o].no, items)
  /\ UNCHANGED <<goalVars, feedback, asks>>

(* The NextMoveRun is written, for the page to show, and the request ends.   *)
SaveRun(o) ==
  /\ op[o].kind = "answered"
  /\ End(o)
  /\ UNCHANGED <<goalVars, nextVars>>

(* submit_feedback; the page sends dismissals only.                          *)
SubmitFeedback(t) ==
  /\ t \in Present /\ Len(feedback) < MaxFeedback
  /\ feedback' = Append(feedback, t)
  /\ UNCHANGED <<goalVars, op, cards, asks>>

(* A day has passed since a feedback: nothing looks at it any more.          *)
Expire ==
  /\ feedback # <<>> /\ feedback' = Tail(feedback)
  /\ UNCHANGED <<goalVars, op, cards, asks>>

(* set_item_status, for the user who dismisses a card or acts on it.         *)
BeginSetCard(o, k) ==
  /\ cards[k] # None
  /\ Begin(o, [kind |-> "setCard", card |-> k])
  /\ UNCHANGED <<goalVars, nextVars>>

SetCard(o) ==
  /\ op[o].kind = "setCard"
  /\ cards' = [cards EXCEPT ![op[o].card] = None]
  /\ End(o)
  /\ UNCHANGED <<goalVars, feedback, asks>>

(* A request fails: the database is locked, or the process ends.             *)
Fail(o) ==
  /\ op[o] # Idle
  /\ End(o)
  /\ UNCHANGED <<goalVars, nextVars>>

-----------------------------------------------------------------------------
Next ==
  \/ CreateGoal \/ Expire
  \/ \E t \in Tasks : DeleteTask(t) \/ SubmitFeedback(t)
  \/ \E o \in Ops :
       \/ \E g \in GoalIds :
            \/ \E status \in GoalStatus : BeginSetGoal(o, g, status)
            \/ BeginDeleteGoal(o, g)
            \/ BeginCreate(o, g)
       \/ \E t \in Tasks :
            \E status \in {"todo", "done"} : BeginSetTask(o, t, status)
       \/ \E k \in 1..MaxAsks : BeginSetCard(o, k)
       \/ SetGoal(o) \/ DeleteGoal(o) \/ CreateTask(o) \/ Decompose(o) \/ SetTask(o)
       \/ Ask(o) \/ Answer(o) \/ SaveRun(o) \/ SetCard(o) \/ Fail(o)

Spec == Init /\ [][Next]_vars

-----------------------------------------------------------------------------
TypeOK ==
  /\ goals \in [GoalIds -> Goal \union {None}]
  /\ tasks \in [Tasks -> Task]
  /\ cards \in [1..MaxAsks -> Tasks \union {None}]
  /\ feedback \in Seq(Tasks)
  /\ op \in [Ops -> Request \union {Idle}]
  /\ made \in 0..MaxMade /\ asks \in 0..MaxAsks
  /\ late \subseteq Tasks

(* A task belongs to the goal it was made for, and goes when the goal is     *)
(* deleted, whatever is under way; so that the goal that gets the id next    *)
(* does not inherit tasks.  Only a task that was written while or after its  *)
(* goal was deleted, by a request that had found the goal before, is left    *)
(* over (openfocus/domains/goals/SPEC.md: "Every created task belongs to an  *)
(* existing goal").                                                          *)
TasksHaveTheirGoal ==
  \A t \in Present \ late :
    /\ tasks[t].goal \in Goals
    /\ goals[tasks[t].goal].no = tasks[t].no

(* Requests that run at once, answers that repeat and cards that are being    *)
(* dismissed leave a task with at most one active card.                      *)
OneCardPerTask ==
  \A t \in Tasks : Cardinality(ActiveCards(t)) <= 1

(* An answer does not hold a task that the user had dismissed, less than a   *)
(* day before it was asked for; unless so much feedback was given since that *)
(* the dismissal was out of sight.                                           *)
DismissedNotShown ==
  \A o \in Ops : op[o].kind = "answered" => Range(op[o].items) \cap op[o].unwanted = {}
=============================================================================
