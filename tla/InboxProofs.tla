----------------------------- MODULE InboxProofs -----------------------------
(***************************************************************************)
(* Proofs about Inbox for any number of requests, goals and tasks and any     *)
(* bounds: its types, that a task belongs to its goal, that a task has at    *)
(* most one active card and that a dismissed task is not recommended.        *)
(***************************************************************************)
EXTENDS Inbox, FiniteSetTheorems, WellFoundedInduction, TLAPS

-----------------------------------------------------------------------------
(* Natural numbers: a set of them has a least, a bounded one a greatest.     *)
LessNat == {ss \in Nat \X Nat : ss[1] < ss[2]}

(* The order of the natural numbers is well-founded.                         *)
LEMMA LeastNat ==
  ASSUME NEW U \in SUBSET Nat, U # {}
  PROVE  \E m \in U : \A k \in U : m <= k
<1>1. IsWellFoundedOn(LessNat, Nat)
  BY NatLessThanWellFounded DEF OpToRel, LessNat
<1>2. PICK m \in U : \A k \in U : <<k, m>> \notin LessNat
  BY <1>1, WFMin
<1>3. \A k \in U : ~(k < m)
  <2> TAKE k \in U
  <2>1. <<k, m>>[1] = k /\ <<k, m>>[2] = m /\ <<k, m>> \in Nat \X Nat
    OBVIOUS
  <2>2. QED
    BY <1>2, <2>1 DEF LessNat
<1>4. QED
  BY <1>3

(* The greatest is the least of the upper bounds.                            *)
LEMMA MaxNat ==
  ASSUME NEW S \in SUBSET Nat, NEW n \in Nat, \A x \in S : x <= n, S # {}
  PROVE  Max(S) \in S /\ \A y \in S : y <= Max(S)
<1> DEFINE U == {m \in Nat : \A y \in S : y <= m}
<1>1. PICK m \in U : \A k \in U : m <= k
  BY LeastNat
<1>2. m \in S
  <2> SUFFICES ASSUME m \notin S PROVE FALSE
    OBVIOUS
  <2>1. \A y \in S : y <= m - 1
    OBVIOUS
  <2>2. m - 1 \in Nat
    <3>1. PICK y \in S : TRUE
      OBVIOUS
    <3>2. QED
      BY <2>1, <3>1
  <2>3. m <= m - 1
    BY <1>1, <2>1, <2>2
  <2>4. QED
    BY <2>2, <2>3
<1>3. QED
  BY <1>1, <1>2 DEF Max

(* So the id of the goal that is created is one that no goal has.            *)
LEMMA NextGoalIsFree ==
  ASSUME TypeOK
  PROVE  1 + Max({0} \union Goals) \notin Goals
<1>1. Cardinality(GoalIds) \in Nat /\ GoalIds = 1..Cardinality(GoalIds)
  BY InboxAssumption, FS_CardinalityType
<1>2. {0} \union Goals \in SUBSET Nat
  BY <1>1 DEF Goals
<1>3. \A x \in {0} \union Goals : x <= Cardinality(GoalIds)
  BY <1>1 DEF Goals
<1>4. /\ Max({0} \union Goals) \in Nat
      /\ \A y \in {0} \union Goals : y <= Max({0} \union Goals)
  BY <1>1, <1>2, <1>3, MaxNat
<1>5. QED
  <2> DEFINE m == Max({0} \union Goals)
  <2> SUFFICES ASSUME 1 + m \in Goals PROVE FALSE
    OBVIOUS
  <2>1. 1 + m <= m /\ m \in Nat
    BY <1>4
  <2> HIDE DEF m
  <2>2. QED
    BY <2>1

-----------------------------------------------------------------------------
(* The invariant: cards are told apart, and the list that an answer was made *)
(* from held nothing the user did not want.                                  *)
NoTwinCards ==
  \A j, k \in DOMAIN cards : cards[j] = cards[k] /\ cards[j] # None => j = k

BarredIsUnwanted ==
  \A o \in Ops : op[o].kind = "ask" => op[o].unwanted \subseteq op[o].barred

Inv ==
  TypeOK /\ TasksHaveTheirGoal /\ NoTwinCards /\ BarredIsUnwanted /\ DismissedNotShown

(* Nothing is there, and nothing is under way.                               *)
LEMMA InitInv == Init => Inv
  BY InboxAssumption, NoneAssumption
     DEF Init, Inv, TypeOK, TasksHaveTheirGoal, NoTwinCards, BarredIsUnwanted,
         DismissedNotShown, Present, Task, Idle

(* A request that is under way is known by its kind.                         *)
LEMMA KnownByKind ==
  ASSUME TypeOK, NEW o \in Ops
  PROVE  /\ op[o].kind = "setGoal" => op[o] \in SetGoalRequest
         /\ op[o].kind = "deleteGoal" => op[o] \in DeleteGoalRequest
         /\ op[o].kind = "create" => op[o] \in CreateRequest
         /\ op[o].kind = "setTask" => op[o] \in SetTaskRequest
         /\ op[o].kind = "setCard" => op[o] \in SetCardRequest
         /\ op[o].kind \in {"ask", "answered"} => op[o] \in NextMoveRequest
  BY DEF TypeOK, Request, Idle, SetGoalRequest, DeleteGoalRequest, CreateRequest,
         SetTaskRequest, SetCardRequest, NextMoveRequest

(* A request that begins, and is not about Next Moves, or ends.              *)
LEMMA OpInv ==
  ASSUME Inv, NEW o \in Ops, NEW r \in Request \union {Idle},
         r.kind \notin {"ask", "answered"},
         op' = [op EXCEPT ![o] = r]
  PROVE  /\ op' \in [Ops -> Request \union {Idle}]
         /\ BarredIsUnwanted'
         /\ DismissedNotShown'
  BY DEF Inv, TypeOK, BarredIsUnwanted, DismissedNotShown

(* A request that begins has changed nothing yet.                            *)
LEMMA BeginInv ==
  ASSUME Inv, NEW o \in Ops, NEW r \in Request, r.kind \notin {"ask", "answered"},
         Begin(o, r), UNCHANGED <<goalVars, nextVars>>
  PROVE  Inv'
<1>1. op' = [op EXCEPT ![o] = r]
  BY DEF Begin
<1>2. QED
  BY <1>1, OpInv
     DEF Inv, TypeOK, TasksHaveTheirGoal, NoTwinCards, Present, Goals, ActiveCards,
         goalVars, nextVars

(* A request that ends is idle.                                              *)
LEMMA EndInv ==
  ASSUME Inv, NEW o \in Ops, End(o)
  PROVE  /\ op' \in [Ops -> Request \union {Idle}]
         /\ BarredIsUnwanted'
         /\ DismissedNotShown'
<1>1. Idle \in Request \union {Idle} /\ Idle.kind \notin {"ask", "answered"}
  BY DEF Idle
<1>2. QED
  BY <1>1, OpInv DEF End

-----------------------------------------------------------------------------
(* Goals and tasks.                                                          *)
(* A step on goals and tasks has to keep only them and the requests.         *)
LEMMA KeepsNext ==
  ASSUME Inv, UNCHANGED nextVars, TypeOK', TasksHaveTheirGoal',
         UNCHANGED op \/ (BarredIsUnwanted' /\ DismissedNotShown')
  PROVE  Inv'
  BY DEF Inv, NoTwinCards, BarredIsUnwanted, DismissedNotShown, nextVars

(* A goal gets a free id, keeps its number, and goes with its tasks.         *)
LEMMA GoalsInv ==
  ASSUME Inv, CreateGoal \/ \E o \in Ops : SetGoal(o) \/ DeleteGoal(o)
  PROVE  Inv'
<1>1. TypeOK /\ TasksHaveTheirGoal
  BY DEF Inv
<1>2. CASE CreateGoal
  <2> DEFINE g == 1 + Max({0} \union Goals)
  <2>1. g \in GoalIds /\ g \notin Goals
    BY <1>1, <1>2, NextGoalIsFree DEF CreateGoal
  <2>2. /\ made' = made + 1 /\ made' \in 1..MaxMade
        /\ goals' = [goals EXCEPT ![g] = [no |-> made', status |-> "active"]]
        /\ UNCHANGED <<tasks, op, late, nextVars>>
    BY <1>1, <1>2, InboxAssumption DEF CreateGoal, TypeOK
  <2> HIDE DEF g
  <2>3. [no |-> made', status |-> "active"] \in Goal
    BY <2>2 DEF Goal, GoalStatus
  <2>4. TypeOK'
    BY <1>1, <2>1, <2>2, <2>3 DEF TypeOK, nextVars
  <2>5. TasksHaveTheirGoal'
    BY <1>1, <2>1, <2>2, <2>3 DEF TypeOK, TasksHaveTheirGoal, Present, Goals
  <2>6. QED
    BY <2>2, <2>4, <2>5, KeepsNext
<1>3. ASSUME NEW o \in Ops, SetGoal(o) PROVE Inv'
  <2>1. op[o] \in SetGoalRequest
    BY <1>1, <1>3, KnownByKind DEF SetGoal
  <2>2. op[o].goal \in GoalIds /\ op[o].status \in GoalStatus
    BY <2>1 DEF SetGoalRequest
  <2>3. \A g \in Goals : /\ goals[g] \in Goal
                         /\ [goals[g] EXCEPT !.status = op[o].status] \in Goal
    BY <1>1, <2>2 DEF TypeOK, Goals, Goal
  <2>4. /\ goals' \in [GoalIds -> Goal \union {None}]
        /\ \A g \in Goals : goals'[g] # None /\ goals'[g].no = goals[g].no
    <3>1. CASE op[o].goal \in Goals
      <4>1. goals' = [goals EXCEPT ![op[o].goal] =
                        [goals[op[o].goal] EXCEPT !.status = op[o].status]]
        BY <1>3, <3>1 DEF SetGoal
      <4>2. [goals[op[o].goal] EXCEPT !.status = op[o].status].no = goals[op[o].goal].no
        BY <2>3, <3>1 DEF Goal
      <4>3. QED
        BY <1>1, <2>2, <2>3, <3>1, <4>1, <4>2, NoneAssumption DEF TypeOK, Goals
    <3>2. CASE op[o].goal \notin Goals
      BY <1>1, <1>3, <3>2 DEF SetGoal, TypeOK, Goals
    <3>3. QED
      BY <3>1, <3>2
  <2>5. /\ op' \in [Ops -> Request \union {Idle}]
        /\ BarredIsUnwanted' /\ DismissedNotShown'
    BY <1>3, EndInv DEF SetGoal
  <2>6. TypeOK'
    BY <1>1, <1>3, <2>4, <2>5 DEF SetGoal, TypeOK, nextVars
  <2>7. TasksHaveTheirGoal'
    BY <1>1, <1>3, <2>4 DEF SetGoal, TypeOK, TasksHaveTheirGoal, Present, Goals
  <2>8. QED
    BY <1>3, <2>5, <2>6, <2>7, KeepsNext DEF SetGoal
<1>4. ASSUME NEW o \in Ops, DeleteGoal(o) PROVE Inv'
  <2>1. op[o] \in DeleteGoalRequest
    BY <1>1, <1>4, KnownByKind DEF DeleteGoal
  <2> DEFINE g == op[o].goal
             S == op[o].tasks
  <2>2. g \in GoalIds /\ S \subseteq Tasks
    BY <2>1 DEF DeleteGoalRequest
  <2>3. /\ goals' = [goals EXCEPT ![g] = None]
        /\ tasks' = Deleted(S)
        /\ late' = (late \union TasksOf(g)) \ S
        /\ UNCHANGED <<made, nextVars>>
    BY <1>4 DEF DeleteGoal
  <2>4. /\ op' \in [Ops -> Request \union {Idle}]
        /\ BarredIsUnwanted' /\ DismissedNotShown'
    BY <1>4, EndInv DEF DeleteGoal
  <2> HIDE DEF g, S
  <2>5. [goal |-> 0, no |-> 0, status |-> "deleted"] \in Task
    BY InboxAssumption DEF Task
  <2>6. TypeOK'
    BY <1>1, <2>2, <2>3, <2>4, <2>5 DEF TypeOK, Deleted, TasksOf, Present, nextVars
  <2>7. TasksHaveTheirGoal'
    <3> SUFFICES ASSUME NEW t \in (Present \ late)'
                 PROVE  /\ tasks'[t].goal \in Goals'
                        /\ goals'[tasks'[t].goal].no = tasks'[t].no
      BY DEF TasksHaveTheirGoal
    <3>1. t \in Present /\ t \notin S /\ tasks'[t] = tasks[t]
      BY <2>3 DEF Deleted, Present
    <3>2. t \notin late /\ tasks[t].goal # g
      BY <2>3, <3>1 DEF TasksOf
    <3>3. tasks[t].goal \in Goals /\ goals[tasks[t].goal].no = tasks[t].no
      BY <1>1, <3>1, <3>2 DEF TasksHaveTheirGoal
    <3>4. QED
      BY <1>1, <2>3, <3>1, <3>2, <3>3 DEF TypeOK, Goals
  <2>8. QED
    BY <2>3, <2>4, <2>6, <2>7, KeepsNext
<1>5. QED
  BY <1>2, <1>3, <1>4

(* What is written of a goal belongs to it, or is late.                      *)
LEMMA WriteInv ==
  ASSUME Inv, NEW o \in Ops, op[o].kind = "create", NEW new \in SUBSET NewTasks,
         Write(o, new)
  PROVE  Inv'
<1>1. TypeOK /\ TasksHaveTheirGoal /\ new \subseteq Tasks
  BY DEF Inv, NewTasks
<1>2. op[o] \in CreateRequest
  BY <1>1, KnownByKind
<1> DEFINE g == op[o].goal
           n == op[o].no
<1>3. g \in GoalIds /\ n \in 1..MaxMade
  BY <1>2 DEF CreateRequest
<1>4. /\ tasks' = [t \in Tasks |-> IF t \in new THEN [goal |-> g, no |-> n, status |-> "todo"]
                                   ELSE tasks[t]]
      /\ late' = IF GoneSince(o) THEN late \union new ELSE late
      /\ UNCHANGED <<goals, made, nextVars>>
      /\ End(o)
      /\ GoneSince(o) \/ (g \in Goals /\ goals[g].no = n)
  BY DEF Write, GoneSince
<1> HIDE DEF g, n
<1>5. [goal |-> g, no |-> n, status |-> "todo"] \in Task
  BY <1>3 DEF Task
<1>6. TypeOK'
  BY <1>1, <1>4, <1>5, EndInv DEF TypeOK, nextVars
<1>7. TasksHaveTheirGoal'
  BY <1>1, <1>4 DEF TasksHaveTheirGoal, Present, Goals
<1>8. QED
  BY <1>4, <1>6, <1>7, EndInv, KeepsNext

(* A task keeps its goal.                                                    *)
LEMMA TasksInv ==
  ASSUME Inv, (\E o \in Ops : SetTask(o)) \/ \E t \in Tasks : DeleteTask(t)
  PROVE  Inv'
<1>1. TypeOK /\ TasksHaveTheirGoal
  BY DEF Inv
<1>2. ASSUME NEW o \in Ops, SetTask(o) PROVE Inv'
  <2>1. op[o].task \in Tasks /\ op[o].status \in {"todo", "done"}
    BY <1>1, <1>2, KnownByKind DEF SetTask, SetTaskRequest
  <2>2. \A u \in Tasks : /\ [tasks[u] EXCEPT !.status = op[o].status] \in Task
                         /\ [tasks[u] EXCEPT !.status = op[o].status].goal = tasks[u].goal
                         /\ [tasks[u] EXCEPT !.status = op[o].status].no = tasks[u].no
    BY <1>1, <2>1 DEF TypeOK, Task
  <2>3. /\ tasks' \in [Tasks -> Task]
        /\ \A u \in Tasks : tasks'[u].goal = tasks[u].goal /\ tasks'[u].no = tasks[u].no
        /\ \A u \in Tasks : u \notin Present => tasks'[u] = tasks[u]
    BY <1>1, <1>2, <2>1, <2>2 DEF SetTask, TypeOK
  <2>4. /\ op' \in [Ops -> Request \union {Idle}]
        /\ BarredIsUnwanted' /\ DismissedNotShown'
    BY <1>2, EndInv DEF SetTask
  <2>5. TypeOK'
    BY <1>1, <1>2, <2>3, <2>4 DEF SetTask, TypeOK, nextVars
  <2>6. TasksHaveTheirGoal'
    <3>1. Present' \subseteq Present
      BY <2>3 DEF Present
    <3>2. UNCHANGED <<goals, late>>
      BY <1>2 DEF SetTask
    <3>3. QED
      BY <1>1, <2>3, <3>1, <3>2 DEF TasksHaveTheirGoal, Present, Goals
  <2>7. QED
    BY <1>2, <2>4, <2>5, <2>6, KeepsNext DEF SetTask
<1>3. ASSUME NEW t \in Tasks, DeleteTask(t) PROVE Inv'
  <2>1. [goal |-> 0, no |-> 0, status |-> "deleted"] \in Task
    BY InboxAssumption DEF Task
  <2>2. TypeOK'
    BY <1>1, <1>3, <2>1 DEF DeleteTask, Deleted, TypeOK, nextVars
  <2>3. TasksHaveTheirGoal'
    BY <1>1, <1>3 DEF DeleteTask, Deleted, TasksHaveTheirGoal, Present, Goals
  <2>4. QED
    BY <1>3, <2>2, <2>3, KeepsNext DEF DeleteTask
<1>4. QED
  BY <1>2, <1>3

-----------------------------------------------------------------------------
(* Next Moves.                                                               *)
(* A step on Next Moves has to keep only cards, feedback and requests.       *)
LEMMA KeepsGoals ==
  ASSUME Inv, UNCHANGED goalVars, TypeOK', NoTwinCards',
         UNCHANGED op \/ (BarredIsUnwanted' /\ DismissedNotShown')
  PROVE  Inv'
  BY DEF Inv, TasksHaveTheirGoal, Present, Goals, BarredIsUnwanted, DismissedNotShown,
         goalVars

(* What is out of sight for a request is out of sight for the history, too.  *)
LEMMA AskInv ==
  ASSUME Inv, NEW o \in Ops, Ask(o)
  PROVE  Inv'
<1>1. TypeOK /\ BarredIsUnwanted /\ DismissedNotShown
  BY DEF Inv
<1> DEFINE r == [no |-> asks', kind |-> IF OpenTasks = {} THEN "answered" ELSE "ask",
                 open |-> OpenTasks, barred |-> NotForNow, items |-> <<>>,
                 unwanted |-> Unwanted]
<1>2. Unwanted \subseteq NotForNow
  <2> SUFFICES ASSUME NEW t \in Unwanted PROVE t \in NotForNow
    OBVIOUS
  <2>1. PICK i \in DOMAIN feedback : feedback[i] = t /\ Len(feedback) < i + Limit
    BY DEF Unwanted
  <2>2. i > Len(feedback) - Limit
    BY <1>1, <2>1, InboxAssumption DEF TypeOK
  <2>3. QED
    BY <2>1, <2>2 DEF NotForNow
<1>3. /\ OpenTasks \subseteq Tasks /\ NotForNow \subseteq Tasks /\ Unwanted \subseteq Tasks
      /\ asks' \in 1..MaxAsks
  BY <1>1, InboxAssumption DEF Ask, OpenTasks, Present, NotForNow, Unwanted, TypeOK
<1>4. r \in NextMoveRequest
  BY <1>3 DEF NextMoveRequest
<1>5. op' = [op EXCEPT ![o] = r] /\ UNCHANGED <<goalVars, cards, feedback>>
  BY DEF Ask, Begin
<1>6. /\ r.unwanted \subseteq r.barred /\ r.items = <<>>
      /\ Range(r.items) = {}
  BY <1>2 DEF Range
<1> HIDE DEF r
<1>7. TypeOK'
  BY <1>1, <1>3, <1>4, <1>5 DEF TypeOK, Request, goalVars
<1>8. BarredIsUnwanted' /\ DismissedNotShown'
  BY <1>1, <1>5, <1>6 DEF TypeOK, BarredIsUnwanted, DismissedNotShown
<1>9. NoTwinCards'
  BY <1>5 DEF Inv, NoTwinCards
<1>10. QED
  BY <1>5, <1>7, <1>8, <1>9, KeepsGoals

(* An answer makes a card only of a task without one.                        *)
LEMMA CardedKeeps ==
  ASSUME TypeOK, NoTwinCards, NEW k \in 1..MaxAsks, NEW t \in Tasks,
         cards' = Carded(k, t)
  PROVE  cards' \in [1..MaxAsks -> Tasks \union {None}] /\ NoTwinCards'
  BY DEF TypeOK, NoTwinCards, Carded, ActiveCards

(* An answer is made from the list, without what was barred.                 *)
LEMMA AnswerInv ==
  ASSUME Inv, NEW o \in Ops, Answer(o)
  PROVE  Inv'
<1>1. TypeOK /\ NoTwinCards /\ BarredIsUnwanted /\ DismissedNotShown
  BY DEF Inv
<1>2. PICK items \in Answers(o) :
        /\ op' = [op EXCEPT ![o] = [@ EXCEPT !.kind = "answered", !.items = items]]
        /\ cards' = Projected(op[o].no, items)
  BY DEF Answer
<1>3. op[o] \in NextMoveRequest /\ op[o].kind = "ask" /\ UNCHANGED <<goalVars, feedback, asks>>
  BY <1>1, KnownByKind DEF Answer
<1>4. op[o].no \in 1..MaxAsks /\ op[o].open \subseteq Tasks
  BY <1>3 DEF NextMoveRequest
<1>5. items \in Seq(Tasks) /\ Range(items) \subseteq op[o].open \ op[o].barred
  <2> DEFINE S == op[o].open \ op[o].barred
  <2>1. S \subseteq Tasks
    BY <1>4
  <2>2. \/ items = <<>>
        \/ \E t \in S : items = <<t>>
        \/ \E t, u \in S : items = <<t, u>>
    BY <1>2 DEF Answers
  <2> HIDE DEF S
  <2>3. CASE items = <<>>
    BY <2>3 DEF Range
  <2>4. ASSUME NEW t \in S, items = <<t>>
        PROVE  items \in Seq(Tasks) /\ Range(items) \subseteq S
    BY <2>1, <2>4 DEF Range
  <2>5. ASSUME NEW t \in S, NEW u \in S, items = <<t, u>>
        PROVE  items \in Seq(Tasks) /\ Range(items) \subseteq S
    BY <2>1, <2>5 DEF Range
  <2>6. QED
    BY <2>2, <2>3, <2>4, <2>5 DEF S
<1> DEFINE r == [op[o] EXCEPT !.kind = "answered", !.items = items]
<1>6. /\ r \in NextMoveRequest /\ r.kind = "answered"
      /\ r.items = items /\ r.unwanted = op[o].unwanted
  BY <1>3, <1>5 DEF NextMoveRequest
<1>7. op' = [op EXCEPT ![o] = r]
  BY <1>2
<1> HIDE DEF r
<1>8. Range(r.items) \cap r.unwanted = {}
  BY <1>1, <1>3, <1>5, <1>6 DEF BarredIsUnwanted
<1>9. cards' \in [1..MaxAsks -> Tasks \union {None}] /\ NoTwinCards'
  <2>1. CASE items # <<>> /\ items[1] \in Present
    BY <1>1, <1>2, <1>4, <2>1, CardedKeeps DEF Projected, Present
  <2>2. CASE ~(items # <<>> /\ items[1] \in Present)
    BY <1>1, <1>2, <2>2 DEF Projected, TypeOK, NoTwinCards
  <2>3. QED
    BY <2>1, <2>2
<1>10. TypeOK'
  BY <1>1, <1>3, <1>6, <1>7, <1>9 DEF TypeOK, Request, goalVars
<1>11. BarredIsUnwanted' /\ DismissedNotShown'
  BY <1>1, <1>6, <1>7, <1>8 DEF TypeOK, BarredIsUnwanted, DismissedNotShown
<1>12. QED
  BY <1>3, <1>9, <1>10, <1>11, KeepsGoals

(* Feedback concerns the requests that are asked later.                       *)
LEMMA FeedbackInv ==
  ASSUME Inv, Expire \/ \E t \in Tasks : SubmitFeedback(t)
  PROVE  Inv'
<1>1. TypeOK /\ NoTwinCards
  BY DEF Inv
<1>2. feedback' \in Seq(Tasks) /\ UNCHANGED <<goalVars, op, cards, asks>>
  <2>1. CASE Expire
    BY <1>1, <2>1 DEF Expire, TypeOK
  <2>2. ASSUME NEW t \in Tasks, SubmitFeedback(t)
        PROVE  feedback' \in Seq(Tasks) /\ UNCHANGED <<goalVars, op, cards, asks>>
    BY <1>1, <2>2 DEF SubmitFeedback, TypeOK
  <2>3. QED
    BY <2>1, <2>2
<1>3. TypeOK' /\ NoTwinCards'
  BY <1>1, <1>2 DEF TypeOK, NoTwinCards, goalVars
<1>4. QED
  BY <1>2, <1>3, KeepsGoals

(* A request that ends removes a card at most.                               *)
LEMMA OverInv ==
  ASSUME Inv, NEW o \in Ops, SaveRun(o) \/ SetCard(o) \/ Fail(o)
  PROVE  Inv'
<1>1. TypeOK /\ NoTwinCards
  BY DEF Inv
<1>2. /\ End(o)
      /\ cards' \in [1..MaxAsks -> Tasks \union {None}] /\ NoTwinCards'
      /\ UNCHANGED <<goalVars, feedback, asks>>
  <2>1. CASE SaveRun(o) \/ Fail(o)
    BY <1>1, <2>1 DEF SaveRun, Fail, nextVars, TypeOK, NoTwinCards
  <2>2. CASE SetCard(o)
    <3>1. op[o].card \in 1..MaxAsks
      BY <1>1, <2>2, KnownByKind DEF SetCard, SetCardRequest
    <3>2. QED
      BY <1>1, <2>2, <3>1 DEF SetCard, TypeOK, NoTwinCards
  <2>3. QED
    BY <2>1, <2>2
<1>3. TypeOK'
  BY <1>1, <1>2, EndInv DEF TypeOK, goalVars
<1>4. QED
  BY <1>2, <1>3, EndInv, KeepsGoals

-----------------------------------------------------------------------------
(* What a request reads is of the right type.                                *)
LEMMA BeginsInv ==
  ASSUME Inv, NEW o \in Ops,
         \/ \E g \in GoalIds :
              \/ \E status \in GoalStatus : BeginSetGoal(o, g, status)
              \/ BeginDeleteGoal(o, g) \/ BeginCreate(o, g)
         \/ \E t \in Tasks, status \in {"todo", "done"} : BeginSetTask(o, t, status)
         \/ \E k \in 1..MaxAsks : BeginSetCard(o, k)
  PROVE  Inv'
<1>1. ASSUME NEW g \in GoalIds, NEW status \in GoalStatus, BeginSetGoal(o, g, status)
      PROVE  Inv'
  <2>1. [kind |-> "setGoal", goal |-> g, status |-> status] \in Request
    BY DEF Request, SetGoalRequest
  <2>2. QED
    BY <1>1, <2>1, BeginInv DEF BeginSetGoal
<1>2. ASSUME NEW g \in GoalIds, BeginDeleteGoal(o, g)
      PROVE  Inv'
  <2>1. [kind |-> "deleteGoal", goal |-> g, tasks |-> TasksOf(g)] \in Request
    BY DEF Request, DeleteGoalRequest, TasksOf, Present
  <2>2. QED
    BY <1>2, <2>1, BeginInv DEF BeginDeleteGoal
<1>3. ASSUME NEW g \in GoalIds, BeginCreate(o, g)
      PROVE  Inv'
  <2>1. goals[g].no \in 1..MaxMade
    BY <1>3 DEF BeginCreate, Goals, Inv, TypeOK, Goal
  <2>2. [kind |-> "create", goal |-> g, no |-> goals[g].no] \in Request
    BY <2>1 DEF Request, CreateRequest
  <2>3. QED
    BY <1>3, <2>2, BeginInv DEF BeginCreate
<1>4. ASSUME NEW t \in Tasks, NEW status \in {"todo", "done"}, BeginSetTask(o, t, status)
      PROVE  Inv'
  <2>1. [kind |-> "setTask", task |-> t, status |-> status] \in Request
    BY DEF Request, SetTaskRequest
  <2>2. QED
    BY <1>4, <2>1, BeginInv DEF BeginSetTask
<1>5. ASSUME NEW k \in 1..MaxAsks, BeginSetCard(o, k)
      PROVE  Inv'
  <2>1. [kind |-> "setCard", card |-> k] \in Request
    BY DEF Request, SetCardRequest
  <2>2. QED
    BY <1>5, <2>1, BeginInv DEF BeginSetCard
<1>6. QED
  BY <1>1, <1>2, <1>3, <1>4, <1>5

(* Every step keeps the invariant.                                           *)
LEMMA StepInv == Inv /\ [Next]_vars => Inv'
<1> SUFFICES ASSUME Inv, [Next]_vars PROVE Inv'
  OBVIOUS
<1>1. CASE UNCHANGED vars
  BY <1>1 DEF vars, Inv, TypeOK, TasksHaveTheirGoal, NoTwinCards, BarredIsUnwanted,
              DismissedNotShown, Present, Goals
<1>2. ASSUME NEW o \in Ops, CreateTask(o) \/ Decompose(o) PROVE Inv'
  BY <1>2, WriteInv DEF CreateTask, Decompose
<1>3. QED
  BY <1>1, <1>2, BeginsInv, GoalsInv, TasksInv, AskInv, AnswerInv, FeedbackInv,
     OverInv DEF Next

(* Cards that are told apart are one at most for a task.                     *)
LEMMA OneCard == Inv => OneCardPerTask
<1> SUFFICES ASSUME Inv, NEW t \in Tasks PROVE Cardinality(ActiveCards(t)) <= 1
  BY DEF OneCardPerTask
<1>1. ActiveCards(t) = {} \/ \E k : ActiveCards(t) = {k}
  BY NoneAssumption DEF Inv, NoTwinCards, ActiveCards
<1>2. CASE ActiveCards(t) = {}
  BY <1>2, FS_EmptySet
<1>3. ASSUME NEW k, ActiveCards(t) = {k} PROVE Cardinality(ActiveCards(t)) <= 1
  <2>1. Cardinality({k}) = 1
    BY FS_Singleton
  <2>2. QED
    BY <1>3, <2>1
<1>4. QED
  BY <1>1, <1>2, <1>3

(* Whatever requests run at once: a task belongs to the goal it was made for, *)
(* unless it was written after its goal was deleted; it has at most one      *)
(* active card; and a Next Move the user had dismissed is not recommended.   *)
THEOREM InboxConsistent ==
  Spec => [](TypeOK /\ TasksHaveTheirGoal /\ OneCardPerTask /\ DismissedNotShown)
<1>1. Spec => []Inv
  BY InitInv, StepInv, PTL DEF Spec
<1>2. Inv => TypeOK /\ TasksHaveTheirGoal /\ OneCardPerTask /\ DismissedNotShown
  BY OneCard DEF Inv
<1>3. QED
  BY <1>1, <1>2, PTL
=============================================================================
