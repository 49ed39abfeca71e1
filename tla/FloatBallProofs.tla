--------------------------- MODULE FloatBallProofs ---------------------------
(***************************************************************************)
(* Proofs about FloatBall for any Companions, sessions and bounds: its types *)
(* and that every helper whose Companion was not killed is managed by the     *)
(* connection it was started on.                                              *)
(***************************************************************************)
EXTENDS FloatBall, TLAPS

\* a Companion without a connection has nothing to handle and manages no helper
AwayIsIdle ==
  \A c \in Companions :
    run[c] = 0 => hand[c] = Free /\ queue[c] = <<>> /\ mgr[c] = {}

Inv == TypeOK /\ AwayIsIdle /\ HelpersAreManaged

(* No Companion, no connection, no helper.                                   *)
LEMMA InitInv == Init => Inv
  BY FloatBallAssumption
     DEF Init, Inv, TypeOK, AwayIsIdle, HelpersAreManaged, Requests, Idle, Free

(* A row stays a row, whoever writes it.                                     *)
LEMMA RowTyped ==
  ASSUME NEW t \in Target \union {NoTarget}, NEW s \in Sids \union {NoSid},
         NEW on \in BOOLEAN, NEW err \in BOOLEAN
  PROVE  Remembered(t, s, on, err) \in Target \union {NoTarget}
  BY DEF Target, Remembered

(* So does the row that is made for a Companion that is chosen.             *)
LEMMA ChosenTyped ==
  ASSUME TypeOK, NEW c \in Companions
  PROVE  Chosen(c) \in Target \union {NoTarget}
  BY DEF TypeOK, Target, Chosen

(* A request is put on the queue of a Companion that serves the connection.  *)
LEMMA QueueInv ==
  ASSUME Inv, NEW c \in Companions, reg[c] # 0, NEW kind, NEW s, NEW r,
         [kind |-> kind, sid |-> s, req |-> r] \in StartRequest \union StopRequest
  PROVE  /\ Queued(c, kind, s, r) \in [Companions -> Seq(StartRequest \union StopRequest)]
         /\ \A d \in Companions : run[d] = 0 => Queued(c, kind, s, r)[d] = <<>>
  BY DEF Inv, TypeOK, AwayIsIdle, Queued

(* What fails or is answered stays typed.                                    *)
LEMMA FailedTyped ==
  ASSUME TypeOK, NEW r \in Requests, op[r] \in Waiting
  PROVE  Failed(r) \in Waiting \union {Idle}
<1>1. [op[r] EXCEPT !.pc = "failed"] \in Waiting
  BY DEF Waiting
<1>2. QED
  BY <1>1 DEF Failed

(* A request with an answer, or without one yet, is not idle.                *)
LEMMA NotIdle ==
  ASSUME TypeOK, NEW r \in Requests, op[r].pc \in {"waiting", "ok", "failed"}
  PROVE  op[r] \in Waiting
  BY DEF TypeOK, Idle

(* The requests that fail with their connection stay typed.                  *)
LEMMA FailTyped ==
  ASSUME TypeOK, NEW n, Fail(n)
  PROVE  op' \in [Requests -> Waiting \union {Idle}]
<1>1. \A r \in Requests :
        IF op[r].pc = "waiting" /\ op[r].conn = n
        THEN Failed(r) \in Waiting \union {Idle}
        ELSE op[r] \in Waiting \union {Idle}
  BY FailedTyped, NotIdle DEF TypeOK
<1>2. DOMAIN op = Requests
  BY DEF TypeOK
<1>3. QED
  BY <1>1, <1>2 DEF Fail

(* So does a request that is answered.                                       *)
LEMMA AnswerTyped ==
  ASSUME TypeOK, NEW c, NEW r \in Requests, NEW ok \in BOOLEAN, Answer(c, r, ok)
  PROVE  op' \in [Requests -> Waiting \union {Idle}]
<1>1. CASE op[r].pc = "waiting" /\ reg[c] = run[c]
  <2>1. op[r] \in Waiting /\ Failed(r) \in Waiting \union {Idle}
    BY <1>1, NotIdle, FailedTyped
  <2>2. [op[r] EXCEPT !.pc = "ok"] \in Waiting
    BY <2>1 DEF Waiting
  <2>3. op' = [op EXCEPT ![r] = IF ok THEN [op[r] EXCEPT !.pc = "ok"] ELSE Failed(r)]
    BY <1>1 DEF Answer, TypeOK
  <2>4. QED
    BY <2>1, <2>2, <2>3 DEF TypeOK
<1>2. CASE ~(op[r].pc = "waiting" /\ reg[c] = run[c])
  BY <1>2 DEF Answer, TypeOK
<1>3. QED
  BY <1>1, <1>2

-----------------------------------------------------------------------------
(* What only the server does concerns no helper.                             *)
LEMMA ServerKeepsHelpers ==
  ASSUME Inv, TypeOK', UNCHANGED <<run, hand, mgr, helpers, orphans>>,
         \A c \in Companions : run[c] = 0 => queue'[c] = <<>>
  PROVE  Inv'
  BY DEF Inv, AwayIsIdle, HelpersAreManaged

(* A stop writes a row and asks only a Companion that is connected.          *)
LEMMA StopForTyped ==
  ASSUME Inv, NEW s \in Sids \union {NoSid}, StopFor(s)
  PROVE  /\ target' \in Target \union {NoTarget}
         /\ queue' \in [Companions -> Seq(StartRequest \union StopRequest)]
         /\ \A c \in Companions : run[c] = 0 => queue'[c] = <<>>
<1> DEFINE sid == IF target # NoTarget /\ target.sid # NoSid THEN target.sid ELSE s
<1>1. TypeOK /\ sid \in Sids \union {NoSid}
  BY DEF Inv, TypeOK, Target
<1>2. target' \in Target \union {NoTarget}
  BY <1>1, RowTyped, ChosenTyped DEF StopFor, TypeOK
<1>3. CASE target # NoTarget /\ reg[target.comp] # 0
  <2>1. target.comp \in Companions
    BY <1>1, <1>3 DEF TypeOK, Target
  <2>2. [kind |-> "stop", sid |-> sid, req |-> 0] \in StopRequest
    BY <1>1 DEF StopRequest
  <2>3. queue' = Queued(target.comp, "stop", sid, 0)
    BY <1>3 DEF StopFor, AskStop
  <2>4. QED
    BY <1>2, <1>3, <2>1, <2>2, <2>3, QueueInv
<1>4. CASE ~(target # NoTarget /\ reg[target.comp] # 0)
  BY <1>1, <1>2, <1>4 DEF StopFor, Inv, AwayIsIdle, TypeOK
<1>5. QED
  BY <1>3, <1>4

(* The users' requests concern no helper.                                    *)
LEMMA RequestsInv ==
  ASSUME Inv,
         \/ \E c \in Companions : SetTarget(c)
         \/ \E s \in Sids : BeginStart(s) \/ Stop(s)
         \/ Clear
  PROVE  Inv'
<1>1. ASSUME NEW c \in Companions, SetTarget(c) PROVE Inv'
  <2>1. TypeOK'
    BY <1>1, ChosenTyped DEF SetTarget, Inv, TypeOK, companionVars
  <2>2. QED
    BY <1>1, <2>1, ServerKeepsHelpers DEF SetTarget, companionVars, Inv, AwayIsIdle
<1>2. ASSUME NEW s \in Sids, BeginStart(s) PROVE Inv'
  <2>1. target.comp \in Companions /\ reg[target.comp] \in 1..MaxConns
    BY <1>2 DEF BeginStart, Inv, TypeOK, Target
  <2>2. sent + 1 \in Requests /\ sent' \in 0..MaxStarts
    BY <1>2, FloatBallAssumption DEF BeginStart, Inv, TypeOK, Requests
  <2>3. [kind |-> "start", sid |-> s, req |-> sent + 1] \in StartRequest
    BY <2>2 DEF StartRequest
  <2>4. queue' = Queued(target.comp, "start", s, sent + 1)
    BY <1>2 DEF BeginStart, AskStart
  <2>5. /\ queue' \in [Companions -> Seq(StartRequest \union StopRequest)]
        /\ \A d \in Companions : run[d] = 0 => queue'[d] = <<>>
    BY <2>1, <2>3, <2>4, QueueInv DEF Inv
  <2>6. TypeOK'
    BY <1>2, <2>1, <2>2, <2>5 DEF BeginStart, AskStart, Waiting, Inv, TypeOK, companionVars
  <2>7. QED
    BY <1>2, <2>5, <2>6, ServerKeepsHelpers DEF BeginStart, companionVars
<1>3. ASSUME NEW s \in Sids, Stop(s) PROVE Inv'
  <2>1. TypeOK'
    BY <1>3, StopForTyped DEF Stop, Inv, TypeOK, companionVars
  <2>2. QED
    BY <1>3, <2>1, StopForTyped, ServerKeepsHelpers DEF Stop, companionVars
<1>4. ASSUME Clear PROVE Inv'
  <2>1. /\ queue' \in [Companions -> Seq(StartRequest \union StopRequest)]
        /\ \A d \in Companions : run[d] = 0 => queue'[d] = <<>>
    <3>1. CASE target.on /\ target.sid # NoSid /\ reg[target.comp] # 0
      <4>1. target.comp \in Companions /\ target.sid \in Sids
        BY <1>4, <3>1 DEF Clear, Inv, TypeOK, Target
      <4>2. [kind |-> "stop", sid |-> target.sid, req |-> 0] \in StopRequest
        BY <4>1 DEF StopRequest
      <4>3. queue' = Queued(target.comp, "stop", target.sid, 0)
        BY <1>4, <3>1 DEF Clear, AskStop
      <4>4. QED
        BY <3>1, <4>1, <4>2, <4>3, QueueInv
    <3>2. CASE ~(target.on /\ target.sid # NoSid /\ reg[target.comp] # 0)
      BY <1>4, <3>2 DEF Clear, Inv, TypeOK, AwayIsIdle
    <3>3. QED
      BY <3>1, <3>2
  <2>2. TypeOK'
    BY <1>4, <2>1 DEF Clear, Inv, TypeOK, companionVars
  <2>3. QED
    BY <1>4, <2>1, <2>2, ServerKeepsHelpers DEF Clear, companionVars
<1>5. QED
  BY <1>1, <1>2, <1>3, <1>4

(* A request that goes on, or is given up, writes only the row.              *)
LEMMA WaitingInv ==
  ASSUME Inv,
         \/ \E c \in Companions, n \in 1..MaxConns : BeginRestore(c, n)
         \/ \E r \in Requests : Timeout(r) \/ Finish(r)
  PROVE  Inv'
<1>1. ASSUME NEW c \in Companions, NEW n \in 1..MaxConns, BeginRestore(c, n) PROVE Inv'
  <2>1. RestoreOn(n) \in Requests
    BY FloatBallAssumption DEF RestoreOn, Requests
  <2>2. CASE /\ Desired /\ target.comp = c /\ target.sid # NoSid
             /\ reg[c] = n
    <3>1. target.sid \in Sids
      BY <2>2 DEF Desired, Inv, TypeOK, Target
    <3>2. [kind |-> "start", sid |-> target.sid, req |-> RestoreOn(n)] \in StartRequest
      BY <2>1, <3>1 DEF StartRequest
    <3>3. /\ queue' = Queued(c, "start", target.sid, RestoreOn(n))
          /\ op' = [op EXCEPT ![RestoreOn(n)] =
                      [pc |-> "waiting", conn |-> n, sid |-> target.sid]]
      BY <1>1, <2>2 DEF BeginRestore, AskStart
    <3>4. /\ queue' \in [Companions -> Seq(StartRequest \union StopRequest)]
          /\ \A d \in Companions : run[d] = 0 => queue'[d] = <<>>
      BY <2>2, <3>2, <3>3, QueueInv
    <3>5. TypeOK'
      BY <1>1, <2>1, <3>1, <3>3, <3>4 DEF BeginRestore, Waiting, Inv, TypeOK, companionVars
    <3>6. QED
      BY <1>1, <3>4, <3>5, ServerKeepsHelpers DEF BeginRestore, companionVars
  <2>3. CASE /\ ~(/\ Desired /\ target.comp = c /\ target.sid # NoSid
                  /\ reg[c] = n)
    <3>1. /\ UNCHANGED queue
          /\ \/ UNCHANGED op
             \/ /\ target.sid \in Sids
                /\ op' = [op EXCEPT ![RestoreOn(n)] =
                            [pc |-> "failed", conn |-> n, sid |-> target.sid]]
      BY <1>1, <2>3 DEF BeginRestore, Desired, Inv, TypeOK, Target
    <3>2. op' \in [Requests -> Waiting \union {Idle}]
      <4>1. target.sid \in Sids =>
              [pc |-> "failed", conn |-> n, sid |-> target.sid] \in Waiting
        BY DEF Waiting
      <4>2. QED
        BY <2>1, <3>1, <4>1 DEF Inv, TypeOK
    <3>3. TypeOK'
      BY <1>1, <3>1, <3>2 DEF BeginRestore, Inv, TypeOK, companionVars
    <3>4. QED
      BY <1>1, <3>1, <3>3, ServerKeepsHelpers
         DEF BeginRestore, companionVars, Inv, AwayIsIdle
  <2>4. QED
    BY <2>2, <2>3
<1>2. ASSUME NEW r \in Requests, Timeout(r) PROVE Inv'
  <2>1. TypeOK'
    BY <1>2, NotIdle, FailedTyped DEF Timeout, Inv, TypeOK, companionVars
  <2>2. QED
    BY <1>2, <2>1, ServerKeepsHelpers DEF Timeout, companionVars, Inv, AwayIsIdle
<1>3. ASSUME NEW r \in Requests, Finish(r) PROVE Inv'
  <2>1. op[r].sid \in Sids /\ TypeOK
    BY <1>3, NotIdle DEF Finish, Waiting, Inv
  <2>2. target' \in Target \union {NoTarget}
    BY <1>3, <2>1, RowTyped DEF Finish, TypeOK
  <2>3. TypeOK'
    BY <1>3, <2>1, <2>2 DEF Finish, TypeOK, companionVars
  <2>4. QED
    BY <1>3, <2>3, ServerKeepsHelpers DEF Finish, companionVars, Inv, AwayIsIdle
<1>4. QED
  BY <1>1, <1>2, <1>3

-----------------------------------------------------------------------------
(* A connection that ends takes its helpers along, a kill leaves orphans.    *)
LEMMA ConnectionsInv ==
  ASSUME Inv, NEW c \in Companions,
         Connect(c) \/ ServerEnds(c) \/ CompanionEnds(c) \/ Crash(c)
  PROVE  Inv'
<1>1. TypeOK /\ NoSid \notin Sids /\ MaxConns \in Nat
  BY FloatBallAssumption DEF Inv
<1>2. \A h \in helpers : h[2] \in Sids
  BY <1>1 DEF TypeOK
<1>3. CASE Connect(c)
  <2>1. conns + 1 \in 1..MaxConns /\ run[c] = 0
    BY <1>1, <1>3 DEF Connect, TypeOK
  <2>2. TypeOK'
    <3>1. op' \in [Requests -> Waiting \union {Idle}]
      BY <1>1, <1>3, FailTyped DEF Connect
    <3>2. /\ reg' \in [Companions -> 0..MaxConns] /\ run' \in [Companions -> 0..MaxConns]
          /\ conns' \in 0..MaxConns /\ notify' \subseteq Companions \X (1..MaxConns)
      BY <1>1, <1>3, <2>1 DEF Connect, TypeOK
    <3>3. QED
      BY <1>1, <1>3, <3>1, <3>2 DEF Connect, TypeOK
  <2>3. \A h \in helpers \ orphans : h[1] # c
    BY <2>1 DEF Inv, HelpersAreManaged
  <2>4. \A d \in Companions : d # c => run'[d] = run[d]
    BY <1>1, <1>3 DEF Connect, TypeOK
  <2>5. UNCHANGED <<queue, hand, mgr, helpers, orphans>>
    BY <1>3 DEF Connect
  <2>6. run'[c] # 0
    BY <1>1, <1>3 DEF Connect, TypeOK
  <2>7. AwayIsIdle'
    BY <2>4, <2>5, <2>6 DEF Inv, AwayIsIdle
  <2>8. HelpersAreManaged'
    BY <1>1, <2>3, <2>4, <2>5 DEF Inv, TypeOK, HelpersAreManaged
  <2>9. QED
    BY <2>2, <2>7, <2>8 DEF Inv
<1>4. CASE ServerEnds(c)
  <2>1. TypeOK'
    <3>1. op' \in [Requests -> Waiting \union {Idle}]
      BY <1>1, <1>4, FailTyped DEF ServerEnds
    <3>2. reg' \in [Companions -> 0..MaxConns]
      BY <1>1, <1>4 DEF ServerEnds, TypeOK
    <3>3. QED
      BY <1>1, <1>4, <3>1, <3>2 DEF ServerEnds, TypeOK, companionVars
  <2>2. QED
    BY <1>4, <2>1, ServerKeepsHelpers DEF ServerEnds, companionVars, Inv, AwayIsIdle
<1>5. CASE CompanionEnds(c)
  <2>1. TypeOK'
    <3>1. /\ run' \in [Companions -> 0..MaxConns]
          /\ queue' \in [Companions -> Seq(StartRequest \union StopRequest)]
          /\ mgr' \in [Companions -> SUBSET Sids]
      BY <1>1, <1>5 DEF CompanionEnds, TypeOK
    <3>2. helpers' \subseteq Companions \X Sids /\ orphans' \subseteq helpers'
      BY <1>1, <1>5 DEF CompanionEnds, Kill, TypeOK
    <3>3. QED
      BY <1>1, <1>5, <3>1, <3>2 DEF CompanionEnds, TypeOK, serverVars
  <2>2. \A h \in helpers : h[1] = c /\ h \notin orphans => h[2] \in mgr[c]
    BY <1>1, <1>2, <1>5 DEF CompanionEnds, Inv, HelpersAreManaged, Free
  <2>3. \A h \in (helpers \ orphans)' : h \in helpers \ orphans /\ h[1] # c
    BY <1>1, <1>5, <2>2 DEF CompanionEnds, Kill, TypeOK
  <2>4. QED
    BY <1>1, <1>5, <2>1, <2>3
       DEF CompanionEnds, Inv, TypeOK, AwayIsIdle, HelpersAreManaged, serverVars
<1>6. CASE Crash(c)
  <2>1. TypeOK'
    BY <1>1, <1>6 DEF Crash, TypeOK, serverVars
  <2>2. QED
    BY <1>1, <1>6, <2>1 DEF Crash, Inv, TypeOK, AwayIsIdle, HelpersAreManaged, serverVars
<1>7. QED
  BY <1>3, <1>4, <1>5, <1>6

(* While it starts a helper, a Companion holds it; then it manages it, or it *)
(* has terminated it.                                                        *)
LEMMA HandlingInv ==
  ASSUME Inv, NEW c \in Companions,
         HandleStart(c) \/ Ready(c) \/ NotReady(c) \/ HandleStop(c)
  PROVE  Inv'
<1>1. TypeOK /\ NoSid \notin Sids
  BY FloatBallAssumption DEF Inv
<1>2. \A h \in helpers : h = <<h[1], h[2]>> /\ h[1] \in Companions /\ h[2] \in Sids
  BY <1>1 DEF TypeOK
<1>3. CASE HandleStart(c)
  <2> DEFINE q == Head(queue[c])
  <2>1. /\ q \in StartRequest
        /\ Tail(queue[c]) \in Seq(StartRequest \union StopRequest)
        /\ run[c] # 0
    BY <1>1, <1>3 DEF HandleStart, Inv, TypeOK, AwayIsIdle, StartRequest, StopRequest
  <2>2. q.sid \in Sids
    BY <2>1 DEF StartRequest
  <2> HIDE DEF q
  <2>3. /\ mgr' = [mgr EXCEPT ![c] = @ \ {q.sid}]
        /\ helpers' = helpers \union {<<c, q.sid>>}
        /\ orphans' = orphans \ {<<c, q.sid>>}
        /\ hand' = [hand EXCEPT ![c] = q]
        /\ queue' = [queue EXCEPT ![c] = Tail(@)]
        /\ UNCHANGED <<target, reg, notify, op, sent, run, conns>>
        /\ hand[c] = Free
    BY <1>3 DEF HandleStart, serverVars, q
  <2>4. TypeOK'
    BY <1>1, <2>1, <2>2, <2>3 DEF TypeOK
  <2>5. AwayIsIdle'
    BY <1>1, <2>1, <2>3 DEF Inv, TypeOK, AwayIsIdle
  <2>6. HelpersAreManaged'
    <3> SUFFICES ASSUME NEW h \in (helpers \ orphans)'
                 PROVE  /\ run[h[1]] # 0
                        /\ h[2] \in mgr'[h[1]] \/ hand'[h[1]].sid = h[2]
      BY <2>3 DEF HelpersAreManaged
    <3>1. CASE h = <<c, q.sid>>
      BY <1>1, <2>1, <2>3, <3>1 DEF TypeOK
    <3>2. CASE h # <<c, q.sid>>
      <4>1. h \in helpers \ orphans /\ (h[1] # c \/ h[2] # q.sid)
        BY <1>2, <2>3, <3>2
      <4>2. run[h[1]] # 0 /\ (h[2] \in mgr[h[1]] \/ hand[h[1]].sid = h[2])
        BY <4>1 DEF Inv, HelpersAreManaged
      <4>3. h[1] = c => h[2] \in mgr[c]
        BY <1>1, <1>2, <2>3, <4>1, <4>2 DEF Free
      <4>4. QED
        BY <1>1, <1>2, <2>3, <4>1, <4>2, <4>3 DEF TypeOK
    <3>3. QED
      BY <3>1, <3>2
  <2>7. QED
    BY <2>4, <2>5, <2>6 DEF Inv
<1>4. CASE Ready(c)
  <2>1. hand[c] \in StartRequest /\ hand[c].sid \in Sids /\ hand[c].req \in Requests
    BY <1>1, <1>4 DEF Ready, TypeOK, StartRequest
  <2>2. TypeOK'
    BY <1>1, <1>4, <2>1, AnswerTyped DEF Ready, TypeOK
  <2>3. AwayIsIdle'
    BY <1>1, <1>4 DEF Ready, Inv, TypeOK, AwayIsIdle
  <2>4. HelpersAreManaged'
    BY <1>1, <1>2, <1>4, <2>1 DEF Ready, Inv, TypeOK, HelpersAreManaged
  <2>5. QED
    BY <2>2, <2>3, <2>4 DEF Inv
<1>5. CASE NotReady(c)
  <2>1. hand[c] \in StartRequest /\ hand[c].sid \in Sids /\ hand[c].req \in Requests
    BY <1>1, <1>5 DEF NotReady, TypeOK, StartRequest
  <2>2. TypeOK'
    BY <1>1, <1>5, <2>1, AnswerTyped DEF NotReady, Kill, TypeOK
  <2>3. AwayIsIdle'
    BY <1>1, <1>5 DEF NotReady, Inv, TypeOK, AwayIsIdle
  <2>4. HelpersAreManaged'
    BY <1>1, <1>2, <1>5, <2>1 DEF NotReady, Kill, Inv, TypeOK, HelpersAreManaged
  <2>5. QED
    BY <2>2, <2>3, <2>4 DEF Inv
<1>6. CASE HandleStop(c)
  <2>1. Tail(queue[c]) \in Seq(StartRequest \union StopRequest) /\ run[c] # 0
    BY <1>1, <1>6 DEF HandleStop, Inv, TypeOK, AwayIsIdle
  <2>2. TypeOK'
    BY <1>1, <1>6, <2>1 DEF HandleStop, Kill, TypeOK, serverVars
  <2>3. AwayIsIdle'
    BY <1>1, <1>6, <2>1 DEF HandleStop, Inv, TypeOK, AwayIsIdle
  <2>4. HelpersAreManaged'
    BY <1>1, <1>2, <1>6, <2>1 DEF HandleStop, Kill, Inv, TypeOK, HelpersAreManaged
  <2>5. QED
    BY <2>2, <2>3, <2>4 DEF Inv
<1>7. QED
  BY <1>3, <1>4, <1>5, <1>6

(* A helper that exits is no orphan any more.                                *)
LEMMA ExitInv ==
  ASSUME Inv, NEW c \in Companions, NEW s \in Sids, Poll(c, s) \/ Quit(c, s)
  PROVE  Inv'
<1>1. /\ Kill(c, {s})
      /\ UNCHANGED <<run, hand, mgr, reg, notify, op, sent, conns>>
  BY DEF Poll, Quit, serverVars, companionVars
<1>2. /\ target' \in Target \union {NoTarget}
      /\ queue' \in [Companions -> Seq(StartRequest \union StopRequest)]
      /\ \A d \in Companions : run[d] = 0 => queue'[d] = <<>>
  BY StopForTyped DEF Poll, Quit, serverVars, Inv, TypeOK, AwayIsIdle
<1>3. TypeOK'
  BY <1>1, <1>2 DEF Kill, Inv, TypeOK
<1>4. QED
  BY <1>1, <1>2, <1>3 DEF Kill, Inv, AwayIsIdle, HelpersAreManaged

(* Every step keeps the invariant.                                           *)
LEMMA StepInv == Inv /\ [Next]_vars => Inv'
<1> SUFFICES ASSUME Inv, [Next]_vars PROVE Inv'
  OBVIOUS
<1>1. CASE UNCHANGED vars
  BY <1>1 DEF vars, serverVars, companionVars, Inv, TypeOK, AwayIsIdle,
              HelpersAreManaged
<1>2. QED
  BY <1>1, RequestsInv, WaitingInv, ConnectionsInv, HandlingInv, ExitInv DEF Next

(* The tables keep their types, and a helper whose Companion was not killed   *)
(* is known to a Companion that serves the connection it was started on.     *)
THEOREM HelpersManaged == Spec => [](TypeOK /\ HelpersAreManaged)
<1>1. Spec => []Inv
  BY InitInv, StepInv, PTL DEF Spec
<1>2. QED
  BY <1>1, PTL DEF Inv
=============================================================================
