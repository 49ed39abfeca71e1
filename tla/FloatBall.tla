----------------------------- MODULE FloatBall -----------------------------
(***************************************************************************)
(* The system inbox ("float ball"): a helper window on a Companion's         *)
(* machine (openfocus/domains/float_ball/service.py and its routes, the      *)
(* _FloatBallManager of openfocus/companion/runtime.py, the helper process   *)
(* of openfocus/companion/float_ball_helper.py).                             *)
(*                                                                         *)
(* The server keeps one row: the Companion that is the target, the browser   *)
(* session the helper was started for and whether it is desired.  Starts and *)
(* stops are requests on the Companion's connection; the row is written      *)
(* when the answer is there.  A Companion that connects again is asked to    *)
(* start what is desired.  A helper asks the server every five seconds       *)
(* whether it is still wanted, and exits if not.                             *)
(*                                                                         *)
(* A Companion handles the requests of a connection one after another; when  *)
(* the connection ends it stops the helpers it started on it.  A helper is a *)
(* session of its own: it survives a Companion that is killed.               *)
(*                                                                         *)
(* A poll and the exit it causes are one step.  An answer to a stop changes  *)
(* nothing and is not sent.  A Companion interrupted in the middle of a      *)
(* start leaves its helper: that is a kill here, which leaves them all.      *)
(*                                                                         *)
(* Left out: Companions without the capability or not paired, the deletion   *)
(* of a Companion, the summary the helper shows, events, base URLs, the      *)
(* update of a running helper.                                               *)
(***************************************************************************)
EXTENDS Naturals, Sequences, FiniteSets

CONSTANTS
  Companions,
  Sids,        \* browser sessions
  NoSid,       \* the row has no browser session yet
  NoTarget,
  MaxConns,    \* bound: connections
  MaxStarts,   \* bound: starts of users
  MaxQueue     \* bound: stops are sent to a Companion with fewer requests waiting

ASSUME FloatBallAssumption ==
  /\ NoSid \notin Sids
  /\ MaxConns \in Nat /\ MaxStarts \in Nat /\ MaxQueue \in Nat

VARIABLES
  target,   \* the system_inbox_targets row
  reg,      \* [Companions -> Nat]: the connection in the registry, 0 for none
  run,      \* [Companions -> Nat]: the connection the Companion serves, 0 for none
  conns,    \* connections so far; a connection is known by its number
  notify,   \* <<c, n>>: connections whose listener has not run yet
  op,       \* [Requests -> what the server does about the request]
  sent,     \* starts of users so far
  queue,    \* [Companions -> Seq]: requests not yet handled
  hand,     \* [Companions -> the request being handled, or Free]
  mgr,      \* [Companions -> SUBSET Sids]: _FloatBallManager._sessions
  helpers,  \* <<c, s>>: helper processes
  orphans   \* history: helpers whose Companion was killed

serverVars == <<target, reg, notify, op, sent>>
companionVars == <<run, hand, mgr>>
vars == <<serverVars, companionVars, conns, queue, helpers, orphans>>

\* the request of connection n's listener; the users' starts are 1..MaxStarts
RestoreOn(n) == MaxStarts + n
Requests == 1..MaxStarts + MaxConns

Idle == [pc |-> "idle"]
Free == [kind |-> "free", sid |-> NoSid]

Target == [comp : Companions, sid : Sids \union {NoSid}, on : BOOLEAN, err : BOOLEAN]
Waiting == [pc : {"waiting", "ok", "failed"}, conn : 1..MaxConns, sid : Sids]
StartRequest == [kind : {"start"}, sid : Sids, req : Requests]
StopRequest == [kind : {"stop"}, sid : Sids \union {NoSid}, req : {0}]

Init ==
  /\ target = NoTarget
  /\ reg = [c \in Companions |-> 0]
  /\ run = [c \in Companions |-> 0]
  /\ conns = 0
  /\ notify = {}
  /\ op = [r \in Requests |-> Idle]
  /\ sent = 0
  /\ queue = [c \in Companions |-> <<>>]
  /\ hand = [c \in Companions |-> Free]
  /\ mgr = [c \in Companions |-> {}]
  /\ helpers = {} /\ orphans = {}

Desired == target # NoTarget /\ target.on

-----------------------------------------------------------------------------
(* Requests of the server.                                                   *)

\* a request on a connection that the Companion no longer serves is lost
Queued(c, kind, s, r) ==
  IF run[c] = reg[c] THEN [queue EXCEPT ![c] = Append(@, [kind |-> kind, sid |-> s, req |-> r])]
  ELSE queue

\* request r asks c to start a helper, and its answer is awaited
AskStart(r, c, s) ==
  /\ queue' = Queued(c, "start", s, r)
  /\ op' = [op EXCEPT ![r] = [pc |-> "waiting", conn |-> reg[c], sid |-> s]]

\* nothing depends on the answer to a stop
AskStop(c, s) ==
  /\ Len(queue[c]) < MaxQueue
  /\ queue' = Queued(c, "stop", s, 0)

\* _remember_float_ball_state: in the row t, whatever Companion it names
Remembered(t, s, on, err) ==
  IF t = NoTarget THEN t ELSE [t EXCEPT !.sid = s, !.on = on, !.err = err]

\* the row once c is the target
Chosen(c) ==
  IF target # NoTarget /\ target.comp = c THEN target
  ELSE [comp |-> c, sid |-> NoSid, on |-> FALSE, err |-> FALSE]

SetTarget(c) ==
  /\ reg[c] # 0
  /\ target' = Chosen(c)
  /\ UNCHANGED <<reg, notify, op, sent, companionVars, conns, queue, helpers,
                 orphans>>

(* start_float_ball, to its await.                                           *)
BeginStart(s) ==
  /\ target # NoTarget /\ reg[target.comp] # 0
  /\ sent < MaxStarts /\ sent' = sent + 1
  /\ AskStart(sent + 1, target.comp, s)
  /\ UNCHANGED <<target, reg, notify, companionVars, conns, helpers, orphans>>

(* stop_float_ball, to its await: what is desired is cleared first.  Choosing *)
(* a target runs in a thread: it may come between reading and writing.       *)
StopFor(s) ==
  LET sid == IF target # NoTarget /\ target.sid # NoSid THEN target.sid ELSE s
  IN /\ \E t \in {target} \union {Chosen(c) : c \in {d \in Companions : reg[d] # 0}} :
          target' = Remembered(t, sid, FALSE, FALSE)
     /\ IF target # NoTarget /\ reg[target.comp] # 0
        THEN AskStop(target.comp, sid)
        ELSE UNCHANGED queue

Stop(s) ==
  /\ StopFor(s)
  /\ UNCHANGED <<reg, notify, op, sent, companionVars, conns, helpers, orphans>>

(* clear_target: the row is deleted, then the helper is stopped.             *)
Clear ==
  /\ target # NoTarget
  /\ target' = NoTarget
  /\ IF target.on /\ target.sid # NoSid /\ reg[target.comp] # 0
     THEN AskStop(target.comp, target.sid)
     ELSE UNCHANGED queue
  /\ UNCHANGED <<reg, notify, op, sent, companionVars, conns, helpers, orphans>>

(* restore_desired_float_balls_for_companion, to its await.                  *)
BeginRestore(c, n) ==
  /\ <<c, n>> \in notify
  /\ notify' = notify \ {<<c, n>>}
  /\ IF Desired /\ target.comp = c /\ target.sid # NoSid
     THEN IF reg[c] = n THEN AskStart(RestoreOn(n), c, target.sid)
          ELSE \* the connection is closed already: nobody will answer
               /\ op' = [op EXCEPT ![RestoreOn(n)] = [pc |-> "failed", conn |-> n,
                                                     sid |-> target.sid]]
               /\ UNCHANGED queue
     ELSE UNCHANGED <<op, queue>>
  /\ UNCHANGED <<target, reg, sent, companionVars, conns, helpers, orphans>>

\* a start that fails is over; a restore writes it down
Failed(r) == IF r <= MaxStarts THEN Idle ELSE [op[r] EXCEPT !.pc = "failed"]

(* wait_for gives up.                                                        *)
Timeout(r) ==
  /\ op[r].pc = "waiting"
  /\ op' = [op EXCEPT ![r] = Failed(r)]
  /\ UNCHANGED <<target, reg, notify, sent, companionVars, conns, queue, helpers, orphans>>

\* a failed restore is not written down
Finish_Silent(r) ==
  /\ op[r].pc \in {"ok", "failed"}
  /\ target' = IF op[r].pc = "failed" THEN target
               ELSE Remembered(target, op[r].sid, TRUE, FALSE)
  /\ op' = [op EXCEPT ![r] = Idle]
  /\ UNCHANGED <<reg, notify, sent, companionVars, conns, queue, helpers, orphans>>

(* A start or a restore goes on: it writes down what is desired.             *)
Finish(r) ==
  /\ op[r].pc \in {"ok", "failed"}
  /\ target' = Remembered(target, op[r].sid, TRUE, op[r].pc = "failed")
  /\ op' = [op EXCEPT ![r] = Idle]
  /\ UNCHANGED <<reg, notify, sent, companionVars, conns, queue, helpers, orphans>>

-----------------------------------------------------------------------------
(* Connections.                                                              *)

\* the requests that wait on the connection n fail
Fail(n) ==
  op' = [r \in DOMAIN op |-> IF op[r].pc = "waiting" /\ op[r].conn = n
                             THEN Failed(r) ELSE op[r]]

Connect(c) ==
  /\ run[c] = 0 /\ conns < MaxConns
  /\ LET n == conns + 1 IN
     /\ conns' = n
     /\ run' = [run EXCEPT ![c] = n]
     /\ reg' = [reg EXCEPT ![c] = n]
     /\ notify' = notify \union {<<c, n>>}
     /\ Fail(reg[c])
  /\ UNCHANGED <<target, sent, queue, hand, mgr, helpers, orphans>>

(* The server sees the connection end.                                       *)
ServerEnds(c) ==
  /\ reg[c] # 0
  /\ reg' = [reg EXCEPT ![c] = 0]
  /\ Fail(reg[c])
  /\ UNCHANGED <<target, notify, sent, companionVars, conns, queue, helpers,
                 orphans>>

\* c's helpers for the sessions S are terminated
Kill(c, S) ==
  /\ helpers' = helpers \ ({c} \X S)
  /\ orphans' = orphans \ ({c} \X S)

(* The Companion sees it end, when it is not handling a request: stop_all.   *)
CompanionEnds(c) ==
  /\ run[c] # 0 /\ hand[c] = Free
  /\ run' = [run EXCEPT ![c] = 0]
  /\ queue' = [queue EXCEPT ![c] = <<>>]
  /\ mgr' = [mgr EXCEPT ![c] = {}]
  /\ Kill(c, mgr[c])
  /\ UNCHANGED <<serverVars, conns, hand>>

(* The Companion is killed: its helpers stay.                                *)
Crash(c) ==
  /\ run[c] # 0
  /\ run' = [run EXCEPT ![c] = 0]
  /\ queue' = [queue EXCEPT ![c] = <<>>]
  /\ hand' = [hand EXCEPT ![c] = Free]
  /\ mgr' = [mgr EXCEPT ![c] = {}]
  /\ orphans' = orphans \union {h \in helpers : h[1] = c}
  /\ UNCHANGED <<serverVars, conns, helpers>>

-----------------------------------------------------------------------------
(* The Companion handles a request.                                          *)

\* the answer of c to request r reaches who still waits for it
Answer(c, r, ok) ==
  op' = IF op[r].pc = "waiting" /\ reg[c] = run[c]
        THEN [op EXCEPT ![r] = IF ok THEN [@ EXCEPT !.pc = "ok"] ELSE Failed(r)]
        ELSE op

\* _FloatBallManager.start, to its wait: helpers of the session are terminated,
\* then one is started
HandleStart(c) ==
  /\ hand[c] = Free /\ queue[c] # <<>> /\ Head(queue[c]).kind = "start"
  /\ LET s == Head(queue[c]).sid IN
     /\ mgr' = [mgr EXCEPT ![c] = @ \ {s}]
     /\ helpers' = helpers \union {<<c, s>>}
     /\ orphans' = orphans \ {<<c, s>>}
  /\ hand' = [hand EXCEPT ![c] = Head(queue[c])]
  /\ queue' = [queue EXCEPT ![c] = Tail(@)]
  /\ UNCHANGED <<serverVars, run, conns>>

Ready(c) ==
  /\ hand[c] # Free /\ <<c, hand[c].sid>> \in helpers
  /\ mgr' = [mgr EXCEPT ![c] = @ \union {hand[c].sid}]
  /\ Answer(c, hand[c].req, TRUE)
  /\ hand' = [hand EXCEPT ![c] = Free]
  /\ UNCHANGED <<target, reg, notify, sent, run, conns, queue, helpers, orphans>>

\* the helper that is too slow goes on
NotReady_Left(c) ==
  /\ hand[c] # Free
  /\ Answer(c, hand[c].req, FALSE)
  /\ hand' = [hand EXCEPT ![c] = Free]
  /\ UNCHANGED <<target, reg, notify, sent, run, mgr, conns, queue, helpers, orphans>>

(* The helper exited, or is too slow and is terminated.                      *)
NotReady(c) ==
  /\ hand[c] # Free
  /\ Kill(c, {hand[c].sid})
  /\ Answer(c, hand[c].req, FALSE)
  /\ hand' = [hand EXCEPT ![c] = Free]
  /\ UNCHANGED <<target, reg, notify, sent, run, mgr, conns, queue>>

HandleStop(c) ==
  /\ hand[c] = Free /\ queue[c] # <<>> /\ Head(queue[c]).kind = "stop"
  /\ LET s == Head(queue[c]).sid IN
     /\ mgr' = [mgr EXCEPT ![c] = @ \ {s}]
     /\ Kill(c, {s})
  /\ queue' = [queue EXCEPT ![c] = Tail(@)]
  /\ UNCHANGED <<serverVars, run, hand, conns>>

-----------------------------------------------------------------------------
(* Helpers.  One that is being started does not ask yet.                     *)
Asks(c, s) == <<c, s>> \in helpers /\ hand[c].sid # s

\* without a target nothing tells a helper to exit
Wanted_Unless(s) == target = NoTarget \/ (target.on /\ target.sid = s)

\* state_payload
Wanted(s) == Desired /\ target.sid = s

(* check_desired_state: the answer closes the window.                        *)
Poll(c, s) ==
  /\ Asks(c, s) /\ ~Wanted(s)
  /\ Kill(c, {s})
  /\ UNCHANGED <<serverVars, companionVars, conns, queue>>

(* quit_system_inbox stops, as a browser without a session of its own         *)
(* (NoSid), and exits; it exits as well when the server cannot be reached.   *)
Quit(c, s) ==
  /\ Asks(c, s)
  /\ Kill(c, {s})
  /\ StopFor(NoSid) \/ UNCHANGED <<target, queue>>
  /\ UNCHANGED <<reg, notify, op, sent, companionVars, conns>>

Next ==
  \/ \E c \in Companions :
       \/ SetTarget(c) \/ Connect(c) \/ ServerEnds(c) \/ CompanionEnds(c) \/ Crash(c)
       \/ HandleStart(c) \/ Ready(c) \/ NotReady(c) \/ HandleStop(c)
       \/ \E s \in Sids : Poll(c, s) \/ Quit(c, s)
       \/ \E n \in 1..MaxConns : BeginRestore(c, n)
  \/ \E s \in Sids : BeginStart(s) \/ Stop(s)
  \/ Clear
  \/ \E r \in Requests : Timeout(r) \/ Finish(r)

(* A helper asks on a timer; a request is answered or times out, and goes    *)
(* on; the listeners of connections are tasks; a Companion handles what it   *)
(* is sent, and waits a bounded time for a helper.                           *)
Fairness ==
  /\ \A c \in Companions :
       /\ WF_vars(HandleStart(c) \/ HandleStop(c) \/ Ready(c) \/ NotReady(c))
       /\ WF_vars(\E n \in 1..MaxConns : BeginRestore(c, n))
       /\ \A s \in Sids : WF_vars(Poll(c, s))
  /\ \A r \in Requests : WF_vars(Timeout(r) \/ Finish(r))

Spec == Init /\ [][Next]_vars /\ Fairness

-----------------------------------------------------------------------------
TypeOK ==
  /\ target \in Target \union {NoTarget}
  /\ reg \in [Companions -> 0..MaxConns]
  /\ run \in [Companions -> 0..MaxConns]
  /\ conns \in 0..MaxConns
  /\ notify \subseteq Companions \X (1..MaxConns)
  /\ sent \in 0..MaxStarts
  /\ op \in [Requests -> Waiting \union {Idle}]
  /\ queue \in [Companions -> Seq(StartRequest \union StopRequest)]
  /\ hand \in [Companions -> StartRequest \union {Free}]
  /\ mgr \in [Companions -> SUBSET Sids]
  /\ orphans \subseteq helpers
  /\ helpers \subseteq Companions \X Sids

(* A helper belongs to the connection on which it was started: the Companion *)
(* serves it still and knows the helper, or is starting it.  A connection    *)
(* that ends, in the middle of a start too, and a start that fails leave no  *)
(* helper; only a Companion that is killed does.                             *)
HelpersAreManaged ==
  \A h \in helpers \ orphans :
    LET c == h[1] IN
    /\ run[c] # 0
    /\ h[2] \in mgr[c] \/ hand[c].sid = h[2]

(* A helper whose session is not the desired one does not stay, the helper   *)
(* of a Companion that was killed or lost its connection included.           *)
StrayHelpersExit ==
  \A c \in Companions, s \in Sids :
    []<>(<<c, s>> \notin helpers \/ (target # NoTarget /\ target.on /\ target.sid = s))

\* the listener of the target's connection n has to restore a helper for s
ToRestore(n, s) == Desired /\ <<target.comp, n>> \in notify /\ target.sid = s

\* a helper for s is desired on connection n, is not there, and the row does
\* not tell that it failed
Missing(n, s) ==
  /\ Desired /\ reg[target.comp] = n /\ target.sid = s /\ ~target.err
  /\ <<target.comp, s>> \notin helpers

(* A target Companion that connects gets the desired helper back, or the row *)
(* tells that it failed; unless the target changes or the connection ends    *)
(* first.                                                                    *)
ReconnectRestores ==
  \A s \in Sids, n \in 1..MaxConns : ToRestore(n, s) ~> ~Missing(n, s)

(* "An explicit stop clears that desired state"                              *)
(* (openfocus/domains/float_ball/SPEC.md:26-27): it is desired again only by a  *)
(* start.  A restore that was under way when the user stopped, successful or *)
(* not, writes it again.                                                     *)
StoppedStaysStopped ==
  [][~Desired /\ Desired' => \E r \in 1..MaxStarts : op[r] # Idle]_vars
=============================================================================
