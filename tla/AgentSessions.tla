---------------------------- MODULE AgentSessions ----------------------------
(***************************************************************************)
(* The agent sessions of an AgentSpace                                      *)
(* (openfocus/domains/agent_spaces, the routes in                            *)
(* openfocus/web/routes/agent_spaces.py), the agents that the Companion runs *)
(* for them (_AgentManager in openfocus/companion/runtime.py), and the way   *)
(* of their output back into messages (openfocus/infrastructure/streaming.py)*)
(*                                                                         *)
(* The user starts and terminates sessions, sends messages and releases      *)
(* spaces; each such operation is cut at its awaits.  An agent answers a     *)
(* message in pieces, the last of which closes the assistant's message.      *)
(* Break replaces the stream: what is under way is lost, the waiting         *)
(* operations fail, the Companion's new manager knows no session, and the    *)
(* agents that run write to a stream that nobody reads.                      *)
(*                                                                         *)
(* Left out: the user's own messages, the runtime turns that follow a        *)
(* message's state (AgentActivity), the terminals of a space                 *)
(* (RemoteTerminals), the live view in the browser.                          *)
(***************************************************************************)
EXTENDS Naturals, Sequences, FiniteSets

CONSTANTS
  Tasks,
  Spaces,     \* the ids an AgentSpace row can get: 1..n
  Sessions,   \* session ids: each start makes up its own
  Requests,   \* request ids: so does each message
  Ops,        \* the operations of the users
  None,
  MaxText,    \* bound: pieces an agent writes
  MaxStops,   \* bound: terminations and releases
  MaxFaults   \* bound: broken streams and timeouts

ASSUME SessionsAssumption ==
  /\ IsFiniteSet(Spaces) /\ Spaces = 1..Cardinality(Spaces)
  /\ {MaxText, MaxStops, MaxFaults} \subseteq Nat
  /\ None \notin Tasks \union Sessions \union Requests

VARIABLES
  space,    \* [Spaces -> the task of the agent_spaces row, or None]
  sess,     \* [Sessions -> the agent_sessions row, or None]
  msg,      \* [Requests -> the assistant's agent_messages row, or None]
  op,       \* [Ops -> an operation]
  down, up, \* the stream: commands to the Companion; its answers and chunks
  manager,  \* [Sessions -> None, or "idle", or the request its agent runs]
  agent,    \* [Requests -> the agent process that answers it]
  stops, faults,
  used,     \* history: the session and request ids made up so far
  broken,   \* history: has the stream ever broken?
  late      \* history: sessions whose row was written after their space was gone

stream == <<down, up>>
companion == <<manager, agent>>
rows == <<space, sess, msg>>
history == <<used, broken, late>>
bounds == <<stops, faults>>
vars == <<rows, op, stream, companion, bounds, history>>

Idle == [pc |-> "idle"]
NoAgent == [sess |-> None, state |-> "none", wrote |-> 0]

Init ==
  /\ space = [i \in Spaces |-> None]
  /\ sess = [s \in Sessions |-> None]
  /\ msg = [r \in Requests |-> None]
  /\ op = [o \in Ops |-> Idle]
  /\ down = <<>> /\ up = <<>>
  /\ manager = [s \in Sessions |-> None]
  /\ agent = [r \in Requests |-> NoAgent]
  /\ stops = 0 /\ faults = 0
  /\ used = {} /\ broken = FALSE /\ late = {}

-----------------------------------------------------------------------------
(* The stream.                                                               *)

\* an operation in its await
Waits(kind, about) ==
  [pc |-> "waiting", kind |-> kind, about |-> about, space |-> None, task |-> None,
   all |-> {}, todo |-> {}]

\* operation o enters its await w with a command about session s to the Companion
Ask(o, w, s) ==
  /\ op' = [op EXCEPT ![o] = w]
  /\ down' = Append(down, [kind |-> w.kind, about |-> w.about, sess |-> s, op |-> o])

Command(kind) == down # <<>> /\ Head(down).kind = kind
\* the Companion has handled the first command
Handled(ok) ==
  /\ down' = Tail(down)
  /\ up' = Append(up, [kind |-> "answer", op |-> Head(down).op, ok |-> ok,
                       asked |-> Head(down).kind, about |-> Head(down).about])

\* operation o waits for the answer a
Awaited(o, a) ==
  /\ op[o].pc = "waiting" /\ a.kind = "answer" /\ a.op = o
  /\ a.about = op[o].about
  /\ a.asked = (IF op[o].kind = "release" THEN "terminate" ELSE op[o].kind)

(* The await of operation o ends: with the answer, or because the stream     *)
(* broke, or by its timer while the Companion may still handle the command.  *)
Resumes(o, kind, ok) ==
  /\ op[o] # Idle /\ op[o].kind = kind
  /\ \/ /\ up # <<>> /\ Awaited(o, Head(up))
        /\ ok = Head(up).ok
        /\ up' = Tail(up)
        /\ UNCHANGED faults
     \/ /\ op[o].pc = "broken" /\ ~ok
        /\ UNCHANGED <<up, faults>>
     \/ /\ op[o].pc = "waiting" /\ ~ok
        /\ faults < MaxFaults
        /\ faults' = faults + 1
        /\ UNCHANGED up
End(o) == op' = [op EXCEPT ![o] = Idle]

(* An answer that nobody waits for is dropped.                               *)
DropAnswer ==
  /\ up # <<>> /\ Head(up).kind = "answer" /\ ~Awaited(Head(up).op, Head(up))
  /\ up' = Tail(up)
  /\ UNCHANGED <<rows, op, down, companion, bounds, history>>

(* The connection is replaced by the next one of the same Companion.         *)
Break ==
  /\ faults < MaxFaults
  /\ faults' = faults + 1
  /\ broken' = TRUE
  /\ down' = <<>> /\ up' = <<>>
  /\ op' = [o \in Ops |-> IF op[o].pc = "waiting"
                          THEN [op[o] EXCEPT !.pc = "broken"] ELSE op[o]]
  /\ manager' = [s \in Sessions |-> None]
  /\ agent' = [r \in Requests |-> IF agent[r].state = "running"
                                  THEN [agent[r] EXCEPT !.state = "unheard"] ELSE agent[r]]
  /\ UNCHANGED <<rows, stops, used, late>>

-----------------------------------------------------------------------------
(* Spaces.                                                                   *)

NextId == 1 + Cardinality({i \in Spaces : \E k \in Spaces : k >= i /\ space[k] # None})

(* create_or_update_agent_space_for_task, where it creates                   *)
CreateSpace(t) ==
  /\ \A i \in Spaces : space[i] # t
  /\ NextId \in Spaces
  /\ space' = [space EXCEPT ![NextId] = t]
  /\ UNCHANGED <<sess, msg, op, stream, companion, bounds, history>>

-----------------------------------------------------------------------------
(* start_agent_session: the row is written after the Companion has answered. *)

AskStart(o, i, s) ==
  /\ op[o] = Idle
  /\ space[i] # None /\ s \notin used
  /\ used' = used \union {s}
  /\ Ask(o, [Waits("start", s) EXCEPT !.space = i, !.task = space[i]], s)
  /\ UNCHANGED <<rows, up, companion, bounds, broken, late>>

HandleStart ==
  /\ Command("start")
  /\ manager' = [manager EXCEPT ![Head(down).about] = "idle"]
  /\ Handled(TRUE)
  /\ UNCHANGED <<rows, op, agent, bounds, history>>

EndStart(o, ok) ==
  /\ Resumes(o, "start", ok)
  /\ IF ok
     THEN /\ sess' = [sess EXCEPT ![op[o].about] = [space |-> op[o].space,
                                                    task |-> op[o].task,
                                                    status |-> "active"]]
          /\ late' = IF space[op[o].space] = op[o].task THEN late
                     ELSE late \union {op[o].about}
     ELSE UNCHANGED <<sess, late>>
  /\ End(o)
  /\ UNCHANGED <<space, msg, down, companion, stops, used, broken>>

-----------------------------------------------------------------------------
(* agent_session_send: the assistant's message is there before the Companion *)
(* is asked; a failed await closes it.                                       *)

\* the session of a request belongs to the space of its URL, which exists
Reachable(s) == sess[s] # None /\ space[sess[s].space] # None

NewMessage(s) == [sess |-> s, text |-> <<>>, done |-> FALSE, error |-> FALSE]

AskSend(o, s, r) ==
  /\ op[o] = Idle
  /\ Reachable(s)
  /\ r \notin used
  /\ used' = used \union {r}
  /\ msg' = [msg EXCEPT ![r] = NewMessage(s)]
  /\ Ask(o, Waits("send", r), s)
  /\ UNCHANGED <<space, sess, up, companion, bounds, broken, late>>

(* _AgentManager.send: refused without a session or if its agent runs.       *)
HandleSend ==
  /\ Command("send")
  /\ LET s == Head(down).sess
         r == Head(down).about
         ok == manager[s] = "idle"
     IN /\ manager' = IF ok THEN [manager EXCEPT ![s] = r] ELSE manager
        /\ agent' = IF ok THEN [agent EXCEPT ![r] = [sess |-> s, state |-> "running",
                                                     wrote |-> 0]] ELSE agent
        /\ Handled(ok)
  /\ UNCHANGED <<rows, op, bounds, history>>

\* the message of a failed send stays open
EndSend_Open(o, ok) ==
  /\ Resumes(o, "send", ok)
  /\ End(o)
  /\ UNCHANGED <<rows, down, companion, stops, history>>

EndSend(o, ok) ==
  /\ Resumes(o, "send", ok)
  /\ LET r == op[o].about IN
     msg' = IF ~ok /\ msg[r] # None
            THEN [msg EXCEPT ![r].done = TRUE, ![r].error = TRUE] ELSE msg
  /\ End(o)
  /\ UNCHANGED <<space, sess, down, companion, stops, history>>

-----------------------------------------------------------------------------
(* _run_print: what an agent writes, and its end.  Of an agent started on an *)
(* earlier stream nothing is heard.  The pipes of an agent that was killed   *)
(* are read to their end, so that it still writes.                           *)

Chunk(r, n, done, ok) == [kind |-> "chunk", req |-> r, sess |-> agent[r].sess,
                          text |-> n, done |-> done, ok |-> ok]

AgentWrites(r) ==
  /\ agent[r].state \in {"running", "killed"} /\ agent[r].wrote < MaxText
  /\ agent' = [agent EXCEPT ![r].wrote = @ + 1]
  /\ up' = Append(up, Chunk(r, <<agent[r].wrote + 1>>, FALSE, TRUE))
  /\ UNCHANGED <<rows, op, down, manager, bounds, history>>

\* the last piece is not read before the end is reported
AgentEnds_Early(r, ok) ==
  /\ agent[r].state = "running"
  /\ agent' = [agent EXCEPT ![r].state = "ended", ![r].wrote = @ + 1]
  /\ manager' = [manager EXCEPT ![agent[r].sess] = IF @ = r THEN "idle" ELSE @]
  /\ up' = Append(up, Chunk(r, <<>>, TRUE, ok))
  /\ UNCHANGED <<rows, op, down, bounds, history>>

AgentEnds(r, ok) ==
  /\ agent[r].state = "running"
  /\ agent' = [agent EXCEPT ![r].state = "ended"]
  /\ manager' = [manager EXCEPT ![agent[r].sess] = IF @ = r THEN "idle" ELSE @]
  /\ up' = Append(up, Chunk(r, <<>>, TRUE, ok))
  /\ UNCHANGED <<rows, op, down, bounds, history>>

(* persist_and_publish_agent_chunk: a message that is not there is made.     *)
DeliverChunk ==
  /\ up # <<>> /\ Head(up).kind = "chunk"
  /\ up' = Tail(up)
  /\ LET ch == Head(up)
         old == IF msg[ch.req] # None THEN msg[ch.req] ELSE NewMessage(ch.sess)
     IN msg' = [msg EXCEPT ![ch.req] = [old EXCEPT !.text = @ \o ch.text,
                                                   !.done = @ \/ ch.done \/ ~ch.ok,
                                                   !.error = @ \/ ~ch.ok]]
  /\ UNCHANGED <<space, sess, op, down, companion, bounds, history>>

-----------------------------------------------------------------------------
(* terminate_agent_session                                                   *)

AskTerminate(o, s) ==
  /\ op[o] = Idle
  /\ Reachable(s)
  /\ stops < MaxStops /\ stops' = stops + 1
  /\ Ask(o, Waits("terminate", s), s)
  /\ UNCHANGED <<rows, up, companion, faults, history>>

(* _AgentManager.terminate: the agent is killed, and does not say its end.   *)
HandleTerminate ==
  /\ Command("terminate")
  /\ LET s == Head(down).about IN
     /\ manager' = [manager EXCEPT ![s] = None]
     /\ agent' = [r \in Requests |-> IF agent[r].state = "running" /\ manager[s] = r
                                     THEN [agent[r] EXCEPT !.state = "killed"] ELSE agent[r]]
  /\ Handled(TRUE)
  /\ UNCHANGED <<rows, op, bounds, history>>

EndTerminate(o, ok) ==
  /\ Resumes(o, "terminate", ok)
  /\ LET s == op[o].about IN
     sess' = IF ok /\ sess[s] # None
             THEN [sess EXCEPT ![s].status = "terminated"] ELSE sess
  /\ End(o)
  /\ UNCHANGED <<space, msg, down, companion, stops, history>>

-----------------------------------------------------------------------------
(* release_agent_space_for_task: the sessions of the space are terminated    *)
(* one by one, and their rows deleted with the space in the end.             *)

BeginRelease(o, i) ==
  /\ op[o] = Idle
  /\ space[i] # None
  /\ stops < MaxStops /\ stops' = stops + 1
  /\ LET S == {s \in Sessions : sess[s] # None /\ sess[s].space = i} IN
     op' = [op EXCEPT ![o] = [Waits("release", None) EXCEPT
              !.pc = "releasing", !.task = space[i], !.all = S, !.todo = S]]
  /\ UNCHANGED <<rows, stream, companion, faults, history>>

ReleaseNext(o, s) ==
  /\ op[o].pc = "releasing" /\ s \in op[o].todo
  /\ op' = [op EXCEPT ![o] = [op[o] EXCEPT !.pc = "waiting", !.about = s,
                                           !.todo = @ \ {s}]]
  /\ down' = Append(down, [kind |-> "terminate", about |-> s, sess |-> s, op |-> o])
  /\ UNCHANGED <<rows, up, companion, bounds, history>>

ReleaseGoesOn(o, ok) ==
  /\ Resumes(o, "release", ok)
  /\ op' = [op EXCEPT ![o].pc = "releasing", ![o].about = None]
  /\ UNCHANGED <<rows, down, companion, stops, used, broken, late>>

\* the rows of the sessions stay
EndRelease_KeepsSessions(o) ==
  /\ op[o].pc = "releasing" /\ op[o].todo = {}
  /\ IF \E i \in Spaces : space[i] = op[o].task
     THEN /\ space' = [i \in Spaces |-> IF space[i] = op[o].task THEN None ELSE space[i]]
          /\ UNCHANGED sess
          /\ msg' = [r \in Requests |-> IF msg[r] # None /\ msg[r].sess \in op[o].all
                                        THEN None ELSE msg[r]]
          /\ late' = late \union {s \in Sessions \ op[o].all :
                                    sess[s] # None /\ space[sess[s].space] = op[o].task}
     ELSE UNCHANGED <<rows, late>>
  /\ End(o)
  /\ UNCHANGED <<stream, companion, bounds, used, broken>>

(* After the stops of the terminals: the space of the task, if it has one.   *)
EndRelease(o) ==
  /\ op[o].pc = "releasing" /\ op[o].todo = {}
  /\ IF \E i \in Spaces : space[i] = op[o].task
     THEN /\ space' = [i \in Spaces |-> IF space[i] = op[o].task THEN None ELSE space[i]]
          /\ sess' = [s \in Sessions |-> IF s \in op[o].all THEN None ELSE sess[s]]
          /\ msg' = [r \in Requests |-> IF msg[r] # None /\ msg[r].sess \in op[o].all
                                        THEN None ELSE msg[r]]
          /\ late' = late \union {s \in Sessions \ op[o].all :
                                    sess[s] # None /\ space[sess[s].space] = op[o].task}
     ELSE UNCHANGED <<rows, late>>
  /\ End(o)
  /\ UNCHANGED <<stream, companion, bounds, used, broken>>

\* every space and every request was used, and nothing is under way
Finished ==
  /\ \A o \in Ops : op[o] = Idle
  /\ down = <<>> /\ up = <<>>
  /\ UNCHANGED vars

-----------------------------------------------------------------------------
Next ==
  \/ Finished \/ Break
  \/ \E t \in Tasks : CreateSpace(t)
  \/ DropAnswer \/ DeliverChunk
  \/ HandleStart \/ HandleSend \/ HandleTerminate
  \/ \E r \in Requests : AgentWrites(r) \/ \E ok \in BOOLEAN : AgentEnds(r, ok)
  \/ \E o \in Ops :
       \/ \E ok \in BOOLEAN : \/ EndStart(o, ok) \/ EndSend(o, ok)
                              \/ EndTerminate(o, ok) \/ ReleaseGoesOn(o, ok)
       \/ EndRelease(o)
       \/ \E s \in Sessions : \/ AskTerminate(o, s) \/ ReleaseNext(o, s)
                              \/ \E i \in Spaces : AskStart(o, i, s)
                              \/ \E r \in Requests : AskSend(o, s, r)
       \/ \E i \in Spaces : BeginRelease(o, i)

Spec == Init /\ [][Next]_vars

-----------------------------------------------------------------------------
SessionRow == [space : Spaces, task : Tasks, status : {"active", "terminated"}]
Message == [sess : Sessions, text : Seq(1..MaxText), done : BOOLEAN, error : BOOLEAN]
Agent == [sess : Sessions \union {None}, wrote : 0..MaxText,
          state : {"none", "running", "unheard", "ended", "killed"}]
Operation == [pc : {"waiting", "broken", "releasing"},
              kind : {"start", "send", "terminate", "release"},
              about : Sessions \union Requests \union {None},
              space : Spaces \union {None}, task : Tasks \union {None},
              all : SUBSET Sessions, todo : SUBSET Sessions]
Sent == [kind : {"start", "send", "terminate"}, about : Sessions \union Requests,
         sess : Sessions, op : Ops]
Answers == [kind : {"answer"}, asked : {"start", "send", "terminate"},
            about : Sessions \union Requests, op : Ops, ok : BOOLEAN]
Chunks == [kind : {"chunk"}, req : Requests, sess : Sessions, text : Seq(1..MaxText),
           done : BOOLEAN, ok : BOOLEAN]

\* no row is None
ASSUME RowsAssumption == None \notin SessionRow \union Message

TypeOK ==
  /\ space \in [Spaces -> Tasks \union {None}]
  /\ sess \in [Sessions -> SessionRow \union {None}]
  /\ msg \in [Requests -> Message \union {None}]
  /\ op \in [Ops -> Operation \union {Idle}]
  /\ down \in Seq(Sent) /\ up \in Seq(Answers \union Chunks)
  /\ manager \in [Sessions -> Requests \union {"idle", None}]
  /\ agent \in [Requests -> Agent]
  /\ stops \in 0..MaxStops /\ faults \in 0..MaxFaults
  /\ used \subseteq Sessions \union Requests /\ broken \in BOOLEAN
  /\ late \subseteq Sessions

(* A message that was closed without an error holds everything its agent     *)
(* wrote, in order, whatever was sent, terminated or broken meanwhile.       *)
WholeAnswer ==
  \A r \in Requests :
    msg[r] # None /\ sess[msg[r].sess] # None /\ msg[r].done /\ ~msg[r].error =>
      /\ agent[r].state = "ended"
      /\ msg[r].text = [k \in 1..agent[r].wrote |-> k]

(* A session shown in a space is of that space's task, also after the space  *)
(* was released and its id given to another task's.  Only a session that     *)
(* started while its space was released may break this.                      *)
SessionsMatchTheirSpace ==
  \A s \in Sessions \ late :
    sess[s] # None => space[sess[s].space] = sess[s].task

(* A message is never left open with nobody to close it: its send still      *)
(* waits, its agent runs, or the end is on its way.  The exceptions are an   *)
(* agent killed with its session, and a stream that broke.                   *)
OpenMessageIsAwaited ==
  \A r \in Requests :
    msg[r] # None /\ ~msg[r].done =>
      \/ \E o \in Ops : op[o] # Idle /\ op[o].kind = "send" /\ op[o].about = r
      \/ agent[r].state = "running"
      \/ \E k \in 1..Len(up) : up[k].kind = "chunk" /\ up[k].req = r /\ up[k].done
      \/ agent[r].state = "killed" \/ broken
=============================================================================
