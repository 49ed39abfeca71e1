--------------------------- MODULE CompanionLink ----------------------------
(***************************************************************************)
(* The control connection between OpenFocus and its Companions              *)
(* (openfocus/companion/grpc.py, and the receiving loop of runtime.py).      *)
(*                                                                         *)
(* Every Connect RPC builds one CompanionConnection: an outgoing queue, a   *)
(* table of pending requests and a closed event.  The registry maps a       *)
(* Companion to its current connection.  Three tasks work on a connection:  *)
(* the RPC handler, which sends the queue and tears the connection down;    *)
(* the consumer, which reads the Companion's messages; and the callers of   *)
(* request_*, which wait for an answer with a timeout.                      *)
(*                                                                         *)
(* asyncio switches tasks only where a coroutine suspends.  Neither put on  *)
(* an unbounded queue nor an uncontended Lock suspends, so everything       *)
(* between two real suspensions is one action here; in particular Connect   *)
(* runs from hello to the first wait of outgoing() without a switch.        *)
(*                                                                         *)
(* Left out: the pings, last_seen, the payloads, and a request's kind (the  *)
(* Companion answers every request with the response message of its kind). *)
(***************************************************************************)
EXTENDS Naturals, Sequences, FiniteSets

CONSTANTS
  Companions,   \* server-issued companion ids
  Conns,        \* the Connect RPCs, one CompanionConnection each
  Calls,        \* request ids: a fresh uuid per request
  NoConn        \* no connection registered

ASSUME NoConnAssumption == NoConn \notin Conns

VARIABLES
  registry,   \* [Companions -> Conns or NoConn]: _by_companion_id
  phase,      \* [Conns -> Phases]: where the RPC handler is
  owner,      \* [Conns -> Companions]: companion_id of the connection
  closed,     \* the connections whose _closed event is set
  consumer,   \* [Conns -> "off", "reading", "done"]: the _consume task
  outq,       \* [Conns -> Seq(Calls)]: _out_q
  wire,       \* [Conns -> Seq(Calls)]: sent, not yet handled by the Companion
  answers,    \* [Conns -> Seq(Calls)]: responses on their way back
  pending,    \* [Conns -> SUBSET Calls]: _pending
  fut,        \* [Calls -> Futures]: the future a caller waits on
  via,        \* [Calls -> Conns or NoConn]: the connection a call was issued on
  late,       \* the calls issued after their connection's handler had ended
  outcome,    \* [Calls -> Outcomes]: what request_* returned or raised
  runs        \* [Calls -> Nat]: how often the Companion ran the request

linkVars == <<registry, phase, owner, closed, consumer>>
wireVars == <<outq, wire, answers>>
callVars == <<pending, fut, via, late, outcome>>
vars == <<linkVars, wireVars, callVars, runs>>

Phases == {"unused", "serving", "draining", "ended"}

Futures == {"none", "unset", "answered", "closed"}

Settled == {"answered", "closed", "timeout"}

Outcomes == {"idle", "waiting"} \union Settled

Init ==
  /\ registry = [k \in Companions |-> NoConn]
  /\ phase = [c \in Conns |-> "unused"]
  /\ owner \in [Conns -> Companions]
  /\ closed = {}
  /\ consumer = [c \in Conns |-> "off"]
  /\ outq = [c \in Conns |-> <<>>]
  /\ wire = [c \in Conns |-> <<>>]
  /\ answers = [c \in Conns |-> <<>>]
  /\ pending = [c \in Conns |-> {}]
  /\ fut = [r \in Calls |-> "none"]
  /\ via = [r \in Calls |-> NoConn]
  /\ late = {}
  /\ outcome = [r \in Calls |-> "idle"]
  /\ runs = [r \in Calls |-> 0]

-----------------------------------------------------------------------------
(* Mutants: faults the properties below must detect, each of the operation   *)
(* whose name it extends.                                                    *)

\* close forgets the requests without failing their futures
Close_Forget(C) ==
  /\ closed' = closed \union C
  /\ pending' = [c \in Conns |-> IF c \in C THEN {} ELSE pending[c]]
  /\ UNCHANGED fut

\* outgoing() peeks at its queue
SendOut_Peek(c) ==
  /\ phase[c] = "serving"
  /\ c \notin closed
  /\ outq[c] # <<>>
  /\ Len(wire[c]) < 2
  /\ wire' = [wire EXCEPT ![c] = Append(@, Head(outq[c]))]
  /\ UNCHANGED <<linkVars, outq, answers, callVars, runs>>

(* CompanionConnection.close on every connection of C: set the event, fail   *)
(* the futures that are not done, forget the table.  It may run repeatedly.  *)
Close(C) ==
  /\ closed' = closed \union C
  /\ fut' = [r \in Calls |->
               IF fut[r] = "unset" /\ \E c \in C : r \in pending[c]
               THEN "closed" ELSE fut[r]]
  /\ pending' = [c \in Conns |-> IF c \in C THEN {} ELSE pending[c]]

(* The handler from hello to the first wait of outgoing(): register the new  *)
(* connection, close the one it replaces, start the consumer.                *)
Accept(c) ==
  LET k == owner[c] IN
  /\ phase[c] = "unused"
  /\ registry' = [registry EXCEPT ![k] = c]
  /\ phase' = [phase EXCEPT ![c] = "serving"]
  /\ consumer' = [consumer EXCEPT ![c] = "reading"]
  /\ Close({registry[k]} \ {NoConn})
  /\ UNCHANGED <<owner, wireVars, via, late, outcome, runs>>

(* outgoing() yields the head of the queue.  Once the event is set it        *)
(* returns and drops what is left.                                           *)
SendOut(c) ==
  /\ phase[c] = "serving"
  /\ c \notin closed
  /\ outq[c] # <<>>
  /\ outq' = [outq EXCEPT ![c] = Tail(@)]
  /\ wire' = [wire EXCEPT ![c] = Append(@, Head(outq[c]))]
  /\ UNCHANGED <<linkVars, answers, callVars, runs>>

(* The handler enters its finally block, because outgoing() returned or      *)
(* because the RPC was cancelled while it waited, and cancels the consumer.  *)
Drain(c) ==
  /\ phase[c] = "serving"
  /\ phase' = [phase EXCEPT ![c] = "draining"]
  /\ UNCHANGED <<registry, owner, closed, consumer, wireVars, callVars, runs>>

(* The consumer ends: the stream ended or failed, or the handler cancelled   *)
(* it.  Its own finally block closes the connection.                         *)
ConsumerEnds(c) ==
  /\ consumer[c] = "reading"
  /\ consumer' = [consumer EXCEPT ![c] = "done"]
  /\ Close({c})
  /\ UNCHANGED <<registry, phase, owner, wireVars, via, late, outcome, runs>>

(* The done callback of the RPC context closes the connection.               *)
RpcDone(c) ==
  /\ phase[c] \in {"serving", "draining"}
  /\ Close({c})
  /\ UNCHANGED <<registry, phase, owner, consumer, wireVars, via, late,
                 outcome, runs>>

\* set_disconnected pops whatever is registered
Teardown_Evict(c) ==
  /\ phase[c] = "draining"
  /\ consumer[c] = "done"
  /\ registry' = [registry EXCEPT ![owner[c]] = NoConn]
  /\ phase' = [phase EXCEPT ![c] = "ended"]
  /\ Close({c})
  /\ UNCHANGED <<owner, consumer, wireVars, via, late, outcome, runs>>

\* the finally block forgets set_disconnected
Teardown_Stay(c) ==
  /\ phase[c] = "draining"
  /\ consumer[c] = "done"
  /\ phase' = [phase EXCEPT ![c] = "ended"]
  /\ Close({c})
  /\ UNCHANGED <<registry, owner, consumer, wireVars, via, late, outcome, runs>>

\* the finally block forgets its last close
Teardown_NoClose(c) ==
  /\ phase[c] = "draining"
  /\ consumer[c] = "done"
  /\ registry' = [registry EXCEPT ![owner[c]] = IF @ = c THEN NoConn ELSE @]
  /\ phase' = [phase EXCEPT ![c] = "ended"]
  /\ UNCHANGED <<owner, consumer, closed, wireVars, callVars, runs>>

(* The rest of the finally block, once the consumer is done: leave the       *)
(* registry if this connection is still the registered one, then close.      *)
Teardown(c) ==
  LET k == owner[c] IN
  /\ phase[c] = "draining"
  /\ consumer[c] = "done"
  /\ registry' = [registry EXCEPT ![k] = IF @ = c THEN NoConn ELSE @]
  /\ phase' = [phase EXCEPT ![c] = "ended"]
  /\ Close({c})
  /\ UNCHANGED <<owner, consumer, wireVars, via, late, outcome, runs>>

(* CompanionGrpcServer.stop: close_all empties the registry and closes what  *)
(* was in it; the handlers then run their finally blocks.                    *)
CloseAll ==
  /\ \E k \in Companions : registry[k] # NoConn
  /\ registry' = [k \in Companions |-> NoConn]
  /\ Close({registry[k] : k \in Companions} \ {NoConn})
  /\ UNCHANGED <<phase, owner, consumer, wireVars, via, late, outcome, runs>>
-----------------------------------------------------------------------------
(* A caller of request_* either just took the connection from the registry,  *)
(* or still holds the one an earlier call of its went through (the terminal  *)
(* and agent services issue several requests on the connection they looked   *)
(* up once).  Nothing stops a request on a closed connection.                *)
Reachable == {registry[k] : k \in Companions} \ {NoConn}

Held == {via[r] : r \in {q \in Calls : outcome[q] \in Settled}}

Issue(r, c) ==
  /\ outcome[r] = "idle"
  /\ c \in Reachable \union Held
  /\ outcome' = [outcome EXCEPT ![r] = "waiting"]
  /\ fut' = [fut EXCEPT ![r] = "unset"]
  /\ via' = [via EXCEPT ![r] = c]
  /\ late' = IF phase[c] = "ended" THEN late \union {r} ELSE late
  /\ pending' = [pending EXCEPT ![c] = @ \union {r}]
  /\ outq' = [outq EXCEPT ![c] = Append(@, r)]
  /\ UNCHANGED <<linkVars, wire, answers, runs>>

(* The Companion handles the requests of its stream one at a time, in order. *)
(* It also goes on with what it had received when the stream is lost.        *)
Execute(c) ==
  /\ wire[c] # <<>>
  /\ wire' = [wire EXCEPT ![c] = Tail(@)]
  /\ answers' = [answers EXCEPT ![c] = Append(@, Head(wire[c]))]
  /\ runs' = [runs EXCEPT ![Head(wire[c])] = @ + 1]
  /\ UNCHANGED <<linkVars, outq, callVars>>

(* handle_incoming of a response: it is dropped unless its request is still  *)
(* in the table and its future not done.                                     *)
Receive(c) ==
  LET r == Head(answers[c]) IN
  /\ consumer[c] = "reading"
  /\ answers[c] # <<>>
  /\ answers' = [answers EXCEPT ![c] = Tail(@)]
  /\ fut' = IF r \in pending[c] /\ fut[r] = "unset"
            THEN [fut EXCEPT ![r] = "answered"] ELSE fut
  /\ UNCHANGED <<linkVars, outq, wire, pending, via, late, outcome, runs>>

Return(r, how) ==
  /\ outcome[r] = "waiting"
  /\ outcome' = [outcome EXCEPT ![r] = how]
  /\ pending' = [pending EXCEPT ![via[r]] = @ \ {r}]
  /\ UNCHANGED <<linkVars, wireVars, fut, via, late, runs>>

\* no timer for a request on a connection that is already closed
Expire_OpenOnly(r) == via[r] \notin closed /\ Return(r, "timeout")

(* The caller resumes after its future is done, and its finally block        *)
(* removes the request from the table.                                       *)
Resume(r) == fut[r] \in {"answered", "closed"} /\ Return(r, fut[r])

(* wait_for gives up.  Its deadline may also fall after the future was set   *)
(* and before the caller ran: the result is lost to TimeoutError.            *)
Expire(r) == Return(r, "timeout")
-----------------------------------------------------------------------------
ServerStep(c) == Accept(c) \/ SendOut(c) \/ Drain(c) \/ Teardown(c)

PeerStep(c) == Execute(c) \/ Receive(c) \/ ConsumerEnds(c) \/ RpcDone(c)

CallStep(r) == (\E c \in Conns : Issue(r, c)) \/ Resume(r) \/ Expire(r)

\* Once everything has been used up nothing more happens in the model.
Finished ==
  /\ \A c \in Conns : phase[c] = "ended" /\ wire[c] = <<>>
  /\ \A r \in Calls : outcome[r] \in Settled \union {"idle"}
  /\ UNCHANGED vars

Next ==
  \/ \E c \in Conns : ServerStep(c) \/ PeerStep(c)
  \/ \E r \in Calls : CallStep(r)
  \/ CloseAll
  \/ Finished

Spec == Init /\ [][Next]_vars

(* The event loop runs a task that is ready: a handler whose connection is   *)
(* closed leaves outgoing(), a cancelled consumer ends, the finally block    *)
(* completes and a caller with a done future resumes.  Nothing is assumed of *)
(* the peer or the network, and timers are left out.                         *)
TaskFairness ==
  /\ \A c \in Conns :
       /\ WF_vars(c \in closed /\ Drain(c))
       /\ WF_vars(phase[c] = "draining" /\ ConsumerEnds(c))
       /\ WF_vars(Teardown(c))
  /\ \A r \in Calls : WF_vars(Resume(r))

TaskSpec == Spec /\ TaskFairness

(* The timers of wait_for expire.                                            *)
TimersRun == \A r \in Calls : WF_vars(Expire(r))
-----------------------------------------------------------------------------
TypeOK ==
  /\ registry \in [Companions -> Conns \union {NoConn}]
  /\ phase \in [Conns -> Phases]
  /\ owner \in [Conns -> Companions]
  /\ closed \in SUBSET Conns
  /\ consumer \in [Conns -> {"off", "reading", "done"}]
  /\ outq \in [Conns -> Seq(Calls)]
  /\ wire \in [Conns -> Seq(Calls)]
  /\ answers \in [Conns -> Seq(Calls)]
  /\ pending \in [Conns -> SUBSET Calls]
  /\ fut \in [Calls -> Futures]
  /\ via \in [Calls -> Conns \union {NoConn}]
  /\ late \in SUBSET Calls
  /\ outcome \in [Calls -> Outcomes]
  /\ runs \in [Calls -> Nat]

(* A registered connection still has a handler that will take it out: the    *)
(* registry never keeps a connection nobody serves (set_disconnected of a    *)
(* replaced handler leaves the newer entry alone, and the newer handler      *)
(* removes its own).                                                         *)
RegisteredIsServed ==
  \A k \in Companions :
    registry[k] # NoConn =>
      /\ owner[registry[k]] = k
      /\ phase[registry[k]] \in {"serving", "draining"}

(* A connection that is open and served is the one the registry gives out:   *)
(* a reconnecting Companion never leaves a second live connection behind     *)
(* that nobody can reach, and so two never compete for its commands.         *)
OpenIsRegistered ==
  \A c \in Conns :
    phase[c] # "unused" /\ c \notin closed => registry[owner[c]] = c

(* A caller that waits on an unset future can be reached: its request is in  *)
(* the table of the connection it used, where an answer or close finds it.   *)
(* And the table holds nobody else: finished callers have left it.           *)
WaiterReachable ==
  /\ \A r \in Calls :
       outcome[r] = "waiting" /\ fut[r] = "unset" => r \in pending[via[r]]
  /\ \A c \in Conns : \A r \in pending[c] : outcome[r] = "waiting" /\ via[r] = c

(* The teardown sweeps the table after the connection left the registry, so  *)
(* only a call issued after that can still wait on an ended connection.      *)
OnlyLateCallsWaitOnEnded ==
  \A r \in Calls :
    outcome[r] = "waiting" /\ fut[r] = "unset" /\ phase[via[r]] = "ended"
      => r \in late

(* Every command runs at most once, and a caller gets "answered" only for a  *)
(* command that ran, over reconnects, late answers and timeouts.             *)
Call == INSTANCE AtMostOnceCall WITH Calls <- Calls, outcome <- outcome, runs <- runs
ImplementsAtMostOnceCall == Call!ASpec

(* A caller whose connection closes is released without waiting for its      *)
(* timeout, also when it issued its request after the close, as long as the  *)
(* handler had not ended yet.                                                *)
ClosedCallersReleased ==
  \A r \in Calls :
    outcome[r] = "waiting" /\ via[r] \in closed /\ r \notin late
      ~> outcome[r] \in Settled

(* With its timer every caller returns, even one that asked an ended         *)
(* connection, which nothing else would ever answer or fail.                 *)
EveryCallSettles ==
  TimersRun => \A r \in Calls : outcome[r] = "waiting" ~> outcome[r] \in Settled
=============================================================================
