-------------------------- MODULE RemoteTerminals ---------------------------
(***************************************************************************)
(* The remote terminals of one owner (domains/terminals/gateway.py and      *)
(* domains/agent_spaces/terminals.py) over the Companion's terminal manager *)
(* (_TerminalManager in companion/runtime.py).                              *)
(*                                                                         *)
(* Every operation of the gateway reads the terminal records, awaits one or *)
(* more commands to the Companion, and then writes the records; other       *)
(* operations run during the await.  A Companion handles the commands of a  *)
(* connection one at a time, in order.  An awaited command may fail, by a   *)
(* timeout or because the connection is gone; the Companion may still carry *)
(* it out later.  A new connection starts with a new, empty manager.        *)
(*                                                                         *)
(* Left out: names, ttyd proxying and the bridge, the history, and mouse    *)
(* mode, which asks and reconciles like an input.                           *)
(***************************************************************************)
EXTENDS Naturals, Sequences, FiniteSets, SequencesExt

CONSTANTS
  Ops,         \* the operations that run, each once
  Terminals,   \* terminal ids, a fresh uuid per start
  Kinds,       \* which operations run, of AllKinds
  MaxBreaks,   \* how often the connection breaks at most
  None

AllKinds == {"start", "list", "close", "input", "proxy", "release"}

ASSUME KindsAssumption == Kinds \subseteq AllKinds
ASSUME BreaksAssumption == MaxBreaks \in Nat
ASSUME NoneAssumption == None \notin Terminals \union AllKinds \union {"ok", "error", "missing"}
ASSUME TerminalsAssumption == IsFiniteSet(Terminals)

VARIABLES
  record,    \* the terminals with a RemoteTerminalSession row
  op,        \* [Ops -> OpStates]: the operations of the gateway
  wire,      \* Seq of commands on their way to the Companion
  live,      \* _sessions of the current terminal manager
  dead,      \* those of live whose ttyd process has exited
  tmux,      \* the tmux sessions that run
  used,      \* the terminal ids handed out
  lost,      \* the terminals a command about which failed or was given up
  gone,      \* those whose ttyd exited or whose manager was replaced
  breaks     \* how often the connection broke

vars == <<record, op, wire, live, dead, tmux, used, lost, gone, breaks>>
hostVars == <<live, dead, tmux, gone>>

(* kind: the operation; t: its terminal; seen: the records it read, later    *)
(* the stale ones among them; left: the stop commands it still awaits;       *)
(* reply: None, "error", "missing" or "ok", and ids, what a listing told.    *)
Commands == [by : Ops, cmd : {"start", "stop", "list", "input"},
             t : Terminals \union {None}]

Ended == {"done", "failed", "unavailable", "notfound"}

OpStates == [pc : {"idle", "call", "stops"} \union Ended,
             kind : AllKinds \union {None}, t : Terminals \union {None},
             seen : SUBSET Terminals, left : SUBSET Terminals,
             reply : {None, "ok", "error", "missing"}, ids : SUBSET Terminals]

Idle == [pc |-> "idle", kind |-> None, t |-> None, seen |-> {}, left |-> {},
         reply |-> None, ids |-> {}]

Init ==
  /\ record = {}
  /\ op = [o \in Ops |-> Idle]
  /\ wire = <<>>
  /\ live = {} /\ dead = {} /\ tmux = {}
  /\ used = {} /\ lost = {} /\ gone = {}
  /\ breaks = 0

Command(o, cmd, t) == [by |-> o, cmd |-> cmd, t |-> t]

Stops(o, S) == [i \in 1..Cardinality(S) |-> Command(o, "stop", SetToSeq(S)[i])]

Enter(o, pc, k, t, seen, left) ==
  op' = [op EXCEPT ![o] = [pc |-> pc, kind |-> k, t |-> t, seen |-> seen, left |-> left,
                           reply |-> None, ids |-> {}]]

Finish(o, how) == op' = [op EXCEPT ![o].pc = how, ![o].left = {}]
-----------------------------------------------------------------------------
(* The first halves of the operations, up to their await.                    *)
Begin(o, k) == op[o].pc = "idle" /\ k \in Kinds

\* the record is written before the Companion confirmed the start
AskStart_RecordFirst(o) ==
  /\ Begin(o, "start")
  /\ \E t \in Terminals \ used :
       /\ used' = used \union {t}
       /\ record' = record \union {t}
       /\ Enter(o, "call", "start", t, {}, {})
       /\ wire' = Append(wire, Command(o, "start", t))
  /\ UNCHANGED <<hostVars, lost, breaks>>

\* start_terminal asks for a terminal with a new id
AskStart(o) ==
  /\ Begin(o, "start")
  /\ \E t \in Terminals \ used :
       /\ used' = used \union {t}
       /\ Enter(o, "call", "start", t, {}, {})
       /\ wire' = Append(wire, Command(o, "start", t))
  /\ UNCHANGED <<record, hostVars, lost, breaks>>

\* list_live_terminals reads the records and asks for the live sessions
AskList(o) ==
  /\ Begin(o, "list")
  /\ IF record = {} THEN Enter(o, "done", "list", None, {}, {}) /\ UNCHANGED wire
     ELSE /\ Enter(o, "call", "list", None, record, {})
          /\ wire' = Append(wire, Command(o, "list", None))
  /\ UNCHANGED <<record, hostVars, used, lost, breaks>>

\* inject_input and set_mouse_mode; load_live_ttyd_connect_url
AskAbout(o, k, cmd, t) ==
  /\ Begin(o, k)
  /\ t \in record
  /\ Enter(o, "call", k, t, {}, {})
  /\ wire' = Append(wire, Command(o, cmd, IF cmd = "list" THEN None ELSE t))
  /\ UNCHANGED <<record, hostVars, used, lost, breaks>>

\* close_terminal
AskClose(o, t) ==
  /\ Begin(o, "close")
  /\ t \in record
  /\ Enter(o, "stops", "close", t, {t}, {t})
  /\ wire' = Append(wire, Command(o, "stop", t))
  /\ UNCHANGED <<record, hostVars, used, lost, breaks>>

\* release_owner_terminals stops what it read of the owner's records; without
\* any it ends at once
AskRelease(o) ==
  /\ Begin(o, "release")
  /\ Enter(o, IF record = {} THEN "done" ELSE "stops", "release", None, record, record)
  /\ wire' = wire \o Stops(o, record)
  /\ UNCHANGED <<record, hostVars, used, lost, breaks>>
-----------------------------------------------------------------------------
(* The Companion handles the first command of its stream.                    *)
Reply(o, how, ids) ==
  op' = IF op[o].pc = "call" THEN [op EXCEPT ![o].reply = how, ![o].ids = ids]
        ELSE op

Handle(cmd) ==
  /\ wire # <<>>
  /\ Head(wire).cmd = cmd
  /\ wire' = Tail(wire)
  /\ UNCHANGED <<record, used, gone, breaks>>

(* start: a session is entered, then tmux and ttyd are started.  If ttyd or  *)
(* tmux is missing or a tmux command fails, the entry stays, with or without *)
(* a tmux session; if ttyd does not come up, both are removed again.         *)
HandleStart ==
  LET c == Head(wire) IN
  /\ Handle("start")
  /\ \/ /\ live' = live \union {c.t} /\ tmux' = tmux \union {c.t}
        /\ Reply(c.by, "ok", {})
        /\ UNCHANGED lost
     \/ /\ live' = live \union {c.t}
        /\ tmux' \in {tmux, tmux \union {c.t}}
        /\ lost' = lost \union {c.t}
        /\ Reply(c.by, "error", {})
     \/ /\ lost' = lost \union {c.t}
        /\ Reply(c.by, "error", {})
        /\ UNCHANGED <<live, tmux>>
  /\ UNCHANGED dead

(* stop: the tmux session is killed by its name, also for an unknown id.     *)
HandleStop ==
  LET c == Head(wire) IN
  /\ Handle("stop")
  /\ live' = live \ {c.t}
  /\ dead' = dead \ {c.t}
  /\ tmux' = tmux \ {c.t}
  /\ op' = [op EXCEPT ![c.by].left = @ \ {c.t}]
  /\ UNCHANGED lost

(* list_sessions forgets the sessions whose ttyd has exited.                 *)
HandleList ==
  LET c == Head(wire) IN
  /\ Handle("list")
  /\ live' = live \ dead
  /\ dead' = {}
  /\ Reply(c.by, "ok", live \ dead)
  /\ UNCHANGED <<tmux, lost>>

HandleInput ==
  LET c == Head(wire) IN
  /\ Handle("input")
  /\ Reply(c.by, IF c.t \in live THEN "ok" ELSE "missing", {})
  /\ UNCHANGED <<live, dead, tmux, lost>>

TtydExits(t) ==
  /\ t \in (live \intersect tmux) \ dead
  /\ dead' = dead \union {t}
  /\ gone' = gone \union {t}
  /\ UNCHANGED <<record, op, wire, live, tmux, used, lost, breaks>>

(* The connection breaks: commands on it are lost, and the next connection   *)
(* has a new manager.  tmux goes on.                                         *)
Break ==
  /\ breaks < MaxBreaks
  /\ breaks' = breaks + 1
  /\ wire' = <<>>
  /\ live' = {} /\ dead' = {}
  /\ gone' = gone \union live
  /\ UNCHANGED <<record, op, tmux, used, lost>>
-----------------------------------------------------------------------------
(* The second halves.  DB: the row is deleted, which raises TerminalNotFound *)
(* if another operation deleted it during the await.                         *)
Delete(o, t, how) ==
  /\ record' = record \ {t}
  /\ Finish(o, IF t \in record THEN how ELSE "notfound")
  /\ UNCHANGED wire

Resume(o, k) ==
  /\ op[o].pc = "call" /\ op[o].kind = k
  /\ UNCHANGED <<hostVars, used, breaks>>

\* a reply is there / the await failed, by a timeout or a closed connection
Answered(o) == op[o].reply # None /\ UNCHANGED lost
Failed(o, S) == lost' = lost \union S

\* a failure to write the record is not followed by a stop
EndStart_NoStop(o) ==
  LET t == op[o].t IN
  /\ Resume(o, "start")
  /\ \/ /\ Answered(o) /\ op[o].reply = "ok"
        /\ record' = record \union {t}
        /\ Finish(o, "done")
     \/ /\ Answered(o)
        /\ Finish(o, "failed") /\ UNCHANGED record
     \/ /\ Failed(o, {t}) /\ Finish(o, "failed") /\ UNCHANGED record
  /\ UNCHANGED wire

(* start_terminal: the record is written once the Companion has confirmed;   *)
(* if that write fails, the terminal is stopped.  After a failed await it is *)
(* not, though it may still come up.                                         *)
EndStart(o) ==
  LET t == op[o].t IN
  /\ Resume(o, "start")
  /\ \/ /\ Answered(o) /\ op[o].reply = "ok"
        /\ record' = record \union {t}
        /\ Finish(o, "done") /\ UNCHANGED wire
     \/ /\ Answered(o) /\ op[o].reply = "ok"
        /\ op' = [op EXCEPT ![o].pc = "stops", ![o].left = {t}]
        /\ wire' = Append(wire, Command(o, "stop", t))
        /\ UNCHANGED record
     \/ /\ Answered(o) /\ op[o].reply = "error"
        /\ Finish(o, "failed") /\ UNCHANGED <<record, wire>>
     \/ /\ Failed(o, {t}) /\ Finish(o, "failed") /\ UNCHANGED <<record, wire>>

\* a listing that failed counts as an empty one
EndList_FailEmpty(o) ==
  LET stale == op[o].seen \ op[o].ids IN
  /\ Resume(o, "list")
  /\ UNCHANGED lost
  /\ op' = [op EXCEPT ![o].pc = "stops", ![o].seen = stale, ![o].left = {}]
  /\ UNCHANGED <<record, wire>>

(* list_live_terminals: records that the listing did not confirm are stopped *)
(* and then deleted; a failed listing deletes nothing.                       *)
EndList(o) ==
  LET stale == op[o].seen \ op[o].ids IN
  /\ Resume(o, "list")
  /\ \/ /\ Answered(o)
        /\ op' = [op EXCEPT ![o].pc = IF stale = {} THEN "done" ELSE "stops",
                            ![o].seen = stale, ![o].left = stale]
        /\ wire' = wire \o Stops(o, stale)
     \/ Failed(o, {}) /\ Finish(o, "failed") /\ UNCHANGED wire
  /\ UNCHANGED record

(* inject_input, set_mouse_mode: only "terminal not found" deletes the row.  *)
EndInput(o) ==
  /\ Resume(o, "input")
  /\ \/ Answered(o) /\ op[o].reply = "missing" /\ Delete(o, op[o].t, "unavailable")
     \/ /\ Answered(o) /\ op[o].reply = "ok"
        /\ Finish(o, "done") /\ UNCHANGED <<record, wire>>
     \/ Failed(o, {}) /\ Finish(o, "failed") /\ UNCHANGED <<record, wire>>

(* load_live_ttyd_connect_url: a failed listing deletes the row too.         *)
EndProxy(o) ==
  LET t == op[o].t IN
  /\ Resume(o, "proxy")
  /\ \/ Answered(o) /\ t \notin op[o].ids /\ Delete(o, t, "unavailable")
     \/ /\ Answered(o) /\ t \in op[o].ids
        /\ Finish(o, "done") /\ UNCHANGED <<record, wire>>
     \/ Failed(o, {t}) /\ Delete(o, t, "unavailable")

\* One of the awaited stops fails.
StopFails(o, t) ==
  /\ op[o].pc = "stops" /\ t \in op[o].left
  /\ op' = [op EXCEPT ![o].left = @ \ {t}]
  /\ lost' = lost \union {t}
  /\ UNCHANGED <<record, wire, hostVars, used, breaks>>

(* All stops are over, whatever came of them: the rows go.  release deletes  *)
(* every row the owner has by now.                                           *)
EndStops(o) ==
  /\ op[o].pc = "stops" /\ op[o].left = {}
  /\ \/ op[o].kind = "close" /\ Delete(o, op[o].t, "done")
     \/ /\ op[o].kind \in {"list", "release", "start"}
        /\ record' = CASE op[o].kind = "list" -> record \ op[o].seen
                       [] op[o].kind = "release" -> {}
                       [] OTHER -> record
        /\ Finish(o, IF op[o].kind = "start" THEN "failed" ELSE "done")
        /\ UNCHANGED wire
  /\ UNCHANGED <<hostVars, used, lost, breaks>>
-----------------------------------------------------------------------------
Ask(o) ==
  \/ AskStart(o) \/ AskList(o) \/ AskRelease(o)
  \/ \E t \in Terminals :
       AskAbout(o, "input", "input", t) \/ AskAbout(o, "proxy", "list", t)
         \/ AskClose(o, t)

End(o) ==
  \/ EndStart(o) \/ EndList(o) \/ EndInput(o) \/ EndProxy(o) \/ EndStops(o)
  \/ \E t \in Terminals : StopFails(o, t)

Companion == HandleStart \/ HandleStop \/ HandleList \/ HandleInput

Fault == Break \/ \E t \in Terminals : TtydExits(t)

Finished ==
  /\ wire = <<>>
  /\ \A o \in Ops : op[o].pc \in Ended \union {"idle"}
  /\ UNCHANGED vars

Next == (\E o \in Ops : Ask(o) \/ End(o)) \/ Companion \/ Fault \/ Finished

Spec == Init /\ [][Next]_vars
-----------------------------------------------------------------------------
TypeOK ==
  /\ record \subseteq Terminals
  /\ op \in [Ops -> OpStates]
  /\ wire \in Seq(Commands)
  /\ live \subseteq Terminals /\ dead \subseteq live /\ tmux \subseteq Terminals
  /\ used \subseteq Terminals /\ lost \subseteq Terminals /\ gone \subseteq Terminals
  /\ breaks \in 0..MaxBreaks

\* Some command or unfinished operation is still about t.
Underway(t) ==
  \/ \E i \in DOMAIN wire : wire[i].t = t
  \/ \E o \in Ops : op[o].pc \in {"call", "stops"} /\ (op[o].t = t \/ t \in op[o].seen)

(* A record stands for a terminal that runs, unless its ttyd exited, its     *)
(* manager is gone or an operation is still at it: neither a failed or late  *)
(* start nor a stop leaves a row behind.                                     *)
RecordsAreBacked ==
  \A t \in record : t \in live \intersect tmux \/ t \in gone \/ Underway(t)

(* A tmux session without a record is the trace of a failure or of a release *)
(* (which deletes the rows of what was started while it stopped the others,  *)
(* too): with calls that succeed, ttyd processes that live and one manager,  *)
(* no interleaving of start, list, close, input and proxy leaves one running *)
(* unrecorded.                                                               *)
OrphansHaveACause ==
  \A t \in tmux \ record :
    \/ t \in lost \union gone \/ Underway(t)
    \/ \E o \in Ops : op[o].kind = "release" /\ op[o].pc = "done"

(* list_live_terminals never prunes a terminal that is being served: when    *)
(* it has ended, the records it found stale are not among the live sessions, *)
(* unless the stop failed.                                                   *)
PrunedAreStopped ==
  \A o \in Ops : op[o].kind \in {"list", "release"} /\ op[o].pc = "done" =>
    \A t \in op[o].seen : t \in live \union tmux => t \in lost
=============================================================================
