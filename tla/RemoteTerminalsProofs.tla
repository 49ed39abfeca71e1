------------------------ MODULE RemoteTerminalsProofs ------------------------
(***************************************************************************)
(* Proofs about RemoteTerminals for any operations and breaks and any        *)
(* finite set of terminals: a record is backed by a terminal, a tmux session  *)
(* without a record has a cause, and what a listing prunes is stopped.       *)
(***************************************************************************)
EXTENDS RemoteTerminals, FiniteSetTheorems, SequenceTheorems, TLAPS

Starting(o) == op[o].pc = "call" /\ op[o].kind = "start"

\* terminals are known by ids that were handed out, and an operation is what
\* its first half made of it
Known ==
  /\ record \subseteq used
  /\ \A o \in Ops : /\ op[o].seen \subseteq used
                    /\ op[o].t \in used \union {None}
                    /\ op[o].pc = "idle" => op[o] = Idle
                    /\ op[o].pc = "call" => op[o].kind \in {"start", "list", "input", "proxy"}
                    /\ op[o].kind = "close" => op[o].seen = {op[o].t}
                    /\ op[o].kind = "start" => op[o].seen = {}
                    /\ op[o].kind \in {"input", "proxy"} => op[o].t \in used
                    /\ op[o].pc = "done" => op[o].left = {}
  /\ \A i \in DOMAIN wire : wire[i].t \in used \union {None}

\* an operation has one call on its way at most, the one it waits for
Calls ==
  \A i \in DOMAIN wire :
    LET c == wire[i] IN
    /\ op[c.by].pc # "idle"
    /\ op[c.by].pc = "call" =>
         /\ op[c.by].reply = None
         /\ c.cmd = "start" <=> op[c.by].kind = "start"
         /\ op[c.by].kind = "input" => c.t = op[c.by].t
         /\ op[c.by].kind = "proxy" => c.cmd = "list"
         /\ \A j \in DOMAIN wire : wire[j].by = c.by => j = i

\* nothing but its own operation knows of a terminal that is not started yet
Unstarted ==
  \A i \in DOMAIN wire : wire[i].cmd = "start" =>
    LET c == wire[i] IN
    /\ c.t \in used \ record
    /\ op[c.by].kind = "start" /\ op[c.by].t = c.t
    /\ op[c.by].pc = "call" \/ c.t \in lost
    /\ \A o \in Ops : op[o].kind # "start" => op[o].t # c.t /\ c.t \notin op[o].seen
    /\ \A j \in DOMAIN wire : wire[j].cmd = "start" /\ wire[j].t = c.t => j = i

\* a stop is of a terminal that was recorded or failed to be, and the record
\* goes with the operation that stops it
Stopping ==
  \A i \in DOMAIN wire : wire[i].cmd = "stop" =>
    LET c == wire[i] IN
    /\ \A o \in Ops : Starting(o) => op[o].t # c.t
    /\ c.t \in record => /\ op[c.by].pc = "stops"
                         /\ op[c.by].kind \in {"close", "list", "release"}
                         /\ c.t \in op[c.by].seen

\* a start that was answered tells what came of it
Starts ==
  \A o \in Ops :
    /\ op[o].kind = "start" =>
         \A p \in Ops : op[p].kind = "start" /\ op[p].t = op[o].t => p = o
    /\ Starting(o) =>
         /\ op[o].t \in used \ record
         /\ \A p \in Ops : op[p].kind # "start" => op[p].t # op[o].t /\ op[o].t \notin op[p].seen
         /\ op[o].reply = "ok" => op[o].t \in (live \intersect tmux) \union gone
         /\ op[o].reply = "error" => op[o].t \in lost

Backed ==
  \A t \in record :
    \/ t \in live \intersect tmux \/ t \in gone
    \/ \E o \in Ops : /\ op[o].pc = "stops" /\ op[o].kind \in {"close", "list", "release"}
                      /\ t \in op[o].seen

\* what the manager does not serve, though it runs, it has lost
Served == dead \subseteq gone /\ tmux \subseteq live \union gone

\* what an operation is to stop is stopped in the end, or the stop failed
Stopped ==
  \A o \in Ops : op[o].kind \in {"close", "list", "release"} /\ op[o].pc \in {"stops", "done"} =>
    \A t \in op[o].seen : t \in op[o].left \/ t \in lost \/ t \notin live \union tmux

\* what a call is told of its terminal stays true
Told ==
  \A o \in Ops : op[o].pc = "call" =>
    /\ op[o].kind = "input" /\ op[o].reply = "missing" => op[o].t \notin tmux \/ op[o].t \in gone
    /\ op[o].kind = "proxy" /\ op[o].reply # None =>
         op[o].t \in op[o].ids \/ op[o].t \notin tmux \/ op[o].t \in gone

Traced ==
  \A t \in tmux \ record :
    \/ t \in lost \union gone
    \/ \E o \in Ops : \/ op[o].kind = "start" /\ op[o].t = t
                         /\ (op[o].pc = "call" \/ (op[o].pc = "stops" /\ t \in op[o].left))
                      \/ op[o].kind = "release" /\ op[o].pc = "done"

Inv == /\ TypeOK /\ Known /\ Calls /\ Unstarted /\ Stopping /\ Starts
       /\ Backed /\ Served /\ Stopped /\ Told /\ Traced

-----------------------------------------------------------------------------
(* The wire.                                                                 *)

(* A command on the wire is of an operation.                                 *)
LEMMA WireTyped ==
  ASSUME TypeOK, NEW i \in DOMAIN wire
  PROVE  wire[i] \in Commands /\ wire[i].by \in Ops
<1>1. wire[i] \in Commands
  BY DEF TypeOK
<1>2. QED
  BY <1>1 DEF Commands

(* A command is put behind the others.                                       *)
LEMMA AppendWire ==
  ASSUME TypeOK, NEW c \in Commands, wire' = Append(wire, c)
  PROVE  /\ wire' \in Seq(Commands)
         /\ Len(wire) \in Nat
         /\ DOMAIN wire = 1..Len(wire) /\ DOMAIN wire' = 1..(Len(wire) + 1)
         /\ wire'[Len(wire) + 1] = c
         /\ \A i \in DOMAIN wire : wire'[i] = wire[i]
  BY DEF TypeOK

(* The first command is taken from the wire, the others move up.             *)
LEMMA TailWire ==
  ASSUME TypeOK, wire # <<>>, wire' = Tail(wire)
  PROVE  /\ wire' \in Seq(Commands)
         /\ Head(wire) = wire[1] /\ 1 \in DOMAIN wire /\ Head(wire) \in Commands
         /\ \A i \in DOMAIN wire' : /\ i \in Nat \ {0} /\ i + 1 \in DOMAIN wire
                                    /\ wire'[i] = wire[i + 1]
  BY DEF TypeOK

(* The members of a finite set can be put into a sequence.                   *)
LEMMA Listed ==
  ASSUME NEW S \in SUBSET Terminals
  PROVE  /\ Cardinality(S) \in Nat
         /\ \A i \in 1..Cardinality(S) : SetToSeq(S)[i] \in S
<1>1. IsFiniteSet(S)
  BY TerminalsAssumption, FS_Subset
<1>2. Cardinality(S) \in Nat /\ \E f : f \in Bijection(1..Cardinality(S), S)
  BY <1>1, FS_CardinalityType DEF ExistsBijection
<1>3. \E f \in [1..Cardinality(S) -> S] : IsInjective(f)
  BY <1>2 DEF Bijection, Injection, IsInjective
<1>4. SetToSeq(S) \in [1..Cardinality(S) -> S]
  BY <1>3 DEF SetToSeq
<1>5. QED
  BY <1>2, <1>4

(* The stops of several terminals are put behind the others.                 *)
LEMMA StopsWire ==
  ASSUME TypeOK, NEW o \in Ops, NEW S \in SUBSET Terminals,
         wire' = wire \o Stops(o, S)
  PROVE  /\ wire' \in Seq(Commands)
         /\ \A i \in DOMAIN wire' :
              \/ i \in DOMAIN wire /\ wire'[i] = wire[i]
              \/ i \notin DOMAIN wire /\ \E t \in S : wire'[i] = Command(o, "stop", t)
<1> DEFINE n == Cardinality(S)
           w == Stops(o, S)
<1>1. n \in Nat /\ \A i \in 1..n : SetToSeq(S)[i] \in S
  BY Listed
<1>2. /\ w = [i \in 1..n |-> Command(o, "stop", SetToSeq(S)[i])]
      /\ \A t \in S : Command(o, "stop", t) \in Commands
  BY DEF Stops, Command, Commands
<1> HIDE DEF n, w
<1>3. w \in Seq(Commands) /\ Len(w) = n /\ \A i \in 1..n : \E t \in S : w[i] = Command(o, "stop", t)
  <2>1. w \in [1..n -> Commands] /\ \A i \in 1..n : \E t \in S : w[i] = Command(o, "stop", t)
    BY <1>1, <1>2
  <2>2. w \in Seq(Commands) /\ DOMAIN w = 1..n
    BY <1>1, <2>1, SeqDef
  <2>3. Len(w) = n
    BY <1>1, <2>2, LenProperties
  <2>4. QED
    BY <2>1, <2>2, <2>3
<1>4. wire \in Seq(Commands) /\ wire' = wire \o w
  BY DEF TypeOK, w
<1>5. /\ wire' \in Seq(Commands)
      /\ Len(wire') = Len(wire) + n /\ Len(wire) \in Nat
      /\ \A i \in 1..(Len(wire) + n) :
           wire'[i] = IF i <= Len(wire) THEN wire[i] ELSE w[i - Len(wire)]
  <2>1. Len(wire) \in Nat
    BY <1>4, LenProperties
  <2>2. w \in Seq(Commands)
    BY <1>3
  <2>3. /\ wire \o w \in Seq(Commands)
        /\ Len(wire \o w) = Len(wire) + Len(w)
        /\ \A i \in 1 .. Len(wire) + Len(w) :
             (wire \o w)[i] = IF i <= Len(wire) THEN wire[i] ELSE w[i - Len(wire)]
    BY <1>4, <2>2, ConcatProperties
  <2>4. QED
    BY <1>3, <1>4, <2>1, <2>3
<1>6. DOMAIN wire = 1..Len(wire) /\ DOMAIN wire' = 1..(Len(wire) + n)
  BY <1>1, <1>4, <1>5
<1>7. \A i \in DOMAIN wire' : i \notin DOMAIN wire => i - Len(wire) \in 1..n /\ ~(i <= Len(wire))
  BY <1>1, <1>5, <1>6
<1>8. QED
  BY <1>3, <1>5, <1>6, <1>7

-----------------------------------------------------------------------------
(* The first halves.                                                         *)

(* An operation that begins is made of what its first half hands it.         *)
LEMMA Entered ==
  ASSUME TypeOK, NEW o \in Ops, NEW pc \in {"call", "stops", "done"}, NEW k \in AllKinds,
         NEW t \in Terminals \union {None}, NEW seen \in SUBSET Terminals,
         NEW left \in SUBSET Terminals, Enter(o, pc, k, t, seen, left)
  PROVE  /\ op' \in [Ops -> OpStates]
         /\ op'[o].pc = pc /\ op'[o].kind = k /\ op'[o].t = t /\ op'[o].seen = seen
         /\ op'[o].left = left /\ op'[o].reply = None /\ op'[o].ids = {}
         /\ \A p \in Ops : p # o => op'[p] = op[p]
<1> DEFINE q == [pc |-> pc, kind |-> k, t |-> t, seen |-> seen, left |-> left,
                 reply |-> None, ids |-> {}]
<1>1. q \in OpStates
  BY DEF OpStates, Ended
<1>2. op' = [op EXCEPT ![o] = q]
  BY DEF Enter
<1>3. QED
  BY <1>1, <1>2 DEF TypeOK

(* A start asks for a terminal that nobody knows.                            *)
LEMMA AskStartInv ==
  ASSUME Inv, NEW o \in Ops, AskStart(o)
  PROVE  Inv'
<1>1. TypeOK /\ op[o].pc = "idle" /\ op[o] = Idle
  BY DEF AskStart, Begin, Inv, Known
<1>2. PICK t \in Terminals \ used :
        /\ used' = used \union {t}
        /\ Enter(o, "call", "start", t, {}, {})
        /\ wire' = Append(wire, Command(o, "start", t))
  BY DEF AskStart
<1>3. UNCHANGED <<record, live, dead, tmux, gone, lost, breaks>>
  BY DEF AskStart, hostVars
<1>4. /\ op' \in [Ops -> OpStates]
      /\ op'[o].pc = "call" /\ op'[o].kind = "start" /\ op'[o].t = t /\ op'[o].seen = {}
      /\ op'[o].left = {} /\ op'[o].reply = None /\ op'[o].ids = {}
      /\ \A p \in Ops : p # o => op'[p] = op[p]
  <2>1. "start" \in AllKinds /\ "call" \in {"call", "stops", "done"}
    BY DEF AllKinds
  <2>2. t \in Terminals \union {None} /\ {} \in SUBSET Terminals
    OBVIOUS
  <2>3. QED
    BY <1>1, <1>2, <2>1, <2>2, Entered
<1> DEFINE n == Len(wire) + 1
<1>5. /\ wire' \in Seq(Commands) /\ n \notin DOMAIN wire
      /\ DOMAIN wire' = DOMAIN wire \union {n}
      /\ \A i \in DOMAIN wire : wire'[i] = wire[i] /\ wire[i] \in Commands
      /\ wire'[n].by = o /\ wire'[n].cmd = "start" /\ wire'[n].t = t
  <2>1. Command(o, "start", t) \in Commands
    BY DEF Command, Commands
  <2>2. QED
    BY <1>1, <1>2, <2>1, AppendWire DEF Command, TypeOK
<1>6. t # None /\ \A i \in DOMAIN wire : wire[i].by \in Ops /\ wire[i].by # o
  BY <1>1, <1>5, NoneAssumption DEF Inv, Calls, Commands
<1> HIDE DEF n
<1>7. TypeOK'
  BY <1>1, <1>2, <1>3, <1>4, <1>5 DEF TypeOK
<1>8. Known'
  BY <1>1, <1>2, <1>3, <1>4, <1>5 DEF Inv, Known
<1>9. Calls'
  BY <1>1, <1>2, <1>3, <1>4, <1>5, <1>6 DEF Inv, Calls
<1>10. Unstarted'
  BY <1>1, <1>2, <1>3, <1>4, <1>5, <1>6 DEF Inv, Known, Unstarted
<1>11. Stopping'
  BY <1>1, <1>2, <1>3, <1>4, <1>5, <1>6 DEF Inv, Known, Stopping, Starting
<1>12. Starts'
  BY <1>1, <1>2, <1>3, <1>4, <1>6, NoneAssumption DEF Inv, Known, Starts, Starting
<1>13. Backed'
  BY <1>1, <1>3, <1>4 DEF Inv, Backed
<1>14. Served' /\ Stopped'
  BY <1>1, <1>3, <1>4 DEF Inv, Served, Stopped
<1>15. Told' /\ Traced'
  BY <1>1, <1>3, <1>4 DEF Inv, Told, Traced, Idle
<1>16. QED
  BY <1>7, <1>8, <1>9, <1>10, <1>11, <1>12, <1>13, <1>14, <1>15 DEF Inv

(* A call is about recorded terminals.                                       *)
LEMMA AskCallInv ==
  ASSUME Inv, NEW o \in Ops, op[o].pc = "idle", NEW k \in {"list", "input", "proxy"},
         NEW t \in record \union {None}, NEW seen \in SUBSET record,
         NEW cmd \in {"list", "input"}, NEW ct \in record \union {None},
         k # "list" => t # None, k = "input" => ct = t, k = "proxy" => cmd = "list",
         Enter(o, "call", k, t, seen, {}),
         wire' = Append(wire, Command(o, cmd, ct)),
         UNCHANGED <<record, hostVars, used, lost, breaks>>
  PROVE  Inv'
<1>1. TypeOK /\ op[o] = Idle /\ record \subseteq Terminals /\ record \subseteq used
  BY DEF Inv, Known, TypeOK
<1>2. UNCHANGED <<record, live, dead, tmux, gone, used, lost, breaks>>
  BY DEF hostVars
<1>3. /\ op' \in [Ops -> OpStates]
      /\ op'[o].pc = "call" /\ op'[o].kind = k /\ op'[o].t = t /\ op'[o].seen = seen
      /\ op'[o].left = {} /\ op'[o].reply = None /\ op'[o].ids = {}
      /\ \A p \in Ops : p # o => op'[p] = op[p]
  <2>1. k \in AllKinds /\ "call" \in {"call", "stops", "done"}
    BY DEF AllKinds
  <2>2. t \in Terminals \union {None} /\ seen \in SUBSET Terminals /\ {} \in SUBSET Terminals
    BY <1>1
  <2>3. QED
    BY <1>1, <2>1, <2>2, Entered
<1> DEFINE n == Len(wire) + 1
<1>4. /\ wire' \in Seq(Commands) /\ n \notin DOMAIN wire
      /\ DOMAIN wire' = DOMAIN wire \union {n}
      /\ \A i \in DOMAIN wire : wire'[i] = wire[i] /\ wire[i] \in Commands
      /\ wire'[n].by = o /\ wire'[n].cmd = cmd /\ wire'[n].t = ct
  <2>1. Command(o, cmd, ct) \in Commands
    BY <1>1 DEF Command, Commands
  <2>2. QED
    BY <1>1, <2>1, AppendWire DEF Command, TypeOK
<1>5. \A i \in DOMAIN wire : wire[i].by \in Ops /\ wire[i].by # o
  BY <1>4 DEF Inv, Calls, Commands
<1>6. None \notin used /\ k \notin {"start", "close"} /\ k # None /\ None # "ok" /\ None # "missing"
  BY <1>1, NoneAssumption DEF TypeOK, AllKinds
<1> HIDE DEF n
<1>7. TypeOK'
  BY <1>1, <1>2, <1>3, <1>4 DEF TypeOK
<1>8. Known'
  BY <1>1, <1>2, <1>3, <1>4, <1>6 DEF Inv, Known
<1>9. Calls'
  BY <1>2, <1>3, <1>4, <1>5, <1>6 DEF Inv, Calls
<1>10. Unstarted'
  BY <1>1, <1>2, <1>3, <1>4, <1>5, <1>6, WireTyped DEF Inv, Unstarted
<1>11. Stopping'
  BY <1>2, <1>3, <1>4, <1>5, <1>6, WireTyped DEF Inv, Stopping, Starting
<1>12. Starts'
  BY <1>1, <1>2, <1>3, <1>6 DEF Inv, Starts, Starting
<1>13. Backed' /\ Served'
  BY <1>1, <1>2, <1>3 DEF Inv, Backed, Served, Idle
<1>14. Stopped' /\ Told'
  BY <1>2, <1>3, <1>6 DEF Inv, Stopped, Told
<1>15. Traced'
  BY <1>1, <1>2, <1>3 DEF Inv, Traced, Idle
<1>16. QED
  BY <1>7, <1>8, <1>9, <1>10, <1>11, <1>12, <1>13, <1>14, <1>15 DEF Inv

(* What is to be stopped was recorded when the operation began.              *)
LEMMA AskStopsInv ==
  ASSUME Inv, NEW o \in Ops, op[o].pc = "idle", NEW k \in {"close", "list", "release"},
         NEW pc \in {"stops", "done"}, NEW t \in record \union {None},
         NEW S \in SUBSET record, k = "close" => S = {t}, pc = "done" => S = {},
         Enter(o, pc, k, t, S, S),
         wire' \in Seq(Commands),
         \A i \in DOMAIN wire' :
           \/ i \in DOMAIN wire /\ wire'[i] = wire[i]
           \/ i \notin DOMAIN wire /\ \E u \in S : wire'[i] = Command(o, "stop", u),
         UNCHANGED <<record, hostVars, used, lost, breaks>>
  PROVE  Inv'
<1>1. TypeOK /\ op[o] = Idle /\ record \subseteq Terminals /\ record \subseteq used
  BY DEF Inv, Known, TypeOK
<1>2. UNCHANGED <<record, live, dead, tmux, gone, used, lost, breaks>>
  BY DEF hostVars
<1>3. /\ op' \in [Ops -> OpStates]
      /\ op'[o].pc = pc /\ op'[o].kind = k /\ op'[o].t = t /\ op'[o].seen = S
      /\ op'[o].left = S /\ op'[o].reply = None /\ op'[o].ids = {}
      /\ \A p \in Ops : p # o => op'[p] = op[p]
  <2>1. k \in AllKinds /\ pc \in {"call", "stops", "done"}
    BY DEF AllKinds
  <2>2. t \in Terminals \union {None} /\ S \in SUBSET Terminals
    BY <1>1
  <2>3. TypeOK /\ Enter(o, pc, k, t, S, S)
    BY <1>1
  <2>4. [pc |-> pc, kind |-> k, t |-> t, seen |-> S, left |-> S, reply |-> None,
         ids |-> {}] \in OpStates
    BY <2>1, <2>2 DEF OpStates, Ended
  <2>5. QED
    BY <2>3, <2>4 DEF Enter, TypeOK
<1>4. \A i \in DOMAIN wire' :
        \/ i \in DOMAIN wire /\ wire'[i] = wire[i] /\ wire[i] \in Commands
        \/ /\ i \notin DOMAIN wire /\ wire'[i].by = o /\ wire'[i].cmd = "stop"
           /\ wire'[i].t \in S /\ pc = "stops"
  BY <1>1 DEF Command, TypeOK
<1>5. \A i \in DOMAIN wire : wire[i].by \in Ops /\ wire[i].by # o
  BY <1>1, WireTyped DEF Inv, Calls
<1>6. None \notin used /\ k # "start" /\ k # None
  BY <1>1, NoneAssumption DEF TypeOK, AllKinds
<1>7. TypeOK'
  BY <1>1, <1>2, <1>3 DEF TypeOK
<1>8. Known'
  BY <1>1, <1>2, <1>3, <1>4, <1>6 DEF Inv, Known
<1>9. Calls'
  BY <1>2, <1>3, <1>4, <1>5, <1>6 DEF Inv, Calls
<1>10. Unstarted'
  BY <1>1, <1>2, <1>3, <1>4, <1>5, <1>6, WireTyped DEF Inv, Unstarted
<1>11. Stopping'
  BY <1>1, <1>2, <1>3, <1>4, <1>5, <1>6, WireTyped DEF Inv, Stopping, Starting, Starts
<1>12. Starts'
  BY <1>1, <1>2, <1>3, <1>6 DEF Inv, Starts, Starting
<1>13. Backed' /\ Served'
  BY <1>1, <1>2, <1>3 DEF Inv, Backed, Served, Idle
<1>14. Stopped' /\ Told'
  BY <1>2, <1>3, <1>6 DEF Inv, Stopped, Told
<1>15. Traced'
  BY <1>1, <1>2, <1>3 DEF Inv, Traced, Idle
<1>16. QED
  BY <1>7, <1>8, <1>9, <1>10, <1>11, <1>12, <1>13, <1>14, <1>15 DEF Inv

(* So every first half keeps the invariant.                                  *)
LEMMA AskInv ==
  ASSUME Inv, NEW o \in Ops, Ask(o)
  PROVE  Inv'
<1>1. TypeOK /\ record \subseteq Terminals
  BY DEF Inv, TypeOK
<1>2. CASE AskList(o)
  <2>1. CASE record = {}
    <3>1. \A i \in DOMAIN wire : i \in DOMAIN wire /\ wire[i] = wire[i]
      OBVIOUS
    <3>2. /\ Enter(o, "done", "list", None, {}, {}) /\ UNCHANGED wire
          /\ op[o].pc = "idle" /\ wire \in Seq(Commands)
      BY <1>1, <1>2, <2>1 DEF AskList, Begin, TypeOK
    <3>3. None \in record \union {None} /\ {} \in SUBSET record
      OBVIOUS
    <3>4. /\ wire' \in Seq(Commands)
          /\ \A i \in DOMAIN wire' :
               \/ i \in DOMAIN wire /\ wire'[i] = wire[i]
               \/ i \notin DOMAIN wire /\ \E u \in {} : wire'[i] = Command(o, "stop", u)
          /\ UNCHANGED <<record, hostVars, used, lost, breaks>>
      BY <1>2, <3>1, <3>2 DEF AskList
    <3>5. QED
      BY <3>2, <3>3, <3>4, AskStopsInv
  <2>2. CASE record # {}
    BY <1>2, <2>2, AskCallInv DEF AskList, Begin
  <2>3. QED
    BY <2>1, <2>2
<1>3. ASSUME NEW t \in Terminals, AskAbout(o, "input", "input", t) PROVE Inv'
  BY <1>1, <1>3, NoneAssumption, AskCallInv DEF AskAbout, Begin
<1>4. ASSUME NEW t \in Terminals, AskAbout(o, "proxy", "list", t) PROVE Inv'
  BY <1>1, <1>4, NoneAssumption, AskCallInv DEF AskAbout, Begin
<1>5. ASSUME NEW t \in Terminals, AskClose(o, t) PROVE Inv'
  <2>1. Command(o, "stop", t) \in Commands
    BY DEF Command, Commands
  <2>2. /\ wire' \in Seq(Commands)
        /\ \A i \in DOMAIN wire' :
             \/ i \in DOMAIN wire /\ wire'[i] = wire[i]
             \/ i \notin DOMAIN wire /\ \E u \in {t} : wire'[i] = Command(o, "stop", u)
    BY <1>1, <1>5, <2>1, AppendWire DEF AskClose
  <2>3. t \in record /\ Enter(o, "stops", "close", t, {t}, {t}) /\ op[o].pc = "idle"
    BY <1>5 DEF AskClose, Begin
  <2>4. QED
    BY <1>5, <2>2, <2>3, AskStopsInv DEF AskClose
<1>6. CASE AskRelease(o)
  <2>1. /\ wire' \in Seq(Commands)
        /\ \A i \in DOMAIN wire' :
             \/ i \in DOMAIN wire /\ wire'[i] = wire[i]
             \/ i \notin DOMAIN wire /\ \E t \in record : wire'[i] = Command(o, "stop", t)
    BY <1>1, <1>6, StopsWire DEF AskRelease
  <2>2. /\ Enter(o, IF record = {} THEN "done" ELSE "stops", "release", None, record, record)
        /\ op[o].pc = "idle"
    BY <1>6 DEF AskRelease, Begin
  <2>3. UNCHANGED <<record, hostVars, used, lost, breaks>> /\ record \in SUBSET record
    BY <1>6 DEF AskRelease
  <2>4. CASE record = {}
    BY <2>1, <2>2, <2>3, <2>4, AskStopsInv
  <2>5. CASE record # {}
    BY <2>1, <2>2, <2>3, <2>5, AskStopsInv
  <2>6. QED
    BY <2>4, <2>5
<1>7. QED
  BY <1>2, <1>3, <1>4, <1>5, <1>6, AskStartInv DEF Ask

-----------------------------------------------------------------------------
(* The Companion.                                                            *)

(* Only the operation that waits for a reply gets it.                        *)
LEMMA Replied ==
  ASSUME TypeOK, NEW o \in Ops, NEW how \in {"ok", "error", "missing"},
         NEW ids \in SUBSET Terminals, Reply(o, how, ids)
  PROVE  /\ op' \in [Ops -> OpStates]
         /\ \A p \in Ops : /\ op'[p].pc = op[p].pc /\ op'[p].kind = op[p].kind
                           /\ op'[p].t = op[p].t /\ op'[p].seen = op[p].seen
                           /\ op'[p].left = op[p].left
                           /\ p # o \/ op[p].pc # "call" => op'[p] = op[p]
         /\ op[o].pc = "call" => op'[o].reply = how /\ op'[o].ids = ids
<1> DEFINE q == [op[o] EXCEPT !.reply = how, !.ids = ids]
<1>1. op[o] \in OpStates
  BY DEF TypeOK
<1>2. /\ q \in OpStates
      /\ q.pc = op[o].pc /\ q.kind = op[o].kind /\ q.t = op[o].t /\ q.seen = op[o].seen
      /\ q.left = op[o].left /\ q.reply = how /\ q.ids = ids
  BY <1>1 DEF OpStates
<1>3. op' = IF op[o].pc = "call" THEN [op EXCEPT ![o] = q] ELSE op
  BY DEF Reply, TypeOK
<1> HIDE DEF q
<1>4. QED
  BY <1>2, <1>3 DEF TypeOK

(* The calls that are left wait for the operations that still call.          *)
LEMMA HandleCalls ==
  ASSUME Inv, wire # <<>>, wire' = Tail(wire),
         \A p \in Ops : /\ op'[p].pc = op[p].pc /\ op'[p].kind = op[p].kind
                        /\ op'[p].t = op[p].t
                        /\ p # Head(wire).by => op'[p].reply = op[p].reply
  PROVE  Calls'
<1>1. /\ Head(wire) = wire[1] /\ 1 \in DOMAIN wire
      /\ \A i \in DOMAIN wire' : /\ i \in Nat \ {0} /\ i + 1 \in DOMAIN wire
                                 /\ wire'[i] = wire[i + 1]
  BY TailWire DEF Inv
<1>2. \A i \in DOMAIN wire : wire[i].by \in Ops
  BY WireTyped DEF Inv
<1> SUFFICES ASSUME NEW i \in DOMAIN wire'
             PROVE  /\ op'[wire'[i].by].pc # "idle"
                    /\ op'[wire'[i].by].pc = "call" =>
                         /\ op'[wire'[i].by].reply = None
                         /\ wire'[i].cmd = "start" <=> op'[wire'[i].by].kind = "start"
                         /\ op'[wire'[i].by].kind = "input" => wire'[i].t = op'[wire'[i].by].t
                         /\ op'[wire'[i].by].kind = "proxy" => wire'[i].cmd = "list"
                         /\ \A j \in DOMAIN wire' : wire'[j].by = wire'[i].by => j = i
  BY DEF Calls
<1> DEFINE c == wire[i + 1]
<1>3. c = wire'[i] /\ c.by \in Ops /\ i + 1 \in DOMAIN wire /\ i + 1 # 1
  BY <1>1, <1>2
<1>4. /\ op[c.by].pc # "idle"
      /\ op[c.by].pc = "call" =>
           /\ op[c.by].reply = None
           /\ c.cmd = "start" <=> op[c.by].kind = "start"
           /\ op[c.by].kind = "input" => c.t = op[c.by].t
           /\ op[c.by].kind = "proxy" => c.cmd = "list"
           /\ \A j \in DOMAIN wire : wire[j].by = c.by => j = i + 1
  BY <1>3 DEF Inv, Calls
<1>5. op[c.by].pc = "call" => c.by # Head(wire).by
  BY <1>1, <1>3, <1>4
<1>6. \A j \in DOMAIN wire' : op[c.by].pc = "call" /\ wire'[j].by = c.by => j = i
  BY <1>1, <1>4
<1> HIDE DEF c
<1>7. QED
  BY <1>3, <1>4, <1>5, <1>6

(* A start comes up, as an entry only, or not at all; the operation is told, *)
(* if it has not given up.                                                   *)
LEMMA HandleStartInv ==
  ASSUME Inv, HandleStart
  PROVE  Inv'
<1> DEFINE o == wire[1].by
           t == wire[1].t
<1>1. TypeOK /\ wire # <<>> /\ Head(wire).cmd = "start" /\ wire' = Tail(wire)
  BY DEF HandleStart, Handle, Inv
<1>2. /\ wire' \in Seq(Commands)
      /\ Head(wire) = wire[1] /\ 1 \in DOMAIN wire /\ wire[1] \in Commands
      /\ \A i \in DOMAIN wire' : /\ i \in Nat \ {0} /\ i + 1 \in DOMAIN wire
                                 /\ wire'[i] = wire[i + 1] /\ i + 1 # 1
  BY <1>1, TailWire
<1>3. /\ o \in Ops /\ t \in used \ record /\ op[o].kind = "start" /\ op[o].t = t
      /\ op[o].pc = "call" \/ t \in lost
      /\ \A p \in Ops : op[p].kind # "start" => op[p].t # t /\ t \notin op[p].seen
      /\ \A j \in DOMAIN wire : wire[j].cmd = "start" /\ wire[j].t = t => j = 1
  BY <1>1, <1>2 DEF Inv, Unstarted, Commands
<1>4. \E how \in {"ok", "error"} :
        /\ Reply(o, how, {})
        /\ how = "ok" => t \in live' \intersect tmux'
        /\ how = "error" => t \in lost'
  BY <1>1, <1>2 DEF HandleStart
<1>5. PICK how \in {"ok", "error"} :
        /\ Reply(o, how, {})
        /\ how = "ok" => t \in live' \intersect tmux'
        /\ how = "error" => t \in lost'
  BY <1>4
<1>6. /\ live' \in {live, live \union {t}} /\ tmux' \in {tmux, tmux \union {t}}
      /\ lost' \in {lost, lost \union {t}}
      /\ t \in tmux' => t \in live' \/ t \in tmux
      /\ UNCHANGED <<record, used, dead, gone, breaks>>
  BY <1>1, <1>2 DEF HandleStart, Handle
<1>7. /\ op' \in [Ops -> OpStates]
      /\ \A p \in Ops : /\ op'[p].pc = op[p].pc /\ op'[p].kind = op[p].kind
                        /\ op'[p].t = op[p].t /\ op'[p].seen = op[p].seen
                        /\ op'[p].left = op[p].left
                        /\ p # o \/ op[p].pc # "call" => op'[p] = op[p]
      /\ op[o].pc = "call" => op'[o].reply = how
  BY <1>1, <1>3, <1>5, Replied
<1>8. t \in Terminals
  BY <1>1, <1>3 DEF TypeOK
<1> HIDE DEF o, t
<1>9. TypeOK'
  BY <1>1, <1>2, <1>6, <1>7, <1>8 DEF TypeOK
<1>10. Known'
  <2>1. \A p \in Ops : op'[p].pc = "idle" => op'[p] = op[p]
    BY <1>7
  <2>2. QED
    BY <1>2, <1>6, <1>7, <2>1 DEF Inv, Known
<1>11. Calls'
  BY <1>1, <1>2, <1>7, HandleCalls DEF o
<1>12. Unstarted'
  <2>1. UNCHANGED <<record, used>> /\ lost \subseteq lost'
    BY <1>6
  <2>2. \A p \in Ops : /\ op'[p].pc = op[p].pc /\ op'[p].kind = op[p].kind
                       /\ op'[p].t = op[p].t /\ op'[p].seen = op[p].seen
    BY <1>7
  <2>3. ASSUME NEW i \in DOMAIN wire', wire'[i].cmd = "start"
        PROVE  LET c == wire'[i] IN
               /\ c.t \in used \ record /\ c.by \in Ops
               /\ op[c.by].kind = "start" /\ op[c.by].t = c.t
               /\ op[c.by].pc = "call" \/ c.t \in lost
               /\ \A p \in Ops : op[p].kind # "start" => op[p].t # c.t /\ c.t \notin op[p].seen
    BY <1>1, <1>2, <2>3, WireTyped DEF Inv, Unstarted
  <2>4. \A i, j \in DOMAIN wire' :
          wire'[i].cmd = "start" /\ wire'[j].cmd = "start" /\ wire'[j].t = wire'[i].t => j = i
    BY <1>2 DEF Inv, Unstarted
  <2>5. QED
    BY <2>1, <2>2, <2>3, <2>4 DEF Unstarted
<1>13. Stopping'
  BY <1>1, <1>2, <1>6, <1>7, WireTyped DEF Inv, Stopping, Starting
<1>14. Starts'
  BY <1>3, <1>5, <1>6, <1>7 DEF Inv, Starts, Starting
<1>15. Backed' /\ Served'
  BY <1>3, <1>6, <1>7 DEF Inv, Backed, Served
<1>16. Stopped'
  BY <1>3, <1>6, <1>7 DEF Inv, Stopped
<1>17. Told'
  BY <1>3, <1>6, <1>7 DEF Inv, Told
<1>18. Traced'
  BY <1>3, <1>6, <1>7 DEF Inv, Traced
<1>19. QED
  BY <1>9, <1>10, <1>11, <1>12, <1>13, <1>14, <1>15, <1>16, <1>17, <1>18 DEF Inv

(* What is stopped is neither served nor runs.                               *)
LEMMA HandleStopInv ==
  ASSUME Inv, HandleStop
  PROVE  Inv'
<1> DEFINE o == wire[1].by
           t == wire[1].t
<1>1. TypeOK /\ wire # <<>> /\ Head(wire).cmd = "stop" /\ wire' = Tail(wire)
  BY DEF HandleStop, Handle, Inv
<1>2. /\ wire' \in Seq(Commands)
      /\ Head(wire) = wire[1] /\ 1 \in DOMAIN wire /\ wire[1] \in Commands
      /\ \A i \in DOMAIN wire' : /\ i \in Nat \ {0} /\ i + 1 \in DOMAIN wire
                                 /\ wire'[i] = wire[i + 1]
  BY <1>1, TailWire
<1>3. /\ o \in Ops
      /\ \A p \in Ops : Starting(p) => op[p].t # t
      /\ t \in record => /\ op[o].pc = "stops" /\ op[o].kind \in {"close", "list", "release"}
                         /\ t \in op[o].seen
  BY <1>1, <1>2 DEF Inv, Stopping, Commands
<1>4. /\ live' = live \ {t} /\ dead' = dead \ {t} /\ tmux' = tmux \ {t}
      /\ op' = [op EXCEPT ![o].left = @ \ {t}]
      /\ UNCHANGED <<record, used, lost, gone, breaks>>
  BY <1>1, <1>2 DEF HandleStop, Handle
<1>5. /\ op' \in [Ops -> OpStates]
      /\ \A p \in Ops : /\ op'[p].pc = op[p].pc /\ op'[p].kind = op[p].kind
                        /\ op'[p].t = op[p].t /\ op'[p].seen = op[p].seen
                        /\ op'[p].reply = op[p].reply /\ op'[p].ids = op[p].ids
                        /\ op'[p].left = IF p = o THEN op[p].left \ {t} ELSE op[p].left
  <2> DEFINE q == [op[o] EXCEPT !.left = @ \ {t}]
  <2>1. op[o] \in OpStates
    BY <1>1, <1>3 DEF TypeOK
  <2>2. /\ q \in OpStates
        /\ q.pc = op[o].pc /\ q.kind = op[o].kind /\ q.t = op[o].t /\ q.seen = op[o].seen
        /\ q.left = op[o].left \ {t} /\ q.reply = op[o].reply /\ q.ids = op[o].ids
    BY <2>1 DEF OpStates
  <2>3. op' = [op EXCEPT ![o] = q]
    BY <1>4
  <2> HIDE DEF q
  <2>4. QED
    BY <1>1, <1>3, <2>2, <2>3 DEF TypeOK
<1>6. \A p \in Ops : op[p].pc = "idle" => op'[p] = op[p]
  BY <1>1, <1>2, <1>4 DEF Inv, Calls, TypeOK, o
<1> HIDE DEF o, t
<1>7. TypeOK'
  BY <1>1, <1>2, <1>4, <1>5 DEF TypeOK
<1>8. Known'
  BY <1>2, <1>4, <1>5, <1>6 DEF Inv, Known
<1>9. Calls'
  BY <1>1, <1>5, HandleCalls
<1>10. Unstarted'
  BY <1>2, <1>4, <1>5, WireTyped DEF Inv, Unstarted
<1>11. Stopping'
  BY <1>1, <1>2, <1>4, <1>5, WireTyped DEF Inv, Stopping, Starting
<1>12. Starts'
  BY <1>3, <1>4, <1>5 DEF Inv, Starts, Starting
<1>13. Backed' /\ Served'
  BY <1>3, <1>4, <1>5 DEF Inv, Backed, Served
<1>14. Stopped'
  BY <1>4, <1>5 DEF Inv, Stopped
<1>15. Told'
  BY <1>4, <1>5 DEF Inv, Told
<1>16. Traced'
  BY <1>4, <1>5 DEF Inv, Traced
<1>17. QED
  BY <1>7, <1>8, <1>9, <1>10, <1>11, <1>12, <1>13, <1>14, <1>15, <1>16 DEF Inv

(* A listing forgets what has died, and tells what is served; an input tells *)
(* whether its terminal is.                                                  *)
LEMMA HandleCallInv ==
  ASSUME Inv, HandleList \/ HandleInput
  PROVE  Inv'
<1> DEFINE o == wire[1].by
<1>1. /\ TypeOK /\ wire # <<>> /\ wire' = Tail(wire)
      /\ Head(wire).cmd \in {"list", "input"}
  BY DEF HandleList, HandleInput, Handle, Inv
<1>2. /\ wire' \in Seq(Commands)
      /\ Head(wire) = wire[1] /\ 1 \in DOMAIN wire /\ wire[1] \in Commands
      /\ \A i \in DOMAIN wire' : /\ i \in Nat \ {0} /\ i + 1 \in DOMAIN wire
                                 /\ wire'[i] = wire[i + 1]
  BY <1>1, TailWire
<1>3. o \in Ops
  BY <1>2 DEF Commands
<1>4. PICK how \in {"ok", "missing"}, ids \in SUBSET Terminals :
        /\ Reply(o, how, ids)
        /\ \/ /\ live' = live \ dead /\ dead' = {} /\ how = "ok" /\ ids = live \ dead
              /\ wire[1].cmd = "list"
           \/ /\ UNCHANGED <<live, dead>> /\ wire[1].cmd = "input" 
              /\ how = "missing" => wire[1].t \notin live
  BY <1>1, <1>2 DEF HandleList, HandleInput, Handle, TypeOK
<1>5. UNCHANGED <<record, used, tmux, lost, gone, breaks>>
  BY DEF HandleList, HandleInput, Handle
<1>6. /\ op' \in [Ops -> OpStates]
      /\ \A p \in Ops : /\ op'[p].pc = op[p].pc /\ op'[p].kind = op[p].kind
                        /\ op'[p].t = op[p].t /\ op'[p].seen = op[p].seen
                        /\ op'[p].left = op[p].left
                        /\ p # o \/ op[p].pc # "call" => op'[p] = op[p]
      /\ op[o].pc = "call" => op'[o].reply = how /\ op'[o].ids = ids
  BY <1>1, <1>3, <1>4, Replied
<1>7. op[o].pc = "call" => op[o].kind # "start"
  BY <1>1, <1>2 DEF Inv, Calls
<1>8. dead \subseteq gone /\ tmux \subseteq live \union gone
  BY DEF Inv, Served
<1> HIDE DEF o
<1>9. TypeOK'
  BY <1>1, <1>2, <1>4, <1>5, <1>6 DEF TypeOK
<1>10. Known'
  BY <1>2, <1>5, <1>6 DEF Inv, Known
<1>11. Calls'
  BY <1>1, <1>2, <1>6, HandleCalls DEF o
<1>12. Unstarted'
  BY <1>2, <1>5, <1>6, WireTyped DEF Inv, Unstarted
<1>13. Stopping'
  BY <1>1, <1>2, <1>5, <1>6, WireTyped DEF Inv, Stopping, Starting
<1>14. Starts'
  BY <1>4, <1>5, <1>6, <1>7, <1>8 DEF Inv, Starts, Starting
<1>15. Backed' /\ Served'
  BY <1>4, <1>5, <1>6, <1>8 DEF Inv, Backed, Served
<1>16. Stopped'
  BY <1>4, <1>5, <1>6 DEF Inv, Stopped
<1>17. Told'
  BY <1>2, <1>4, <1>5, <1>6, <1>8 DEF Inv, Told, Calls, o
<1>18. Traced'
  BY <1>4, <1>5, <1>6 DEF Inv, Traced
<1>19. QED
  BY <1>9, <1>10, <1>11, <1>12, <1>13, <1>14, <1>15, <1>16, <1>17, <1>18 DEF Inv

(* A ttyd that exits, and a connection that breaks, are remembered.          *)
LEMMA FaultInv ==
  ASSUME Inv, Fault
  PROVE  Inv'
<1>1. ASSUME NEW t \in Terminals, TtydExits(t) PROVE Inv'
  BY <1>1 DEF TtydExits, Inv, TypeOK, Known, Calls, Unstarted, Stopping, Starts, Starting,
              Backed, Served, Stopped, Told, Traced
<1>2. CASE Break
  <2>1. /\ wire' = <<>> /\ live' = {} /\ dead' = {} /\ gone' = gone \union live
        /\ breaks' = breaks + 1 /\ breaks < MaxBreaks
        /\ UNCHANGED <<record, op, tmux, used, lost>>
    BY <1>2 DEF Break
  <2>2. TypeOK'
    BY <2>1, BreaksAssumption DEF Inv, TypeOK
  <2>3. Known' /\ Calls' /\ Unstarted' /\ Stopping'
    BY <2>1 DEF Inv, Known, Calls, Unstarted, Stopping
  <2>4. Starts' /\ Backed' /\ Served'
    BY <2>1 DEF Inv, Starts, Starting, Backed, Served
  <2>5. Stopped' /\ Told' /\ Traced'
    BY <2>1 DEF Inv, Stopped, Told, Traced
  <2>6. QED
    BY <2>2, <2>3, <2>4, <2>5 DEF Inv
<1>3. QED
  BY <1>1, <1>2 DEF Fault

-----------------------------------------------------------------------------
(* The second halves.                                                        *)

(* An operation goes on: its kind, its terminal and the reply stay.          *)
LEMMA GoesOn ==
  ASSUME TypeOK, NEW o \in Ops, NEW pc \in {"stops"} \union Ended,
         NEW seen \in SUBSET Terminals, NEW left \in SUBSET Terminals,
         op' = [op EXCEPT ![o] = [op[o] EXCEPT !.pc = pc, !.seen = seen, !.left = left]]
  PROVE  /\ op' \in [Ops -> OpStates]
         /\ op'[o].pc = pc /\ op'[o].seen = seen /\ op'[o].left = left
         /\ op'[o].kind = op[o].kind /\ op'[o].t = op[o].t
         /\ \A p \in Ops : p # o => op'[p] = op[p]
<1> DEFINE q == [op[o] EXCEPT !.pc = pc, !.seen = seen, !.left = left]
<1>1. op[o] \in OpStates
  BY DEF TypeOK
<1>2. /\ q \in OpStates
      /\ q.pc = pc /\ q.seen = seen /\ q.left = left
      /\ q.kind = op[o].kind /\ q.t = op[o].t
  BY <1>1 DEF OpStates
<1>3. op' = [op EXCEPT ![o] = q]
  OBVIOUS
<1> HIDE DEF q
<1>4. QED
  BY <1>2, <1>3 DEF TypeOK

(* Or it ends.                                                               *)
LEMMA EndsAs ==
  ASSUME TypeOK, NEW o \in Ops, NEW how \in Ended, Finish(o, how)
  PROVE  /\ op' \in [Ops -> OpStates]
         /\ op'[o].pc = how /\ op'[o].seen = op[o].seen /\ op'[o].left = {}
         /\ op'[o].kind = op[o].kind /\ op'[o].t = op[o].t
         /\ \A p \in Ops : p # o => op'[p] = op[p]
<1>1. op[o] \in OpStates
  BY DEF TypeOK
<1> DEFINE q == [op[o] EXCEPT !.pc = how, !.left = {}]
<1>2. /\ q \in OpStates
      /\ q.pc = how /\ q.left = {} /\ q.seen = op[o].seen
      /\ q.kind = op[o].kind /\ q.t = op[o].t
  BY <1>1 DEF OpStates
<1>3. op' = [op EXCEPT ![o] = q]
  BY DEF Finish, TypeOK
<1> HIDE DEF q
<1>4. QED
  BY <1>2, <1>3 DEF TypeOK

(* A call is over.  A start records its terminal, or stops it, or it is      *)
(* lost.  The records that another call deletes are of terminals that do not *)
(* run, or are lost; only a listing goes on, to stop what it has found.      *)
LEMMA ResumeInv ==
  ASSUME Inv, NEW o \in Ops, op[o].pc = "call",
         op' \in [Ops -> OpStates],
         op'[o].pc \in {"stops"} \union Ended,
         op'[o].kind = op[o].kind, op'[o].t = op[o].t,
         op'[o].seen \subseteq op[o].seen,
         \A p \in Ops : p # o => op'[p] = op[p],
         UNCHANGED <<hostVars, used, breaks>>,
         lost' \in {lost, lost \union {op[o].t}}, lost' \subseteq Terminals,
         op[o].kind = "start" =>
           \/ op[o].reply = "ok" /\ record' = record \union {op[o].t}
           \/ /\ op[o].reply = "ok" /\ UNCHANGED record
              /\ op'[o].pc = "stops" /\ op[o].t \in op'[o].left
           \/ op[o].t \in lost' /\ UNCHANGED record,
         op[o].kind # "start" =>
           /\ record' \subseteq record
           /\ \A t \in record \ record' : t \in lost' \union gone \/ t \notin tmux,
         op[o].kind = "list" /\ op'[o].pc \in {"stops", "done"} => op'[o].seen \subseteq op'[o].left,
         op'[o].pc = "done" => op'[o].left = {},
         wire' \in Seq(Commands),
         \A i \in DOMAIN wire' :
           \/ i \in DOMAIN wire /\ wire'[i] = wire[i]
           \/ /\ i \notin DOMAIN wire /\ op'[o].pc = "stops"
              /\ \E t \in op'[o].left :
                   /\ wire'[i] = Command(o, "stop", t)
                   /\ \/ op[o].kind = "start" /\ t = op[o].t /\ UNCHANGED record
                      \/ op[o].kind = "list" /\ t \in op'[o].seen
  PROVE  Inv'
<1>1. TypeOK /\ op[o] \in OpStates /\ op'[o] \in OpStates
  BY DEF Inv, TypeOK
<1>2. UNCHANGED <<live, dead, tmux, gone, used, breaks>>
  BY DEF hostVars
<1>3. \A i \in DOMAIN wire : wire[i] \in Commands /\ wire[i].by \in Ops
  BY <1>1, WireTyped
<1>4. \A i \in DOMAIN wire' :
        \/ i \in DOMAIN wire /\ wire'[i] = wire[i]
        \/ /\ i \notin DOMAIN wire /\ op'[o].pc = "stops"
           /\ wire'[i].by = o /\ wire'[i].cmd = "stop"
           /\ \/ op[o].kind = "start" /\ wire'[i].t = op[o].t /\ UNCHANGED record
              \/ op[o].kind = "list" /\ wire'[i].t \in op'[o].seen
  BY DEF Command
<1>5. /\ op[o].t \in used \union {None} /\ op[o].seen \subseteq used
      /\ op[o].kind = "start" => op[o].t \in used \ record /\ op[o].seen = {}
      /\ op[o].kind \in {"start", "list", "input", "proxy"}
  BY DEF Inv, Known, Starts, Starting
<1>6. op'[o].pc # "call" /\ op'[o].pc # "idle"
  BY DEF Ended
<1>7. op[o].kind = "start" /\ op[o].reply = "ok" =>
        \A i \in DOMAIN wire : wire[i].cmd = "start" => wire[i].t # op[o].t
  BY <1>3, NoneAssumption DEF Inv, Starts, Calls, Unstarted
<1>8. TypeOK'
  <2>1. record' \subseteq Terminals
    BY <1>1, <1>5 DEF TypeOK
  <2>2. QED
    BY <1>1, <1>2, <2>1 DEF TypeOK
<1>9. Known'
  BY <1>2, <1>3, <1>4, <1>5, <1>6 DEF Inv, Known
<1>10. Calls'
  BY <1>3, <1>4, <1>6 DEF Inv, Calls
<1>11. Unstarted'
  BY <1>2, <1>3, <1>4, <1>5, <1>6, <1>7 DEF Inv, Unstarted
<1>12. Stopping'
  BY <1>2, <1>3, <1>4, <1>5, <1>6 DEF Inv, Stopping, Starting, Starts
<1>13. Starts'
  BY <1>2, <1>5, <1>6 DEF Inv, Starts, Starting
<1>14. Backed' /\ Served'
  BY <1>2, <1>5 DEF Inv, Backed, Served, Starts, Starting
<1>15. Stopped'
  BY <1>2, <1>5 DEF Inv, Stopped
<1>16. Told'
  BY <1>2, <1>6 DEF Inv, Told
<1>17. Traced'
  BY <1>2, <1>5 DEF Inv, Traced
<1>18. QED
  BY <1>8, <1>9, <1>10, <1>11, <1>12, <1>13, <1>14, <1>15, <1>16, <1>17 DEF Inv

(* A start records its terminal, or stops it if it cannot.                   *)
LEMMA EndStartInv ==
  ASSUME Inv, NEW o \in Ops, EndStart(o)
  PROVE  Inv'
<1> DEFINE t == op[o].t
<1>1. /\ TypeOK /\ op[o].pc = "call" /\ op[o].kind = "start" /\ t \in used \ record
      /\ used \subseteq Terminals /\ op[o].seen = {}
      /\ UNCHANGED <<hostVars, used, breaks>>
  BY DEF EndStart, Resume, Inv, Known, Starts, Starting, TypeOK
<1>2. op[o].reply = "error" => t \in lost
  BY <1>1 DEF Inv, Starts, Starting
<1> HIDE DEF t
<1>3. wire \in Seq(Commands) /\ lost \union {t} \subseteq Terminals /\ lost \subseteq Terminals
  BY <1>1 DEF TypeOK
<1>4. CASE op[o].reply = "ok" /\ record' = record \union {t} /\ Finish(o, "done")
           /\ UNCHANGED <<wire, lost>>
  <2>1. "done" \in Ended
    BY DEF Ended
  <2>2. /\ op' \in [Ops -> OpStates]
        /\ op'[o].pc = "done" /\ op'[o].seen = op[o].seen /\ op'[o].left = {}
        /\ op'[o].kind = op[o].kind /\ op'[o].t = op[o].t
        /\ \A p \in Ops : p # o => op'[p] = op[p]
    BY <1>1, <1>4, <2>1, EndsAs
  <2>3. QED
    BY <1>1, <1>3, <1>4, <2>1, <2>2, ResumeInv DEF t
<1>5. CASE op[o].reply = "ok" /\ op' = [op EXCEPT ![o].pc = "stops", ![o].left = {t}]
           /\ wire' = Append(wire, Command(o, "stop", t)) /\ UNCHANGED <<record, lost>>
  <2>1. op' = [op EXCEPT ![o] = [op[o] EXCEPT !.pc = "stops", !.seen = {}, !.left = {t}]]
    <3>1. op[o] \in OpStates
      BY <1>1 DEF TypeOK
    <3>2. [op[o] EXCEPT !.pc = "stops", !.left = {t}]
            = [op[o] EXCEPT !.pc = "stops", !.seen = {}, !.left = {t}]
      BY <1>1, <3>1 DEF OpStates
    <3>3. op' = [op EXCEPT ![o] = [op[o] EXCEPT !.pc = "stops", !.left = {t}]]
      BY <1>1, <1>5 DEF TypeOK
    <3>4. QED
      BY <3>2, <3>3
  <2>2. "stops" \in {"stops"} \union Ended /\ {t} \in SUBSET Terminals /\ {} \in SUBSET Terminals
    BY <1>1
  <2>3. /\ op' \in [Ops -> OpStates]
        /\ op'[o].pc = "stops" /\ op'[o].seen = {} /\ op'[o].left = {t}
        /\ op'[o].kind = op[o].kind /\ op'[o].t = op[o].t
        /\ \A p \in Ops : p # o => op'[p] = op[p]
    BY <1>1, <2>1, <2>2, GoesOn
  <2>4. Command(o, "stop", t) \in Commands
    BY <1>1 DEF Command, Commands
  <2>5. /\ wire' \in Seq(Commands)
        /\ \A i \in DOMAIN wire' :
             \/ i \in DOMAIN wire /\ wire'[i] = wire[i]
             \/ i \notin DOMAIN wire /\ wire'[i] = Command(o, "stop", t)
    BY <1>1, <1>5, <2>4, AppendWire
  <2>6. /\ UNCHANGED <<record, lost>> /\ lost' \subseteq Terminals
        /\ op[o].pc = "call" /\ op[o].kind = "start" /\ op[o].reply = "ok"
        /\ UNCHANGED <<hostVars, used, breaks>>
    BY <1>1, <1>3, <1>5
  <2>7. /\ op[o].t \in op'[o].left /\ op'[o].seen \subseteq op[o].seen
        /\ op'[o].pc \in {"stops"} \union Ended /\ op'[o].pc # "done"
    BY <2>3 DEF t
  <2>8. \A i \in DOMAIN wire' :
          \/ i \in DOMAIN wire /\ wire'[i] = wire[i]
          \/ /\ i \notin DOMAIN wire /\ op'[o].pc = "stops"
             /\ \E u \in op'[o].left : /\ wire'[i] = Command(o, "stop", u)
                                      /\ u = op[o].t /\ UNCHANGED record
    BY <2>3, <2>5, <2>6 DEF t
  <2>9. QED
    BY <2>3, <2>5, <2>6, <2>7, <2>8, ResumeInv
<1>6. CASE /\ Finish(o, "failed") /\ UNCHANGED <<record, wire>>
           /\ lost' \in {lost, lost \union {t}} /\ t \in lost'
  <2>1. "failed" \in Ended /\ "failed" # "done"
    BY DEF Ended
  <2>2. /\ op' \in [Ops -> OpStates]
        /\ op'[o].pc = "failed" /\ op'[o].seen = op[o].seen /\ op'[o].left = {}
        /\ op'[o].kind = op[o].kind /\ op'[o].t = op[o].t
        /\ \A p \in Ops : p # o => op'[p] = op[p]
    BY <1>1, <1>6, <2>1, EndsAs
  <2>3. QED
    BY <1>1, <1>3, <1>6, <2>1, <2>2, ResumeInv DEF t
<1>7. QED
  BY <1>2, <1>4, <1>5, <1>6 DEF EndStart, Answered, Failed, t

(* A listing that was answered stops what it did not find.                   *)
LEMMA EndListInv ==
  ASSUME Inv, NEW o \in Ops, EndList(o)
  PROVE  Inv'
<1> DEFINE stale == op[o].seen \ op[o].ids
<1>1. /\ TypeOK /\ op[o].pc = "call" /\ op[o].kind = "list"
      /\ UNCHANGED <<record, hostVars, used, breaks>> /\ lost' = lost
  BY DEF EndList, Resume, Answered, Failed, Inv
<1>2. /\ wire \in Seq(Commands) /\ lost \subseteq Terminals /\ op[o] \in OpStates
      /\ stale \in SUBSET Terminals
  BY <1>1 DEF TypeOK, OpStates
<1>3. CASE /\ op' = [op EXCEPT ![o].pc = IF stale = {} THEN "done" ELSE "stops",
                               ![o].seen = stale, ![o].left = stale]
           /\ wire' = wire \o Stops(o, stale)
  <2> DEFINE pc == IF stale = {} THEN "done" ELSE "stops"
  <2>1. pc \in {"stops"} \union Ended
    BY DEF Ended
  <2>2. op' = [op EXCEPT ![o] = [op[o] EXCEPT !.pc = pc, !.seen = stale, !.left = stale]]
    BY <1>1, <1>3 DEF TypeOK
  <2>3. /\ wire' \in Seq(Commands)
        /\ \A i \in DOMAIN wire' :
             \/ i \in DOMAIN wire /\ wire'[i] = wire[i]
             \/ i \notin DOMAIN wire /\ \E t \in stale : wire'[i] = Command(o, "stop", t)
    BY <1>1, <1>2, <1>3, StopsWire
  <2>4. pc = "done" => stale = {}
    OBVIOUS
  <2>5. (\E t \in stale : TRUE) => pc = "stops"
    OBVIOUS
  <2>6. stale \subseteq op[o].seen
    OBVIOUS
  <2> HIDE DEF pc, stale
  <2>7. /\ op' \in [Ops -> OpStates]
        /\ op'[o].pc = pc /\ op'[o].seen = stale /\ op'[o].left = stale
        /\ op'[o].kind = op[o].kind /\ op'[o].t = op[o].t
        /\ \A p \in Ops : p # o => op'[p] = op[p]
    BY <1>1, <1>2, <2>1, <2>2, GoesOn
  <2>8. QED
    BY <1>1, <1>2, <2>1, <2>3, <2>4, <2>5, <2>6, <2>7, ResumeInv
<1>4. CASE Finish(o, "failed") /\ UNCHANGED wire
  <2>1. "failed" \in Ended /\ "failed" # "done"
    BY DEF Ended
  <2>2. /\ op' \in [Ops -> OpStates]
        /\ op'[o].pc = "failed" /\ op'[o].seen = op[o].seen /\ op'[o].left = {}
        /\ op'[o].kind = op[o].kind /\ op'[o].t = op[o].t
        /\ \A p \in Ops : p # o => op'[p] = op[p]
    BY <1>1, <1>4, <2>1, EndsAs
  <2>3. QED
    BY <1>1, <1>2, <1>4, <2>1, <2>2, ResumeInv
<1>5. QED
  BY <1>3, <1>4 DEF EndList

(* An input and a bridge delete the record of what the manager does not      *)
(* serve; a bridge also when it was not told.                                *)
LEMMA EndAboutInv ==
  ASSUME Inv, NEW o \in Ops, EndInput(o) \/ EndProxy(o)
  PROVE  Inv'
<1>1. /\ TypeOK /\ op[o].pc = "call" /\ op[o].kind \in {"input", "proxy"}
      /\ UNCHANGED <<hostVars, used, breaks>>
  BY DEF EndInput, EndProxy, Resume, Inv
<1>2. PICK how \in Ended :
        /\ Finish(o, how) /\ UNCHANGED wire
        /\ record' \subseteq record
        /\ lost' \in {lost, lost \union {op[o].t}}
        /\ \A t \in record \ record' : t = op[o].t /\ (t \in lost' \/ t \in gone \/ t \notin tmux)
  <2>1. /\ op[o].kind = "input" /\ op[o].reply = "missing" =>
             op[o].t \notin tmux \/ op[o].t \in gone
        /\ op[o].kind = "proxy" /\ op[o].reply # None /\ op[o].t \notin op[o].ids =>
             op[o].t \notin tmux \/ op[o].t \in gone
    BY <1>1 DEF Inv, Told
  <2>2. CASE EndInput(o)
    BY <2>1, <2>2 DEF EndInput, Resume, Answered, Failed, Delete, Ended
  <2>3. CASE EndProxy(o)
    BY <2>1, <2>3 DEF EndProxy, Resume, Answered, Failed, Delete, Ended
  <2>4. QED
    BY <2>2, <2>3
<1>3. /\ op' \in [Ops -> OpStates]
      /\ op'[o].pc = how /\ op'[o].seen = op[o].seen /\ op'[o].left = {}
      /\ op'[o].kind = op[o].kind /\ op'[o].t = op[o].t
      /\ \A p \in Ops : p # o => op'[p] = op[p]
  BY <1>1, <1>2, EndsAs
<1>4. wire \in Seq(Commands) /\ wire' = wire
  BY <1>1, <1>2 DEF TypeOK
<1>5. lost' \subseteq Terminals
  <2>1. op[o].t \in Terminals \/ UNCHANGED lost
    <3>1. CASE EndInput(o)
      BY <3>1 DEF EndInput, Answered, Failed
    <3>2. CASE EndProxy(o)
      <4>1. op[o].t \in Terminals \/ lost' = lost
        BY <1>1, <3>2 DEF Inv, Known, EndProxy, Resume, Answered, Failed, Delete, TypeOK
      <4>2. QED
        BY <4>1
    <3>3. QED
      BY <3>1, <3>2
  <2>2. QED
    BY <1>1, <1>2, <2>1 DEF TypeOK
<1>6. QED
  BY <1>1, <1>2, <1>3, <1>4, <1>5, ResumeInv

(* A stop that fails leaves its terminal among the lost ones.                *)
LEMMA StopFailsInv ==
  ASSUME Inv, NEW o \in Ops, NEW t \in Terminals, StopFails(o, t)
  PROVE  Inv'
<1>1. /\ TypeOK /\ op[o].pc = "stops"
      /\ UNCHANGED <<record, live, dead, tmux, gone, used, breaks>>
  BY DEF StopFails, hostVars, Inv
<1>2. /\ op' \in [Ops -> OpStates]
      /\ \A p \in Ops : /\ op'[p].pc = op[p].pc /\ op'[p].kind = op[p].kind
                        /\ op'[p].t = op[p].t /\ op'[p].seen = op[p].seen
                        /\ op'[p].reply = op[p].reply /\ op'[p].ids = op[p].ids
                        /\ op'[p].left \subseteq op[p].left
                        /\ op[p].left \subseteq op'[p].left \union lost'
  <2> DEFINE q == [op[o] EXCEPT !.left = @ \ {t}]
  <2>1. op[o] \in OpStates
    BY <1>1 DEF TypeOK
  <2>2. /\ q \in OpStates
        /\ q.pc = op[o].pc /\ q.kind = op[o].kind /\ q.t = op[o].t /\ q.seen = op[o].seen
        /\ q.left = op[o].left \ {t} /\ q.reply = op[o].reply /\ q.ids = op[o].ids
    BY <2>1 DEF OpStates
  <2>3. op' = [op EXCEPT ![o] = q]
    BY DEF StopFails
  <2> HIDE DEF q
  <2>4. QED
    BY <1>1, <2>2, <2>3 DEF StopFails, TypeOK
<1>3. \A p \in Ops : op[p].pc = "idle" => op'[p] = op[p]
  BY <1>1 DEF StopFails, TypeOK
<1>4. wire' = wire /\ lost \subseteq lost' /\ lost' \subseteq Terminals /\ t \in lost'
  BY <1>1 DEF StopFails, TypeOK
<1>5. TypeOK'
  BY <1>1, <1>2, <1>3, <1>4 DEF TypeOK
<1>6. Known'
  BY <1>1, <1>2, <1>3, <1>4 DEF Inv, Known
<1>7. Calls'
  BY <1>1, <1>2, <1>3, <1>4, WireTyped DEF Inv, Calls
<1>8. Unstarted'
  BY <1>1, <1>2, <1>3, <1>4, WireTyped DEF Inv, Unstarted
<1>9. Stopping'
  BY <1>1, <1>2, <1>3, <1>4, WireTyped DEF Inv, Stopping, Starting
<1>10. Starts'
  BY <1>1, <1>2, <1>3, <1>4 DEF Inv, Starts, Starting
<1>11. Backed' /\ Served'
  BY <1>1, <1>2, <1>3, <1>4 DEF Inv, Backed, Served
<1>12. Stopped' /\ Told'
  BY <1>1, <1>2, <1>3, <1>4 DEF Inv, Stopped, Told
<1>13. Traced'
  BY <1>1, <1>2, <1>3, <1>4 DEF Inv, Traced
<1>14. QED
  BY <1>5, <1>6, <1>7, <1>8, <1>9, <1>10, <1>11, <1>12, <1>13 DEF Inv

(* Records go once their terminals are stopped.                              *)
LEMMA EndStopsInv ==
  ASSUME Inv, NEW o \in Ops, EndStops(o)
  PROVE  Inv'
<1>1. /\ TypeOK /\ op[o].pc = "stops" /\ op[o].left = {}
      /\ UNCHANGED <<live, dead, tmux, gone, used, lost, breaks>>
  BY DEF EndStops, hostVars, Inv
<1>2. PICK how \in Ended :
        /\ Finish(o, how) /\ UNCHANGED wire
        /\ \/ /\ op[o].kind \in {"close", "list"}
              /\ record' = record \ op[o].seen
           \/ /\ op[o].kind = "release" /\ how = "done" /\ record' = {}
           \/ /\ op[o].kind = "start" /\ how = "failed" /\ record' = record
  <2>1. CASE op[o].kind = "close"
    <3>1. op[o].seen = {op[o].t}
      BY <2>1 DEF Inv, Known
    <3>2. QED
      BY <2>1, <3>1 DEF EndStops, Delete, Ended
  <2>2. CASE op[o].kind \in {"list", "release", "start"}
    BY <2>2 DEF EndStops, Ended
  <2>3. QED
    BY <2>1, <2>2 DEF EndStops
<1>3. /\ op' \in [Ops -> OpStates]
      /\ op'[o].pc = how /\ op'[o].seen = op[o].seen /\ op'[o].left = {}
      /\ op'[o].kind = op[o].kind /\ op'[o].t = op[o].t
      /\ \A p \in Ops : p # o => op'[p] = op[p]
  BY <1>1, <1>2, EndsAs
<1>4. how \notin {"idle", "call", "stops"} /\ wire' = wire /\ record' \subseteq record
  BY <1>2 DEF Ended
<1>5. op[o].kind \in {"close", "list", "release"} =>
        \A t \in op[o].seen : t \in lost \/ t \notin live \union tmux
  BY <1>1 DEF Inv, Stopped
<1>6. TypeOK'
  BY <1>1, <1>3, <1>4 DEF TypeOK
<1>7. Known'
  BY <1>1, <1>3, <1>4 DEF Inv, Known
<1>8. Calls'
  BY <1>1, <1>3, <1>4, WireTyped DEF Inv, Calls
<1>9. Unstarted'
  BY <1>1, <1>3, <1>4, WireTyped DEF Inv, Unstarted
<1>10. Stopping'
  BY <1>1, <1>2, <1>3, <1>4, WireTyped DEF Inv, Stopping, Starting
<1>11. Starts'
  BY <1>1, <1>3, <1>4 DEF Inv, Starts, Starting
<1>12. Backed' /\ Served'
  BY <1>1, <1>2, <1>3 DEF Inv, Backed, Served
<1>13. Stopped' /\ Told'
  BY <1>1, <1>3, <1>4, <1>5 DEF Inv, Stopped, Told
<1>14. Traced'
  BY <1>1, <1>2, <1>3, <1>5 DEF Inv, Traced
<1>15. QED
  BY <1>6, <1>7, <1>8, <1>9, <1>10, <1>11, <1>12, <1>13, <1>14 DEF Inv

-----------------------------------------------------------------------------
(* Every step keeps the invariant, and it implies the properties.            *)

(* Nothing is recorded and nothing runs at first.                            *)
LEMMA InitInv == Init => Inv
<1> SUFFICES ASSUME Init PROVE Inv
  OBVIOUS
<1>1. Idle \in OpStates /\ Idle.pc = "idle" /\ Idle.kind = None /\ Idle.t = None
      /\ Idle.seen = {} /\ Idle.left = {}
  BY DEF Idle, OpStates
<1>2. \A o \in Ops : op[o] = Idle
  BY DEF Init
<1>3. \A k \in AllKinds : None # k
  BY NoneAssumption
<1>4. wire = <<>> /\ DOMAIN wire = {} /\ wire \in Seq(Commands)
  BY DEF Init
<1>5. TypeOK
  BY <1>1, <1>4, BreaksAssumption DEF Init, TypeOK
<1>6. Known /\ Calls /\ Unstarted /\ Stopping
  BY <1>1, <1>2, <1>3, <1>4 DEF Init, AllKinds, Known, Calls, Unstarted, Stopping
<1>7. Starts /\ Backed /\ Served /\ Stopped /\ Told /\ Traced
  BY <1>1, <1>2, <1>3 DEF Init, AllKinds, Starts, Starting, Backed, Served, Stopped, Told,
                              Traced
<1>8. QED
  BY <1>5, <1>6, <1>7 DEF Inv

(* The invariant is inductive.                                               *)
LEMMA StepInv == Inv /\ [Next]_vars => Inv'
<1> SUFFICES ASSUME Inv, [Next]_vars PROVE Inv'
  OBVIOUS
<1>1. ASSUME NEW o \in Ops, End(o) PROVE Inv'
  BY <1>1, EndStartInv, EndListInv, EndAboutInv, EndStopsInv, StopFailsInv DEF End
<1>2. CASE Companion
  BY <1>2, HandleStartInv, HandleStopInv, HandleCallInv DEF Companion
<1>3. CASE UNCHANGED vars
  BY <1>3 DEF vars, Inv, TypeOK, Known, Calls, Unstarted, Stopping, Starts, Starting,
              Backed, Served, Stopped, Told, Traced
<1>4. CASE Finished
  BY <1>3, <1>4 DEF Finished
<1>5. QED
  BY <1>1, <1>2, <1>3, <1>4, AskInv, FaultInv DEF Next

(* The invariant says what the properties say.                               *)
LEMMA InvAccounts == Inv => RecordsAreBacked /\ OrphansHaveACause /\ PrunedAreStopped
<1> SUFFICES ASSUME Inv PROVE RecordsAreBacked /\ OrphansHaveACause /\ PrunedAreStopped
  OBVIOUS
<1>1. RecordsAreBacked
  BY DEF Inv, Backed, RecordsAreBacked, Underway
<1>2. OrphansHaveACause
  BY DEF Inv, Traced, OrphansHaveACause, Underway
<1>3. PrunedAreStopped
  BY DEF Inv, Known, Stopped, PrunedAreStopped
<1>4. QED
  BY <1>1, <1>2, <1>3

(* However the operations, the commands and the faults interleave: a record   *)
(* is of a terminal that runs, that died or that is being stopped, a tmux     *)
(* session nobody knows of is the trace of a failure or of a release, and     *)
(* what a listing prunes is not served.                                      *)
THEOREM TerminalsAccounted ==
  Spec => [](TypeOK /\ RecordsAreBacked /\ OrphansHaveACause /\ PrunedAreStopped)
<1>1. Inv => TypeOK
  BY DEF Inv
<1>2. QED
  BY <1>1, InitInv, StepInv, InvAccounts, PTL DEF Spec
=============================================================================
