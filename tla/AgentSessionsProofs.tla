------------------------ MODULE AgentSessionsProofs -------------------------
(***************************************************************************)
(* The answers of the agents are whole, a session is of its space's task,    *)
(* and an open message has somebody to close it, for any number of tasks,    *)
(* spaces, sessions, requests, operations, pieces and faults.                *)
(*                                                                         *)
(* None of the three is inductive.  What a closed message holds depends on   *)
(* the chunks still in the stream, and on a chunk never coming to the        *)
(* message of another session: so the invariant says, for every request, in  *)
(* which state its agent is, what of its output is in the stream and in      *)
(* which order (Heard), and that ids made up by one start or send are used   *)
(* by nothing else (Fresh, Starting, Asked).                                 *)
(***************************************************************************)
EXTENDS AgentSessions, SequenceTheorems, FiniteSetTheorems, TLAPS

-----------------------------------------------------------------------------
(* The output of request r in the queue q.                                   *)

ChunkOf(x, r) == x.kind = "chunk" /\ x.req = r
Pieces(q, r) == {k \in 1..Len(q) : ChunkOf(q[k], r) /\ ~q[k].done}
Ends(q, r) == {k \in 1..Len(q) : ChunkOf(q[k], r) /\ q[k].done}
Silent(q, r) == Pieces(q, r) = {} /\ Ends(q, r) = {}

\* the pieces after text, up to the one numbered wrote, are in q and in order
InOrder(q, r, text, wrote) ==
  /\ Len(text) <= wrote
  /\ \A n \in 1..Len(text) : text[n] = n
  /\ \A k \in Pieces(q, r) : q[k].text[1] \in (Len(text) + 1)..wrote
  /\ \A j, k \in Pieces(q, r) : j < k => q[j].text[1] < q[k].text[1]
  /\ \A n \in (Len(text) + 1)..wrote : \E k \in Pieces(q, r) : q[k].text[1] = n

EndIsLast(q, r) ==
  \E e \in Ends(q, r) : Ends(q, r) = {e} /\ \A k \in Pieces(q, r) : k < e

\* a message that is closed was closed by an error
OnlyFailed(m) == m # None /\ m.done => m.error
Closed(m) == m # None /\ m.done /\ ~m.error

(* What of the agent a of request r is in the queue q and in its message m,  *)
(* which is of a living session or not; b: the stream has broken.            *)
HeardNone(q, r, m, a) ==
  /\ Silent(q, r) /\ a.wrote = 0 /\ OnlyFailed(m)
  /\ m # None => m.text = <<>>
HeardRunning(q, r, m, a, alive) ==
  /\ Ends(q, r) = {} /\ OnlyFailed(m)
  /\ alive => InOrder(q, r, m.text, a.wrote)
HeardKilled(q, r, m) == Ends(q, r) = {} /\ OnlyFailed(m)
HeardUnheard(q, r, m, b) == Silent(q, r) /\ b /\ OnlyFailed(m)
EndComes(q, r, m, a, alive) ==
  /\ EndIsLast(q, r) /\ OnlyFailed(m)
  /\ alive => InOrder(q, r, m.text, a.wrote)
EndCame(q, r, m, a, alive, b) ==
  /\ Silent(q, r)
  /\ m # None => m.done \/ b
  /\ alive /\ Closed(m) => m.text = [k \in 1..a.wrote |-> k]

Heard(q, r, m, a, alive, b) ==
  /\ a.state = "none" => HeardNone(q, r, m, a)
  /\ a.state = "running" => HeardRunning(q, r, m, a, alive)
  /\ a.state = "killed" => HeardKilled(q, r, m)
  /\ a.state = "unheard" => HeardUnheard(q, r, m, b)
  /\ a.state = "ended" => EndComes(q, r, m, a, alive) \/ EndCame(q, r, m, a, alive, b)

\* the message m has a session with a row in S
Alive(m, S) == m # None /\ S[m.sess] # None

-----------------------------------------------------------------------------
(* The invariant.                                                            *)

Is(w, kind) == w # Idle /\ w.kind = kind

OpsFit ==
  \A o \in Ops :
    /\ Is(op[o], "start") => op[o].about \in Sessions /\ op[o].space \in Spaces
                              /\ op[o].task \in Tasks
    /\ Is(op[o], "send") => op[o].about \in Requests
    /\ Is(op[o], "terminate") => op[o].about \in Sessions
    /\ op[o].pc = "releasing" => op[o].kind = "release"

\* a chunk is of its agent's session
ChunksFit ==
  \A k \in 1..Len(up) : up[k].kind = "chunk" =>
    /\ agent[up[k].req].state # "none" /\ up[k].sess = agent[up[k].req].sess
    /\ IF up[k].done THEN up[k].text = <<>> ELSE up[k].ok /\ Len(up[k].text) = 1

\* an agent whose send was agreed to has been started
AgreedHasAgent ==
  \A k \in 1..Len(up) : up[k].kind = "answer" /\ up[k].asked = "send" /\ up[k].ok =>
    up[k].about \in Requests /\ agent[up[k].about].state # "none"

\* what was made up is in used
Fresh ==
  /\ \A s \in Sessions : sess[s] # None => s \in used
  /\ \A r \in Requests : msg[r] # None => r \in used /\ msg[r].sess \in used
  /\ \A r \in Requests : agent[r].state # "none" => r \in used /\ agent[r].sess \in used
  /\ \A k \in 1..Len(down) : down[k].kind = "send" =>
       down[k].about \in used /\ down[k].sess \in used
  /\ \A o \in Ops : Is(op[o], "start") => op[o].about \in used

\* nothing is of a session that is still being started
Starting ==
  \A o \in Ops : Is(op[o], "start") =>
    /\ sess[op[o].about] = None
    /\ \A r \in Requests : msg[r] # None => msg[r].sess # op[o].about
    /\ \A r \in Requests : agent[r].state # "none" => agent[r].sess # op[o].about
    /\ \A k \in 1..Len(down) : down[k].kind = "send" => down[k].sess # op[o].about
    /\ \A p \in Ops : Is(op[p], "start") /\ op[p].about = op[o].about => p = o

\* a send that is still to be handled has its message and no agent yet
Asked ==
  \A k \in 1..Len(down) : down[k].kind = "send" =>
    /\ down[k].about \in Requests /\ agent[down[k].about].state = "none"
    /\ sess[down[k].sess] # None =>
         msg[down[k].about] # None /\ msg[down[k].about].sess = down[k].sess
    /\ \A j \in 1..Len(down) :
         down[j].kind = "send" /\ down[j].about = down[k].about => j = k

\* an agent of a living session has its message
AgentsHaveMessages ==
  \A r \in Requests : agent[r].state # "none" /\ sess[agent[r].sess] # None =>
    msg[r] # None /\ msg[r].sess = agent[r].sess

\* an open message without an agent has its send
OpenHasSend ==
  \A r \in Requests : agent[r].state = "none" /\ msg[r] # None /\ ~msg[r].done =>
    \/ broken
    \/ \E o \in Ops : op[o] # Idle /\ op[o].kind = "send" /\ op[o].about = r

AllHeard ==
  \A r \in Requests : Heard(up, r, msg[r], agent[r], Alive(msg[r], sess), broken)

IInv ==
  /\ TypeOK /\ OpsFit /\ ChunksFit /\ AgreedHasAgent /\ Fresh /\ Starting /\ Asked
  /\ AgentsHaveMessages /\ OpenHasSend /\ AllHeard

-----------------------------------------------------------------------------
(* Sequences.                                                                *)

LEMMA AtAppend ==
  ASSUME NEW S, NEW q \in Seq(S), NEW x \in S
  PROVE  /\ Append(q, x) \in Seq(S) /\ Len(Append(q, x)) = Len(q) + 1
         /\ Len(q) \in Nat
         /\ \A k \in 1..Len(q) : Append(q, x)[k] = q[k]
         /\ Append(q, x)[Len(q) + 1] = x
  OBVIOUS

LEMMA AtTail ==
  ASSUME NEW S, NEW q \in Seq(S), q # <<>>
  PROVE  /\ Tail(q) \in Seq(S) /\ Len(Tail(q)) = Len(q) - 1
         /\ Len(q) \in Nat /\ 1 <= Len(q)
         /\ Head(q) = q[1] /\ Head(q) \in S
         /\ \A k \in 1..(Len(q) - 1) : Tail(q)[k] = q[k + 1]
  OBVIOUS

\* each element of an appended queue is the new one or an old one
LEMMA InAppend ==
  ASSUME NEW S, NEW q \in Seq(S), NEW x \in S, NEW k \in 1..Len(Append(q, x))
  PROVE  \/ k \in 1..Len(q) /\ Append(q, x)[k] = q[k]
         \/ k = Len(q) + 1 /\ Append(q, x)[k] = x
  BY AtAppend

LEMMA InTail ==
  ASSUME NEW S, NEW q \in Seq(S), q # <<>>, NEW k \in 1..Len(Tail(q))
  PROVE  k + 1 \in 1..Len(q) /\ Tail(q)[k] = q[k + 1]
  BY AtTail

\* the output of r in a queue to which x is appended
LEMMA Appended ==
  ASSUME NEW S, NEW q \in Seq(S), NEW x \in S, NEW r
  PROVE  /\ ~ChunkOf(x, r) \/ x.done => Pieces(Append(q, x), r) = Pieces(q, r)
         /\ ChunkOf(x, r) /\ ~x.done =>
              Pieces(Append(q, x), r) = Pieces(q, r) \union {Len(q) + 1}
         /\ ~ChunkOf(x, r) \/ ~x.done => Ends(Append(q, x), r) = Ends(q, r)
         /\ ChunkOf(x, r) /\ x.done =>
              Ends(Append(q, x), r) = Ends(q, r) \union {Len(q) + 1}
<1> DEFINE p == Append(q, x)
<1>1. /\ Len(p) = Len(q) + 1 /\ Len(q) \in Nat /\ p[Len(q) + 1] = x
      /\ \A k \in 1..Len(q) : p[k] = q[k]
  BY AtAppend
<1> HIDE DEF p
<1>2. 1..Len(p) = (1..Len(q)) \union {Len(q) + 1}
  BY <1>1
<1>3. QED
  BY <1>1, <1>2 DEF Pieces, Ends, p

LEMMA OldPieces ==
  ASSUME NEW S, NEW q \in Seq(S), NEW x \in S, NEW r, NEW k \in Pieces(q, r)
  PROVE  k \in Int /\ k < Len(q) + 1 /\ Append(q, x)[k] = q[k]
<1>1. k \in 1..Len(q)
  BY DEF Pieces
<1>2. Append(q, x)[k] = q[k]
  BY <1>1, AtAppend
<1>3. Len(q) \in Nat
  OBVIOUS
<1>4. k < Len(q) + 1
  BY <1>1, <1>3
<1>5. QED
  BY <1>1, <1>2, <1>4

\* the output of r in a queue whose head is taken
LEMMA Taken ==
  ASSUME NEW S, NEW q \in Seq(S), q # <<>>, NEW r
  PROVE  /\ \A k \in Pieces(Tail(q), r) : k + 1 \in Pieces(q, r) /\ Tail(q)[k] = q[k + 1]
         /\ \A k \in Ends(Tail(q), r) : k + 1 \in Ends(q, r)
         /\ \A k \in Pieces(q, r) : k # 1 =>
              k - 1 \in Pieces(Tail(q), r) /\ Tail(q)[k - 1] = q[k]
         /\ \A k \in Ends(q, r) : k # 1 => k - 1 \in Ends(Tail(q), r)
         /\ 1 \in Pieces(q, r) <=> ChunkOf(Head(q), r) /\ ~Head(q).done
         /\ 1 \in Ends(q, r) <=> ChunkOf(Head(q), r) /\ Head(q).done
<1> DEFINE p == Tail(q)
<1>1. /\ Len(p) = Len(q) - 1 /\ Len(q) \in Nat /\ 1 <= Len(q)
      /\ \A k \in 1..(Len(q) - 1) : p[k] = q[k + 1]
      /\ Head(q) = q[1]
  BY AtTail
<1> HIDE DEF p
<1>2. \A k \in 1..Len(p) : k + 1 \in 1..Len(q) /\ p[k] = q[k + 1]
  BY <1>1
<1>3. \A k \in 1..Len(q) : k # 1 => k - 1 \in 1..Len(p) /\ p[k - 1] = q[k]
  <2> SUFFICES ASSUME NEW k \in 1..Len(q), k # 1
               PROVE  k - 1 \in 1..Len(p) /\ p[k - 1] = q[k]
    OBVIOUS
  <2>1. k - 1 \in 1..(Len(q) - 1) /\ (k - 1) + 1 = k
    BY <1>1
  <2>2. QED
    BY <1>1, <2>1
<1>4. 1 \in 1..Len(q)
  BY <1>1
<1>5. QED
  BY <1>1, <1>2, <1>3, <1>4 DEF Pieces, Ends, p

\* positions are numbers
LEMMA Positions ==
  ASSUME NEW q, NEW r
  PROVE  Pieces(q, r) \subseteq Int /\ Ends(q, r) \subseteq Int
  BY DEF Pieces, Ends

-----------------------------------------------------------------------------
(* What is heard of a request, as the queue changes.                         *)

LEMMA OrderAppended ==
  ASSUME NEW S, NEW q \in Seq(S), NEW x \in S, NEW r, ~ChunkOf(x, r) \/ x.done,
         NEW text, NEW n, InOrder(q, r, text, n)
  PROVE  InOrder(Append(q, x), r, text, n)
<1> DEFINE p == Append(q, x)
<1>1. Pieces(p, r) = Pieces(q, r)
  BY Appended
<1>2. \A k \in Pieces(q, r) : p[k] = q[k]
  BY OldPieces
<1> HIDE DEF p
<1>3. QED
  BY <1>1, <1>2 DEF InOrder, p

LEMMA EndAppended ==
  ASSUME NEW S, NEW q \in Seq(S), NEW x \in S, NEW r, ~ChunkOf(x, r), EndIsLast(q, r)
  PROVE  EndIsLast(Append(q, x), r)
<1>1. Pieces(Append(q, x), r) = Pieces(q, r) /\ Ends(Append(q, x), r) = Ends(q, r)
  BY Appended
<1>2. QED
  BY <1>1 DEF EndIsLast

LEMMA HeardAppended ==
  ASSUME NEW S, NEW q \in Seq(S), NEW x \in S, NEW r, ~ChunkOf(x, r),
         NEW m, NEW a, NEW alive, NEW b, Heard(q, r, m, a, alive, b)
  PROVE  Heard(Append(q, x), r, m, a, alive, b)
<1>1. Pieces(Append(q, x), r) = Pieces(q, r) /\ Ends(Append(q, x), r) = Ends(q, r)
  BY Appended
<1>2. InOrder(q, r, m.text, a.wrote) => InOrder(Append(q, x), r, m.text, a.wrote)
  BY OrderAppended
<1>3. EndIsLast(q, r) => EndIsLast(Append(q, x), r)
  BY EndAppended
<1>4. Silent(q, r) => Silent(Append(q, x), r)
  BY <1>1 DEF Silent
<1>5. QED
  BY <1>1, <1>2, <1>3, <1>4
  DEF Heard, HeardNone, HeardRunning, HeardKilled, HeardUnheard, EndComes, EndCame

LEMMA OrderTaken ==
  ASSUME NEW S, NEW q \in Seq(S), q # <<>>, NEW r, ~ChunkOf(Head(q), r),
         NEW text, NEW n, InOrder(q, r, text, n)
  PROVE  InOrder(Tail(q), r, text, n)
<1>1. /\ \A k \in Pieces(Tail(q), r) : k + 1 \in Pieces(q, r) /\ Tail(q)[k] = q[k + 1]
      /\ \A k \in Pieces(q, r) : k - 1 \in Pieces(Tail(q), r) /\ Tail(q)[k - 1] = q[k]
  BY Taken
<1>2. Pieces(Tail(q), r) \subseteq Int
  BY Positions
<1> DEFINE p == Tail(q)
           P == Pieces(Tail(q), r)
           Q == Pieces(q, r)
<1>3. /\ \A k \in P : k + 1 \in Q /\ p[k] = q[k + 1]
      /\ \A k \in Q : k - 1 \in P /\ p[k - 1] = q[k]
      /\ P \subseteq Int
  BY <1>1, <1>2
<1>4. /\ \A k \in Q : q[k].text[1] \in (Len(text) + 1)..n
      /\ \A j, k \in Q : j < k => q[j].text[1] < q[k].text[1]
      /\ \A i \in (Len(text) + 1)..n : \E k \in Q : q[k].text[1] = i
  BY DEF InOrder
<1> HIDE DEF p, P, Q
<1>5. \A k \in P : p[k].text[1] \in (Len(text) + 1)..n
  BY <1>3, <1>4
<1>6. \A j, k \in P : j < k => p[j].text[1] < p[k].text[1]
  <2> SUFFICES ASSUME NEW j \in P, NEW k \in P, j < k
               PROVE  p[j].text[1] < p[k].text[1]
    OBVIOUS
  <2>1. j + 1 < k + 1
    BY <1>3
  <2>2. j + 1 \in Q /\ k + 1 \in Q
    BY <1>3
  <2>3. q[j + 1].text[1] < q[k + 1].text[1]
    BY <1>4, <2>1, <2>2
  <2>4. p[j] = q[j + 1] /\ p[k] = q[k + 1]
    BY <1>3
  <2>5. QED
    BY <2>3, <2>4
<1>7. \A i \in (Len(text) + 1)..n : \E k \in P : p[k].text[1] = i
  <2> SUFFICES ASSUME NEW i \in (Len(text) + 1)..n
               PROVE  \E k \in P : p[k].text[1] = i
    OBVIOUS
  <2>1. PICK k \in Q : q[k].text[1] = i
    BY <1>4
  <2>2. k - 1 \in P /\ p[k - 1] = q[k]
    BY <1>3
  <2>3. p[k - 1].text[1] = i
    BY <2>1, <2>2
  <2>4. QED
    BY <2>2, <2>3
<1>8. QED
  BY <1>4, <1>5, <1>6, <1>7 DEF InOrder, p, P

LEMMA EndTaken ==
  ASSUME NEW S, NEW q \in Seq(S), q # <<>>, NEW r, ~ChunkOf(Head(q), r) \/ ~Head(q).done,
         EndIsLast(q, r)
  PROVE  EndIsLast(Tail(q), r)
<1>1. PICK e \in Ends(q, r) : Ends(q, r) = {e} /\ \A k \in Pieces(q, r) : k < e
  BY DEF EndIsLast
<1>2. 1 \notin Ends(q, r)
  BY Taken
<1>3. e - 1 \in Ends(Tail(q), r)
  BY <1>1, <1>2, Taken
<1>4. \A k \in Ends(Tail(q), r) : k + 1 = e
  BY <1>1, Taken
<1>5. \A k \in Pieces(Tail(q), r) : k + 1 < e
  BY <1>1, Taken
<1>6. Pieces(Tail(q), r) \subseteq Int /\ Ends(Tail(q), r) \subseteq Int /\ e \in Int
  BY Positions
<1>7. QED
  BY <1>3, <1>4, <1>5, <1>6 DEF EndIsLast

LEMMA HeardTaken ==
  ASSUME NEW S, NEW q \in Seq(S), q # <<>>, NEW r, ~ChunkOf(Head(q), r),
         NEW m, NEW a, NEW alive, NEW b, Heard(q, r, m, a, alive, b)
  PROVE  Heard(Tail(q), r, m, a, alive, b)
<1>1. /\ Pieces(q, r) = {} => Pieces(Tail(q), r) = {}
      /\ Ends(q, r) = {} => Ends(Tail(q), r) = {}
  BY Taken
<1>2. InOrder(q, r, m.text, a.wrote) => InOrder(Tail(q), r, m.text, a.wrote)
  BY OrderTaken
<1>3. EndIsLast(q, r) => EndIsLast(Tail(q), r)
  BY EndTaken
<1>4. Silent(q, r) => Silent(Tail(q), r)
  BY <1>1 DEF Silent
<1>5. QED
  BY <1>1, <1>2, <1>3, <1>4
  DEF Heard, HeardNone, HeardRunning, HeardKilled, HeardUnheard, EndComes, EndCame

\* a message that is gone, or whose session may be
LEMMA HeardGone ==
  ASSUME NEW q, NEW r, NEW m, NEW n \in {m, None}, NEW a, NEW alive, NEW living, NEW b,
         living => alive /\ n # None, Heard(q, r, m, a, alive, b)
  PROVE  Heard(q, r, n, a, living, b)
  BY DEF Heard, HeardNone, HeardRunning, HeardKilled, HeardUnheard, EndComes, EndCame,
         OnlyFailed, Closed

\* a message that a failed send closes
LEMMA HeardFailed ==
  ASSUME NEW q, NEW r, NEW m \in Message, NEW a, NEW alive, NEW b,
         Heard(q, r, m, a, alive, b)
  PROVE  Heard(q, r, [m EXCEPT !.done = TRUE, !.error = TRUE], a, alive, b)
<1> DEFINE f == [m EXCEPT !.done = TRUE, !.error = TRUE]
<1>1. f.text = m.text /\ f.done /\ f.error /\ m # None
  BY RowsAssumption DEF Message
<1> HIDE DEF f
<1>2. QED
  BY <1>1 DEF Heard, HeardNone, HeardRunning, HeardKilled, HeardUnheard, EndComes,
              EndCame, OnlyFailed, Closed, f

\* the agent writes
LEMMA OrderWritten ==
  ASSUME NEW S, NEW q \in Seq(S), NEW x \in S, NEW r, ChunkOf(x, r), ~x.done,
         NEW text \in Seq(Nat), NEW n \in Nat, InOrder(q, r, text, n), x.text[1] = n + 1
  PROVE  InOrder(Append(q, x), r, text, n + 1)
<1> DEFINE p == Append(q, x)
           P == Pieces(p, r)
           Q == Pieces(q, r)
           l == Len(q) + 1
<1>1. P = Q \union {l}
  BY Appended
<1>2. p[l] = x /\ Len(q) \in Nat
  BY AtAppend
<1>3. \A k \in Q : p[k] = q[k] /\ k \in Int /\ k < l
  <2> SUFFICES ASSUME NEW k \in Pieces(q, r)
               PROVE  p[k] = q[k] /\ k \in Int /\ k < l
    OBVIOUS
  <2>1. k \in Int /\ k < Len(q) + 1 /\ Append(q, x)[k] = q[k]
    BY OldPieces, Zenon
  <2>2. QED
    BY <2>1
<1>4. /\ \A k \in Q : q[k].text[1] \in (Len(text) + 1)..n
      /\ \A j, k \in Q : j < k => q[j].text[1] < q[k].text[1]
      /\ \A i \in (Len(text) + 1)..n : \E k \in Q : q[k].text[1] = i
      /\ Len(text) <= n /\ \A i \in 1..Len(text) : text[i] = i
  BY DEF InOrder
<1>5. Len(text) \in Nat /\ l \in Int
  BY <1>2
<1> HIDE DEF p, P, Q, l
<1>6. p[l].text[1] = n + 1
  BY <1>2
<1>7. \A k \in P : p[k].text[1] \in (Len(text) + 1)..(n + 1)
  BY <1>1, <1>3, <1>4, <1>5, <1>6
<1>8. \A j, k \in P : j < k => p[j].text[1] < p[k].text[1]
  <2> SUFFICES ASSUME NEW j \in P, NEW k \in P, j < k
               PROVE  p[j].text[1] < p[k].text[1]
    OBVIOUS
  <2>1. j \in Q /\ p[j].text[1] \in (Len(text) + 1)..n
    BY <1>1, <1>3, <1>4, <1>5
  <2>2. CASE k = l
    BY <1>5, <1>6, <2>1, <2>2
  <2>3. CASE k \in Q
    BY <1>3, <1>4, <2>1, <2>3
  <2>4. QED
    BY <1>1, <2>2, <2>3
<1>9. \A i \in (Len(text) + 1)..(n + 1) : \E k \in P : p[k].text[1] = i
  <2> SUFFICES ASSUME NEW i \in (Len(text) + 1)..(n + 1)
               PROVE  \E k \in P : p[k].text[1] = i
    OBVIOUS
  <2>1. CASE i = n + 1
    BY <1>1, <1>6, <2>1
  <2>2. CASE i # n + 1
    <3>1. i \in (Len(text) + 1)..n
      BY <1>5, <2>2
    <3>2. PICK k \in Q : q[k].text[1] = i
      BY <1>4, <3>1
    <3>3. QED
      BY <1>1, <1>3, <3>2
  <2>3. QED
    BY <2>1, <2>2
<1>10. Len(text) <= n + 1
  BY <1>4, <1>5
<1>11. QED
  BY <1>4, <1>7, <1>8, <1>9, <1>10 DEF InOrder, p, P

LEMMA HeardWritten ==
  ASSUME NEW S, NEW q \in Seq(S), NEW x \in S, NEW r, ChunkOf(x, r), ~x.done,
         NEW m \in Message \union {None}, NEW a \in Agent, NEW alive, NEW b,
         alive => m # None, a.state \in {"running", "killed"}, x.text[1] = a.wrote + 1,
         Heard(q, r, m, a, alive, b)
  PROVE  Heard(Append(q, x), r, m, [a EXCEPT !.wrote = @ + 1], alive, b)
<1>1. Ends(q, r) = {} => Ends(Append(q, x), r) = {}
  BY Appended
<1>2. a.wrote \in Nat
  BY SessionsAssumption DEF Agent
<1>3. ASSUME alive, InOrder(q, r, m.text, a.wrote)
      PROVE  InOrder(Append(q, x), r, m.text, a.wrote + 1)
  <2>1. m.text \in Seq(Nat)
    <3>1. m.text \in Seq(1..MaxText)
      BY <1>3 DEF Message
    <3>2. 1..MaxText \subseteq Nat
      OBVIOUS
    <3>3. QED
      BY <3>1, <3>2, SeqMonotonic
  <2>2. QED
    BY <1>2, <1>3, <2>1, OrderWritten
<1> DEFINE c == [a EXCEPT !.wrote = @ + 1]
<1>4. c.state = a.state /\ c.wrote = a.wrote + 1
  BY DEF Agent
<1> HIDE DEF c
<1>5. QED
  BY <1>1, <1>3, <1>4 DEF Heard, HeardRunning, HeardKilled, c

\* the agent ends
LEMMA HeardEnded ==
  ASSUME NEW S, NEW q \in Seq(S), NEW x \in S, NEW r, ChunkOf(x, r), x.done,
         NEW m, NEW a \in Agent, NEW alive, NEW b, a.state = "running",
         Heard(q, r, m, a, alive, b)
  PROVE  Heard(Append(q, x), r, m, [a EXCEPT !.state = "ended"], alive, b)
<1> DEFINE p == Append(q, x)
<1>1. HeardRunning(q, r, m, a, alive)
  BY DEF Heard
<1>2. Pieces(p, r) = Pieces(q, r) /\ Ends(p, r) = {Len(q) + 1}
  BY <1>1, Appended DEF HeardRunning
<1>3. EndIsLast(p, r)
  <2>1. \A k \in Pieces(q, r) : k < Len(q) + 1
    BY OldPieces, AtAppend
  <2>2. QED
    BY <1>2, <2>1 DEF EndIsLast
<1>4. InOrder(q, r, m.text, a.wrote) => InOrder(p, r, m.text, a.wrote)
  BY OrderAppended
<1> DEFINE c == [a EXCEPT !.state = "ended"]
<1>5. c.state = "ended" /\ c.wrote = a.wrote
  BY DEF Agent
<1> HIDE DEF c
<1>6. EndComes(p, r, m, c, alive)
  BY <1>1, <1>3, <1>4, <1>5 DEF EndComes, HeardRunning
<1>7. QED
  BY <1>5, <1>6 DEF Heard, c

\* the first piece is delivered
LEMMA OrderDelivered ==
  ASSUME NEW S, NEW q \in Seq(S), q # <<>>, NEW r, ChunkOf(Head(q), r), ~Head(q).done,
         NEW text \in Seq(Nat), NEW n \in Nat, InOrder(q, r, text, n),
         NEW t \in Seq(Nat), t = Head(q).text, Len(t) = 1
  PROVE  InOrder(Tail(q), r, text \o t, n)
<1> DEFINE p == Tail(q)
           P == Pieces(p, r)
           Q == Pieces(q, r)
           l == Len(text)
           v == t[1]
<1>1. 1 \in Q
  BY Taken
<1>2. q[1].text[1] = v
  BY AtTail
<1>3. \A k \in P : k + 1 \in Q /\ p[k] = q[k + 1]
  <2>1. \A k \in Pieces(Tail(q), r) : k + 1 \in Pieces(q, r) /\ Tail(q)[k] = q[k + 1]
    BY Taken
  <2>2. QED
    BY <2>1
<1>4. \A k \in Q : k # 1 => k - 1 \in P /\ p[k - 1] = q[k]
  <2>1. \A k \in Pieces(q, r) : k # 1 =>
          k - 1 \in Pieces(Tail(q), r) /\ Tail(q)[k - 1] = q[k]
    BY Taken
  <2>2. QED
    BY <2>1
<1>5. /\ \A k \in Q : q[k].text[1] \in (l + 1)..n
      /\ \A j, k \in Q : j < k => q[j].text[1] < q[k].text[1]
      /\ \A i \in (l + 1)..n : \E k \in Q : q[k].text[1] = i
      /\ l <= n /\ \A i \in 1..l : text[i] = i
  BY DEF InOrder
<1>6. \A k \in P \union Q : k \in Nat /\ 1 <= k
  BY DEF Pieces
<1>7. l \in Nat
  OBVIOUS
<1>8. /\ Len(text \o t) = l + 1
      /\ \A i \in 1..l : (text \o t)[i] = text[i]
      /\ (text \o t)[l + 1] = v
  <2>1. /\ Len(text \o t) = Len(text) + Len(t)
        /\ \A i \in 1..(Len(text) + Len(t)) :
             (text \o t)[i] = IF i <= Len(text) THEN text[i] ELSE t[i - Len(text)]
    BY ConcatProperties
  <2> DEFINE u == text \o t
  <2> HIDE DEF u
  <2>2. /\ Len(u) = l + 1
        /\ \A i \in 1..(l + 1) : u[i] = IF i <= l THEN text[i] ELSE t[i - l]
    BY <2>1 DEF u
  <2>3. \A i \in 1..l : u[i] = text[i]
    BY <1>7, <2>2
  <2>4. l + 1 \in 1..(l + 1) /\ ~(l + 1 <= l) /\ (l + 1) - l = 1
    BY <1>7
  <2>5. u[l + 1] = t[1]
    BY <2>2, <2>4
  <2>6. QED
    BY <2>2, <2>3, <2>5 DEF u
<1> DEFINE w == text \o t
<1> HIDE DEF p, P, Q, l, v, w
<1>9. v = l + 1
  <2>1. v \in (l + 1)..n
    BY <1>1, <1>2, <1>5
  <2>2. l + 1 \in (l + 1)..n
    BY <1>7, <2>1
  <2>3. PICK k \in Q : q[k].text[1] = l + 1
    BY <1>5, <2>2
  <2>4. CASE k = 1
    BY <1>2, <2>3, <2>4
  <2>5. CASE k # 1
    <3>1. 1 < k
      BY <1>6, <2>5
    <3>2. v < l + 1
      BY <1>1, <1>2, <1>5, <2>3, <3>1
    <3>3. QED
      BY <1>7, <2>1, <3>2
  <2>6. QED
    BY <2>4, <2>5
<1>10. Len(w) = l + 1 /\ \A i \in 1..Len(w) : w[i] = i
  <2>1. /\ Len(w) = l + 1 /\ w[l + 1] = v
        /\ \A i \in 1..l : w[i] = text[i]
    BY <1>8 DEF w
  <2>2. QED
    BY <1>5, <1>7, <1>9, <2>1
<1>11. \A k \in P : p[k].text[1] \in (Len(w) + 1)..n
  <2> SUFFICES ASSUME NEW k \in P PROVE p[k].text[1] \in (Len(w) + 1)..n
    OBVIOUS
  <2>1. k + 1 \in Q /\ p[k] = q[k + 1] /\ 1 < k + 1
    BY <1>3, <1>6
  <2>2. q[k + 1].text[1] \in (l + 1)..n /\ l + 1 < q[k + 1].text[1]
    BY <1>1, <1>2, <1>5, <1>9, <2>1
  <2>3. QED
    BY <1>7, <1>10, <2>1, <2>2
<1>12. \A j, k \in P : j < k => p[j].text[1] < p[k].text[1]
  <2> SUFFICES ASSUME NEW j \in P, NEW k \in P, j < k
               PROVE  p[j].text[1] < p[k].text[1]
    OBVIOUS
  <2>1. j + 1 < k + 1 /\ j + 1 \in Q /\ k + 1 \in Q
    BY <1>3, <1>6
  <2>2. QED
    BY <1>3, <1>5, <2>1
<1>13. \A i \in (Len(w) + 1)..n : \E k \in P : p[k].text[1] = i
  <2> SUFFICES ASSUME NEW i \in (Len(w) + 1)..n PROVE \E k \in P : p[k].text[1] = i
    OBVIOUS
  <2>1. i \in (l + 1)..n /\ i # v
    BY <1>7, <1>9, <1>10
  <2>2. PICK k \in Q : q[k].text[1] = i
    BY <1>5, <2>1
  <2>3. k - 1 \in P /\ p[k - 1] = q[k]
    BY <1>2, <1>4, <2>1, <2>2
  <2>4. QED
    BY <2>2, <2>3
<1>14. Len(w) <= n
  <2>1. v <= n
    BY <1>1, <1>2, <1>5
  <2>2. QED
    BY <1>9, <1>10, <2>1
<1>15. QED
  BY <1>10, <1>11, <1>12, <1>13, <1>14 DEF InOrder, p, P, w

\* a message that lacks nothing
LEMMA OrderDone ==
  ASSUME NEW q, NEW r, NEW text \in Seq(Nat), NEW n \in Nat, InOrder(q, r, text, n),
         Pieces(q, r) = {}
  PROVE  text = [k \in 1..n |-> k]
<1> DEFINE l == Len(text)
<1>1. l \in Nat
  OBVIOUS
<1>2. \A i \in 1..Len(text) : text[i] = i
  BY DEF InOrder
<1>3. Len(text) = n
  <2>1. l <= n
    BY DEF InOrder
  <2>2. n \notin (l + 1)..n
    BY DEF InOrder
  <2> HIDE DEF l
  <2>3. ~(l + 1 <= n)
    BY <1>1, <2>2
  <2>4. l = n
    BY <1>1, <2>1, <2>3
  <2>5. QED
    BY <2>4 DEF l
<1>4. text \in [1..n -> Nat]
  BY <1>3
<1>5. QED
  BY <1>2, <1>3, <1>4

\* what the message old becomes by the chunk x
Extends(new, old, x) ==
  /\ new \in Message /\ new.sess = old.sess /\ new.text = old.text \o x.text
  /\ new.done = (old.done \/ x.done \/ ~x.ok)
  /\ new.error = (old.error \/ ~x.ok)

\* the head of the queue is delivered to the message m, or makes a new one
LEMMA HeardDelivered ==
  ASSUME NEW S, NEW q \in Seq(S), q # <<>>, NEW r, NEW x \in Chunks, x = Head(q),
         x.req = r, IF x.done THEN x.text = <<>> ELSE x.ok /\ Len(x.text) = 1,
         NEW m \in Message \union {None}, NEW old \in Message,
         IF m # None THEN old = m ELSE ~old.done,
         NEW new, Extends(new, old, x),
         NEW a \in Agent, NEW alive, NEW living, living => m # None /\ alive, NEW b,
         Heard(q, r, m, a, alive, b)
  PROVE  Heard(Tail(q), r, new, a, living, b)
<1>1. x.kind = "chunk" /\ x.done \in BOOLEAN /\ x.ok \in BOOLEAN
      /\ x.text \in Seq(1..MaxText)
  BY DEF Chunks
<1>2. ChunkOf(x, r)
  BY <1>1 DEF ChunkOf
<1>3. old.text \in Seq(Nat) /\ x.text \in Seq(Nat) /\ a.wrote \in Nat
  <2>1. 1..MaxText \subseteq Nat /\ 0..MaxText \subseteq Nat
    OBVIOUS
  <2>2. old.text \in Seq(1..MaxText) /\ a.wrote \in 0..MaxText
    BY DEF Message, Agent
  <2>3. QED
    BY <1>1, <2>1, <2>2, SeqMonotonic
<1>4. new # None /\ old # None
  BY RowsAssumption DEF Extends
<1>5. CASE ~x.done
  <2>1. new.text = old.text \o x.text /\ new.done = old.done /\ new.error = old.error
    <3>1. old.done \in BOOLEAN /\ old.error \in BOOLEAN
      BY DEF Message
    <3>2. QED
      BY <1>1, <1>5, <3>1 DEF Extends
  <2>2. ~Silent(q, r)
    BY <1>2, <1>5, Taken DEF Silent
  <2>3. OnlyFailed(m) => OnlyFailed(new)
    BY <1>4, <2>1 DEF OnlyFailed
  <2>4. Ends(q, r) = {} => Ends(Tail(q), r) = {}
    BY Taken
  <2>5. ASSUME living, InOrder(q, r, m.text, a.wrote)
        PROVE  InOrder(Tail(q), r, new.text, a.wrote)
    <3>1. InOrder(q, r, old.text, a.wrote)
      BY <2>5
    <3>2. InOrder(Tail(q), r, old.text \o x.text, a.wrote)
      BY <1>2, <1>3, <1>5, <3>1, OrderDelivered
    <3>3. QED
      BY <2>1, <3>2
  <2>6. EndIsLast(q, r) => EndIsLast(Tail(q), r)
    BY <1>5, EndTaken
  <2>7. QED
    BY <2>2, <2>3, <2>4, <2>5, <2>6
    DEF Heard, HeardNone, HeardRunning, HeardKilled, HeardUnheard, EndComes, EndCame
<1>6. CASE x.done
  <2>1. 1 \in Ends(q, r)
    BY <1>2, <1>6, Taken
  <2>2. ~Silent(q, r) /\ Ends(q, r) # {}
    BY <2>1 DEF Silent
  <2>3. new.done /\ new.text = old.text
    <3>1. new.done
      BY <1>6 DEF Extends
    <3>2. old.text \o <<>> = old.text
      BY <1>3, ConcatEmptySeq
    <3>3. QED
      BY <1>6, <3>1, <3>2 DEF Extends
  <2>4. ASSUME a.state = "ended", EndComes(q, r, m, a, alive)
        PROVE  EndCame(Tail(q), r, new, a, living, b)
    <3>1. Ends(q, r) = {1} /\ \A k \in Pieces(q, r) : k < 1
      BY <2>1, <2>4 DEF EndComes, EndIsLast
    <3>2. Pieces(q, r) = {}
      <4>1. \A k \in Pieces(q, r) : 1 <= k /\ k \in Int
        BY DEF Pieces
      <4>2. QED
        BY <3>1, <4>1
    <3>3. Silent(Tail(q), r)
      <4>1. Pieces(Tail(q), r) = {}
        BY <3>2, Taken
      <4>2. \A k \in Ends(Tail(q), r) : k + 1 = 1
        BY <3>1, Taken
      <4>3. \A k \in Ends(Tail(q), r) : 1 <= k /\ k \in Int
        BY DEF Ends
      <4>4. Ends(Tail(q), r) = {}
        BY <4>2, <4>3
      <4>5. QED
        BY <4>1, <4>4 DEF Silent
    <3>4. ASSUME living PROVE new.text = [k \in 1..a.wrote |-> k]
      <4>1. InOrder(q, r, old.text, a.wrote)
        BY <2>4, <3>4 DEF EndComes
      <4>2. QED
        BY <1>3, <2>3, <3>2, <4>1, OrderDone
    <3>5. QED
      BY <2>3, <3>3, <3>4 DEF EndCame
  <2>5. QED
    BY <2>2, <2>4 DEF Heard, HeardNone, HeardRunning, HeardKilled, HeardUnheard, EndCame
<1>7. QED
  BY <1>1, <1>5, <1>6

-----------------------------------------------------------------------------
(* Types.                                                                    *)

LEMMA OpAt ==
  ASSUME TypeOK, NEW o \in Ops, op[o].pc \in {"waiting", "broken", "releasing"}
  PROVE  op[o] \in Operation /\ op[o] # Idle
  BY DEF TypeOK, Idle

LEMMA OpTyped ==
  ASSUME TypeOK, NEW o \in Ops, NEW w \in Operation \union {Idle},
         op' = [op EXCEPT ![o] = w]
  PROVE  op' \in [Ops -> Operation \union {Idle}]
  BY DEF TypeOK

LEMMA WaitsTyped ==
  ASSUME NEW kind \in {"start", "send", "terminate", "release"},
         NEW about \in Sessions \union Requests \union {None}
  PROVE  Waits(kind, about) \in Operation
  BY DEF Waits, Operation

LEMMA AskTyped ==
  ASSUME TypeOK, NEW o \in Ops, NEW s \in Sessions, NEW w \in Operation,
         w.kind \in {"start", "send", "terminate"}, w.about \in Sessions \union Requests,
         Ask(o, w, s)
  PROVE  /\ op' \in [Ops -> Operation \union {Idle}]
         /\ down' \in Seq(Sent)
<1>1. [kind |-> w.kind, about |-> w.about, sess |-> s, op |-> o] \in Sent
  BY DEF Sent
<1>2. down' \in Seq(Sent)
  BY <1>1, AtAppend DEF TypeOK, Ask
<1>3. QED
  BY <1>2, OpTyped DEF Ask

LEMMA HeadSent ==
  ASSUME TypeOK, down # <<>>
  PROVE  Head(down) \in Sent /\ Tail(down) \in Seq(Sent)
  BY DEF TypeOK

LEMMA HeadBack ==
  ASSUME TypeOK, up # <<>>
  PROVE  Head(up) \in Answers \union Chunks /\ Tail(up) \in Seq(Answers \union Chunks)
  BY DEF TypeOK

LEMMA HandledTyped ==
  ASSUME TypeOK, down # <<>>, NEW ok \in BOOLEAN, Handled(ok)
  PROVE  down' \in Seq(Sent) /\ up' \in Seq(Answers \union Chunks)
<1> DEFINE x == [kind |-> "answer", op |-> Head(down).op, ok |-> ok,
                 asked |-> Head(down).kind, about |-> Head(down).about]
<1>1. x \in Answers
  BY HeadSent DEF Sent, Answers
<1>2. up \in Seq(Answers \union Chunks) /\ up' = Append(up, x)
  BY DEF TypeOK, Handled
<1> HIDE DEF x
<1>3. up' \in Seq(Answers \union Chunks)
  BY <1>1, <1>2, AtAppend
<1>4. QED
  BY <1>3, HeadSent DEF Handled

LEMMA ResumesTyped ==
  ASSUME TypeOK, NEW o \in Ops, NEW kind, NEW ok, Resumes(o, kind, ok)
  PROVE  /\ op[o] \in Operation /\ op[o] # Idle /\ op[o].kind = kind
         /\ up' \in Seq(Answers \union Chunks)
         /\ faults' \in 0..MaxFaults
<1>1. op[o] \in Operation /\ op[o] # Idle /\ op[o].kind = kind
  BY DEF TypeOK, Resumes
<1>2. up' \in Seq(Answers \union Chunks)
  BY HeadBack DEF TypeOK, Resumes
<1>3. faults' \in 0..MaxFaults
  BY SessionsAssumption DEF TypeOK, Resumes
<1>4. QED
  BY <1>1, <1>2, <1>3

LEMMA TypedAsks ==
  ASSUME IInv, NEW o \in Ops, NEW s \in Sessions,
         \/ \E i \in Spaces : AskStart(o, i, s)
         \/ \E r \in Requests : AskSend(o, s, r)
         \/ AskTerminate(o, s)
  PROVE  TypeOK'
<1> USE DEF IInv
<1>1. ASSUME NEW i \in Spaces, AskStart(o, i, s) PROVE TypeOK'
  <2> DEFINE w == [Waits("start", s) EXCEPT !.space = i, !.task = space[i]]
  <2>1. space[i] \in Tasks
    BY <1>1 DEF TypeOK, AskStart
  <2>2. w \in Operation /\ w.kind = "start" /\ w.about = s
    BY <2>1 DEF Waits, Operation
  <2>3. Ask(o, w, s)
    BY <1>1 DEF AskStart
  <2> HIDE DEF w
  <2>4. op' \in [Ops -> Operation \union {Idle}] /\ down' \in Seq(Sent)
    BY <2>2, <2>3, AskTyped
  <2>5. QED
    BY <1>1, <2>4 DEF TypeOK, AskStart, rows, companion, bounds
<1>2. ASSUME NEW r \in Requests, AskSend(o, s, r) PROVE TypeOK'
  <2>1. Waits("send", r) \in Operation
    BY WaitsTyped
  <2>2. Waits("send", r).kind = "send" /\ Waits("send", r).about = r
    BY DEF Waits
  <2>3. op' \in [Ops -> Operation \union {Idle}] /\ down' \in Seq(Sent)
    BY <1>2, <2>1, <2>2, AskTyped DEF AskSend
  <2>4. NewMessage(s) \in Message
    BY DEF NewMessage, Message
  <2>5. QED
    BY <1>2, <2>3, <2>4 DEF TypeOK, AskSend, companion, bounds
<1>3. ASSUME AskTerminate(o, s) PROVE TypeOK'
  <2>1. Waits("terminate", s) \in Operation
    BY WaitsTyped
  <2>2. Waits("terminate", s).kind = "terminate" /\ Waits("terminate", s).about = s
    BY DEF Waits
  <2>3. op' \in [Ops -> Operation \union {Idle}] /\ down' \in Seq(Sent)
    BY <1>3, <2>1, <2>2, AskTyped DEF AskTerminate
  <2>4. stops' \in 0..MaxStops
    BY <1>3, SessionsAssumption DEF TypeOK, AskTerminate
  <2>5. QED
    BY <1>3, <2>3, <2>4 DEF TypeOK, AskTerminate, rows, companion, history
<1>4. QED
  BY <1>1, <1>2, <1>3

\* an agent that was started has a session
LEMMA RunningHasSession ==
  ASSUME IInv, NEW r \in Requests, agent[r].state # "none"
  PROVE  agent[r] \in Agent /\ agent[r].sess \in Sessions
<1>1. agent[r] \in Agent
  BY DEF IInv, TypeOK
<1>2. agent[r].sess # None
  BY SessionsAssumption DEF IInv, Fresh, TypeOK
<1>3. QED
  BY <1>1, <1>2 DEF Agent

LEMMA TypedCompanion ==
  ASSUME IInv,
         \/ HandleStart \/ HandleSend \/ HandleTerminate
         \/ \E r \in Requests : AgentWrites(r) \/ \E ok \in BOOLEAN : AgentEnds(r, ok)
  PROVE  TypeOK'
<1> USE DEF IInv
<1>1. CASE HandleStart
  <2>1. down' \in Seq(Sent) /\ up' \in Seq(Answers \union Chunks)
    BY <1>1, HandledTyped DEF HandleStart, Command
  <2>2. manager' \in [Sessions -> Requests \union {"idle", None}]
    BY <1>1 DEF TypeOK, HandleStart
  <2>3. QED
    BY <1>1, <2>1, <2>2 DEF TypeOK, HandleStart, rows, bounds, history
<1>2. CASE HandleSend
  <2>1. PICK yes \in BOOLEAN : Handled(yes)
    BY <1>2 DEF HandleSend
  <2>2. down' \in Seq(Sent) /\ up' \in Seq(Answers \union Chunks)
    BY <1>2, <2>1, HandledTyped DEF HandleSend, Command
  <2> DEFINE s == Head(down).sess
             c == Head(down).about
             a == [sess |-> s, state |-> "running", wrote |-> 0]
  <2>3. down # <<>> /\ Head(down).kind = "send"
    BY <1>2 DEF HandleSend, Command
  <2>4. s \in Sessions /\ c \in Requests
    <3>1. Head(down) = down[1] /\ 1 \in 1..Len(down)
      BY <2>3, AtTail DEF TypeOK
    <3>2. QED
      BY <2>3, <3>1, HeadSent DEF Asked, Sent
  <2>5. a \in Agent
    BY <2>4, SessionsAssumption DEF Agent
  <2>6. /\ manager' = manager \/ manager' = [manager EXCEPT ![s] = c]
        /\ agent' = agent \/ agent' = [agent EXCEPT ![c] = a]
    BY <1>2 DEF HandleSend
  <2> HIDE DEF s, c, a
  <2>7. manager' \in [Sessions -> Requests \union {"idle", None}]
    BY <2>4, <2>6 DEF TypeOK
  <2>8. agent' \in [Requests -> Agent]
    BY <2>5, <2>6 DEF TypeOK
  <2>9. QED
    BY <1>2, <2>2, <2>7, <2>8 DEF TypeOK, HandleSend, rows, bounds, history
<1>3. CASE HandleTerminate
  <2>1. down' \in Seq(Sent) /\ up' \in Seq(Answers \union Chunks)
    BY <1>3, HandledTyped DEF HandleTerminate, Command
  <2>2. manager' \in [Sessions -> Requests \union {"idle", None}]
    BY <1>3 DEF TypeOK, HandleTerminate
  <2>3. \A q \in Requests : [agent[q] EXCEPT !.state = "killed"] \in Agent
    BY DEF TypeOK, Agent
  <2>4. agent' \in [Requests -> Agent]
    BY <1>3, <2>3 DEF TypeOK, HandleTerminate
  <2>5. QED
    BY <1>3, <2>1, <2>2, <2>4 DEF TypeOK, HandleTerminate, rows, bounds, history
<1>4. ASSUME NEW r \in Requests, AgentWrites(r) PROVE TypeOK'
  <2>1. agent[r] \in Agent /\ agent[r].sess \in Sessions
    BY <1>4, RunningHasSession DEF AgentWrites
  <2>2. [agent[r] EXCEPT !.wrote = @ + 1] \in Agent /\ agent[r].wrote + 1 \in 1..MaxText
    BY <1>4, <2>1, SessionsAssumption DEF AgentWrites, Agent
  <2>3. Chunk(r, <<agent[r].wrote + 1>>, FALSE, TRUE) \in Chunks
    BY <2>1, <2>2 DEF Chunk, Chunks
  <2>4. up' \in Seq(Answers \union Chunks)
    BY <1>4, <2>3, AtAppend DEF TypeOK, AgentWrites
  <2>5. agent' \in [Requests -> Agent]
    BY <1>4, <2>2 DEF TypeOK, AgentWrites
  <2>6. QED
    BY <1>4, <2>4, <2>5 DEF TypeOK, AgentWrites, rows, bounds, history
<1>5. ASSUME NEW r \in Requests, NEW ok \in BOOLEAN, AgentEnds(r, ok) PROVE TypeOK'
  <2>1. agent[r] \in Agent /\ agent[r].sess \in Sessions
    BY <1>5, RunningHasSession DEF AgentEnds
  <2>2. [agent[r] EXCEPT !.state = "ended"] \in Agent
    BY <2>1 DEF Agent
  <2>3. Chunk(r, <<>>, TRUE, ok) \in Chunks
    BY <2>1 DEF Chunk, Chunks
  <2>4. up' \in Seq(Answers \union Chunks)
    BY <1>5, <2>3, AtAppend DEF TypeOK, AgentEnds
  <2>5. agent' \in [Requests -> Agent]
    BY <1>5, <2>2 DEF TypeOK, AgentEnds
  <2>6. manager' \in [Sessions -> Requests \union {"idle", None}]
    BY <1>5 DEF TypeOK, AgentEnds
  <2>7. QED
    BY <1>5, <2>4, <2>5, <2>6 DEF TypeOK, AgentEnds, rows, bounds, history
<1>6. QED
  BY <1>1, <1>2, <1>3, <1>4, <1>5

LEMMA NewTyped ==
  ASSUME NEW s \in Sessions
  PROVE  NewMessage(s) \in Message /\ ~NewMessage(s).done
  BY DEF NewMessage, Message

\* what a chunk makes of a message
LEMMA ExtendsTyped ==
  ASSUME NEW old \in Message, NEW x \in Chunks
  PROVE  Extends([old EXCEPT !.text = @ \o x.text, !.done = @ \/ x.done \/ ~x.ok,
                             !.error = @ \/ ~x.ok], old, x)
<1>1. old.text \o x.text \in Seq(1..MaxText)
  BY DEF Message, Chunks
<1>2. QED
  BY <1>1 DEF Message, Chunks, Extends

LEMMA Delivers ==
  ASSUME IInv, DeliverChunk
  PROVE  /\ up # <<>> /\ Head(up) \in Chunks /\ up' = Tail(up)
         /\ \E old, new \in Message :
              /\ old = (IF msg[Head(up).req] # None THEN msg[Head(up).req]
                        ELSE NewMessage(Head(up).sess))
              /\ Extends(new, old, Head(up))
              /\ msg' = [msg EXCEPT ![Head(up).req] = new]
<1> DEFINE x == Head(up)
           old == IF msg[x.req] # None THEN msg[x.req] ELSE NewMessage(x.sess)
           new == [old EXCEPT !.text = @ \o x.text, !.done = @ \/ x.done \/ ~x.ok,
                              !.error = @ \/ ~x.ok]
<1>1. up # <<>> /\ x \in Chunks /\ up' = Tail(up)
  BY HeadBack DEF IInv, DeliverChunk, Answers
<1>2. x.req \in Requests /\ x.sess \in Sessions
  BY <1>1 DEF Chunks
<1>3. old \in Message
  BY <1>2, NewTyped DEF IInv, TypeOK
<1>4. msg' = [msg EXCEPT ![x.req] = new]
  BY DEF DeliverChunk
<1> HIDE DEF old
<1>5. Extends(new, old, x)
  BY <1>1, <1>3, ExtendsTyped
<1> HIDE DEF new
<1>6. new \in Message
  BY <1>5 DEF Extends
<1>7. QED
  BY <1>1, <1>3, <1>4, <1>5, <1>6 DEF old

LEMMA TypedStream ==
  ASSUME IInv, DropAnswer \/ DeliverChunk \/ Break
  PROVE  TypeOK'
<1> USE DEF IInv
<1>1. CASE DropAnswer
  BY <1>1, HeadBack DEF TypeOK, DropAnswer, rows, companion, bounds, history
<1>2. CASE DeliverChunk
  <2>1. up' \in Seq(Answers \union Chunks)
    BY <1>2, HeadBack DEF DeliverChunk
  <2>2. msg' \in [Requests -> Message \union {None}]
    BY <1>2, Delivers DEF TypeOK
  <2>3. QED
    BY <1>2, <2>1, <2>2 DEF TypeOK, DeliverChunk, companion, bounds, history
<1>3. CASE Break
  <2>1. op' \in [Ops -> Operation \union {Idle}]
    <3>1. \A o \in Ops : op[o].pc = "waiting" =>
            [op[o] EXCEPT !.pc = "broken"] \in Operation
      BY OpAt DEF Operation
    <3>2. QED
      BY <1>3, <3>1 DEF TypeOK, Break
  <2>2. agent' \in [Requests -> Agent]
    <3>1. \A q \in Requests : [agent[q] EXCEPT !.state = "unheard"] \in Agent
      BY DEF TypeOK, Agent
    <3>2. QED
      BY <1>3, <3>1 DEF TypeOK, Break
  <2>3. faults' \in 0..MaxFaults
    BY <1>3, SessionsAssumption DEF TypeOK, Break
  <2>4. QED
    BY <1>3, <2>1, <2>2, <2>3 DEF TypeOK, Break, rows
<1>4. QED
  BY <1>1, <1>2, <1>3

LEMMA TypedReleases ==
  ASSUME IInv, NEW o \in Ops,
         \/ \E i \in Spaces : BeginRelease(o, i)
         \/ \E s \in Sessions : ReleaseNext(o, s)
         \/ \E ok \in BOOLEAN : ReleaseGoesOn(o, ok)
         \/ EndRelease(o)
  PROVE  TypeOK'
<1> USE DEF IInv
<1>1. ASSUME NEW i \in Spaces, BeginRelease(o, i) PROVE TypeOK'
  <2> DEFINE S == {c \in Sessions : sess[c] # None /\ sess[c].space = i}
             w == [Waits("release", None) EXCEPT !.pc = "releasing", !.task = space[i],
                                                 !.all = S, !.todo = S]
  <2>1. space[i] \in Tasks
    BY <1>1 DEF TypeOK, BeginRelease
  <2>2. S \in SUBSET Sessions
    OBVIOUS
  <2>3. op' = [op EXCEPT ![o] = w]
    BY <1>1 DEF BeginRelease
  <2> HIDE DEF S
  <2>4. w \in Operation
    BY <2>1, <2>2 DEF Waits, Operation
  <2> HIDE DEF w
  <2>5. op' \in [Ops -> Operation \union {Idle}]
    BY <2>3, <2>4, OpTyped
  <2>6. stops' \in 0..MaxStops
    <3>1. stops \in 0..MaxStops /\ MaxStops \in Nat
      BY SessionsAssumption DEF TypeOK
    <3>2. stops < MaxStops /\ stops' = stops + 1
      BY <1>1 DEF BeginRelease
    <3>3. QED
      BY <3>1, <3>2
  <2>7. QED
    BY <1>1, <2>5, <2>6 DEF TypeOK, BeginRelease, rows, stream, companion, history
<1>2. ASSUME NEW s \in Sessions, ReleaseNext(o, s) PROVE TypeOK'
  <2> DEFINE w == [op[o] EXCEPT !.pc = "waiting", !.about = s, !.todo = @ \ {s}]
  <2>1. w \in Operation
    <3>1. op[o] \in Operation
      BY <1>2, OpAt DEF ReleaseNext
    <3>2. op[o].todo \ {s} \subseteq Sessions
      BY <3>1 DEF Operation
    <3>3. QED
      BY <3>1, <3>2 DEF Operation
  <2>2. op' = [op EXCEPT ![o] = w]
    BY <1>2 DEF TypeOK, ReleaseNext
  <2> HIDE DEF w
  <2>3. op' \in [Ops -> Operation \union {Idle}]
    BY <2>1, <2>2, OpTyped
  <2>4. [kind |-> "terminate", about |-> s, sess |-> s, op |-> o] \in Sent
    BY DEF Sent
  <2>5. down' \in Seq(Sent)
    BY <1>2, <2>4, AtAppend DEF TypeOK, ReleaseNext
  <2>6. QED
    BY <1>2, <2>3, <2>5 DEF TypeOK, ReleaseNext, rows, companion, bounds, history
<1>3. ASSUME NEW ok \in BOOLEAN, ReleaseGoesOn(o, ok) PROVE TypeOK'
  <2> DEFINE w == [op[o] EXCEPT !.pc = "releasing", !.about = None]
  <2>1. Resumes(o, "release", ok)
    BY <1>3 DEF ReleaseGoesOn
  <2>2. w \in Operation
    BY <2>1, ResumesTyped DEF Operation
  <2>3. op' = [op EXCEPT ![o] = w]
    BY <1>3 DEF ReleaseGoesOn, TypeOK
  <2> HIDE DEF w
  <2>4. op' \in [Ops -> Operation \union {Idle}]
    BY <2>2, <2>3, OpTyped
  <2>5. QED
    BY <1>3, <2>1, <2>4, ResumesTyped DEF TypeOK, ReleaseGoesOn, rows, companion
<1>4. CASE EndRelease(o)
  <2>1. op' \in [Ops -> Operation \union {Idle}]
    BY <1>4, OpTyped DEF EndRelease, End
  <2>2. space' \in [Spaces -> Tasks \union {None}] /\ late' \subseteq Sessions
    BY <1>4 DEF TypeOK, EndRelease, rows
  <2>3. sess' \in [Sessions -> SessionRow \union {None}]
    BY <1>4 DEF TypeOK, EndRelease, rows
  <2>4. msg' \in [Requests -> Message \union {None}]
    BY <1>4 DEF TypeOK, EndRelease, rows
  <2>5. QED
    BY <1>4, <2>1, <2>2, <2>3, <2>4
    DEF TypeOK, EndRelease, stream, companion, bounds
<1>5. QED
  BY <1>1, <1>2, <1>3, <1>4

LEMMA TypedEnds ==
  ASSUME IInv, NEW o \in Ops, NEW ok \in BOOLEAN,
         EndStart(o, ok) \/ EndSend(o, ok) \/ EndTerminate(o, ok)
  PROVE  TypeOK'
<1> USE DEF IInv
<1>1. ASSUME End(o) PROVE op' \in [Ops -> Operation \union {Idle}]
  BY <1>1, OpTyped DEF End
<1>2. CASE EndStart(o, ok)
  <2>1. Resumes(o, "start", ok) /\ End(o)
    BY <1>2 DEF EndStart
  <2> DEFINE row == [space |-> op[o].space, task |-> op[o].task, status |-> "active"]
  <2>2. op[o].about \in Sessions /\ row \in SessionRow
    BY <2>1, ResumesTyped DEF OpsFit, Is, SessionRow
  <2>3. sess' \in {sess, [sess EXCEPT ![op[o].about] = row]}
        /\ late' \in {late, late \union {op[o].about}}
    BY <1>2 DEF EndStart
  <2> HIDE DEF row
  <2>4. sess' \in [Sessions -> SessionRow \union {None}] /\ late' \subseteq Sessions
    BY <2>2, <2>3 DEF TypeOK
  <2>5. QED
    BY <1>1, <1>2, <2>1, <2>4, ResumesTyped DEF TypeOK, EndStart, companion
<1>3. CASE EndSend(o, ok)
  <2>1. Resumes(o, "send", ok) /\ End(o)
    BY <1>3 DEF EndSend
  <2>2. op[o].about \in Requests
    BY <2>1, ResumesTyped DEF OpsFit, Is
  <2>3. msg' \in [Requests -> Message \union {None}]
    <3> DEFINE r == op[o].about
    <3>1. msg[r] # None => [msg[r] EXCEPT !.done = TRUE, !.error = TRUE] \in Message
      BY <2>2 DEF TypeOK, Message
    <3>2. msg' = msg \/ (msg[r] # None
            /\ msg' = [msg EXCEPT ![r] = [msg[r] EXCEPT !.done = TRUE, !.error = TRUE]])
      BY <1>3, <2>2 DEF EndSend, TypeOK
    <3> HIDE DEF r
    <3>3. QED
      BY <3>1, <3>2 DEF TypeOK
  <2>4. QED
    BY <1>1, <1>3, <2>1, <2>3, ResumesTyped DEF TypeOK, EndSend, companion, history
<1>4. CASE EndTerminate(o, ok)
  <2>1. Resumes(o, "terminate", ok) /\ End(o)
    BY <1>4 DEF EndTerminate
  <2>2. op[o].about \in Sessions
    BY <2>1, ResumesTyped DEF OpsFit, Is
  <2>3. sess' \in [Sessions -> SessionRow \union {None}]
    <3> DEFINE s == op[o].about
    <3>1. sess[s] # None => [sess[s] EXCEPT !.status = "terminated"] \in SessionRow
      BY <2>2 DEF TypeOK, SessionRow
    <3>2. sess' = sess \/ (sess[s] # None
            /\ sess' = [sess EXCEPT ![s] = [sess[s] EXCEPT !.status = "terminated"]])
      BY <1>4, <2>2 DEF EndTerminate, TypeOK
    <3> HIDE DEF s
    <3>3. QED
      BY <3>1, <3>2 DEF TypeOK
  <2>4. QED
    BY <1>1, <1>4, <2>1, <2>3, ResumesTyped DEF TypeOK, EndTerminate, companion, history
<1>5. QED
  BY <1>2, <1>3, <1>4

-----------------------------------------------------------------------------
(* Steps that make up no id and start no agent.                              *)

\* the sends in down' are the sends of down, in their order
DownQuiet ==
  \E d \in {0, 1} : \A k \in 1..Len(down') : down'[k].kind = "send" =>
    k + d \in 1..Len(down) /\ down'[k] = down[k + d]

\* up' has the chunks of up, and no agreement to a send without an agent
UpQuiet ==
  \/ up' = up
  \/ up # <<>> /\ Head(up).kind = "answer" /\ up' = Tail(up)
  \/ \E x \in Answers :
       /\ x.asked = "send" /\ x.ok =>
            x.about \in Requests /\ agent'[x.about].state # "none"
       /\ up' = Append(up, x)

\* only a start that ends makes a session, only an agent a message
Steady ==
  /\ \A s \in Sessions : sess'[s] # None =>
       \/ sess[s] # None
       \/ \E o \in Ops : Is(op[o], "start") /\ op[o].about = s /\ op'[o] = Idle
  /\ \A r \in Requests : msg[r] # None /\ sess'[msg[r].sess] # None =>
       msg'[r] # None /\ msg'[r].sess = msg[r].sess
  /\ \A r \in Requests : msg'[r] # None =>
       \/ msg[r] # None /\ msg'[r].sess = msg[r].sess
       \/ agent[r].state # "none" /\ msg'[r].sess = agent[r].sess
  /\ \A r \in Requests : agent'[r].sess = agent[r].sess
                         /\ (agent'[r].state = "none" <=> agent[r].state = "none")
  /\ \A p \in Ops : Is(op'[p], "start") =>
       Is(op[p], "start") /\ op'[p].about = op[p].about
  /\ DownQuiet /\ used' = used

LEMMA SteadyInv ==
  ASSUME IInv, Steady
  PROVE  Fresh' /\ Starting' /\ Asked' /\ AgentsHaveMessages'
<1> USE DEF IInv
<1>1. PICK d \in {0, 1} : \A k \in 1..Len(down') : down'[k].kind = "send" =>
        k + d \in 1..Len(down) /\ down'[k] = down[k + d]
  BY DEF Steady, DownQuiet
<1>2. \A k \in 1..Len(down) : down[k].kind = "send" => down[k].sess \in Sessions
  <2>1. \A k \in 1..Len(down) : down[k] \in Sent
    BY ElementOfSeq DEF TypeOK
  <2>2. QED
    BY <2>1 DEF Sent
<1>3. \A r \in Requests : msg[r] # None => msg[r].sess \in Sessions
  BY DEF TypeOK, Message
<1>4. \A r \in Requests : agent[r].state # "none" => agent[r].sess \in Sessions
  BY RunningHasSession
<1>5. \A o \in Ops : Is(op[o], "start") => op[o].about \in Sessions
  BY DEF OpsFit
<1>6. Fresh'
  <2>1. \A s \in Sessions : sess'[s] # None => s \in used'
    BY DEF Steady, Fresh
  <2>2. \A r \in Requests : msg'[r] # None => r \in used' /\ msg'[r].sess \in used'
    BY DEF Steady, Fresh
  <2>3. \A r \in Requests :
          agent'[r].state # "none" => r \in used' /\ agent'[r].sess \in used'
    BY DEF Steady, Fresh
  <2>4. \A k \in 1..Len(down') : down'[k].kind = "send" =>
          down'[k].about \in used' /\ down'[k].sess \in used'
    BY <1>1 DEF Steady, Fresh
  <2>5. \A o \in Ops : Is(op'[o], "start") => op'[o].about \in used'
    BY DEF Steady, Fresh
  <2>6. QED
    BY <2>1, <2>2, <2>3, <2>4, <2>5 DEF Fresh, Is, Idle
<1>7. Starting'
  <2> SUFFICES ASSUME NEW o \in Ops, Is(op'[o], "start")
               PROVE  /\ sess'[op'[o].about] = None
                      /\ \A r \in Requests : msg'[r] # None => msg'[r].sess # op'[o].about
                      /\ \A r \in Requests :
                           agent'[r].state # "none" => agent'[r].sess # op'[o].about
                      /\ \A k \in 1..Len(down') :
                           down'[k].kind = "send" => down'[k].sess # op'[o].about
                      /\ \A p \in Ops :
                           Is(op'[p], "start") /\ op'[p].about = op'[o].about => p = o
    BY DEF Starting, Is, Idle
  <2>1. op'[o].about = op[o].about /\ Is(op[o], "start") /\ op'[o] # Idle
    BY DEF Steady, Is
  <2> DEFINE s == op[o].about
  <2>2. /\ sess[s] = None
        /\ \A r \in Requests : msg[r] # None => msg[r].sess # s
        /\ \A r \in Requests : agent[r].state # "none" => agent[r].sess # s
        /\ \A k \in 1..Len(down) : down[k].kind = "send" => down[k].sess # s
        /\ \A p \in Ops : Is(op[p], "start") /\ op[p].about = s => p = o
    BY <2>1 DEF Starting
  <2>3. s \in Sessions /\ op[o] # Idle
    BY <1>5, <2>1 DEF Is
  <2> HIDE DEF s
  <2>4. sess'[s] = None
    BY <2>1, <2>2, <2>3 DEF Steady
  <2>5. \A r \in Requests : msg'[r] # None => msg'[r].sess # s
    BY <2>2 DEF Steady
  <2>6. \A r \in Requests : agent'[r].state # "none" => agent'[r].sess # s
    BY <2>2 DEF Steady
  <2>7. \A k \in 1..Len(down') : down'[k].kind = "send" => down'[k].sess # s
    BY <1>1, <2>2
  <2>8. \A p \in Ops : Is(op'[p], "start") /\ op'[p].about = s => p = o
    BY <2>2 DEF Steady
  <2>9. QED
    BY <2>1, <2>4, <2>5, <2>6, <2>7, <2>8 DEF s
<1>8. ASSUME NEW s \in Sessions, sess'[s] # None, sess[s] = None
      PROVE  /\ \A r \in Requests : agent[r].state # "none" => agent[r].sess # s
             /\ \A k \in 1..Len(down) : down[k].kind = "send" => down[k].sess # s
  BY <1>8 DEF Steady, Starting
<1>9. Asked'
  <2> SUFFICES ASSUME NEW k \in 1..Len(down'), down'[k].kind = "send"
               PROVE  /\ down'[k].about \in Requests
                      /\ agent'[down'[k].about].state = "none"
                      /\ sess'[down'[k].sess] # None =>
                           /\ msg'[down'[k].about] # None
                           /\ msg'[down'[k].about].sess = down'[k].sess
                      /\ \A j \in 1..Len(down') :
                           down'[j].kind = "send" /\ down'[j].about = down'[k].about => j = k
    BY DEF Asked
  <2>1. k + d \in 1..Len(down) /\ down'[k] = down[k + d]
    BY <1>1
  <2> DEFINE x == down[k + d]
  <2>2. /\ x.about \in Requests /\ agent[x.about].state = "none" /\ x.sess \in Sessions
        /\ sess[x.sess] # None => msg[x.about] # None /\ msg[x.about].sess = x.sess
        /\ \A j \in 1..Len(down) : down[j].kind = "send" /\ down[j].about = x.about => j = k + d
    BY <1>2, <2>1 DEF Asked
  <2>3. sess'[x.sess] # None => sess[x.sess] # None
    BY <1>8, <2>1, <2>2
  <2> HIDE DEF x
  <2>4. agent'[x.about].state = "none"
    BY <2>2 DEF Steady
  <2>5. sess'[x.sess] # None => msg'[x.about] # None /\ msg'[x.about].sess = x.sess
    BY <2>2, <2>3 DEF Steady
  <2>6. ASSUME NEW j \in 1..Len(down'), down'[j].kind = "send", down'[j].about = x.about
        PROVE  j = k
    <3>1. j + d \in 1..Len(down) /\ down'[j] = down[j + d]
      BY <1>1, <2>6
    <3>2. j + d = k + d
      BY <2>2, <2>6, <3>1
    <3>3. j \in Int /\ k \in Int
      OBVIOUS
    <3>4. QED
      BY <3>2, <3>3
  <2>7. QED
    BY <2>1, <2>2, <2>4, <2>5, <2>6 DEF x
<1>10. AgentsHaveMessages'
  <2> SUFFICES ASSUME NEW r \in Requests, agent'[r].state # "none",
                      sess'[agent'[r].sess] # None
               PROVE  msg'[r] # None /\ msg'[r].sess = agent'[r].sess
    BY DEF AgentsHaveMessages
  <2>1. agent[r].state # "none" /\ agent'[r].sess = agent[r].sess
        /\ agent[r].sess \in Sessions
    BY <1>4 DEF Steady
  <2>2. sess[agent[r].sess] # None
    BY <1>8, <2>1
  <2>3. msg[r] # None /\ msg[r].sess = agent[r].sess
    BY <2>1, <2>2 DEF AgentsHaveMessages
  <2>4. QED
    BY <2>1, <2>3 DEF Steady
<1>11. QED
  BY <1>6, <1>7, <1>9, <1>10

\* agents that were started stay started
Ongoing ==
  \A r \in Requests : agent[r].state # "none" =>
    agent'[r].state # "none" /\ agent'[r].sess = agent[r].sess

LEMMA ChunksInv ==
  ASSUME IInv, UpQuiet, Ongoing
  PROVE  ChunksFit' /\ AgreedHasAgent'
<1> USE DEF IInv
<1> DEFINE Fits(x) ==
             /\ x.kind = "chunk" =>
                  /\ x.req \in Requests /\ agent[x.req].state # "none"
                  /\ x.sess = agent[x.req].sess
                  /\ IF x.done THEN x.text = <<>> ELSE x.ok /\ Len(x.text) = 1
             /\ x.kind = "answer" /\ x.asked = "send" /\ x.ok =>
                  x.about \in Requests /\ agent[x.about].state # "none"
           Fits2(x) ==
             /\ x.kind = "chunk" =>
                  /\ x.req \in Requests /\ agent'[x.req].state # "none"
                  /\ x.sess = agent'[x.req].sess
                  /\ IF x.done THEN x.text = <<>> ELSE x.ok /\ Len(x.text) = 1
             /\ x.kind = "answer" /\ x.asked = "send" /\ x.ok =>
                  x.about \in Requests /\ agent'[x.about].state # "none"
<1>1. up \in Seq(Answers \union Chunks)
  BY DEF TypeOK
<1>2. ASSUME NEW k \in 1..Len(up) PROVE Fits2(up[k])
  <2>1. up[k] \in Answers \union Chunks
    BY <1>1, ElementOfSeq
  <2>2. up[k].kind = "chunk" => up[k].req \in Requests
    BY <2>1 DEF Answers, Chunks
  <2>3. QED
    BY <2>2 DEF ChunksFit, AgreedHasAgent, Ongoing
<1>3. ASSUME \A k \in 1..Len(up') : Fits2(up'[k])
      PROVE  ChunksFit' /\ AgreedHasAgent'
  BY <1>3 DEF ChunksFit, AgreedHasAgent
<1> HIDE DEF Fits2
<1>4. CASE up' = up
  BY <1>2, <1>3, <1>4
<1>5. CASE up # <<>> /\ up' = Tail(up)
  <2>1. \A k \in 1..Len(up') : k + 1 \in 1..Len(up) /\ up'[k] = up[k + 1]
    BY <1>1, <1>5, InTail
  <2>2. QED
    BY <1>2, <1>3, <2>1
<1>6. ASSUME NEW x \in Answers, up' = Append(up, x),
             x.asked = "send" /\ x.ok =>
               x.about \in Requests /\ agent'[x.about].state # "none"
      PROVE  ChunksFit' /\ AgreedHasAgent'
  <2>1. Fits2(x)
    BY <1>6 DEF Fits2, Answers
  <2>2. \A k \in 1..Len(up') : (k \in 1..Len(up) /\ up'[k] = up[k]) \/ up'[k] = x
    BY <1>1, <1>6, InAppend
  <2>3. QED
    BY <1>2, <1>3, <2>1, <2>2
<1>7. QED
  BY <1>4, <1>5, <1>6 DEF UpQuiet

LEMMA HeardQuiet ==
  ASSUME IInv, UpQuiet, NEW r, NEW m, NEW a, NEW alive, NEW b,
         Heard(up, r, m, a, alive, b)
  PROVE  Heard(up', r, m, a, alive, b)
<1>1. up \in Seq(Answers \union Chunks)
  BY DEF IInv, TypeOK
<1>2. CASE up' = up
  BY <1>2
<1>3. CASE up # <<>> /\ Head(up).kind = "answer" /\ up' = Tail(up)
  <2>1. ~ChunkOf(Head(up), r)
    BY <1>3 DEF ChunkOf
  <2>2. QED
    BY <1>1, <1>3, <2>1, HeardTaken
<1>4. ASSUME NEW x \in Answers, up' = Append(up, x)
      PROVE  Heard(up', r, m, a, alive, b)
  <2>1. ~ChunkOf(x, r)
    BY DEF ChunkOf, Answers
  <2>2. Heard(Append(up, x), r, m, a, alive, b)
    BY <1>1, <2>1, HeardAppended
  <2>3. QED
    BY <1>4, <2>2
<1>5. QED
  BY <1>2, <1>3, <1>4 DEF UpQuiet

\* requests whose agent and message stay, or whose message is deleted
LEMMA StillHeard ==
  ASSUME IInv, UpQuiet, broken' = broken, NEW r \in Requests, agent'[r] = agent[r],
         msg'[r] \in {msg[r], None}, Alive(msg'[r], sess') => Alive(msg[r], sess)
  PROVE  Heard(up', r, msg'[r], agent'[r], Alive(msg'[r], sess'), broken')
<1>1. Heard(up, r, msg[r], agent[r], Alive(msg[r], sess), broken)
  BY DEF IInv, AllHeard
<1>2. Heard(up', r, msg[r], agent[r], Alive(msg[r], sess), broken)
  BY <1>1, HeardQuiet
<1>3. Alive(msg'[r], sess') => msg'[r] # None
  BY DEF Alive
<1>4. QED
  BY <1>2, <1>3, HeardGone

LEMMA HeardAll ==
  ASSUME \A r \in Requests :
           Heard(up', r, msg'[r], agent'[r], Alive(msg'[r], sess'), broken')
  PROVE  AllHeard'
  BY DEF AllHeard

\* a session that is there and was not there before is the one that was started
LEMMA AliveBefore ==
  ASSUME IInv, Steady, NEW r \in Requests, msg'[r] # None => msg'[r] = msg[r]
  PROVE  Alive(msg'[r], sess') => Alive(msg[r], sess)
<1> SUFFICES ASSUME Alive(msg'[r], sess') PROVE Alive(msg[r], sess)
  OBVIOUS
<1>1. msg[r] # None /\ msg'[r] = msg[r] /\ sess'[msg[r].sess] # None
  BY DEF Alive
<1>2. msg[r].sess \in Sessions
  BY <1>1 DEF IInv, TypeOK, Message
<1>3. sess[msg[r].sess] # None
  BY <1>1, <1>2 DEF IInv, Steady, Starting
<1>4. QED
  BY <1>1, <1>3 DEF Alive

\* no send ends, and only terminations and releases begin
OpsQuiet ==
  \A p \in Ops :
    \/ op'[p] = op[p]
    \/ /\ ~Is(op[p], "send")
       /\ \/ op'[p] = Idle
          \/ op'[p] # Idle /\ op'[p].kind = "release"
          \/ op'[p] # Idle /\ op'[p].kind = "terminate" /\ op'[p].pc = "waiting"
             /\ op'[p].about \in Sessions

LEMMA OpsInv ==
  ASSUME IInv, OpsQuiet
  PROVE  /\ OpsFit'
         /\ \A p \in Ops : Is(op'[p], "start") => op'[p] = op[p]
         /\ \A p \in Ops : Is(op[p], "send") => op'[p] = op[p]
<1>1. \A p \in Ops : Is(op'[p], "start") => op'[p] = op[p]
  BY DEF OpsQuiet, Is
<1>2. \A p \in Ops : Is(op[p], "send") => op'[p] = op[p]
  BY DEF OpsQuiet
<1>3. ASSUME NEW p \in Ops
      PROVE  /\ Is(op'[p], "start") => op'[p].about \in Sessions
                                       /\ op'[p].space \in Spaces /\ op'[p].task \in Tasks
             /\ Is(op'[p], "send") => op'[p].about \in Requests
             /\ Is(op'[p], "terminate") => op'[p].about \in Sessions
             /\ op'[p].pc = "releasing" => op'[p].kind = "release"
  BY DEF IInv, OpsFit, OpsQuiet, Is, Idle
<1>4. OpsFit'
  BY <1>3 DEF OpsFit, Is, Idle
<1>5. QED
  BY <1>1, <1>2, <1>4

LEMMA OpenInv ==
  ASSUME IInv, \A p \in Ops : Is(op[p], "send") => op'[p] = op[p], broken => broken',
         \A r \in Requests : agent'[r].state = "none" => agent[r].state = "none",
         \A r \in Requests : msg'[r] # None /\ ~msg'[r].done /\ agent'[r].state = "none" =>
           msg[r] # None /\ ~msg[r].done
  PROVE  OpenHasSend'
<1> SUFFICES ASSUME NEW r \in Requests, agent'[r].state = "none", msg'[r] # None,
                    ~msg'[r].done, ~broken'
             PROVE  \E o \in Ops : op'[o] # Idle /\ op'[o].kind = "send" /\ op'[o].about = r
  BY DEF OpenHasSend, Idle
<1>1. PICK o \in Ops : op[o] # Idle /\ op[o].kind = "send" /\ op[o].about = r
  BY DEF IInv, OpenHasSend
<1>2. op'[o] = op[o]
  BY <1>1 DEF Is
<1>3. QED
  BY <1>1, <1>2

LEMMA DownTail ==
  ASSUME TypeOK, down # <<>>, down' = Tail(down)
  PROVE  DownQuiet
<1>1. down \in Seq(Sent)
  BY DEF TypeOK
<1>2. \A k \in 1..Len(down') : k + 1 \in 1..Len(down) /\ down'[k] = down[k + 1]
  BY <1>1, InTail
<1>3. QED
  BY <1>2 DEF DownQuiet

LEMMA DownSame ==
  ASSUME down' = down
  PROVE  DownQuiet
<1>1. \A k \in 1..Len(down') : k + 0 = k
  OBVIOUS
<1>2. QED
  BY <1>1 DEF DownQuiet

LEMMA DownAppended ==
  ASSUME TypeOK, NEW x \in Sent, x.kind # "send", down' = Append(down, x)
  PROVE  DownQuiet
<1>1. down \in Seq(Sent)
  BY DEF TypeOK
<1>2. \A k \in 1..Len(down') : (k \in 1..Len(down) /\ down'[k] = down[k]) \/ down'[k] = x
  BY <1>1, InAppend
<1>3. \A k \in 1..Len(down') : k + 0 = k
  OBVIOUS
<1>4. QED
  BY <1>2, <1>3 DEF DownQuiet

\* the end of an await changes nothing else of the stream
LEMMA ResumesQuiet ==
  ASSUME IInv, NEW o \in Ops, NEW kind, NEW ok, Resumes(o, kind, ok)
  PROVE  /\ UpQuiet
         /\ ok => up # <<>> /\ Awaited(o, Head(up)) /\ Head(up).ok
  BY DEF Resumes, UpQuiet, Awaited

LEMMA EndsOp ==
  ASSUME IInv, NEW o \in Ops, End(o)
  PROVE  op'[o] = Idle /\ \A p \in Ops : p # o => op'[p] = op[p]
  BY DEF IInv, TypeOK, End

\* a step that changes no agent and no message
LEMMA QuietInv ==
  ASSUME IInv, TypeOK', OpsQuiet, DownQuiet, UpQuiet,
         UNCHANGED <<msg, agent, broken, used>>,
         \A s \in Sessions : sess'[s] # None =>
           \/ sess[s] # None
           \/ \E o \in Ops : Is(op[o], "start") /\ op[o].about = s /\ op'[o] = Idle
  PROVE  IInv'
<1>1. OpsFit' /\ \A p \in Ops : Is(op'[p], "start") => op'[p] = op[p]
  BY OpsInv
<1>2. Steady
  BY <1>1 DEF Steady
<1>3. Fresh' /\ Starting' /\ Asked' /\ AgentsHaveMessages'
  BY <1>2, SteadyInv
<1>4. ChunksFit' /\ AgreedHasAgent'
  BY ChunksInv DEF Ongoing
<1>5. OpenHasSend'
  BY OpsInv, OpenInv
<1>6. AllHeard'
  <2>1. ASSUME NEW r \in Requests
        PROVE  Heard(up', r, msg'[r], agent'[r], Alive(msg'[r], sess'), broken')
    <3>1. Alive(msg'[r], sess') => Alive(msg[r], sess)
      BY <1>2, AliveBefore
    <3>2. QED
      BY <3>1, StillHeard
  <2>2. QED
    BY <2>1, HeardAll
<1>7. QED
  BY <1>1, <1>3, <1>4, <1>5, <1>6 DEF IInv

-----------------------------------------------------------------------------
(* The operations of spaces, terminations and releases.                      *)

LEMMA HandledQuiet ==
  ASSUME TypeOK, down # <<>>, NEW ok \in BOOLEAN, Handled(ok),
         Head(down).kind = "send" /\ ok =>
           Head(down).about \in Requests /\ agent'[Head(down).about].state # "none"
  PROVE  UpQuiet
<1> DEFINE x == [kind |-> "answer", op |-> Head(down).op, ok |-> ok,
                 asked |-> Head(down).kind, about |-> Head(down).about]
<1>1. /\ x \in Answers
      /\ x.asked = Head(down).kind /\ x.ok = ok /\ x.about = Head(down).about
  BY HeadSent DEF Sent, Answers
<1>2. up' = Append(up, x)
  BY DEF Handled
<1> HIDE DEF x
<1>3. QED
  BY <1>1, <1>2 DEF UpQuiet

LEMMA CreateSpaceInv ==
  ASSUME IInv, NEW t \in Tasks, CreateSpace(t)
  PROVE  IInv'
<1>1. /\ UNCHANGED <<sess, msg, op, down, up, agent, broken, used>>
      /\ TypeOK'
  <2>1. UNCHANGED <<sess, msg, op, down, up, agent, broken, used>>
    BY DEF CreateSpace, stream, companion, history
  <2>2. TypeOK'
    BY <2>1 DEF IInv, TypeOK, CreateSpace, companion, bounds, history
  <2>3. QED
    BY <2>1, <2>2
<1>2. OpsQuiet /\ UpQuiet
  BY <1>1 DEF OpsQuiet, UpQuiet
<1>3. QED
  BY <1>1, <1>2, DownSame, QuietInv

LEMMA BeginReleaseInv ==
  ASSUME IInv, NEW o \in Ops, NEW i \in Spaces, BeginRelease(o, i)
  PROVE  IInv'
<1>1. UNCHANGED <<sess, msg, down, up, agent, broken, used>>
  BY DEF BeginRelease, rows, stream, companion, history
<1>2. TypeOK'
  BY TypedReleases
<1>3. OpsQuiet
  <2>1. op'[o] # Idle /\ op'[o].kind = "release"
    BY DEF IInv, TypeOK, BeginRelease, Waits, Idle
  <2>2. ~Is(op[o], "send") /\ \A p \in Ops : p # o => op'[p] = op[p]
    BY DEF IInv, TypeOK, BeginRelease, Is
  <2>3. QED
    BY <2>1, <2>2 DEF OpsQuiet
<1>4. UpQuiet
  BY <1>1 DEF UpQuiet
<1>5. QED
  BY <1>1, <1>2, <1>3, <1>4, DownSame, QuietInv

LEMMA ReleaseNextInv ==
  ASSUME IInv, NEW o \in Ops, NEW s \in Sessions, ReleaseNext(o, s)
  PROVE  IInv'
<1>1. UNCHANGED <<sess, msg, up, agent, broken, used>>
  BY DEF ReleaseNext, rows, companion, history
<1>2. TypeOK'
  BY TypedReleases
<1>3. OpsQuiet
  <2>1. op[o] \in Operation /\ op[o] # Idle /\ op[o].kind = "release"
    BY OpAt DEF IInv, OpsFit, ReleaseNext
  <2>2. op'[o] # Idle /\ op'[o].kind = "release"
    BY <2>1 DEF IInv, TypeOK, ReleaseNext, Idle, Operation
  <2>3. ~Is(op[o], "send") /\ \A p \in Ops : p # o => op'[p] = op[p]
    BY <2>1 DEF IInv, TypeOK, ReleaseNext, Is
  <2>4. QED
    BY <2>2, <2>3 DEF OpsQuiet
<1>4. UpQuiet
  BY <1>1 DEF UpQuiet
<1>5. DownQuiet
  <2>1. [kind |-> "terminate", about |-> s, sess |-> s, op |-> o] \in Sent
    BY DEF Sent
  <2>2. QED
    BY <2>1, DownAppended DEF IInv, ReleaseNext
<1>6. QED
  BY <1>1, <1>2, <1>3, <1>4, <1>5, QuietInv

LEMMA ReleaseGoesOnInv ==
  ASSUME IInv, NEW o \in Ops, NEW ok \in BOOLEAN, ReleaseGoesOn(o, ok)
  PROVE  IInv'
<1>1. UNCHANGED <<sess, msg, down, agent, broken, used>> /\ Resumes(o, "release", ok)
  BY DEF ReleaseGoesOn, rows, companion
<1>2. TypeOK'
  BY TypedReleases
<1>3. OpsQuiet
  <2>1. op[o] \in Operation /\ op[o] # Idle /\ op[o].kind = "release"
    BY <1>1, ResumesTyped DEF IInv
  <2>2. op'[o] # Idle /\ op'[o].kind = "release"
    BY <2>1 DEF IInv, TypeOK, ReleaseGoesOn, Idle, Operation
  <2>3. ~Is(op[o], "send") /\ \A p \in Ops : p # o => op'[p] = op[p]
    BY <2>1 DEF IInv, TypeOK, ReleaseGoesOn, Is
  <2>4. QED
    BY <2>2, <2>3 DEF OpsQuiet
<1>4. QED
  BY <1>1, <1>2, <1>3, DownSame, ResumesQuiet, QuietInv

LEMMA AskTerminateInv ==
  ASSUME IInv, NEW o \in Ops, NEW s \in Sessions, AskTerminate(o, s)
  PROVE  IInv'
<1>1. UNCHANGED <<sess, msg, up, agent, broken, used>>
  BY DEF AskTerminate, rows, companion, history
<1>2. TypeOK'
  BY TypedAsks
<1>3. OpsQuiet
  <2>1. op'[o] # Idle /\ op'[o].kind = "terminate"
        /\ op'[o].pc = "waiting" /\ op'[o].about = s
    BY DEF IInv, TypeOK, AskTerminate, Ask, Waits, Idle
  <2>2. ~Is(op[o], "send") /\ \A p \in Ops : p # o => op'[p] = op[p]
    BY DEF IInv, TypeOK, AskTerminate, Ask, Is
  <2>3. QED
    BY <2>1, <2>2 DEF OpsQuiet
<1>4. UpQuiet
  BY <1>1 DEF UpQuiet
<1>5. DownQuiet
  <2> DEFINE x == [kind |-> "terminate", about |-> s, sess |-> s, op |-> o]
  <2>1. x \in Sent /\ x.kind # "send"
    BY DEF Sent
  <2>2. down' = Append(down, x)
    BY DEF AskTerminate, Ask, Waits
  <2> HIDE DEF x
  <2>3. QED
    BY <2>1, <2>2, DownAppended DEF IInv
<1>6. QED
  BY <1>1, <1>2, <1>3, <1>4, <1>5, QuietInv

LEMMA DropAnswerInv ==
  ASSUME IInv, DropAnswer
  PROVE  IInv'
<1>1. UNCHANGED <<sess, msg, op, down, agent, broken, used>>
  BY DEF DropAnswer, rows, companion, history
<1>2. OpsQuiet /\ UpQuiet
  BY <1>1 DEF OpsQuiet, UpQuiet, DropAnswer
<1>3. QED
  BY <1>1, <1>2, TypedStream, DownSame, QuietInv

LEMMA EndTerminateInv ==
  ASSUME IInv, NEW o \in Ops, NEW ok \in BOOLEAN, EndTerminate(o, ok)
  PROVE  IInv'
<1>1. /\ UNCHANGED <<msg, down, agent, broken, used>>
      /\ Resumes(o, "terminate", ok) /\ End(o)
  BY DEF EndTerminate, companion, history
<1>2. OpsQuiet
  <2>1. ~Is(op[o], "send")
    BY <1>1, ResumesTyped DEF IInv, Is
  <2>2. QED
    BY <1>1, <2>1, EndsOp DEF OpsQuiet
<1>3. \A s \in Sessions : sess'[s] # None => sess[s] # None
  BY DEF IInv, TypeOK, EndTerminate
<1>4. QED
  BY <1>1, <1>2, <1>3, TypedEnds, DownSame, ResumesQuiet, QuietInv

LEMMA EndStartInv ==
  ASSUME IInv, NEW o \in Ops, NEW ok \in BOOLEAN, EndStart(o, ok)
  PROVE  IInv'
<1>1. /\ UNCHANGED <<msg, down, agent, broken, used>>
      /\ Resumes(o, "start", ok) /\ End(o)
  BY DEF EndStart, companion
<1>2. Is(op[o], "start") /\ op'[o] = Idle
  BY <1>1, ResumesTyped, EndsOp DEF IInv, Is
<1>3. OpsQuiet
  BY <1>1, <1>2, EndsOp DEF OpsQuiet, Is
<1>4. \A s \in Sessions : sess'[s] # None => sess[s] # None \/ op[o].about = s
  BY DEF IInv, TypeOK, EndStart
<1>5. QED
  BY <1>1, <1>2, <1>3, <1>4, TypedEnds, DownSame, ResumesQuiet, QuietInv

LEMMA HandleStartInv ==
  ASSUME IInv, HandleStart
  PROVE  IInv'
<1>1. UNCHANGED <<sess, msg, op, agent, broken, used>>
  BY DEF HandleStart, rows, history
<1>2. TypeOK'
  BY TypedCompanion
<1>3. OpsQuiet
  BY <1>1 DEF OpsQuiet
<1>4. DownQuiet
  BY DownTail DEF IInv, HandleStart, Command, Handled
<1>5. UpQuiet
  <2>1. Head(down).kind = "start" /\ Handled(TRUE) /\ down # <<>>
    BY DEF HandleStart, Command
  <2>2. QED
    BY <2>1, HandledQuiet DEF IInv
<1>6. QED
  BY <1>1, <1>2, <1>3, <1>4, <1>5, QuietInv

-----------------------------------------------------------------------------
(* The Companion.                                                            *)

\* the parts of the invariant but for the output of the agents
LEMMA CompanionInv ==
  ASSUME IInv, TypeOK', DownQuiet, UpQuiet, AllHeard',
         UNCHANGED <<sess, msg, op, broken, used>>,
         \A r \in Requests : agent'[r].sess = agent[r].sess
                             /\ (agent'[r].state = "none" <=> agent[r].state = "none")
  PROVE  IInv'
<1>1. OpsQuiet
  BY DEF OpsQuiet
<1>2. Steady
  BY DEF Steady
<1>3. Fresh' /\ Starting' /\ Asked' /\ AgentsHaveMessages'
  BY <1>2, SteadyInv
<1>4. ChunksFit' /\ AgreedHasAgent'
  BY ChunksInv DEF Ongoing
<1>5. OpsFit' /\ OpenHasSend'
  BY <1>1, OpsInv, OpenInv
<1>6. QED
  BY <1>3, <1>4, <1>5 DEF IInv

LEMMA HandleTerminateInv ==
  ASSUME IInv, HandleTerminate
  PROVE  IInv'
<1>1. UNCHANGED <<sess, msg, op, broken, used>>
  BY DEF HandleTerminate, rows, history
<1>2. TypeOK'
  BY TypedCompanion
<1>3. DownQuiet
  BY DownTail DEF IInv, HandleTerminate, Command, Handled
<1>4. UpQuiet
  <2>1. Head(down).kind = "terminate" /\ Handled(TRUE) /\ down # <<>>
    BY DEF HandleTerminate, Command
  <2>2. QED
    BY <2>1, HandledQuiet DEF IInv
<1>5. ASSUME NEW r \in Requests
      PROVE  \/ agent'[r] = agent[r]
             \/ /\ agent[r].state = "running" /\ agent'[r].state = "killed"
                /\ agent'[r].sess = agent[r].sess
  BY DEF IInv, TypeOK, Agent, HandleTerminate
<1>6. AllHeard'
  <2>1. ASSUME NEW r \in Requests
        PROVE  Heard(up', r, msg'[r], agent'[r], Alive(msg'[r], sess'), broken')
    <3>1. CASE agent'[r] = agent[r]
      BY <1>1, <1>4, <3>1, StillHeard
    <3>2. CASE agent[r].state = "running" /\ agent'[r].state = "killed"
      <4>1. Heard(up, r, msg[r], agent[r], Alive(msg[r], sess), broken)
        BY DEF IInv, AllHeard
      <4>2. Heard(up', r, msg[r], agent[r], Alive(msg[r], sess), broken)
        BY <1>4, <4>1, HeardQuiet
      <4>3. HeardKilled(up', r, msg[r])
        BY <3>2, <4>2 DEF Heard, HeardRunning, HeardKilled
      <4>4. QED
        BY <1>1, <3>2, <4>3 DEF Heard
    <3>3. QED
      BY <1>5, <3>1, <3>2
  <2>2. QED
    BY <2>1, HeardAll
<1>7. QED
  BY <1>1, <1>2, <1>3, <1>4, <1>5, <1>6, CompanionInv

\* a chunk that the agent of r sends
LEMMA SendsInv ==
  ASSUME IInv, TypeOK', NEW r \in Requests, agent[r].state # "none",
         NEW x \in Chunks, x.req = r, x.sess = agent[r].sess, up' = Append(up, x),
         IF x.done THEN x.text = <<>> ELSE x.ok /\ Len(x.text) = 1,
         NEW a \in Agent, agent' = [agent EXCEPT ![r] = a],
         a.sess = agent[r].sess, a.state # "none",
         Heard(up', r, msg[r], a, Alive(msg[r], sess), broken),
         UNCHANGED <<sess, msg, op, down, broken, used>>
  PROVE  IInv'
<1> USE DEF IInv
<1>1. /\ agent'[r] = a /\ \A c \in Requests : c # r => agent'[c] = agent[c]
      /\ up \in Seq(Answers \union Chunks)
  BY DEF TypeOK
<1>2. Ongoing
  BY <1>1 DEF Ongoing
<1>3. OpsQuiet
  BY DEF OpsQuiet
<1>4. Steady
  BY <1>1, DownSame DEF Steady
<1>5. Fresh' /\ Starting' /\ Asked' /\ AgentsHaveMessages'
  BY <1>4, SteadyInv
<1>6. OpsFit' /\ OpenHasSend'
  <2>1. \A c \in Requests : agent'[c].state = "none" => agent[c].state = "none"
    BY <1>1
  <2>2. QED
    BY <1>3, <2>1, OpsInv, OpenInv
<1>7. \A k \in 1..Len(up') : (k \in 1..Len(up) /\ up'[k] = up[k]) \/ up'[k] = x
  BY <1>1, InAppend
<1>8. ChunksFit'
  <2> SUFFICES ASSUME NEW k \in 1..Len(up'), up'[k].kind = "chunk"
               PROVE  /\ agent'[up'[k].req].state # "none"
                      /\ up'[k].sess = agent'[up'[k].req].sess
                      /\ IF up'[k].done THEN up'[k].text = <<>>
                         ELSE up'[k].ok /\ Len(up'[k].text) = 1
    BY DEF ChunksFit
  <2>1. CASE k \in 1..Len(up) /\ up'[k] = up[k]
    <3>1. up[k] \in Answers \union Chunks
      BY <1>1, <2>1, ElementOfSeq
    <3>2. up[k].req \in Requests
      BY <2>1, <3>1 DEF Answers, Chunks
    <3>3. QED
      BY <1>2, <2>1, <3>2 DEF ChunksFit, Ongoing
  <2>2. CASE up'[k] = x
    BY <1>1, <2>2
  <2>3. QED
    BY <1>7, <2>1, <2>2
<1>9. AgreedHasAgent'
  <2>1. x.kind = "chunk"
    BY DEF Chunks
  <2>2. QED
    BY <1>2, <1>7, <2>1 DEF AgreedHasAgent, Ongoing
<1>10. AllHeard'
  <2>1. ASSUME NEW c \in Requests
        PROVE  Heard(up', c, msg'[c], agent'[c], Alive(msg'[c], sess'), broken')
    <3>1. CASE c = r
      BY <1>1, <3>1
    <3>2. CASE c # r
      <4>1. ~ChunkOf(x, c)
        BY <3>2 DEF ChunkOf
      <4>2. Heard(up, c, msg[c], agent[c], Alive(msg[c], sess), broken)
        BY DEF AllHeard
      <4>3. Heard(Append(up, x), c, msg[c], agent[c], Alive(msg[c], sess), broken)
        BY <1>1, <4>1, <4>2, HeardAppended
      <4>4. QED
        BY <1>1, <3>2, <4>3
    <3>3. QED
      BY <3>1, <3>2
  <2>2. QED
    BY <2>1, HeardAll
<1>11. QED
  BY <1>5, <1>6, <1>8, <1>9, <1>10

LEMMA AgentWritesInv ==
  ASSUME IInv, NEW r \in Requests, AgentWrites(r)
  PROVE  IInv'
<1> DEFINE x == Chunk(r, <<agent[r].wrote + 1>>, FALSE, TRUE)
           a == [agent[r] EXCEPT !.wrote = @ + 1]
<1>1. UNCHANGED <<sess, msg, op, down, broken, used>> /\ TypeOK'
  BY TypedCompanion DEF AgentWrites, rows, history
<1>2. agent[r].state \in {"running", "killed"} /\ agent[r].state # "none"
      /\ agent[r].wrote < MaxText
  BY DEF AgentWrites
<1>3. agent[r] \in Agent /\ agent[r].sess \in Sessions
  BY <1>2, RunningHasSession
<1>4. /\ a \in Agent /\ a.sess = agent[r].sess /\ a.state = agent[r].state
      /\ agent[r].wrote + 1 \in 1..MaxText
  BY <1>2, <1>3, SessionsAssumption DEF Agent
<1>5. /\ x \in Chunks /\ x.req = r /\ x.sess = agent[r].sess /\ ~x.done /\ x.ok
      /\ x.kind = "chunk" /\ Len(x.text) = 1 /\ x.text[1] = agent[r].wrote + 1
  BY <1>3, <1>4 DEF Chunk, Chunks
<1>6. agent' = [agent EXCEPT ![r] = a] /\ up' = Append(up, x)
  BY DEF AgentWrites, IInv, TypeOK
<1>7. up \in Seq(Answers \union Chunks) /\ msg[r] \in Message \union {None}
  BY DEF IInv, TypeOK
<1> HIDE DEF x
<1>8. Heard(Append(up, x), r, msg[r], a, Alive(msg[r], sess), broken)
  <2>1. Heard(up, r, msg[r], agent[r], Alive(msg[r], sess), broken)
    BY DEF IInv, AllHeard
  <2>2. Alive(msg[r], sess) => msg[r] # None
    BY DEF Alive
  <2>3. ChunkOf(x, r)
    BY <1>5 DEF ChunkOf
  <2>4. QED
    BY <1>2, <1>3, <1>5, <1>7, <2>1, <2>2, <2>3, HeardWritten
<1> HIDE DEF a
<1>9. QED
  BY <1>1, <1>2, <1>4, <1>5, <1>6, <1>8, SendsInv

LEMMA AgentEndsInv ==
  ASSUME IInv, NEW r \in Requests, NEW ok \in BOOLEAN, AgentEnds(r, ok)
  PROVE  IInv'
<1> DEFINE x == Chunk(r, <<>>, TRUE, ok)
           a == [agent[r] EXCEPT !.state = "ended"]
<1>1. UNCHANGED <<sess, msg, op, down, broken, used>> /\ TypeOK'
  BY TypedCompanion DEF AgentEnds, rows, history
<1>2. agent[r].state = "running"
  BY DEF AgentEnds
<1>3. agent[r] \in Agent /\ agent[r].sess \in Sessions
  BY <1>2, RunningHasSession
<1>4. a \in Agent /\ a.sess = agent[r].sess /\ a.state # "none"
  BY <1>3 DEF Agent
<1>5. /\ x \in Chunks /\ x.req = r /\ x.sess = agent[r].sess /\ x.done
      /\ x.kind = "chunk" /\ x.text = <<>>
  BY <1>3 DEF Chunk, Chunks
<1>6. agent' = [agent EXCEPT ![r] = a] /\ up' = Append(up, x)
  BY DEF AgentEnds, IInv, TypeOK
<1>7. up \in Seq(Answers \union Chunks) /\ msg[r] \in Message \union {None}
  BY DEF IInv, TypeOK
<1> HIDE DEF x
<1>8. Heard(Append(up, x), r, msg[r], a, Alive(msg[r], sess), broken)
  <2>1. Heard(up, r, msg[r], agent[r], Alive(msg[r], sess), broken)
    BY DEF IInv, AllHeard
  <2>2. ChunkOf(x, r)
    BY <1>5 DEF ChunkOf
  <2>3. QED
    BY <1>2, <1>3, <1>5, <1>7, <2>1, <2>2, HeardEnded
<1> HIDE DEF a
<1>9. QED
  BY <1>1, <1>2, <1>4, <1>5, <1>6, <1>8, SendsInv

LEMMA HandleSendInv ==
  ASSUME IInv, HandleSend
  PROVE  IInv'
<1> USE DEF IInv
<1> DEFINE s == Head(down).sess
           r == Head(down).about
           a == [sess |-> s, state |-> "running", wrote |-> 0]
<1>1. /\ UNCHANGED <<sess, msg, op, broken, used>> /\ TypeOK'
      /\ down # <<>> /\ Head(down).kind = "send" /\ down' = Tail(down)
  BY TypedCompanion DEF HandleSend, rows, history, Command, Handled
<1>2. DownQuiet
  BY <1>1, DownTail
<1>3. CASE manager[s] # "idle"
  <2>1. agent' = agent /\ Handled(FALSE)
    BY <1>3 DEF HandleSend
  <2>2. UpQuiet
    BY <1>1, <2>1, HandledQuiet
  <2>3. OpsQuiet
    BY <1>1 DEF OpsQuiet
  <2>4. QED
    BY <1>1, <1>2, <2>1, <2>2, <2>3, QuietInv
<1>4. CASE manager[s] = "idle"
  <2>1. agent' = [agent EXCEPT ![r] = a] /\ Handled(TRUE)
    BY <1>4 DEF HandleSend
  <2>2. down \in Seq(Sent) /\ Head(down) = down[1] /\ 1 \in 1..Len(down) /\ s \in Sessions
    <3>1. down \in Seq(Sent)
      BY DEF TypeOK
    <3>2. Head(down) = down[1] /\ 1 \in 1..Len(down)
      BY <1>1, <3>1, AtTail
    <3>3. QED
      BY <1>1, <3>1, <3>2, HeadSent DEF Sent
  <2>3. /\ r \in Requests /\ agent[r].state = "none" /\ r \in used /\ s \in used
        /\ sess[s] # None => msg[r] # None /\ msg[r].sess = s
        /\ \A j \in 1..Len(down) : down[j].kind = "send" /\ down[j].about = r => j = 1
        /\ \A o \in Ops : Is(op[o], "start") => s # op[o].about
    BY <1>1, <2>2 DEF Asked, Fresh, Starting
  <2>4. /\ agent'[r] = a /\ \A c \in Requests : c # r => agent'[c] = agent[c]
        /\ a.sess = s /\ a.state = "running" /\ a.wrote = 0
    BY <2>1, <2>3 DEF TypeOK
  <2>5. \A k \in 1..Len(down') : k + 1 \in 1..Len(down) /\ down'[k] = down[k + 1] /\ k + 1 # 1
    <3>1. \A k \in 1..Len(down') : k + 1 \in 1..Len(down) /\ down'[k] = down[k + 1]
      BY <1>1, <2>2, InTail
    <3>2. \A k \in 1..Len(down') : k + 1 # 1
      OBVIOUS
    <3>3. QED
      BY <3>1, <3>2
  <2>6. UpQuiet
    BY <1>1, <2>1, <2>3, <2>4, HandledQuiet
  <2> HIDE DEF s, r, a
  <2>7. Ongoing
    BY <2>3, <2>4 DEF Ongoing
  <2>8. ChunksFit' /\ AgreedHasAgent'
    BY <2>6, <2>7, ChunksInv
  <2>9. OpsFit' /\ OpenHasSend'
    <3>1. OpsQuiet
      BY <1>1 DEF OpsQuiet
    <3>2. \A c \in Requests : agent'[c].state = "none" => agent[c].state = "none"
      BY <2>3, <2>4
    <3>3. QED
      BY <1>1, <3>1, <3>2, OpsInv, OpenInv
  <2>10. \A k \in 1..Len(down') : down'[k].kind = "send" =>
           /\ down'[k].about \in Requests /\ down'[k].about # r
           /\ down'[k].about \in used /\ down'[k].sess \in used
    BY <2>3, <2>5 DEF Asked, Fresh
  <2>11. Fresh'
    <3>1. \A c \in Requests : agent'[c].state # "none" => c \in used /\ agent'[c].sess \in used
      BY <2>3, <2>4 DEF Fresh
    <3>2. QED
      BY <1>1, <2>10, <3>1 DEF Fresh
  <2>12. Starting'
    <3>1. ASSUME NEW o \in Ops, Is(op[o], "start")
          PROVE  /\ \A c \in Requests : agent'[c].state # "none" => agent'[c].sess # op[o].about
                 /\ \A k \in 1..Len(down') :
                      down'[k].kind = "send" => down'[k].sess # op[o].about
      BY <2>3, <2>4, <2>5, <3>1 DEF Starting
    <3>2. QED
      BY <1>1, <3>1 DEF Starting
  <2>13. Asked'
    <3> SUFFICES ASSUME NEW k \in 1..Len(down'), down'[k].kind = "send"
                 PROVE  /\ down'[k].about \in Requests
                        /\ agent'[down'[k].about].state = "none"
                        /\ sess[down'[k].sess] # None =>
                             /\ msg[down'[k].about] # None
                             /\ msg[down'[k].about].sess = down'[k].sess
                        /\ \A j \in 1..Len(down') :
                             down'[j].kind = "send" /\ down'[j].about = down'[k].about => j = k
      BY <1>1 DEF Asked
    <3> DEFINE c == down'[k].about
    <3>1. /\ c \in Requests /\ c # r /\ agent[c].state = "none"
          /\ sess[down'[k].sess] # None => msg[c] # None /\ msg[c].sess = down'[k].sess
          /\ \A j \in 1..Len(down) : down[j].kind = "send" /\ down[j].about = c => j = k + 1
      BY <2>5, <2>10 DEF Asked
    <3>2. ASSUME NEW j \in 1..Len(down'), down'[j].kind = "send", down'[j].about = c
          PROVE  j = k
      <4>1. j + 1 = k + 1
        BY <2>5, <3>1, <3>2
      <4>2. j \in Int /\ k \in Int
        OBVIOUS
      <4>3. QED
        BY <4>1, <4>2
    <3>3. QED
      BY <2>4, <3>1, <3>2
  <2>14. AgentsHaveMessages'
    BY <1>1, <2>3, <2>4 DEF AgentsHaveMessages
  <2>15. AllHeard'
    <3>1. Heard(up', r, msg[r], a, Alive(msg[r], sess), broken)
      <4>1. Heard(up, r, msg[r], agent[r], Alive(msg[r], sess), broken)
        BY <2>3 DEF AllHeard
      <4>2. Heard(up', r, msg[r], agent[r], Alive(msg[r], sess), broken)
        BY <2>6, <4>1, HeardQuiet
      <4>3. HeardNone(up', r, msg[r], agent[r])
        BY <2>3, <4>2 DEF Heard
      <4>4. Alive(msg[r], sess) => msg[r].text = <<>>
        BY <4>3 DEF Alive, HeardNone
      <4>5. Alive(msg[r], sess) => InOrder(up', r, msg[r].text, a.wrote)
        BY <2>4, <4>3, <4>4 DEF InOrder, HeardNone, Silent
      <4>6. HeardRunning(up', r, msg[r], a, Alive(msg[r], sess))
        BY <4>3, <4>5 DEF HeardRunning, HeardNone, Silent
      <4>7. QED
        BY <2>4, <4>6 DEF Heard
    <3>2. ASSUME NEW c \in Requests
          PROVE  Heard(up', c, msg'[c], agent'[c], Alive(msg'[c], sess'), broken')
      <4>1. CASE c = r
        BY <1>1, <2>4, <3>1, <4>1
      <4>2. CASE c # r
        BY <1>1, <2>4, <2>6, <4>2, StillHeard
      <4>3. QED
        BY <4>1, <4>2
    <3>3. QED
      BY <3>2, HeardAll
  <2>16. QED
    BY <1>1, <2>8, <2>9, <2>11, <2>12, <2>13, <2>14, <2>15
<1>5. QED
  BY <1>3, <1>4

LEMMA DeliverChunkInv ==
  ASSUME IInv, DeliverChunk
  PROVE  IInv'
<1> USE DEF IInv
<1> DEFINE x == Head(up)
           r == x.req
<1>1. /\ UNCHANGED <<sess, op, down, agent, broken, used>> /\ TypeOK'
      /\ up # <<>> /\ x \in Chunks /\ up' = Tail(up) /\ x.kind = "chunk"
  BY TypedStream, Delivers DEF DeliverChunk, companion, history
<1>2. PICK old \in Message, new \in Message :
        /\ old = (IF msg[r] # None THEN msg[r] ELSE NewMessage(x.sess))
        /\ Extends(new, old, x)
        /\ msg' = [msg EXCEPT ![r] = new]
  BY Delivers
<1>3. up \in Seq(Answers \union Chunks) /\ x = up[1] /\ 1 \in 1..Len(up)
  <2>1. up \in Seq(Answers \union Chunks)
    BY DEF TypeOK
  <2>2. QED
    BY <1>1, <2>1, AtTail
<1>4. /\ r \in Requests /\ x.sess \in Sessions
      /\ agent[r].state # "none" /\ x.sess = agent[r].sess
      /\ IF x.done THEN x.text = <<>> ELSE x.ok /\ Len(x.text) = 1
  <2>1. r \in Requests /\ x.sess \in Sessions
    BY <1>1 DEF Chunks
  <2>2. QED
    BY <1>1, <1>3, <2>1 DEF ChunksFit
<1>5. msg'[r] = new /\ \A c \in Requests : c # r => msg'[c] = msg[c]
  BY <1>2, <1>4 DEF TypeOK
<1>6. new # None /\ old # None /\ new.sess = old.sess
  BY <1>2, RowsAssumption DEF Extends
<1>7. \A k \in 1..Len(up') : k + 1 \in 1..Len(up) /\ up'[k] = up[k + 1]
  BY <1>1, <1>3, InTail
<1> HIDE DEF x, r
<1>8. /\ msg[r] # None => old = msg[r]
      /\ msg[r] = None => old.sess = agent[r].sess /\ ~old.done
  BY <1>2, <1>4, NewTyped DEF NewMessage
<1>9. Steady
  BY <1>1, <1>4, <1>5, <1>6, <1>8, DownSame DEF Steady
<1>10. Fresh' /\ Starting' /\ Asked' /\ AgentsHaveMessages'
  BY <1>9, SteadyInv
<1>11. ChunksFit' /\ AgreedHasAgent'
  BY <1>1, <1>7 DEF ChunksFit, AgreedHasAgent
<1>12. OpsFit' /\ OpenHasSend'
  <2>1. OpsQuiet
    BY <1>1 DEF OpsQuiet
  <2>2. \A c \in Requests : agent'[c].state = "none" => msg'[c] = msg[c]
    BY <1>1, <1>4, <1>5
  <2>3. QED
    BY <1>1, <2>1, <2>2, OpsInv, OpenInv
<1>13. AllHeard'
  <2>1. Heard(Tail(up), r, new, agent[r], Alive(new, sess), broken)
    <3>1. Heard(up, r, msg[r], agent[r], Alive(msg[r], sess), broken)
      BY <1>4 DEF AllHeard
    <3>2. Alive(new, sess) => msg[r] # None /\ Alive(msg[r], sess)
      BY <1>4, <1>6, <1>8 DEF AgentsHaveMessages, Alive
    <3>3. /\ IF msg[r] # None THEN old = msg[r] ELSE ~old.done
          /\ msg[r] \in Message \union {None} /\ agent[r] \in Agent
      BY <1>4, <1>8 DEF TypeOK
    <3>4. x = Head(up) /\ x.req = r
      BY DEF x, r
    <3>5. QED
      BY <1>1, <1>2, <1>3, <1>4, <3>1, <3>2, <3>3, <3>4, HeardDelivered
  <2>2. ASSUME NEW c \in Requests
        PROVE  Heard(up', c, msg'[c], agent'[c], Alive(msg'[c], sess'), broken')
    <3>1. CASE c = r
      BY <1>1, <1>5, <2>1, <3>1
    <3>2. CASE c # r
      <4>1. ~ChunkOf(Head(up), c)
        BY <3>2 DEF ChunkOf, x, r
      <4>2. Heard(up, c, msg[c], agent[c], Alive(msg[c], sess), broken)
        BY DEF AllHeard
      <4>3. Heard(Tail(up), c, msg[c], agent[c], Alive(msg[c], sess), broken)
        BY <1>1, <1>3, <4>1, <4>2, HeardTaken
      <4>4. QED
        BY <1>1, <1>5, <3>2, <4>3
    <3>3. QED
      BY <3>1, <3>2
  <2>3. QED
    BY <2>2, HeardAll
<1>14. QED
  BY <1>1, <1>10, <1>11, <1>12, <1>13

\* with an empty queue an agent that was running is not heard any more
LEMMA HeardBroken ==
  ASSUME NEW q, NEW r, NEW m, NEW a, NEW c, NEW alive, NEW b,
         Heard(q, r, m, a, alive, b),
         a.state \in {"none", "running", "unheard", "ended", "killed"},
         IF a.state = "running" THEN c.state = "unheard" ELSE c = a
  PROVE  Heard(<<>>, r, m, c, alive, TRUE)
<1>1. Pieces(<<>>, r) = {} /\ Ends(<<>>, r) = {} /\ Silent(<<>>, r)
  BY DEF Pieces, Ends, Silent
<1>2. CASE a.state = "ended"
  <2>1. OnlyFailed(m) \/ (alive /\ Closed(m) => m.text = [k \in 1..a.wrote |-> k])
    BY <1>2 DEF Heard, EndComes, EndCame
  <2>2. alive /\ Closed(m) => m.text = [k \in 1..a.wrote |-> k]
    BY <2>1 DEF OnlyFailed, Closed
  <2>3. EndCame(<<>>, r, m, c, alive, TRUE)
    BY <1>1, <1>2, <2>2 DEF EndCame
  <2>4. QED
    BY <1>2, <2>3 DEF Heard
<1>3. CASE a.state = "none"
  BY <1>1, <1>3 DEF Heard, HeardNone
<1>4. CASE a.state = "running"
  BY <1>1, <1>4 DEF Heard, HeardRunning, HeardUnheard
<1>5. CASE a.state \in {"killed", "unheard"}
  BY <1>1, <1>5 DEF Heard, HeardKilled, HeardUnheard
<1>6. QED
  BY <1>2, <1>3, <1>4, <1>5

LEMMA BreakInv ==
  ASSUME IInv, Break
  PROVE  IInv'
<1> USE DEF IInv
<1>1. /\ UNCHANGED <<sess, msg, used>> /\ TypeOK'
      /\ up' = <<>> /\ down' = <<>> /\ broken' = TRUE
  BY TypedStream DEF Break, rows
<1>2. ASSUME NEW r \in Requests
      PROVE  /\ IF agent[r].state = "running" THEN agent'[r].state = "unheard"
                ELSE agent'[r] = agent[r]
             /\ agent'[r].sess = agent[r].sess
             /\ agent[r].state \in {"none", "running", "unheard", "ended", "killed"}
  BY DEF Break, TypeOK, Agent
<1>3. ASSUME NEW p \in Ops, op'[p] # op[p]
      PROVE  /\ op'[p].kind = op[p].kind /\ op'[p].about = op[p].about
             /\ op'[p].space = op[p].space /\ op'[p].task = op[p].task
             /\ op'[p].pc = "broken" /\ op[p] # Idle
  <2>1. op[p].pc = "waiting" /\ op'[p] = [op[p] EXCEPT !.pc = "broken"]
    BY <1>3 DEF Break
  <2>2. op[p] \in Operation /\ op[p] # Idle
    BY <2>1, OpAt
  <2>3. QED
    BY <2>1, <2>2 DEF Operation
<1>4. OpsFit'
  BY <1>3 DEF OpsFit, Is, Idle
<1>5. Steady
  <2>1. DownQuiet
    <3>1. Len(down') = 0
      BY <1>1
    <3>2. 1..Len(down') = {}
      BY <3>1
    <3>3. QED
      BY <3>2 DEF DownQuiet
  <2>2. \A p \in Ops : Is(op'[p], "start") =>
          Is(op[p], "start") /\ op'[p].about = op[p].about
    BY <1>3 DEF Is
  <2>3. \A r \in Requests : agent'[r].state = "none" <=> agent[r].state = "none"
    BY <1>2
  <2>4. QED
    BY <1>1, <1>2, <2>1, <2>2, <2>3 DEF Steady
<1>6. Fresh' /\ Starting' /\ Asked' /\ AgentsHaveMessages'
  BY <1>5, SteadyInv
<1>7. ChunksFit' /\ AgreedHasAgent'
  <2>1. Len(up') = 0
    BY <1>1
  <2>2. 1..Len(up') = {}
    BY <2>1
  <2>3. QED
    BY <2>2 DEF ChunksFit, AgreedHasAgent
<1>8. OpenHasSend'
  BY <1>1 DEF OpenHasSend
<1>9. AllHeard'
  <2>1. ASSUME NEW r \in Requests
        PROVE  Heard(up', r, msg'[r], agent'[r], Alive(msg'[r], sess'), broken')
    <3>1. Heard(up, r, msg[r], agent[r], Alive(msg[r], sess), broken)
      BY DEF AllHeard
    <3>2. Heard(<<>>, r, msg[r], agent'[r], Alive(msg[r], sess), TRUE)
      BY <1>2, <3>1, HeardBroken
    <3>3. QED
      BY <1>1, <3>2
  <2>2. QED
    BY <2>1, HeardAll
<1>10. QED
  BY <1>1, <1>4, <1>6, <1>7, <1>8, <1>9

-----------------------------------------------------------------------------
(* Starts and sends.                                                         *)

LEMMA EndSendInv ==
  ASSUME IInv, NEW o \in Ops, NEW ok \in BOOLEAN, EndSend(o, ok)
  PROVE  IInv'
<1> USE DEF IInv
<1> DEFINE r == op[o].about
           f == [msg[r] EXCEPT !.done = TRUE, !.error = TRUE]
<1>1. /\ UNCHANGED <<sess, down, agent, broken, used>> /\ TypeOK'
      /\ Resumes(o, "send", ok) /\ End(o)
  BY TypedEnds DEF EndSend, companion, history
<1>2. /\ Is(op[o], "send") /\ r \in Requests
      /\ op'[o] = Idle /\ \A p \in Ops : p # o => op'[p] = op[p]
  BY <1>1, ResumesTyped, EndsOp DEF Is, OpsFit
<1>3. UpQuiet /\ (ok => up # <<>> /\ Awaited(o, Head(up)) /\ Head(up).ok)
  BY <1>1, ResumesQuiet
<1>4. msg' = (IF ~ok /\ msg[r] # None THEN [msg EXCEPT ![r] = f] ELSE msg)
  BY <1>2 DEF EndSend, TypeOK
<1>5. msg[r] # None =>
        msg[r] \in Message /\ f \in Message /\ f # None /\ f.sess = msg[r].sess /\ f.done
  <2> SUFFICES ASSUME msg[r] # None
               PROVE  /\ msg[r] \in Message /\ f \in Message /\ f # None
                      /\ f.sess = msg[r].sess /\ f.done
    OBVIOUS
  <2>1. msg[r] \in Message
    BY <1>2 DEF TypeOK
  <2>2. f \in Message /\ f.sess = msg[r].sess /\ f.done
    BY <2>1 DEF Message
  <2>3. f # None
    BY <2>2, RowsAssumption
  <2>4. QED
    BY <2>1, <2>2, <2>3
<1> HIDE DEF f
<1>6. \A c \in Requests :
        \/ msg'[c] = msg[c]
        \/ c = r /\ ~ok /\ msg[r] # None /\ msg'[c] = f
  BY <1>4 DEF TypeOK
<1>7. ~ok /\ msg[r] # None => msg'[r] = f
  BY <1>2, <1>4 DEF TypeOK
<1>8. Steady
  BY <1>1, <1>2, <1>5, <1>6, DownSame DEF Steady, Is
<1>9. Fresh' /\ Starting' /\ Asked' /\ AgentsHaveMessages'
  BY <1>8, SteadyInv
<1>10. ChunksFit' /\ AgreedHasAgent'
  BY <1>1, <1>3, ChunksInv DEF Ongoing
<1>11. OpsFit'
  <2>1. ASSUME NEW p \in Ops
        PROVE  /\ Is(op'[p], "start") => op'[p].about \in Sessions
                                         /\ op'[p].space \in Spaces /\ op'[p].task \in Tasks
               /\ Is(op'[p], "send") => op'[p].about \in Requests
               /\ Is(op'[p], "terminate") => op'[p].about \in Sessions
               /\ op'[p].pc = "releasing" => op'[p].kind = "release"
    BY <1>2 DEF OpsFit, Is, Idle
  <2>2. QED
    BY <2>1 DEF OpsFit, Is, Idle
<1>12. ok => agent[r].state # "none"
  <2> SUFFICES ASSUME ok PROVE agent[r].state # "none"
    OBVIOUS
  <2>1. /\ up # <<>> /\ Head(up).kind = "answer" /\ Head(up).asked = "send" /\ Head(up).ok
        /\ Head(up).about = r
    BY <1>2, <1>3 DEF Awaited, Is
  <2>2. Head(up) = up[1] /\ 1 \in 1..Len(up)
    BY <2>1, AtTail DEF TypeOK
  <2>3. QED
    BY <2>1, <2>2 DEF AgreedHasAgent
<1>13. OpenHasSend'
  <2> SUFFICES ASSUME NEW c \in Requests, agent'[c].state = "none", msg'[c] # None,
                      ~msg'[c].done, ~broken'
               PROVE  \E p \in Ops :
                        op'[p] # Idle /\ op'[p].kind = "send" /\ op'[p].about = c
    BY DEF OpenHasSend, Idle
  <2>1. c # r
    <3> SUFFICES ASSUME c = r PROVE FALSE
      OBVIOUS
    <3>1. ~ok
      BY <1>1, <1>12
    <3>2. msg[r] # None
      BY <1>6
    <3>3. QED
      BY <1>5, <1>7, <3>1, <3>2
  <2>2. msg'[c] = msg[c]
    BY <1>6, <2>1
  <2>3. PICK p \in Ops : op[p] # Idle /\ op[p].kind = "send" /\ op[p].about = c
    BY <1>1, <2>2 DEF OpenHasSend
  <2>4. p # o
    BY <2>1, <2>3
  <2>5. QED
    BY <1>2, <2>3, <2>4
<1>14. AllHeard'
  <2>1. ASSUME NEW c \in Requests
        PROVE  Heard(up', c, msg'[c], agent'[c], Alive(msg'[c], sess'), broken')
    <3>1. CASE msg'[c] = msg[c]
      BY <1>1, <1>3, <3>1, StillHeard
    <3>2. CASE c = r /\ msg[r] # None /\ msg'[c] = f
      <4>1. Heard(up, r, msg[r], agent[r], Alive(msg[r], sess), broken)
        BY <1>2 DEF AllHeard
      <4>2. Heard(up', r, msg[r], agent[r], Alive(msg[r], sess), broken)
        BY <1>3, <4>1, HeardQuiet
      <4>3. Heard(up', r, f, agent[r], Alive(msg[r], sess), broken)
        BY <1>5, <3>2, <4>2, HeardFailed DEF f
      <4>4. Alive(f, sess) => Alive(msg[r], sess)
        BY <1>5, <3>2 DEF Alive
      <4>5. Heard(up', r, f, agent[r], Alive(f, sess), broken)
        BY <1>5, <3>2, <4>3, <4>4, HeardGone
      <4>6. QED
        BY <1>1, <3>2, <4>5
    <3>3. QED
      BY <1>6, <3>1, <3>2
  <2>2. QED
    BY <2>1, HeardAll
<1>15. QED
  BY <1>1, <1>9, <1>10, <1>11, <1>13, <1>14

LEMMA EndReleaseInv ==
  ASSUME IInv, NEW o \in Ops, EndRelease(o)
  PROVE  IInv'
<1> USE DEF IInv
<1>1. UNCHANGED <<up, down, agent, broken, used>> /\ TypeOK' /\ End(o)
  BY TypedReleases DEF EndRelease, stream, companion
<1>2. ~Is(op[o], "send")
  BY DEF EndRelease, OpsFit, Is
<1>3. OpsQuiet
  BY <1>1, <1>2, EndsOp DEF OpsQuiet
<1>4. UpQuiet
  BY <1>1 DEF UpQuiet
<1>5. \A s \in Sessions : sess'[s] # None => sess[s] # None
  BY DEF EndRelease, rows, TypeOK
<1>6. \A r \in Requests : msg'[r] \in {msg[r], None}
  BY DEF EndRelease, rows, TypeOK
<1>7. \A r \in Requests : msg[r] # None /\ sess'[msg[r].sess] # None => msg'[r] = msg[r]
  <2>1. \A r \in Requests : msg[r] # None => msg[r].sess \in Sessions
    BY DEF TypeOK, Message
  <2>2. QED
    BY <2>1 DEF EndRelease, rows
<1>8. Steady
  BY <1>1, <1>3, <1>5, <1>6, <1>7, OpsInv, DownSame DEF Steady
<1>9. Fresh' /\ Starting' /\ Asked' /\ AgentsHaveMessages'
  BY <1>8, SteadyInv
<1>10. ChunksFit' /\ AgreedHasAgent'
  BY <1>1, <1>4, ChunksInv DEF Ongoing
<1>11. OpsFit' /\ OpenHasSend'
  BY <1>1, <1>3, <1>6, OpsInv, OpenInv
<1>12. AllHeard'
  <2>1. ASSUME NEW r \in Requests
        PROVE  Heard(up', r, msg'[r], agent'[r], Alive(msg'[r], sess'), broken')
    <3>1. Alive(msg'[r], sess') => Alive(msg[r], sess)
      BY <1>6, <1>8, AliveBefore
    <3>2. QED
      BY <1>1, <1>4, <1>6, <3>1, StillHeard
  <2>2. QED
    BY <2>1, HeardAll
<1>13. QED
  BY <1>1, <1>9, <1>10, <1>11, <1>12

LEMMA AskStartInv ==
  ASSUME IInv, NEW o \in Ops, NEW i \in Spaces, NEW s \in Sessions, AskStart(o, i, s)
  PROVE  IInv'
<1> USE DEF IInv
<1>1. /\ UNCHANGED <<sess, msg, up, agent, broken>> /\ TypeOK'
      /\ s \notin used /\ used' = used \union {s} /\ op[o] = Idle /\ space[i] \in Tasks
  BY TypedAsks DEF AskStart, rows, companion, TypeOK
<1>2. /\ op'[o] # Idle /\ op'[o].kind = "start" /\ op'[o].about = s
      /\ op'[o].space = i /\ op'[o].task = space[i] /\ op'[o].pc = "waiting"
      /\ \A p \in Ops : p # o => op'[p] = op[p]
  BY DEF AskStart, Ask, Waits, Idle, TypeOK
<1>3. DownQuiet
  <2> DEFINE x == [kind |-> "start", about |-> s, sess |-> s, op |-> o]
  <2>1. x \in Sent /\ x.kind # "send"
    BY DEF Sent
  <2>2. down' = Append(down, x)
    BY DEF AskStart, Ask, Waits
  <2> HIDE DEF x
  <2>3. QED
    BY <2>1, <2>2, DownAppended
<1>4. PICK d \in {0, 1} : \A k \in 1..Len(down') : down'[k].kind = "send" =>
        k + d \in 1..Len(down) /\ down'[k] = down[k + d]
  BY <1>3 DEF DownQuiet
<1>5. OpsFit'
  <2>1. ASSUME NEW p \in Ops
        PROVE  /\ Is(op'[p], "start") => op'[p].about \in Sessions
                                         /\ op'[p].space \in Spaces /\ op'[p].task \in Tasks
               /\ Is(op'[p], "send") => op'[p].about \in Requests
               /\ Is(op'[p], "terminate") => op'[p].about \in Sessions
               /\ op'[p].pc = "releasing" => op'[p].kind = "release"
    BY <1>1, <1>2 DEF OpsFit, Is
  <2>2. QED
    BY <2>1 DEF OpsFit, Is, Idle
<1>6. Fresh'
  <2>1. \A k \in 1..Len(down') : down'[k].kind = "send" =>
          down'[k].about \in used' /\ down'[k].sess \in used'
    BY <1>1, <1>4 DEF Fresh
  <2>2. \A p \in Ops : Is(op'[p], "start") => op'[p].about \in used'
    BY <1>1, <1>2 DEF Fresh
  <2>3. QED
    BY <1>1, <2>1, <2>2 DEF Fresh, Is, Idle
<1>7. Starting'
  <2>1. /\ sess[s] = None
        /\ \A r \in Requests : msg[r] # None => msg[r].sess # s
        /\ \A r \in Requests : agent[r].state # "none" => agent[r].sess # s
        /\ \A k \in 1..Len(down') : down'[k].kind = "send" => down'[k].sess # s
        /\ \A p \in Ops : Is(op[p], "start") => op[p].about # s
    BY <1>1, <1>4 DEF Fresh
  <2>2. ASSUME NEW p \in Ops, Is(op'[p], "start")
        PROVE  /\ sess[op'[p].about] = None
               /\ \A r \in Requests : msg[r] # None => msg[r].sess # op'[p].about
               /\ \A r \in Requests : agent[r].state # "none" => agent[r].sess # op'[p].about
               /\ \A k \in 1..Len(down') :
                    down'[k].kind = "send" => down'[k].sess # op'[p].about
               /\ \A n \in Ops :
                    Is(op'[n], "start") /\ op'[n].about = op'[p].about => n = p
    <3>1. CASE p = o
      BY <1>2, <2>1, <3>1
    <3>2. CASE p # o
      BY <1>2, <1>4, <2>1, <2>2, <3>2 DEF Starting
    <3>3. QED
      BY <3>1, <3>2
  <2>3. QED
    BY <1>1, <2>2 DEF Starting, Is, Idle
<1>8. Asked'
  <2> SUFFICES ASSUME NEW k \in 1..Len(down'), down'[k].kind = "send"
               PROVE  /\ down'[k].about \in Requests
                      /\ agent[down'[k].about].state = "none"
                      /\ sess[down'[k].sess] # None =>
                           /\ msg[down'[k].about] # None
                           /\ msg[down'[k].about].sess = down'[k].sess
                      /\ \A j \in 1..Len(down') :
                           down'[j].kind = "send" /\ down'[j].about = down'[k].about => j = k
    BY <1>1 DEF Asked
  <2>1. k + d \in 1..Len(down) /\ down'[k] = down[k + d]
    BY <1>4
  <2>2. ASSUME NEW j \in 1..Len(down'), down'[j].kind = "send",
               down'[j].about = down'[k].about
        PROVE  j = k
    <3>1. j + d = k + d
      BY <1>4, <2>1, <2>2 DEF Asked
    <3>2. j \in Int /\ k \in Int
      OBVIOUS
    <3>3. QED
      BY <3>1, <3>2
  <2>3. QED
    BY <2>1, <2>2 DEF Asked
<1>9. AgentsHaveMessages'
  BY <1>1 DEF AgentsHaveMessages
<1>10. UpQuiet
  BY <1>1 DEF UpQuiet
<1>11. ChunksFit' /\ AgreedHasAgent'
  BY <1>1, <1>10, ChunksInv DEF Ongoing
<1>12. OpenHasSend'
  <2>1. \A p \in Ops : Is(op[p], "send") => op'[p] = op[p]
    BY <1>1, <1>2 DEF Is
  <2>2. QED
    BY <1>1, <2>1, OpenInv
<1>13. AllHeard'
  BY <1>1, <1>10, StillHeard, HeardAll
<1>14. QED
  BY <1>1, <1>5, <1>6, <1>7, <1>8, <1>9, <1>11, <1>12, <1>13

LEMMA AskSendInv ==
  ASSUME IInv, NEW o \in Ops, NEW s \in Sessions, NEW r \in Requests, AskSend(o, s, r)
  PROVE  IInv'
<1> USE DEF IInv
<1> DEFINE x == [kind |-> "send", about |-> r, sess |-> s, op |-> o]
           n == NewMessage(s)
<1>1. /\ UNCHANGED <<sess, up, agent, broken>> /\ TypeOK'
      /\ r \notin used /\ used' = used \union {r} /\ op[o] = Idle /\ sess[s] # None
  BY TypedAsks DEF AskSend, companion, Reachable
<1>2. /\ op'[o] # Idle /\ op'[o].kind = "send" /\ op'[o].about = r /\ op'[o].pc = "waiting"
      /\ \A p \in Ops : p # o => op'[p] = op[p]
  BY DEF AskSend, Ask, Waits, Idle, TypeOK
<1>3. msg'[r] = n /\ \A c \in Requests : c # r => msg'[c] = msg[c]
  BY DEF AskSend, TypeOK
<1>4. n # None /\ n.sess = s /\ n.text = <<>> /\ ~n.done /\ n.done = FALSE
  <2>1. n \in Message
    BY NewTyped
  <2>2. n.sess = s /\ n.text = <<>> /\ ~n.done /\ n.done = FALSE
    BY DEF NewMessage
  <2>3. QED
    BY <2>1, <2>2, RowsAssumption
<1> HIDE DEF n
<1>5. agent[r].state = "none" /\ msg[r] = None /\ s \in used
  BY <1>1 DEF Fresh
<1>6. x \in Sent /\ x.kind = "send" /\ x.about = r /\ x.sess = s /\ down' = Append(down, x)
  BY DEF Sent, AskSend, Ask, Waits
<1> HIDE DEF x
<1>7. \A k \in 1..Len(down') :
        \/ k \in 1..Len(down) /\ down'[k] = down[k]
        \/ k = Len(down) + 1 /\ down'[k] = x
  BY <1>6, InAppend DEF TypeOK
<1>8. OpsFit'
  <2>1. ASSUME NEW p \in Ops
        PROVE  /\ Is(op'[p], "start") => op'[p].about \in Sessions
                                         /\ op'[p].space \in Spaces /\ op'[p].task \in Tasks
               /\ Is(op'[p], "send") => op'[p].about \in Requests
               /\ Is(op'[p], "terminate") => op'[p].about \in Sessions
               /\ op'[p].pc = "releasing" => op'[p].kind = "release"
    BY <1>2 DEF OpsFit, Is
  <2>2. QED
    BY <2>1 DEF OpsFit, Is, Idle
<1>9. \A p \in Ops : Is(op'[p], "start") => Is(op[p], "start") /\ op'[p] = op[p]
  BY <1>2 DEF Is
<1>10. Fresh'
  <2>1. \A c \in Requests : msg'[c] # None => c \in used' /\ msg'[c].sess \in used'
    BY <1>1, <1>3, <1>4, <1>5 DEF Fresh
  <2>2. \A k \in 1..Len(down') : down'[k].kind = "send" =>
          down'[k].about \in used' /\ down'[k].sess \in used'
    BY <1>1, <1>5, <1>6, <1>7 DEF Fresh
  <2>3. \A p \in Ops : Is(op'[p], "start") => op'[p].about \in used'
    BY <1>1, <1>9 DEF Fresh
  <2>4. QED
    BY <1>1, <2>1, <2>2, <2>3 DEF Fresh, Is, Idle
<1>11. Starting'
  <2>1. ASSUME NEW p \in Ops, Is(op'[p], "start")
        PROVE  /\ sess[op'[p].about] = None
               /\ \A c \in Requests : msg'[c] # None => msg'[c].sess # op'[p].about
               /\ \A c \in Requests : agent[c].state # "none" => agent[c].sess # op'[p].about
               /\ \A k \in 1..Len(down') :
                    down'[k].kind = "send" => down'[k].sess # op'[p].about
               /\ \A q \in Ops :
                    Is(op'[q], "start") /\ op'[q].about = op'[p].about => q = p
    <3>1. Is(op[p], "start") /\ op'[p] = op[p]
      BY <1>9, <2>1
    <3>2. s # op[p].about
      BY <1>1, <3>1 DEF Starting
    <3>3. \A c \in Requests : msg'[c] # None => msg'[c].sess # op[p].about
      BY <1>3, <1>4, <3>1, <3>2 DEF Starting
    <3>4. \A k \in 1..Len(down') : down'[k].kind = "send" => down'[k].sess # op[p].about
      BY <1>6, <1>7, <3>1, <3>2 DEF Starting
    <3>5. QED
      BY <1>9, <3>1, <3>3, <3>4 DEF Starting
  <2>2. QED
    BY <1>1, <2>1 DEF Starting, Is, Idle
<1>12. Asked'
  <2>1. \A k \in 1..Len(down) : down[k].kind = "send" => down[k].about # r
    BY <1>1 DEF Fresh
  <2>2. ASSUME NEW k \in 1..Len(down'), down'[k].kind = "send"
        PROVE  /\ down'[k].about \in Requests
               /\ agent[down'[k].about].state = "none"
               /\ sess[down'[k].sess] # None =>
                    /\ msg'[down'[k].about] # None
                    /\ msg'[down'[k].about].sess = down'[k].sess
               /\ \A j \in 1..Len(down') :
                    down'[j].kind = "send" /\ down'[j].about = down'[k].about => j = k
    <3>1. CASE k \in 1..Len(down) /\ down'[k] = down[k]
      <4>1. down[k].about \in Requests /\ down[k].about # r
        BY <2>1, <2>2, <3>1 DEF Asked
      <4>2. sess[down[k].sess] # None =>
              msg'[down[k].about] # None /\ msg'[down[k].about].sess = down[k].sess
        BY <1>3, <2>2, <3>1, <4>1 DEF Asked
      <4>3. \A j \in 1..Len(down') :
              down'[j].kind = "send" /\ down'[j].about = down[k].about => j = k
        BY <1>6, <1>7, <2>2, <3>1, <4>1 DEF Asked
      <4>4. agent[down[k].about].state = "none"
        BY <2>2, <3>1 DEF Asked
      <4>5. QED
        BY <3>1, <4>1, <4>2, <4>3, <4>4
    <3>2. CASE k = Len(down) + 1 /\ down'[k] = x
      BY <1>3, <1>4, <1>5, <1>6, <1>7, <2>1, <3>2
    <3>3. QED
      BY <1>7, <3>1, <3>2
  <2>3. QED
    BY <1>1, <2>2 DEF Asked
<1>13. AgentsHaveMessages'
  BY <1>1, <1>3, <1>5 DEF AgentsHaveMessages
<1>14. UpQuiet
  BY <1>1 DEF UpQuiet
<1>15. ChunksFit' /\ AgreedHasAgent'
  BY <1>1, <1>14, ChunksInv DEF Ongoing
<1>16. OpenHasSend'
  <2> SUFFICES ASSUME NEW c \in Requests, agent'[c].state = "none", msg'[c] # None,
                      ~msg'[c].done, ~broken'
               PROVE  \E p \in Ops :
                        op'[p] # Idle /\ op'[p].kind = "send" /\ op'[p].about = c
    BY DEF OpenHasSend, Idle
  <2>1. CASE c = r
    BY <1>2, <2>1
  <2>2. CASE c # r
    <3>1. PICK p \in Ops : op[p] # Idle /\ op[p].kind = "send" /\ op[p].about = c
      BY <1>1, <1>3, <2>2 DEF OpenHasSend
    <3>2. op'[p] = op[p]
      BY <1>1, <1>2, <3>1
    <3>3. QED
      BY <3>1, <3>2
  <2>3. QED
    BY <2>1, <2>2
<1>17. AllHeard'
  <2>1. Heard(up, r, n, agent[r], Alive(n, sess), broken)
    <3>1. Heard(up, r, msg[r], agent[r], Alive(msg[r], sess), broken)
      BY DEF AllHeard
    <3>2. HeardNone(up, r, msg[r], agent[r])
      BY <1>5, <3>1 DEF Heard
    <3>3. HeardNone(up, r, n, agent[r])
      BY <1>4, <3>2 DEF HeardNone, OnlyFailed
    <3>4. QED
      BY <1>5, <3>3 DEF Heard
  <2>2. ASSUME NEW c \in Requests
        PROVE  Heard(up', c, msg'[c], agent'[c], Alive(msg'[c], sess'), broken')
    <3>1. CASE c = r
      BY <1>1, <1>3, <2>1, <3>1
    <3>2. CASE c # r
      <4>1. msg'[c] = msg[c]
        BY <1>3, <3>2
      <4>2. Alive(msg'[c], sess') => Alive(msg[c], sess)
        BY <1>1, <4>1
      <4>3. QED
        BY <1>1, <1>14, <4>1, <4>2, StillHeard
    <3>3. QED
      BY <3>1, <3>2
  <2>3. QED
    BY <2>2, HeardAll
<1>18. QED
  BY <1>1, <1>8, <1>10, <1>11, <1>12, <1>13, <1>15, <1>16, <1>17

-----------------------------------------------------------------------------
(* Every behaviour.                                                          *)

LEMMA InitInv == Init => IInv
<1> SUFFICES ASSUME Init PROVE IInv
  OBVIOUS
<1>1. TypeOK
  <2>1. NoAgent \in Agent
    BY SessionsAssumption DEF NoAgent, Agent
  <2>2. 0 \in 0..MaxStops /\ 0 \in 0..MaxFaults
    BY SessionsAssumption
  <2>3. down \in Seq(Sent) /\ up \in Seq(Answers \union Chunks)
    BY EmptySeq DEF Init
  <2>4. QED
    BY <2>1, <2>2, <2>3 DEF Init, TypeOK
<1>2. /\ \A o \in Ops : op[o] = Idle /\ op[o].pc = "idle"
      /\ \A s \in Sessions : sess[s] = None
      /\ \A r \in Requests : msg[r] = None /\ agent[r] = NoAgent
      /\ \A r \in Requests : agent[r].state = "none" /\ agent[r].wrote = 0
      /\ 1..Len(down) = {} /\ 1..Len(up) = {}
  BY DEF Init, Idle, NoAgent
<1>3. AllHeard
  BY <1>2 DEF AllHeard, Heard, HeardNone, Silent, Pieces, Ends, OnlyFailed
<1>4. OpsFit /\ ChunksFit /\ AgreedHasAgent /\ Fresh /\ Starting /\ Asked
      /\ AgentsHaveMessages /\ OpenHasSend
  BY <1>2 DEF OpsFit, ChunksFit, AgreedHasAgent, Fresh, Starting, Asked,
              AgentsHaveMessages, OpenHasSend, Is
<1>5. QED
  BY <1>1, <1>3, <1>4 DEF IInv

LEMMA StutterInv == IInv /\ UNCHANGED vars => IInv'
<1> SUFFICES ASSUME IInv, UNCHANGED vars PROVE IInv'
  OBVIOUS
<1>1. UNCHANGED <<space, sess, msg, op, down, up, manager, agent, stops, faults, used, broken,
                  late>>
  BY DEF vars, rows, stream, companion, bounds, history
<1>2. TypeOK'
  BY <1>1 DEF IInv, TypeOK
<1>3. OpsQuiet /\ UpQuiet
  BY <1>1 DEF OpsQuiet, UpQuiet
<1>4. QED
  BY <1>1, <1>2, <1>3, DownSame, QuietInv

LEMMA StepInv == IInv /\ [Next]_vars => IInv'
  BY StutterInv, BreakInv, CreateSpaceInv, DropAnswerInv, DeliverChunkInv, HandleStartInv,
     HandleSendInv, HandleTerminateInv, AgentWritesInv, AgentEndsInv, EndStartInv,
     EndSendInv, EndTerminateInv, ReleaseGoesOnInv, EndReleaseInv, AskTerminateInv,
     ReleaseNextInv, AskStartInv, AskSendInv, BeginReleaseInv
  DEF Next, Finished

\* what the invariant says of closed and of open messages
LEMMA InvMessages == IInv => WholeAnswer /\ OpenMessageIsAwaited
<1> SUFFICES ASSUME IInv PROVE WholeAnswer /\ OpenMessageIsAwaited
  OBVIOUS
<1>1. ASSUME NEW r \in Requests
      PROVE  /\ Heard(up, r, msg[r], agent[r], Alive(msg[r], sess), broken)
             /\ agent[r].state \in {"none", "running", "unheard", "ended", "killed"}
  BY DEF IInv, AllHeard, TypeOK, Agent
<1>2. WholeAnswer
  <2> SUFFICES ASSUME NEW r \in Requests, msg[r] # None, sess[msg[r].sess] # None,
                      msg[r].done, ~msg[r].error
               PROVE  /\ agent[r].state = "ended"
                      /\ msg[r].text = [k \in 1..agent[r].wrote |-> k]
    BY DEF WholeAnswer
  <2>1. ~OnlyFailed(msg[r]) /\ Closed(msg[r]) /\ Alive(msg[r], sess)
    BY DEF OnlyFailed, Closed, Alive
  <2>2. agent[r].state = "ended"
    BY <1>1, <2>1 DEF Heard, HeardNone, HeardRunning, HeardKilled, HeardUnheard
  <2>3. QED
    BY <1>1, <2>1, <2>2 DEF Heard, EndComes, EndCame
<1>3. OpenMessageIsAwaited
  <2> SUFFICES ASSUME NEW r \in Requests, msg[r] # None, ~msg[r].done, ~broken,
                      agent[r].state # "running", agent[r].state # "killed"
               PROVE  \/ \E o \in Ops : op[o] # Idle /\ op[o].kind = "send" /\ op[o].about = r
                      \/ \E k \in 1..Len(up) : up[k].kind = "chunk" /\ up[k].req = r
                                               /\ up[k].done
    BY DEF OpenMessageIsAwaited
  <2>1. CASE agent[r].state = "none"
    BY <2>1 DEF IInv, OpenHasSend
  <2>2. CASE agent[r].state = "unheard"
    BY <1>1, <2>2 DEF Heard, HeardUnheard
  <2>3. CASE agent[r].state = "ended"
    <3>1. EndIsLast(up, r)
      BY <1>1, <2>3 DEF Heard, EndComes, EndCame
    <3>2. QED
      BY <3>1 DEF EndIsLast, Ends, ChunkOf
  <2>4. QED
    BY <1>1, <2>1, <2>2, <2>3
<1>4. QED
  BY <1>2, <1>3

(* An answer that was closed without an error is all its agent wrote, in     *)
(* order; an open message is awaited unless its agent was killed or the      *)
(* stream broke.                                                             *)
THEOREM AnswersAreWhole == Spec => [](TypeOK /\ WholeAnswer /\ OpenMessageIsAwaited)
<1>1. Spec => []IInv
  BY InitInv, StepInv, PTL DEF Spec
<1>2. IInv => TypeOK /\ WholeAnswer /\ OpenMessageIsAwaited
  BY InvMessages DEF IInv
<1>3. QED
  BY <1>1, <1>2, PTL

-----------------------------------------------------------------------------
(* Sessions and the spaces they are shown in.                                *)

\* the next id of a space is above every id in use
LEMMA NextIdIsFree ==
  ASSUME NextId \in Spaces
  PROVE  space[NextId] = None
<1> DEFINE D == {i \in Spaces : \E k \in Spaces : k >= i /\ space[k] # None}
           n == NextId
<1>1. IsFiniteSet(Spaces) /\ Spaces = 1..Cardinality(Spaces)
  BY SessionsAssumption
<1>2. Cardinality(Spaces) \in Nat
  BY <1>1, FS_CardinalityType
<1>3. IsFiniteSet(D) /\ Cardinality(D) \in Nat
  <2>1. D \in SUBSET Spaces
    OBVIOUS
  <2> HIDE DEF D
  <2>2. QED
    BY <1>1, <2>1, FS_Subset, FS_CardinalityType
<1>4. n = 1 + Cardinality(D)
  BY DEF NextId
<1>5. SUFFICES ASSUME space[n] # None PROVE FALSE
  OBVIOUS
<1>6. n \in Spaces
  OBVIOUS
<1> HIDE DEF n
<1>7. 1..n \in SUBSET D
  BY <1>1, <1>2, <1>5, <1>6
<1> HIDE DEF D
<1>8. Cardinality(1..n) <= Cardinality(D)
  BY <1>3, <1>7, FS_Subset
<1>9. n \in Int /\ 1 <= n /\ Cardinality(1..n) = n
  <2>1. n \in Int /\ 1 <= n
    BY <1>3, <1>4
  <2>2. QED
    BY <2>1, FS_Interval
<1>10. QED
  BY <1>3, <1>4, <1>8, <1>9

LEMMA CreateSpaceMatches ==
  ASSUME IInv, SessionsMatchTheirSpace, NEW t \in Tasks, CreateSpace(t)
  PROVE  SessionsMatchTheirSpace'
<1>1. /\ UNCHANGED <<sess, late>> /\ space[NextId] = None
      /\ \A i \in Spaces : i # NextId => space'[i] = space[i]
  BY NextIdIsFree DEF IInv, TypeOK, CreateSpace, history
<1>2. \A s \in Sessions : sess[s] # None =>
        sess[s].space \in Spaces /\ sess[s].task # None
  BY SessionsAssumption DEF IInv, TypeOK, SessionRow
<1>3. QED
  BY <1>1, <1>2 DEF SessionsMatchTheirSpace

LEMMA EndStartMatches ==
  ASSUME IInv, SessionsMatchTheirSpace, NEW o \in Ops, NEW ok \in BOOLEAN, EndStart(o, ok)
  PROVE  SessionsMatchTheirSpace'
<1> DEFINE n == op[o].about
           row == [space |-> op[o].space, task |-> op[o].task, status |-> "active"]
<1>1. space' = space
  BY DEF EndStart
<1>2. CASE ~ok
  BY <1>1, <1>2 DEF EndStart, SessionsMatchTheirSpace
<1>3. CASE ok
  <2>1. /\ sess' = [sess EXCEPT ![n] = row]
        /\ late' = IF space[op[o].space] = op[o].task THEN late ELSE late \union {n}
    BY <1>3 DEF EndStart
  <2>2. /\ \A s \in Sessions : sess'[s] = IF s = n THEN row ELSE sess[s]
        /\ late \subseteq late' /\ (n \notin late' => space[op[o].space] = op[o].task)
    BY <2>1 DEF IInv, TypeOK
  <2>3. row.space = op[o].space /\ row.task = op[o].task
    OBVIOUS
  <2> HIDE DEF n, row
  <2>4. ASSUME NEW s \in Sessions \ late', sess'[s] # None
        PROVE  space[sess'[s].space] = sess'[s].task
    BY <2>2, <2>3, <2>4 DEF SessionsMatchTheirSpace
  <2>5. QED
    BY <1>1, <2>4 DEF SessionsMatchTheirSpace
<1>4. QED
  BY <1>2, <1>3

LEMMA EndTerminateMatches ==
  ASSUME IInv, SessionsMatchTheirSpace, NEW o \in Ops, NEW ok \in BOOLEAN,
         EndTerminate(o, ok)
  PROVE  SessionsMatchTheirSpace'
<1>1. UNCHANGED <<space, late>>
  BY DEF EndTerminate, history
<1>2. ASSUME NEW s \in Sessions, sess'[s] # None
      PROVE  /\ sess[s] # None
             /\ sess'[s].space = sess[s].space /\ sess'[s].task = sess[s].task
  <2>1. sess[s] # None
    BY <1>2 DEF IInv, TypeOK, EndTerminate
  <2>2. sess[s] \in SessionRow
    BY <2>1 DEF IInv, TypeOK
  <2>3. sess'[s] = sess[s] \/ sess'[s] = [sess[s] EXCEPT !.status = "terminated"]
    BY DEF IInv, TypeOK, EndTerminate
  <2>4. QED
    BY <2>1, <2>2, <2>3 DEF SessionRow
<1>3. QED
  BY <1>1, <1>2 DEF SessionsMatchTheirSpace

LEMMA EndReleaseMatches ==
  ASSUME IInv, SessionsMatchTheirSpace, NEW o \in Ops, EndRelease(o)
  PROVE  SessionsMatchTheirSpace'
<1>1. CASE UNCHANGED <<space, sess, late>>
  BY <1>1 DEF SessionsMatchTheirSpace
<1>2. CASE \E i \in Spaces : space[i] = op[o].task
  <2>1. /\ space' = [i \in Spaces |-> IF space[i] = op[o].task THEN None ELSE space[i]]
        /\ sess' = [s \in Sessions |-> IF s \in op[o].all THEN None ELSE sess[s]]
        /\ late' = late \union {s \in Sessions \ op[o].all :
                                  sess[s] # None /\ space[sess[s].space] = op[o].task}
    BY <1>2 DEF EndRelease
  <2>2. ASSUME NEW s \in Sessions \ late', sess'[s] # None
        PROVE  space'[sess'[s].space] = sess'[s].task
    <3>1. sess'[s] = sess[s] /\ s \notin op[o].all /\ s \notin late
      BY <2>1, <2>2
    <3>2. sess[s].space \in Spaces
      BY <2>2, <3>1 DEF IInv, TypeOK, SessionRow
    <3>3. space[sess[s].space] # op[o].task
      BY <2>1, <2>2, <3>1
    <3>4. space[sess[s].space] = sess[s].task
      BY <2>2, <3>1 DEF SessionsMatchTheirSpace
    <3>5. QED
      BY <2>1, <3>1, <3>2, <3>3, <3>4
  <2>3. QED
    BY <2>2 DEF SessionsMatchTheirSpace
<1>3. QED
  BY <1>1, <1>2 DEF EndRelease, rows

LEMMA StepMatches ==
  ASSUME IInv, SessionsMatchTheirSpace, [Next]_vars
  PROVE  SessionsMatchTheirSpace'
<1>1. CASE UNCHANGED <<space, sess, late>>
  BY <1>1 DEF SessionsMatchTheirSpace
<1>2. CASE \E t \in Tasks : CreateSpace(t)
  BY <1>2, CreateSpaceMatches
<1>3. ASSUME NEW o \in Ops, NEW ok \in BOOLEAN, EndStart(o, ok) \/ EndTerminate(o, ok)
      PROVE  SessionsMatchTheirSpace'
  BY <1>3, EndStartMatches, EndTerminateMatches
<1>4. ASSUME NEW o \in Ops, EndRelease(o) PROVE SessionsMatchTheirSpace'
  BY <1>4, EndReleaseMatches
<1>5. CASE Break \/ DropAnswer \/ DeliverChunk \/ HandleStart \/ HandleSend
           \/ HandleTerminate \/ UNCHANGED vars
  <2>1. UNCHANGED <<space, sess, late>>
    BY <1>5 DEF Break, DropAnswer, DeliverChunk, HandleStart, HandleSend, HandleTerminate,
                vars, rows, history
  <2>2. QED
    BY <1>1, <2>1
<1>6. ASSUME NEW r \in Requests, AgentWrites(r) \/ \E ok \in BOOLEAN : AgentEnds(r, ok)
      PROVE  UNCHANGED <<space, sess, late>>
  BY <1>6 DEF AgentWrites, AgentEnds, rows, history
<1>7. ASSUME NEW o \in Ops,
             \/ \E ok \in BOOLEAN : EndSend(o, ok) \/ ReleaseGoesOn(o, ok)
             \/ \E s \in Sessions : AskTerminate(o, s) \/ ReleaseNext(o, s)
             \/ \E s \in Sessions, i \in Spaces : AskStart(o, i, s)
             \/ \E s \in Sessions, r \in Requests : AskSend(o, s, r)
             \/ \E i \in Spaces : BeginRelease(o, i)
      PROVE  UNCHANGED <<space, sess, late>>
  BY <1>7 DEF EndSend, ReleaseGoesOn, AskTerminate, ReleaseNext, AskStart, AskSend,
              BeginRelease, rows, history
<1>8. QED
  BY <1>1, <1>2, <1>3, <1>4, <1>5, <1>6, <1>7 DEF Next, Finished

(* A session is of its space's task, also when ids of spaces are given       *)
(* again, but for one that started while its space was released.             *)
THEOREM SessionsMatch == Spec => []SessionsMatchTheirSpace
<1>1. Init => IInv /\ SessionsMatchTheirSpace
  BY InitInv DEF Init, SessionsMatchTheirSpace
<1>2. IInv /\ SessionsMatchTheirSpace /\ [Next]_vars => (IInv /\ SessionsMatchTheirSpace)'
  BY StepInv, StepMatches
<1>3. QED
  BY <1>1, <1>2, PTL DEF Spec
=============================================================================
