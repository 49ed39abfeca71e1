-------------------------- MODULE CompanionProofs ---------------------------
(***************************************************************************)
(* Proofs about what is between OpenFocus and its Companions: the control   *)
(* connection (CompanionLink), who is at its ends (CompanionPairing), and   *)
(* what OpenFocus remembers of the files that a Companion holds             *)
(* (CodeNavigation).  The three are separate specifications: no theorem     *)
(* mentions more than one of them.                                          *)
(***************************************************************************)
EXTENDS CompanionLink, CompanionPairing, CodeNavigation, FiniteSetTheorems,
        SequenceTheorems, TLAPS

-----------------------------------------------------------------------------
(***************************************************************************)
(* CompanionLink.                                                           *)
(***************************************************************************)

(* Calls that have been issued went through a connection, and only they have *)
(* a future.                                                                 *)
IssuedVia ==
  \A r \in Calls :
    /\ outcome[r] = "idle" <=> fut[r] = "none"
    /\ outcome[r] # "idle" => via[r] \in Conns

Typed == TypeOK /\ IssuedVia

(* close keeps the types, and sets no future of a call that has none.        *)
LEMMA CloseTyped ==
  ASSUME Typed, NEW C \in SUBSET Conns, Close(C)
  PROVE  /\ closed' \in SUBSET Conns
         /\ pending' \in [Conns -> SUBSET Calls]
         /\ fut' \in [Calls -> Futures]
         /\ \A r \in Calls : fut'[r] = "none" <=> fut[r] = "none"
BY DEF Typed, TypeOK, Close, Futures

(* Every step keeps the types, and a call that was issued has a connection.  *)
LEMMA StepTyped == Typed /\ [Next]_vars => Typed'
<1> SUFFICES ASSUME Typed, [Next]_vars PROVE Typed'
  OBVIOUS
<1> USE DEF Typed, linkVars, wireVars, callVars, Phases, Outcomes, Settled
<1>1. ASSUME NEW c \in Conns, Accept(c) PROVE Typed'
  <2>1. {registry[owner[c]]} \ {NoConn} \in SUBSET Conns
    BY DEF TypeOK
  <2>2. Close({registry[owner[c]]} \ {NoConn})
    BY <1>1 DEF Accept
  <2> QED
    BY <1>1, <2>1, <2>2, CloseTyped DEF Accept, TypeOK, IssuedVia
<1>2. ASSUME NEW c \in Conns, SendOut(c) PROVE Typed'
  BY <1>2 DEF SendOut, TypeOK, IssuedVia
<1>3. ASSUME NEW c \in Conns, Drain(c) PROVE Typed'
  BY <1>3 DEF Drain, TypeOK, IssuedVia
<1>4. ASSUME NEW c \in Conns, ConsumerEnds(c) PROVE Typed'
  BY <1>4, CloseTyped DEF ConsumerEnds, TypeOK, IssuedVia
<1>5. ASSUME NEW c \in Conns, RpcDone(c) PROVE Typed'
  BY <1>5, CloseTyped DEF RpcDone, TypeOK, IssuedVia
<1>6. ASSUME NEW c \in Conns, Teardown(c) PROVE Typed'
  BY <1>6, CloseTyped DEF Teardown, TypeOK, IssuedVia
<1>7. ASSUME CloseAll PROVE Typed'
  <2>1. {registry[k] : k \in Companions} \ {NoConn} \in SUBSET Conns
    BY DEF TypeOK
  <2> QED
    BY <1>7, <2>1, CloseTyped DEF CloseAll, TypeOK, IssuedVia
<1>8. ASSUME NEW r \in Calls, NEW c \in Conns, Issue(r, c) PROVE Typed'
  BY <1>8 DEF Issue, TypeOK, IssuedVia, Futures
<1>9. ASSUME NEW c \in Conns, Execute(c) PROVE Typed'
  <2>1. Head(wire[c]) \in Calls /\ Tail(wire[c]) \in Seq(Calls)
    BY <1>9 DEF Execute, TypeOK
  <2> QED
    BY <1>9, <2>1 DEF Execute, TypeOK, IssuedVia
<1>10. ASSUME NEW c \in Conns, Receive(c) PROVE Typed'
  <2>1. Head(answers[c]) \in Calls /\ Tail(answers[c]) \in Seq(Calls)
    BY <1>10 DEF Receive, TypeOK
  <2> QED
    BY <1>10, <2>1 DEF Receive, TypeOK, IssuedVia, Futures
<1>11. ASSUME NEW r \in Calls, NEW how \in Settled, Return(r, how) PROVE Typed'
  BY <1>11 DEF Return, TypeOK, IssuedVia
<1>12. ASSUME NEW r \in Calls, Resume(r) \/ Expire(r) PROVE Typed'
  BY <1>12, <1>11 DEF Resume, Expire
<1>13. ASSUME UNCHANGED vars PROVE Typed'
  BY <1>13 DEF vars, TypeOK, IssuedVia
<1> QED
  BY <1>1, <1>2, <1>3, <1>4, <1>5, <1>6, <1>7, <1>8, <1>9, <1>10, <1>12, <1>13
  DEF Next, ServerStep, PeerStep, CallStep, Finished

(* Every value a variable takes is of its type.                              *)
THEOREM TypeCorrect == Spec => []TypeOK
<1>1. Init => Typed
  BY DEF Init, Typed, TypeOK, IssuedVia, Phases, Futures, Outcomes, Settled
<1> QED
  BY <1>1, StepTyped, PTL DEF Spec, Typed
-----------------------------------------------------------------------------
(* The invariants of the registry and of the pending tables.                 *)
LinkInv ==
  /\ RegisteredIsServed
  /\ OpenIsRegistered
  /\ WaiterReachable
  /\ OnlyLateCallsWaitOnEnded

(* It holds before the first connection.                                     *)
LEMMA InitLinkInv == Init => LinkInv
BY DEF Init, LinkInv, RegisteredIsServed, OpenIsRegistered, WaiterReachable,
       OnlyLateCallsWaitOnEnded

(* close leaves no caller of its connection on an unset future, and changes  *)
(* nothing for the callers of other connections.                             *)
LEMMA CloseWaiters ==
  ASSUME Typed, LinkInv, NEW C \in SUBSET Conns, Close(C),
         UNCHANGED <<via, late, outcome>>
  PROVE  /\ WaiterReachable'
         /\ \A r \in Calls : fut'[r] = "unset" => fut[r] = "unset"
         /\ \A r \in Calls : outcome[r] = "waiting" /\ fut'[r] = "unset" => via[r] \notin C
BY DEF Typed, TypeOK, IssuedVia, LinkInv, WaiterReachable, Close

(* Every step keeps it: one step per action below.                           *)
LEMMA StepLinkInv == Typed /\ LinkInv /\ [Next]_vars => LinkInv'
<1> SUFFICES ASSUME Typed, LinkInv, [Next]_vars PROVE LinkInv'
  OBVIOUS
<1> USE DEF linkVars, wireVars, callVars, LinkInv
<1>1. ASSUME NEW c \in Conns, Accept(c) PROVE LinkInv'
  <2>1. {registry[owner[c]]} \ {NoConn} \in SUBSET Conns
    BY DEF Typed, TypeOK
  <2>2. Close({registry[owner[c]]} \ {NoConn})
    BY <1>1 DEF Accept
  <2>3. WaiterReachable' /\ OnlyLateCallsWaitOnEnded'
    BY <1>1, <2>1, <2>2, CloseWaiters
    DEF Accept, OnlyLateCallsWaitOnEnded, Typed, TypeOK, IssuedVia
  <2>4. RegisteredIsServed'
    BY <1>1 DEF Accept, RegisteredIsServed, Typed, TypeOK
  <2>5. OpenIsRegistered'
    BY <1>1, <2>2, NoConnAssumption DEF Accept, Close, OpenIsRegistered, Typed, TypeOK
  <2> QED
    BY <2>3, <2>4, <2>5
<1>2. ASSUME NEW c \in Conns, SendOut(c) PROVE LinkInv'
  BY <1>2 DEF SendOut, RegisteredIsServed, OpenIsRegistered, WaiterReachable,
              OnlyLateCallsWaitOnEnded
<1>3. ASSUME NEW c \in Conns, Drain(c) PROVE LinkInv'
  BY <1>3 DEF Drain, RegisteredIsServed, OpenIsRegistered, WaiterReachable,
              OnlyLateCallsWaitOnEnded, Typed, TypeOK, IssuedVia
<1>4. ASSUME NEW c \in Conns, ConsumerEnds(c) \/ RpcDone(c) PROVE LinkInv'
  <2>1. Close({c}) /\ UNCHANGED <<registry, phase, owner, via, late, outcome>>
    BY <1>4 DEF ConsumerEnds, RpcDone
  <2>2. WaiterReachable' /\ OnlyLateCallsWaitOnEnded'
    BY <2>1, CloseWaiters DEF OnlyLateCallsWaitOnEnded
  <2> QED
    BY <2>1, <2>2 DEF Close, RegisteredIsServed, OpenIsRegistered
<1>5. ASSUME NEW c \in Conns, Teardown(c) PROVE LinkInv'
  <2>1. Close({c}) /\ UNCHANGED <<via, late, outcome>>
    BY <1>5 DEF Teardown
  <2>2. WaiterReachable' /\ OnlyLateCallsWaitOnEnded'
    BY <1>5, <2>1, CloseWaiters
    DEF Teardown, OnlyLateCallsWaitOnEnded, Typed, TypeOK, IssuedVia
  <2>3. RegisteredIsServed'
    BY <1>5, NoConnAssumption DEF Teardown, RegisteredIsServed, Typed, TypeOK
  <2>4. OpenIsRegistered'
    BY <1>5 DEF Teardown, Close, OpenIsRegistered, Typed, TypeOK
  <2> QED
    BY <2>2, <2>3, <2>4
<1>6. ASSUME CloseAll PROVE LinkInv'
  <2>1. {registry[k] : k \in Companions} \ {NoConn} \in SUBSET Conns
    BY DEF Typed, TypeOK
  <2>2. WaiterReachable' /\ OnlyLateCallsWaitOnEnded'
    BY <1>6, <2>1, CloseWaiters DEF CloseAll, OnlyLateCallsWaitOnEnded
  <2>3. RegisteredIsServed'
    BY <1>6 DEF CloseAll, RegisteredIsServed
  <2>4. OpenIsRegistered'
    BY <1>6, NoConnAssumption DEF CloseAll, Close, OpenIsRegistered, Typed, TypeOK
  <2> QED
    BY <2>2, <2>3, <2>4
<1>7. ASSUME NEW r \in Calls, NEW c \in Conns, Issue(r, c) PROVE LinkInv'
  <2>1. WaiterReachable'
    BY <1>7 DEF Issue, WaiterReachable, Typed, TypeOK, IssuedVia
  <2>2. OnlyLateCallsWaitOnEnded'
    BY <1>7 DEF Issue, OnlyLateCallsWaitOnEnded, Typed, TypeOK, IssuedVia
  <2> QED
    BY <1>7, <2>1, <2>2 DEF Issue, RegisteredIsServed, OpenIsRegistered
<1>8. ASSUME NEW c \in Conns, Execute(c) PROVE LinkInv'
  BY <1>8 DEF Execute, RegisteredIsServed, OpenIsRegistered, WaiterReachable,
              OnlyLateCallsWaitOnEnded
<1>9. ASSUME NEW c \in Conns, Receive(c) PROVE LinkInv'
  <2>1. \A q \in Calls : fut'[q] = "unset" => fut[q] = "unset"
    BY <1>9 DEF Receive, Typed, TypeOK
  <2> QED
    BY <1>9, <2>1 DEF Receive, RegisteredIsServed, OpenIsRegistered,
                      WaiterReachable, OnlyLateCallsWaitOnEnded
<1>10. ASSUME NEW r \in Calls, NEW how \in Settled, Return(r, how) PROVE LinkInv'
  BY <1>10 DEF Return, Settled, RegisteredIsServed, OpenIsRegistered,
               WaiterReachable, OnlyLateCallsWaitOnEnded, Typed, TypeOK, IssuedVia
<1>11. ASSUME NEW r \in Calls, Resume(r) \/ Expire(r) PROVE LinkInv'
  BY <1>11, <1>10 DEF Resume, Expire, Settled
<1>12. ASSUME UNCHANGED vars PROVE LinkInv'
  BY <1>12 DEF vars, RegisteredIsServed, OpenIsRegistered, WaiterReachable,
               OnlyLateCallsWaitOnEnded
<1> QED
  BY <1>1, <1>2, <1>3, <1>4, <1>5, <1>6, <1>7, <1>8, <1>9, <1>11, <1>12
  DEF Next, ServerStep, PeerStep, CallStep, Finished

(* At most one open connection per Companion, and it is the registered one;  *)
(* every registered connection has a handler that will unregister it; every  *)
(* caller on an unset future is in the table that an answer or close reads;  *)
(* and after the last close only later requests wait on the connection.      *)
THEOREM LinkSafe ==
  Spec => [](RegisteredIsServed /\ OpenIsRegistered
             /\ WaiterReachable /\ OnlyLateCallsWaitOnEnded)
<1>1. Init => Typed
  BY DEF Init, Typed, TypeOK, IssuedVia, Phases, Futures, Outcomes, Settled
<1> QED
  BY <1>1, StepTyped, InitLinkInv, StepLinkInv, PTL DEF Spec, LinkInv
-----------------------------------------------------------------------------
(* A request is in one place: waiting in a queue or on the wire of the       *)
(* connection it was issued on, once, and not run yet; or run once.          *)
Waiting(r, c) == outcome[r] # "idle" /\ via[r] = c /\ runs[r] = 0

Queued(c) ==
  /\ \A i \in DOMAIN outq[c] : Waiting(outq[c][i], c)
  /\ \A i \in DOMAIN wire[c] : Waiting(wire[c][i], c)
  /\ \A i, j \in DOMAIN outq[c] : i # j => outq[c][i] # outq[c][j]
  /\ \A i, j \in DOMAIN wire[c] : i # j => wire[c][i] # wire[c][j]
  /\ \A i \in DOMAIN outq[c], j \in DOMAIN wire[c] : outq[c][i] # wire[c][j]
  /\ \A i \in DOMAIN answers[c] : runs[answers[c][i]] = 1

RunsInv ==
  /\ \A c \in Conns : Queued(c)
  /\ \A r \in Calls : fut[r] = "answered" => runs[r] = 1
  /\ \A r \in Calls : outcome[r] = "idle" => runs[r] = 0

(* At first no request is anywhere and none has run.                         *)
LEMMA InitRunsInv == Init => RunsInv
BY DEF Init, RunsInv, Queued, Waiting

(* Steps that touch neither the queues nor the runs.                         *)
LEMMA QuietRuns ==
  ASSUME RunsInv, UNCHANGED <<wireVars, via, runs>>,
         \A r \in Calls : fut'[r] = "answered" => fut[r] = "answered",
         \A r \in Calls : outcome'[r] = "idle" <=> outcome[r] = "idle",
         Typed
  PROVE  RunsInv'
BY DEF RunsInv, Queued, Waiting, wireVars, Typed, TypeOK

(* The elements of a tail are those of the sequence, one place further.      *)
LEMMA TailElements ==
  ASSUME NEW s \in Seq(Calls), s # <<>>
  PROVE  /\ 1 \in DOMAIN s /\ Head(s) = s[1]
         /\ \A i \in DOMAIN Tail(s) :
              /\ i \in Nat /\ i + 1 \in DOMAIN s /\ i + 1 # 1
              /\ Tail(s)[i] = s[i + 1] /\ s[i + 1] \in Calls
<1>1. 1 \in DOMAIN s /\ Head(s) = s[1] /\ s \in [1..Len(s) -> Calls] /\ Len(s) \in Nat
  OBVIOUS
<1>2. DOMAIN Tail(s) = 1..(Len(s) - 1)
  OBVIOUS
<1>3. \A i \in 1..(Len(s) - 1) : Tail(s)[i] = s[i + 1]
  OBVIOUS
<1> QED
  BY <1>1, <1>2, <1>3

(* The elements of an extended sequence are the old ones and the new one.    *)
LEMMA AppendElements ==
  ASSUME NEW s \in Seq(Calls), NEW x \in Calls
  PROVE  \A i \in DOMAIN Append(s, x) :
           \/ i \in DOMAIN s /\ Append(s, x)[i] = s[i]
           \/ i \notin DOMAIN s /\ i = Len(s) + 1 /\ Append(s, x)[i] = x
OBVIOUS

(* Every step keeps a request in one place and runs it once.                 *)
LEMMA StepRunsInv == Typed /\ RunsInv /\ [Next]_vars => RunsInv'
<1> SUFFICES ASSUME Typed, RunsInv, [Next]_vars PROVE RunsInv'
  OBVIOUS
<1> USE DEF linkVars, wireVars, callVars
<1>1. ASSUME NEW c \in Conns,
             Accept(c) \/ Drain(c) \/ ConsumerEnds(c) \/ RpcDone(c) \/ Teardown(c)
      PROVE  RunsInv'
  <2>1. UNCHANGED <<wireVars, via, runs, outcome>>
    BY <1>1 DEF Accept, Drain, ConsumerEnds, RpcDone, Teardown
  <2>2. \A r \in Calls : fut'[r] = "answered" => fut[r] = "answered"
    BY <1>1 DEF Accept, Drain, ConsumerEnds, RpcDone, Teardown, Close, Typed, TypeOK
  <2> QED
    BY <2>1, <2>2, QuietRuns
<1>2. ASSUME CloseAll PROVE RunsInv'
  <2>1. \A r \in Calls : fut'[r] = "answered" => fut[r] = "answered"
    BY <1>2 DEF CloseAll, Close, Typed, TypeOK
  <2> QED
    BY <1>2, <2>1, QuietRuns DEF CloseAll
<1>3. ASSUME NEW r \in Calls, NEW how \in Settled, Return(r, how) PROVE RunsInv'
  BY <1>3, QuietRuns DEF Return, Settled, Typed, TypeOK
<1>4. ASSUME NEW r \in Calls, Resume(r) \/ Expire(r) PROVE RunsInv'
  BY <1>4, <1>3 DEF Resume, Expire, Settled
<1>5. ASSUME NEW c \in Conns, SendOut(c) PROVE RunsInv'
  <2>1. /\ outq[c] \in Seq(Calls) /\ outq[c] # <<>>
        /\ wire[c] \in Seq(Calls)
        /\ outq' = [outq EXCEPT ![c] = Tail(@)]
        /\ wire' = [wire EXCEPT ![c] = Append(@, Head(outq[c]))]
        /\ UNCHANGED <<answers, via, outcome, fut, runs>>
    BY <1>5 DEF SendOut, Typed, TypeOK
  <2>2. ASSUME NEW d \in Conns, d # c PROVE Queued(d)'
    <3>1. /\ outq'[d] = outq[d] /\ wire'[d] = wire[d]
          /\ UNCHANGED <<answers, via, outcome, runs>>
      BY <2>1, <2>2 DEF Typed, TypeOK
    <3>2. QED
      BY <3>1 DEF RunsInv, Queued, Waiting
  <2>3. Queued(c)'
    <3>1. /\ outq'[c] = Tail(outq[c])
          /\ wire'[c] = Append(wire[c], Head(outq[c]))
          /\ UNCHANGED <<answers, via, outcome, runs>>
      BY <2>1 DEF Typed, TypeOK
    <3>2. Queued(c) /\ Head(outq[c]) \in Calls
      BY <2>1 DEF RunsInv
    <3>3. /\ 1 \in DOMAIN outq[c] /\ Head(outq[c]) = outq[c][1]
          /\ \A i \in DOMAIN outq'[c] :
               /\ i + 1 \in DOMAIN outq[c] /\ i \in Nat /\ i + 1 # 1
               /\ outq'[c][i] = outq[c][i + 1]
      <4>1. outq[c] \in Seq(Calls) /\ outq[c] # <<>> /\ outq'[c] = Tail(outq[c])
        BY <2>1, <3>1
      <4> QED
        BY <4>1, TailElements, Zenon
    <3>4. \A i \in DOMAIN wire'[c] :
             \/ i \in DOMAIN wire[c] /\ wire'[c][i] = wire[c][i]
             \/ i = Len(wire[c]) + 1 /\ wire'[c][i] = outq[c][1]
      BY <2>1, <3>1, <3>2, <3>3, AppendElements
    <3>5. \A r : Waiting(r, c)' <=> Waiting(r, c)
      BY <3>1 DEF Waiting
    <3>6. /\ \A i \in DOMAIN outq'[c] : Waiting(outq'[c][i], c)
          /\ \A i \in DOMAIN wire'[c] : Waiting(wire'[c][i], c)
      BY <3>2, <3>3, <3>4 DEF Queued
    <3>7. \A i, j \in DOMAIN outq'[c] : i # j => outq'[c][i] # outq'[c][j]
      BY <3>2, <3>3 DEF Queued
    <3>8. \A i, j \in DOMAIN wire'[c] : i # j => wire'[c][i] # wire'[c][j]
      BY <3>2, <3>3, <3>4 DEF Queued
    <3>9. \A i \in DOMAIN outq'[c], j \in DOMAIN wire'[c] : outq'[c][i] # wire'[c][j]
      BY <3>2, <3>3, <3>4 DEF Queued
    <3> QED
      BY <3>1, <3>2, <3>5, <3>6, <3>7, <3>8, <3>9 DEF Queued
  <2> QED
    BY <2>1, <2>2, <2>3 DEF RunsInv
<1>6. ASSUME NEW r \in Calls, NEW c \in Conns, Issue(r, c) PROVE RunsInv'
  <2>1. /\ outcome[r] = "idle" /\ runs[r] = 0
        /\ outq[c] \in Seq(Calls)
        /\ outq' = [outq EXCEPT ![c] = Append(@, r)]
        /\ outcome' = [outcome EXCEPT ![r] = "waiting"]
        /\ via' = [via EXCEPT ![r] = c]
        /\ fut' = [fut EXCEPT ![r] = "unset"]
        /\ UNCHANGED <<wire, answers, runs>>
    BY <1>6 DEF Issue, RunsInv, Typed, TypeOK
  <2>2. ASSUME NEW d \in Conns, d # c PROVE Queued(d)'
    BY <2>1, <2>2 DEF RunsInv, Queued, Waiting, Typed, TypeOK
  <2>3. Queued(c)'
    <3>1. /\ outq'[c] = Append(outq[c], r)
          /\ UNCHANGED <<wire, answers, runs>>
      BY <2>1 DEF Typed, TypeOK
    <3>2. \A i \in DOMAIN outq'[c] :
            \/ i \in DOMAIN outq[c] /\ outq'[c][i] = outq[c][i]
            \/ i = Len(outq[c]) + 1 /\ outq'[c][i] = r
      BY <2>1, <3>1, AppendElements
    <3>3. \A q \in Calls : Waiting(q, c) => q # r /\ Waiting(q, c)'
      BY <2>1 DEF Waiting, Typed, TypeOK
    <3>4. Waiting(r, c)'
      BY <2>1 DEF Waiting, Typed, TypeOK
    <3>5. /\ \A i \in DOMAIN outq[c] : outq[c][i] \in Calls
          /\ \A i \in DOMAIN wire[c] : wire[c][i] \in Calls
      BY DEF Typed, TypeOK
    <3>6. QED
      BY <3>1, <3>2, <3>3, <3>4, <3>5 DEF RunsInv, Queued
  <2> QED
    BY <2>1, <2>2, <2>3 DEF RunsInv, Typed, TypeOK
<1>7. ASSUME NEW c \in Conns, Execute(c) PROVE RunsInv'
  <2> DEFINE r == Head(wire[c])
  <2>1. /\ wire[c] \in Seq(Calls) /\ wire[c] # <<>> /\ r \in Calls
        /\ r = wire[c][1] /\ Waiting(r, c)
        /\ answers[c] \in Seq(Calls)
        /\ wire' = [wire EXCEPT ![c] = Tail(@)]
        /\ answers' = [answers EXCEPT ![c] = Append(@, r)]
        /\ runs' = [runs EXCEPT ![r] = @ + 1]
        /\ UNCHANGED <<outq, via, outcome, fut>>
    BY <1>7 DEF Execute, RunsInv, Queued, Typed, TypeOK
  <2> HIDE DEF r
  <2>2. ASSUME NEW d \in Conns, d # c PROVE Queued(d)'
    BY <2>1, <2>2 DEF RunsInv, Queued, Waiting, Typed, TypeOK
  <2>3. Queued(c)'
    <3>1. /\ wire'[c] = Tail(wire[c])
          /\ answers'[c] = Append(answers[c], r)
          /\ \A q \in Calls : runs'[q] = IF q = r THEN 1 ELSE runs[q]
          /\ UNCHANGED <<outq, via, outcome>>
      BY <2>1 DEF Waiting, Typed, TypeOK
    <3>2. Queued(c)
      BY DEF RunsInv
    <3>3. \A i \in DOMAIN wire'[c] :
             /\ i + 1 \in DOMAIN wire[c] /\ i \in Nat /\ i + 1 # 1
             /\ wire'[c][i] = wire[c][i + 1] /\ wire[c][i + 1] \in Calls
      <4>1. wire[c] \in Seq(Calls) /\ wire[c] # <<>> /\ wire'[c] = Tail(wire[c])
        BY <2>1, <3>1
      <4> QED
        BY <4>1, TailElements, Zenon
    <3>4. \A i \in DOMAIN answers'[c] :
             \/ /\ i \in DOMAIN answers[c] /\ answers'[c][i] = answers[c][i]
                /\ answers[c][i] \in Calls
             \/ answers'[c][i] = r
      BY <2>1, <3>1, AppendElements
    <3>5. 1 \in DOMAIN wire[c]
      BY <2>1, TailElements
    <3>6. \A i \in DOMAIN outq[c] : outq[c][i] \in Calls /\ outq[c][i] # r
      BY <2>1, <3>2, <3>5 DEF Queued, Typed, TypeOK
    <3>7. \A i \in DOMAIN outq'[c] : Waiting(outq[c][i], c)'
      BY <3>1, <3>2, <3>6 DEF Queued, Waiting
    <3>8. \A i \in DOMAIN wire'[c] : Waiting(wire[c][i], c)'
      <4> SUFFICES ASSUME NEW i \in DOMAIN wire'[c] PROVE Waiting(wire[c][i], c)'
        OBVIOUS
      <4>1. /\ wire'[c][i] = wire[c][i + 1] /\ wire[c][i + 1] \in Calls
            /\ wire[c][i + 1] # r /\ Waiting(wire[c][i + 1], c)
        BY <2>1, <3>2, <3>3, <3>5 DEF Queued
      <4> QED
        BY <3>1, <4>1 DEF Waiting
    <3>9. \A i, j \in DOMAIN wire'[c] : i # j => wire'[c][i] # wire'[c][j]
      BY <3>2, <3>3 DEF Queued
    <3>10. \A i \in DOMAIN outq'[c], j \in DOMAIN wire'[c] : outq'[c][i] # wire'[c][j]
      BY <3>1, <3>2, <3>3 DEF Queued
    <3>11. \A i \in DOMAIN answers'[c] : runs'[answers'[c][i]] = 1
      BY <2>1, <3>1, <3>2, <3>4 DEF Queued
    <3> QED
      BY <3>1, <3>2, <3>7, <3>8, <3>9, <3>10, <3>11 DEF Queued
  <2>4. \A q \in Calls : /\ fut'[q] = "answered" => runs'[q] = 1
                         /\ outcome'[q] = "idle" => runs'[q] = 0
    BY <2>1 DEF RunsInv, Waiting, Typed, TypeOK
  <2> QED
    BY <2>2, <2>3, <2>4 DEF RunsInv
<1>8. ASSUME NEW c \in Conns, Receive(c) PROVE RunsInv'
  <2> DEFINE r == Head(answers[c])
  <2>1. /\ answers[c] \in Seq(Calls) /\ answers[c] # <<>> /\ r \in Calls
        /\ r = answers[c][1] /\ runs[r] = 1
        /\ answers' = [answers EXCEPT ![c] = Tail(@)]
        /\ fut' = fut \/ fut' = [fut EXCEPT ![r] = "answered"]
        /\ UNCHANGED <<outq, wire, via, outcome, runs>>
    BY <1>8 DEF Receive, RunsInv, Queued, Typed, TypeOK
  <2> HIDE DEF r
  <2>2. ASSUME NEW d \in Conns PROVE Queued(d)'
    <3>1. Queued(d) /\ UNCHANGED <<outq, wire, via, outcome, runs>>
      BY <2>1 DEF RunsInv
    <3>2. \A i \in DOMAIN answers'[d] : runs[answers'[d][i]] = 1
      <4>1. CASE d = c
        BY <4>1, <2>1, <3>1, TailElements DEF Queued, Typed, TypeOK
      <4>2. CASE d # c
        BY <4>2, <2>1, <3>1 DEF Queued, Typed, TypeOK
      <4> QED
        BY <4>1, <4>2
    <3> QED
      BY <3>1, <3>2 DEF Queued, Waiting
  <2> QED
    BY <2>1, <2>2 DEF RunsInv, Typed, TypeOK
<1>9. ASSUME UNCHANGED vars PROVE RunsInv'
  BY <1>9, QuietRuns DEF vars
<1> QED
  BY <1>1, <1>2, <1>4, <1>5, <1>6, <1>7, <1>8, <1>9
  DEF Next, ServerStep, PeerStep, CallStep, Finished

(* A step of the connection is a step of AtMostOnceCall or a stutter.        *)
LEMMA StepSimulates ==
  Typed /\ RunsInv /\ [Next]_vars => [Call!ANext]_(Call!avars)
<1> SUFFICES ASSUME Typed, RunsInv, [Next]_vars
             PROVE  Call!ANext \/ UNCHANGED <<outcome, runs>>
  BY DEF Call!avars
<1> USE DEF linkVars, wireVars, callVars
<1>1. ASSUME NEW c \in Conns,
             \/ Accept(c) \/ Drain(c) \/ ConsumerEnds(c) \/ RpcDone(c)
             \/ Teardown(c) \/ SendOut(c) \/ Receive(c)
      PROVE  UNCHANGED <<outcome, runs>>
  BY <1>1 DEF Accept, Drain, ConsumerEnds, RpcDone, Teardown, SendOut, Receive
<1>2. ASSUME CloseAll \/ UNCHANGED vars PROVE UNCHANGED <<outcome, runs>>
  BY <1>2 DEF CloseAll, vars
<1>3. ASSUME NEW r \in Calls, NEW c \in Conns, Issue(r, c) PROVE Call!Begin(r)
  BY <1>3 DEF Issue, Call!Begin
<1>4. ASSUME NEW c \in Conns, Execute(c) PROVE \E r \in Calls : Call!Run(r)
  <2>1. Head(wire[c]) \in Calls /\ Waiting(Head(wire[c]), c)
    BY <1>4 DEF Execute, RunsInv, Queued, Typed, TypeOK
  <2>2. Call!Run(Head(wire[c]))
    BY <1>4, <2>1 DEF Execute, Waiting, Call!Run
  <2> QED
    BY <2>1, <2>2
<1>5. ASSUME NEW r \in Calls, Resume(r) \/ Expire(r)
      PROVE  \E how \in Call!Settled : Call!Settle(r, how)
  BY <1>5 DEF Resume, Expire, Return, RunsInv, Call!Settle, Call!Settled
<1> QED
  BY <1>1, <1>2, <1>3, <1>4, <1>5
  DEF Next, ServerStep, PeerStep, CallStep, Finished, Call!ANext

(* Over reconnects, closes, timeouts and late answers a command runs at most *)
(* once, and is reported answered only after it ran.                         *)
THEOREM LinkImplementsAtMostOnceCall == Spec => ImplementsAtMostOnceCall
<1>1. Init => Typed
  BY DEF Init, Typed, TypeOK, IssuedVia, Phases, Futures, Outcomes, Settled
<1>2. Init => Call!AInit
  BY DEF Init, Call!AInit
<1> QED
  BY <1>1, <1>2, StepTyped, InitRunsInv, StepRunsInv, StepSimulates, PTL
  DEF Spec, ImplementsAtMostOnceCall, Call!ASpec

-----------------------------------------------------------------------------
(***************************************************************************)
(* CompanionPairing.                                                        *)
(***************************************************************************)

\* a process has written what it knows, and a device has device ids of its own
FilesAreWritten ==
  \A d \in Devices :
    /\ Up(d) => file[d] = Saved(mem[d])
    /\ file[d] = NoFile \/ file[d].ident \in {d} \X (1..idents[d])

\* a row is of a device id that was made up
RowsAreOfIdents ==
  \A i \in Rows : row[i] # None => row[i].dev[2] <= idents[row[i].dev[1]]

\* who is linked runs, and what is on its way is on its way to somebody linked
LinksAreUp ==
  /\ \A d \in Devices : link[d] # None =>
       Up(d) /\ conn[link[d]].dev = d /\ conn[link[d]].state # "unused"
  /\ \A i \in Rows : reg[i] # None => conn[reg[i]].state # "unused"
  /\ \A c \in Streams : conn[c].state # "unused" => conn[c].dev \in Devices
  /\ \A c \in Streams : outbox[c] # <<>> =>
       \E d \in Devices : conn[c].dev = d /\ link[d] = c

\* the connection of a row under deletion is closed, or came afterwards
DeletedIsClosed ==
  \A i \in deleting : reg[i] # None /\ conn[reg[i]].state = "up" => reg[i] \in strays

Sent(c, j) == \E k \in 1..Len(outbox[c]) : outbox[c][k] = j

\* a request is sent once
SentOnce ==
  \A c \in Streams : \A k, m \in 1..Len(outbox[c]) :
    outbox[c][k] = outbox[c][m] /\ outbox[c][k] \in Jobs => k = m

Waits(j) == job[j].pc \in {"waiting", "answered"}

\* a request that was sent knows where, and an answer has its token
RequestsKnow ==
  \A j \in Jobs :
    /\ Waits(j) => job[j].row \in Rows /\ job[j].via \in Streams
    /\ \A c \in Streams : Sent(c, j) =>
         job[j].pc # "idle" /\ job[j].via = c /\ job[j].reply = "none"
    /\ job[j].pc = "answered" => job[j].reply = "token"
    /\ Opened(j) => job[j].token # None

\* a request of a row that is still there will bring the token of its device,
\* or has brought it
OwnTokens ==
  \A j \in Jobs : Waits(j) /\ job[j].own =>
    /\ row[job[j].row] # None
    /\ \A d \in Devices : Sent(job[j].via, j) /\ conn[job[j].via].dev = d =>
         mem[d].ident = row[job[j].row].dev
    /\ \A d \in Devices : Opened(j) /\ file[d].ident = row[job[j].row].dev =>
         file[d].token = job[j].token

\* EndsAgree, by the state files
FilesAgree ==
  \A i \in Rows \ crossed, d \in Devices :
    row[i] # None /\ row[i].token # None /\ row[i].dev = file[d].ident =>
      file[d].token = row[i].token

\* a code that opened is not the device's current one
CodesAreUsed ==
  \A j \in Jobs : Opened(j) =>
    \E d \in Devices, n \in Nat : job[j].typed = <<d, n>> /\ n < codes[d]

PairingInv ==
  /\ PairingTypeOK /\ FilesAreWritten /\ RowsAreOfIdents /\ LinksAreUp /\ DeletedIsClosed
  /\ SentOnce /\ RequestsKnow /\ OwnTokens /\ FilesAgree /\ CodesAreUsed
  /\ RegisteredHasItsRow /\ CodeOpensOnce

-----------------------------------------------------------------------------
(* A part of the invariant is kept by a step that leaves alone what it is    *)
(* about.                                                                    *)
LEMMA PairingFrame ==
  ASSUME PairingInv
  PROVE  /\ UNCHANGED <<mem, file, idents>> => FilesAreWritten'
         /\ UNCHANGED <<row, idents>> => RowsAreOfIdents'
         /\ UNCHANGED <<mem, link, conn, reg, outbox>> => LinksAreUp'
         /\ UNCHANGED <<reg, conn, deleting, strays>> => DeletedIsClosed'
         /\ UNCHANGED outbox => SentOnce'
         /\ UNCHANGED <<job, outbox>> => RequestsKnow'
         /\ UNCHANGED <<job, row, outbox, conn, mem, file>> => OwnTokens'
         /\ UNCHANGED <<row, file, crossed>> => FilesAgree'
         /\ UNCHANGED <<job, codes>> => CodesAreUsed'
         /\ UNCHANGED job => CodeOpensOnce'
         /\ UNCHANGED <<reg, mem, link, strays, conn, row>> => RegisteredHasItsRow'
<1> USE DEF PairingInv
<1>1. UNCHANGED <<mem, file, idents>> => FilesAreWritten'
  BY DEF FilesAreWritten, Up
<1>2. UNCHANGED <<row, idents>> => RowsAreOfIdents'
  BY DEF RowsAreOfIdents
<1>3. UNCHANGED <<mem, link, conn, reg, outbox>> => LinksAreUp'
  BY DEF LinksAreUp, Up
<1>4. UNCHANGED <<reg, conn, deleting, strays>> => DeletedIsClosed'
  BY DEF DeletedIsClosed
<1>5. UNCHANGED <<job, outbox>> => RequestsKnow'
  BY DEF RequestsKnow, Waits, Sent, Opened
<1>6. UNCHANGED <<job, row, outbox, conn, mem, file>> => OwnTokens'
  BY DEF OwnTokens, Waits, Sent, Opened
<1>7. UNCHANGED <<row, file, crossed>> => FilesAgree'
  BY DEF FilesAgree
<1>8. UNCHANGED <<job, codes>> => CodesAreUsed'
  BY DEF CodesAreUsed, Opened
<1>9. UNCHANGED <<reg, mem, link, strays, conn, row>> => RegisteredHasItsRow'
  BY DEF RegisteredHasItsRow, Up
<1>10. UNCHANGED outbox => SentOnce'
  BY DEF SentOnce
<1>11. UNCHANGED job => CodeOpensOnce'
  BY DEF CodeOpensOnce, Opened
<1>12. QED
  BY <1>1, <1>2, <1>3, <1>4, <1>5, <1>6, <1>7, <1>8, <1>9, <1>10, <1>11

-----------------------------------------------------------------------------
(* What is on its way.                                                       *)

LEMMA SentNotEmpty ==
  ASSUME NEW c, NEW j, Sent(c, j)
  PROVE  outbox[c] # <<>>
<1>1. ASSUME outbox[c] = <<>> PROVE FALSE
  <2>1. Len(outbox[c]) = 0
    BY <1>1
  <2>2. QED
    BY <2>1 DEF Sent
<1>2. QED
  BY <1>1

(* A stream that ends takes with it what its Companion had not handled.      *)
LEMMA UnlinkDoes ==
  ASSUME PairingTypeOK, SentOnce, NEW d \in Devices, Unlink(d)
  PROVE  /\ link' \in [Devices -> Streams \union {None}]
         /\ outbox' \in [Streams -> Seq({"code"} \union Jobs)]
         /\ link'[d] = None /\ \A e \in Devices \ {d} : link'[e] = link[e]
         /\ \A c \in Streams : outbox'[c] = IF c = link[d] THEN <<>> ELSE outbox[c]
         /\ \A c \in Streams, j \in Jobs : Sent(c, j)' => Sent(c, j)
         /\ SentOnce'
<1>1. /\ link' \in [Devices -> Streams \union {None}]
      /\ link'[d] = None /\ \A e \in Devices \ {d} : link'[e] = link[e]
  BY DEF PairingTypeOK, Unlink
<1>2. \A c \in Streams : outbox'[c] = IF c = link[d] THEN <<>> ELSE outbox[c]
  BY DEF Unlink
<1>3. outbox' \in [Streams -> Seq({"code"} \union Jobs)]
  BY DEF PairingTypeOK, Unlink
<1>4. \A c \in Streams, j \in Jobs : Sent(c, j)' => Sent(c, j)
  BY <1>2 DEF Sent
<1>5. SentOnce'
  BY <1>2 DEF SentOnce
<1>6. QED
  BY <1>1, <1>2, <1>3, <1>4, <1>5

(* A Companion takes the first of what was sent to it.                       *)
LEMMA HandledDoes ==
  ASSUME PairingTypeOK, SentOnce, NEW d \in Devices, NEW c \in Streams, Handles(d, c), Handled(c)
  PROVE  /\ outbox' \in [Streams -> Seq({"code"} \union Jobs)]
         /\ \A x \in Streams : outbox'[x] # <<>> => outbox[x] # <<>>
         /\ \A x \in Streams, j \in Jobs : Sent(x, j)' => Sent(x, j)
         /\ Head(outbox[c]) \in {"code"} \union Jobs
         /\ Sent(c, Head(outbox[c]))
         /\ \A j \in Jobs : j = Head(outbox[c]) => ~Sent(c, j)'
         /\ SentOnce'
<1> DEFINE q == outbox[c]
<1>1. q \in Seq({"code"} \union Jobs) /\ q # <<>> /\ outbox' = [outbox EXCEPT ![c] = Tail(q)]
  BY DEF PairingTypeOK, Handles, Handled
<1>2. /\ Head(q) \in {"code"} \union Jobs /\ Tail(q) \in Seq({"code"} \union Jobs)
      /\ Len(Tail(q)) = Len(q) - 1 /\ Len(q) \in Nat /\ Len(q) # 0
      /\ \A k \in 1..Len(Tail(q)) : Tail(q)[k] = q[k + 1]
  BY <1>1, HeadTailProperties, EmptySeq
<1>3. Head(q) = q[1]
  BY <1>1
<1>4. /\ outbox' \in [Streams -> Seq({"code"} \union Jobs)]
      /\ outbox'[c] = Tail(q) /\ \A x \in Streams \ {c} : outbox'[x] = outbox[x]
  BY <1>1, <1>2 DEF PairingTypeOK
<1>5. ASSUME NEW x \in Streams, NEW j \in Jobs, Sent(x, j)' PROVE Sent(x, j)
  <2>1. CASE x = c
    <3>1. PICK k \in 1..Len(Tail(q)) : Tail(q)[k] = j
      BY <1>4, <1>5, <2>1 DEF Sent
    <3>2. k + 1 \in 1..Len(q) /\ q[k + 1] = j
      BY <1>2, <3>1
    <3>3. QED
      BY <2>1, <3>2 DEF Sent
  <2>2. CASE x # c
    BY <1>4, <1>5, <2>2 DEF Sent
  <2>3. QED
    BY <2>1, <2>2
<1>6. Sent(c, Head(q))
  <2>1. 1 \in 1..Len(q)
    BY <1>2
  <2>2. QED
    BY <1>3, <2>1 DEF Sent
<1>7. \A x \in Streams : outbox'[x] # <<>> => outbox[x] # <<>>
  BY <1>1, <1>4
<1>8. SentOnce'
  <2>1. ASSUME NEW k \in 1..Len(Tail(q)), NEW m \in 1..Len(Tail(q)),
               Tail(q)[k] = Tail(q)[m], Tail(q)[k] \in Jobs
        PROVE  k = m
    <3>1. k + 1 \in 1..Len(q) /\ m + 1 \in 1..Len(q) /\ q[k + 1] = q[m + 1] /\ q[k + 1] \in Jobs
      BY <1>2, <2>1
    <3>2. k + 1 = m + 1
      BY <3>1 DEF SentOnce
    <3>3. QED
      BY <3>2
  <2>2. QED
    BY <1>4, <2>1 DEF SentOnce
<1>9. ASSUME NEW j \in Jobs, j = Head(q), Sent(c, j)' PROVE FALSE
  <2>1. PICK k \in 1..Len(Tail(q)) : Tail(q)[k] = j
    BY <1>4, <1>9 DEF Sent
  <2>2. 1 \in 1..Len(q) /\ k + 1 \in 1..Len(q) /\ q[k + 1] = q[1] /\ q[1] \in Jobs
    BY <1>2, <1>3, <1>9, <2>1
  <2>3. k + 1 = 1
    BY <2>2 DEF SentOnce
  <2>4. QED
    BY <2>1, <2>3
<1>10. QED
  BY <1>2, <1>4, <1>5, <1>6, <1>7, <1>8, <1>9

(* What is sent arrives last, if the other end is still there.               *)
LEMMA SendDoes ==
  ASSUME PairingTypeOK, SentOnce, NEW i \in Rows, reg[i] # None, NEW what \in {"code"} \union Jobs,
         Send(i, what)
  PROVE  /\ outbox' \in [Streams -> Seq({"code"} \union Jobs)]
         /\ \A x \in Streams : outbox'[x] # <<>> =>
              \/ outbox[x] # <<>>
              \/ x = reg[i] /\ conn[x].state = "up" /\ link[conn[x].dev] = x
         /\ \A x \in Streams, j \in Jobs : Sent(x, j)' =>
              \/ Sent(x, j)
              \/ j = what /\ x = reg[i] /\ conn[x].state = "up" /\ link[conn[x].dev] = x
         /\ (what \in Jobs => ~Sent(reg[i], what)) => SentOnce'
<1> DEFINE c == reg[i]
<1>1. c \in Streams /\ outbox[c] \in Seq({"code"} \union Jobs)
  BY DEF PairingTypeOK
<1>2. CASE outbox' = outbox
  BY <1>2 DEF PairingTypeOK, Sent, SentOnce
<1>3. CASE /\ conn[c].state = "up" /\ link[conn[c].dev] = c
           /\ outbox' = [outbox EXCEPT ![c] = Append(outbox[c], what)]
  <2> DEFINE q == outbox[c]
             p == Append(q, what)
  <2>1. /\ p \in Seq({"code"} \union Jobs) /\ Len(p) = Len(q) + 1
        /\ \A k \in 1..Len(q) : p[k] = q[k]
        /\ p[Len(q) + 1] = what /\ Len(q) \in Nat
    BY <1>1, AppendProperties, LenProperties
  <2>2. outbox'[c] = p /\ \A x \in Streams \ {c} : outbox'[x] = outbox[x]
    BY <1>1, <1>3 DEF PairingTypeOK
  <2>3. outbox' \in [Streams -> Seq({"code"} \union Jobs)]
    BY <1>3, <2>1 DEF PairingTypeOK
  <2>4. ASSUME NEW x \in Streams, NEW j \in Jobs, Sent(x, j)'
        PROVE  Sent(x, j) \/ (j = what /\ x = c)
    <3>1. CASE x = c
      <4>1. PICK k \in 1..Len(p) : p[k] = j
        BY <2>2, <2>4, <3>1 DEF Sent
      <4>2. k \in 1..Len(q) \/ k = Len(q) + 1
        BY <2>1, <4>1
      <4>3. QED
        BY <2>1, <3>1, <4>1, <4>2 DEF Sent
    <3>2. CASE x # c
      BY <2>2, <2>4, <3>2 DEF Sent
    <3>3. QED
      BY <3>1, <3>2
  <2>5. ASSUME what \in Jobs => ~Sent(c, what) PROVE SentOnce'
    <3>1. ASSUME NEW k \in 1..Len(p), NEW m \in 1..Len(p), p[k] = p[m], p[k] \in Jobs
          PROVE  k = m
      <4>1. k \in 1..Len(q) \/ k = Len(q) + 1
        BY <2>1
      <4>2. m \in 1..Len(q) \/ m = Len(q) + 1
        BY <2>1
      <4>3. \A n \in 1..Len(q) : q[n] = what => what \notin Jobs
        BY <2>5 DEF Sent
      <4>4. CASE k \in 1..Len(q) /\ m \in 1..Len(q)
        <5>1. q[k] = q[m] /\ q[k] \in Jobs
          BY <2>1, <3>1, <4>4
        <5>2. QED
          BY <1>1, <4>4, <5>1 DEF SentOnce
      <4>5. CASE k \in 1..Len(q) /\ m = Len(q) + 1
        BY <2>1, <3>1, <4>3, <4>5
      <4>6. CASE k = Len(q) + 1 /\ m \in 1..Len(q)
        BY <2>1, <3>1, <4>3, <4>6
      <4>7. QED
        BY <4>1, <4>2, <4>4, <4>5, <4>6
    <3>2. QED
      BY <2>2, <3>1 DEF SentOnce
  <2>6. QED
    BY <1>3, <2>2, <2>3, <2>4, <2>5
<1>4. QED
  BY <1>2, <1>3 DEF Send

-----------------------------------------------------------------------------
(* The row that a device gets is its own, or one that nobody has: the ids    *)
(* below SQLite's next one are those up to the highest row.                  *)
LEMMA AssignedRow ==
  ASSUME PairingTypeOK, NEW d \in Devices, Assigned(d) \in Rows
  PROVE  LET i == Assigned(d) IN row[i] # None => row[i].dev = mem[d].ident
<1> DEFINE i == Assigned(d)
           U == {x \in Rows : \E k \in Rows : k >= x /\ row[k] # None}
<1>1. CASE RowOf(mem[d].ident) # {}
  BY <1>1 DEF Assigned, RowOf
<1>2. CASE RowOf(mem[d].ident) = {}
  <2>1. i = 1 + Cardinality(U)
    BY <1>2 DEF Assigned, NextRow
  <2>2. IsFiniteSet(Rows) /\ \E n \in Nat : Rows = 1..n
    BY FS_CardinalityType, PairingAssumption
  <2>3. IsFiniteSet(U) /\ Cardinality(U) \in Nat
    BY <2>2, FS_Subset, FS_CardinalityType
  <2>4. ASSUME row[i] # None PROVE FALSE
    <3> i \in Rows
      OBVIOUS
    <3> HIDE DEF i, U
    <3>0. PICK n \in Nat : Rows = 1..n
      BY <2>2
    <3>1. i \in Nat /\ 1..i \subseteq Rows
      BY <3>0
    <3> USE DEF U
    <3>2. 1..i \subseteq U
      <4>1. \A x \in 1..i : i >= x /\ x \in Rows
        BY <3>1
      <4>2. i \in Rows
        OBVIOUS
      <4>3. QED
        BY <2>4, <4>1, <4>2
    <3>3. Cardinality(1..i) = i
      BY <3>1, FS_Interval
    <3>4. Cardinality(1..i) <= Cardinality(U)
      BY <3>2, <2>3, FS_Subset
    <3>5. QED
      BY <2>1, <2>3, <3>3, <3>4
  <2>5. QED
    BY <2>4
<1>3. QED
  BY <1>1, <1>2

-----------------------------------------------------------------------------
(* Requests that only move on: they fail, are answered or are done.          *)
MovesOn(j) ==
  /\ \A x \in {job[j].pc} : \/ job'[j].pc = x
                            \/ job'[j].pc \in {"failed", "paired"}
                            \/ x = "waiting" /\ job[j].reply = "token" /\ job'[j].pc = "answered"
  /\ job'[j].row = job[j].row /\ job'[j].via = job[j].via
  /\ job'[j].typed = job[j].typed
  /\ job'[j].reply = job[j].reply /\ job'[j].token = job[j].token
  /\ job'[j].own => job[j].own

LEMMA JobsMoveOn ==
  ASSUME PairingInv, PairingTypeOK', \A j \in Jobs : MovesOn(j)
  PROVE  /\ UNCHANGED outbox => RequestsKnow'
         /\ UNCHANGED codes => CodesAreUsed'
         /\ CodeOpensOnce'
<1> USE DEF PairingInv
<1>1. ASSUME UNCHANGED outbox PROVE RequestsKnow'
  <2>1. SUFFICES ASSUME NEW j \in Jobs
                 PROVE  /\ Waits(j)' => job'[j].row \in Rows /\ job'[j].via \in Streams
                        /\ \A c \in Streams : Sent(c, j)' =>
                             job'[j].pc # "idle" /\ job'[j].via = c /\ job'[j].reply = "none"
                        /\ job'[j].pc = "answered" => job'[j].reply = "token"
                        /\ Opened(j)' => job'[j].token # None
    BY DEF RequestsKnow
  <2>2. MovesOn(j)
    OBVIOUS
  <2>3. Waits(j)' => Waits(j)
    BY <2>2 DEF MovesOn, Waits
  <2>4. \A c \in Streams : Sent(c, j)' => Sent(c, j)
    BY <1>1 DEF Sent
  <2>5. Opened(j)' => Opened(j)
    BY <2>2 DEF MovesOn, Opened
  <2>6. \A c \in Streams : Sent(c, j)' =>
          job'[j].pc # "idle" /\ job'[j].via = c /\ job'[j].reply = "none"
    BY <2>2, <2>4 DEF RequestsKnow, MovesOn
  <2>7. job'[j].pc = "answered" => job'[j].reply = "token"
    BY <2>2 DEF RequestsKnow, MovesOn
  <2>8. Waits(j)' => job'[j].row \in Rows /\ job'[j].via \in Streams
    BY <2>2, <2>3 DEF RequestsKnow, MovesOn
  <2>9. Opened(j)' => job'[j].token # None
    BY <2>2, <2>5 DEF RequestsKnow, MovesOn
  <2>10. QED
    BY <2>6, <2>7, <2>8, <2>9
<1>2. UNCHANGED codes => CodesAreUsed'
  BY DEF CodesAreUsed, MovesOn, Opened
<1>3. CodeOpensOnce'
  BY DEF CodeOpensOnce, MovesOn, Opened
<1>4. QED
  BY <1>1, <1>2, <1>3

(* What their answers bring stays right while the rows keep their devices,   *)
(* the streams theirs, the linked devices their ids and the state files of   *)
(* known device ids their tokens.                                            *)
LEMMA OwnTokensKept ==
  ASSUME PairingInv, \A j \in Jobs : MovesOn(j),
         \A c \in Streams, j \in Jobs : Sent(c, j)' => Sent(c, j),
         \A j \in Jobs : Waits(j)' /\ job'[j].own /\ row[job[j].row] # None =>
           row'[job[j].row] # None /\ row'[job[j].row].dev = row[job[j].row].dev,
         \A c \in Streams : conn[c].state # "unused" => conn'[c].dev = conn[c].dev,
         \A d \in Devices : link[d] # None => mem'[d].ident = mem[d].ident,
         \A d \in Devices, i \in Rows :
           row[i] # None /\ file'[d].ident = row[i].dev => file'[d] = file[d]
  PROVE  OwnTokens'
<1>1. SUFFICES ASSUME NEW j \in Jobs, Waits(j)', job'[j].own
               PROVE  /\ row'[job'[j].row] # None
                      /\ \A d \in Devices : Sent(job[j].via, j)' /\ conn'[job'[j].via].dev = d =>
                           mem'[d].ident = row'[job'[j].row].dev
                      /\ \A d \in Devices : Opened(j)' /\ file'[d].ident = row'[job'[j].row].dev =>
                           file'[d].token = job'[j].token
  BY DEF OwnTokens, Sent, MovesOn
<1>2. /\ job'[j].row = job[j].row /\ job'[j].via = job[j].via /\ job'[j].token = job[j].token
      /\ Opened(j)' => Opened(j)
      /\ Waits(j) /\ job[j].own
  BY <1>1 DEF MovesOn, Waits, Opened
<1>a. PICK i \in Rows, c \in Streams : job[j].row = i /\ job[j].via = c
  BY <1>2 DEF PairingInv, RequestsKnow
<1>3. row[i] # None
  BY <1>2, <1>a DEF PairingInv, OwnTokens
<1>4. row'[i] # None /\ row'[i].dev = row[i].dev
  BY <1>1, <1>3, <1>a
<1>5. ASSUME NEW d \in Devices, Sent(c, j)', conn'[c].dev = d
      PROVE  mem'[d].ident = row[i].dev
  <2>1. Sent(c, j) /\ outbox[c] # <<>>
    BY <1>5, SentNotEmpty
  <2>2. \E e \in Devices : conn[c].dev = e /\ link[e] = c
    BY <1>3, <2>1 DEF PairingInv, LinksAreUp
  <2>3. PICK e \in Devices : conn[c].dev = e /\ link[e] = c
    BY <2>2
  <2>4. link[e] # None
    BY <1>3, <2>3, PairingAssumption
  <2>5. conn[c].state # "unused"
    BY <2>3, <2>4 DEF PairingInv, LinksAreUp
  <2>6. e = d /\ mem'[d].ident = mem[d].ident
    BY <1>3, <1>5, <2>3, <2>4, <2>5
  <2>7. QED
    BY <1>2, <1>a, <2>1, <2>3, <2>6 DEF PairingInv, OwnTokens
<1>6. ASSUME NEW d \in Devices, Opened(j), file'[d].ident = row[i].dev
      PROVE  file'[d].token = job[j].token
  <2>1. file'[d] = file[d]
    BY <1>3, <1>6
  <2>2. QED
    BY <1>2, <1>a, <1>6, <2>1 DEF PairingInv, OwnTokens
<1>7. QED
  BY <1>2, <1>a, <1>4, <1>5, <1>6

-----------------------------------------------------------------------------
(* The steps of the Companion.                                               *)

(* A step that leaves the requests alone.                                    *)
LEMMA JobsStay ==
  ASSUME PairingInv, UNCHANGED job
  PROVE  \A j \in Jobs : MovesOn(j)
BY DEF MovesOn

(* A process that starts has the device id of its file, or one that no row   *)
(* has.                                                                      *)
LEMMA PairingStart ==
  ASSUME PairingInv, NEW d \in Devices, Start(d)
  PROVE  PairingInv'
<1> USE DEF PairingInv
<1> DEFINE new == file[d].ident = None
           m == [ident |-> IF new THEN <<d, idents[d] + 1>> ELSE file[d].ident,
                 token |-> file[d].token, fresh |-> FALSE]
<1>1. /\ ~Up(d) /\ mem' = [mem EXCEPT ![d] = m] /\ file' = [file EXCEPT ![d] = Saved(m)]
      /\ idents' = [idents EXCEPT ![d] = IF new THEN idents[d] + 1 ELSE idents[d]]
      /\ new => idents[d] < MaxIdents
      /\ UNCHANGED <<tokens, codes, link, serverVars, conn, outbox, job, history>>
  BY DEF Start, Persist
<1>2. /\ idents[d] \in Nat /\ idents[d] <= MaxIdents /\ MaxIdents \in Nat
      /\ file[d].ident \in Idents \union {None} /\ file[d].token \in Tokens \union {None}
  BY PairingAssumption DEF PairingTypeOK
<1>3. m.ident \in Idents /\ m \in Memory
  BY <1>1, <1>2 DEF Memory, Idents
<1>4. mem'[d] = m /\ file'[d] = Saved(m) /\ \A e \in Devices \ {d} : mem'[e] = mem[e] /\ file'[e] = file[e]
  BY <1>1 DEF PairingTypeOK
<1>5. /\ idents'[d] = (IF new THEN idents[d] + 1 ELSE idents[d])
      /\ \A e \in Devices \ {d} : idents'[e] = idents[e]
      /\ \A e \in Devices : idents'[e] \in Nat /\ idents[e] \in Nat /\ idents[e] <= idents'[e]
  BY <1>1, <1>2 DEF PairingTypeOK
<1>6. PairingTypeOK'
  <2>1. Saved(m) \in [ident : Idents \union {None}, token : Tokens \union {None}]
    BY <1>2, <1>3 DEF Saved
  <2>2. idents' \in [Devices -> 0..MaxIdents]
    BY <1>1, <1>2 DEF PairingTypeOK
  <2>3. QED
    BY <1>1, <1>3, <2>1, <2>2 DEF PairingTypeOK, serverVars, history
<1>7. link[d] = None
  BY <1>1 DEF LinksAreUp
<1>8. FilesAreWritten'
  <2>1. file'[d].ident = m.ident
    BY <1>4 DEF Saved
  <2>2. m.ident \in {d} \X (1..idents'[d])
    <3>1. CASE new
      BY <1>2, <1>5, <3>1
    <3>2. CASE ~new
      <4>1. file[d].ident \in {d} \X (1..idents[d])
        BY <3>2 DEF FilesAreWritten, NoFile
      <4>2. QED
        BY <1>5, <3>2, <4>1
    <3>3. QED
      BY <3>1, <3>2
  <2>3. ASSUME NEW e \in Devices \ {d}
        PROVE  /\ Up(e)' => file'[e] = Saved(mem[e])'
               /\ file'[e] = NoFile \/ file'[e].ident \in {e} \X (1..idents'[e])
    BY <1>4, <1>5 DEF FilesAreWritten, Up, Saved
  <2>4. Saved(mem[d])' = Saved(m)
    BY <1>4 DEF Saved
  <2>5. QED
    BY <1>4, <2>1, <2>2, <2>3, <2>4 DEF FilesAreWritten
<1>9. ASSUME NEW i \in Rows, row[i] # None
      PROVE  row[i].dev[1] \in Devices /\ row[i].dev[2] <= idents'[row[i].dev[1]]
  <2>1. row[i] \in Row /\ row[i].dev \in Idents
    BY <1>9 DEF PairingTypeOK, Row
  <2>2. row[i].dev[1] \in Devices /\ row[i].dev[2] \in Nat
    BY <2>1 DEF Idents
  <2>3. row[i].dev[2] <= idents[row[i].dev[1]]
    BY <1>9 DEF RowsAreOfIdents
  <2>4. QED
    BY <1>5, <2>2, <2>3
<1>10. RowsAreOfIdents'
  BY <1>1, <1>9 DEF RowsAreOfIdents, serverVars
<1>11. ASSUME NEW i \in Rows, row[i] # None, new PROVE row[i].dev # m.ident
  <2>1. row[i].dev[2] <= idents[row[i].dev[1]]
    BY <1>11 DEF RowsAreOfIdents
  <2>2. QED
    BY <1>2, <1>11, <2>1
<1>12. ASSUME NEW e \in Devices, NEW i \in Rows, row[i] # None, file'[e].ident = row[i].dev
       PROVE  file'[e] = file[e]
  <2>1. CASE e = d
    <3>1. file'[e].ident = m.ident
      BY <1>4, <2>1 DEF Saved
    <3>2. ~new
      BY <1>11, <1>12, <3>1
    <3>3. QED
      BY <1>4, <2>1, <3>2 DEF PairingTypeOK, Saved
  <2>2. QED
    BY <1>4, <2>1
<1>13. LinksAreUp'
  <2>1. \A e \in Devices : link[e] # None => Up(e)'
    BY <1>4, <1>7 DEF LinksAreUp, Up
  <2>2. QED
    BY <1>1, <2>1 DEF LinksAreUp, serverVars
<1>14. OwnTokens'
  <2>1. \A e \in Devices : link[e] # None => mem'[e].ident = mem[e].ident
    BY <1>4, <1>7
  <2>2. \A j \in Jobs : job'[j].own => row'[job[j].row] = row[job[j].row]
    BY <1>1 DEF serverVars
  <2>3. QED
    <3>1. \A c \in Streams, j \in Jobs : Sent(c, j)' => Sent(c, j)
      BY <1>1 DEF Sent
    <3>2. \A j \in Jobs : MovesOn(j)
      BY <1>1, JobsStay
    <3>3. \A c \in Streams : conn[c].state # "unused" => conn'[c].dev = conn[c].dev
      BY <1>1
    <3>4. \A j \in Jobs : Waits(j)' /\ job'[j].own /\ row[job[j].row] # None =>
           row'[job[j].row] # None /\ row'[job[j].row].dev = row[job[j].row].dev
      BY <2>2
    <3>5. \A e \in Devices, i \in Rows :
            row[i] # None /\ file'[e].ident = row[i].dev => file'[e] = file[e]
      BY <1>12
    <3> HIDE DEF PairingInv
    <3>6. QED
      BY <2>1, <3>1, <3>2, <3>3, <3>4, <3>5, OwnTokensKept
<1>15. FilesAgree'
  <2>1. row' = row /\ crossed' = crossed
    BY <1>1 DEF serverVars, history
  <2>2. QED
    BY <1>12, <2>1 DEF FilesAgree
<1>16. RegisteredHasItsRow'
  BY <1>1, <1>4, <1>7 DEF RegisteredHasItsRow, Up, serverVars, history
<1>17. DeletedIsClosed' /\ SentOnce' /\ RequestsKnow' /\ CodesAreUsed' /\ CodeOpensOnce'
  BY <1>1, PairingFrame DEF serverVars, history
<1>18. QED
  BY <1>6, <1>8, <1>10, <1>13, <1>14, <1>15, <1>16, <1>17

(* A stream that ends, with its process or not: nobody is on it any more.    *)
LEMMA PairingUnlink ==
  ASSUME PairingInv, NEW d \in Devices, Unlink(d), UNCHANGED <<idents, tokens, codes>>,
         UNCHANGED <<serverVars, conn, job, history>>,
         mem' = mem \/ mem' = [mem EXCEPT ![d] = Off],
         file' = file \/ file' = [file EXCEPT ![d] = NoFile],
         mem' = mem => file' = file
  PROVE  PairingInv'
<1> USE DEF PairingInv
<1>1. /\ link' \in [Devices -> Streams \union {None}]
      /\ outbox' \in [Streams -> Seq({"code"} \union Jobs)]
      /\ link'[d] = None /\ \A e \in Devices \ {d} : link'[e] = link[e]
      /\ \A c \in Streams : outbox'[c] = IF c = link[d] THEN <<>> ELSE outbox[c]
      /\ \A c \in Streams, j \in Jobs : Sent(c, j)' => Sent(c, j)
      /\ SentOnce'
  BY UnlinkDoes
<1>2. /\ \A e \in Devices \ {d} : mem'[e] = mem[e] /\ file'[e] = file[e]
      /\ mem'[d] \in {mem[d], Off} /\ file'[d] \in {file[d], NoFile}
      /\ mem'[d] = mem[d] => file'[d] = file[d]
  BY DEF PairingTypeOK
<1>3. PairingTypeOK'
  <2>1. mem' \in [Devices -> Memory \union {Off}]
    BY DEF PairingTypeOK
  <2>2. file' \in [Devices -> [ident : Idents \union {None}, token : Tokens \union {None}]]
    <3>1. NoFile \in [ident : Idents \union {None}, token : Tokens \union {None}]
      BY DEF NoFile
    <3>2. QED
      BY <3>1 DEF PairingTypeOK
  <2>3. QED
    BY <1>1, <2>1, <2>2 DEF PairingTypeOK, serverVars, history
<1>4. FilesAreWritten'
  BY <1>2 DEF FilesAreWritten, Up
<1>5. LinksAreUp'
  <2>1. \A e \in Devices : link'[e] # None => e # d /\ link[e] # None /\ Up(e)'
    BY <1>1, <1>2 DEF LinksAreUp, Up
  <2>2. ASSUME NEW c \in Streams, outbox'[c] # <<>>
        PROVE  \E e \in Devices : conn[c].dev = e /\ link'[e] = c
    <3>1. c # link[d] /\ outbox[c] # <<>>
      BY <1>1, <2>2
    <3>2. PICK e \in Devices : conn[c].dev = e /\ link[e] = c
      BY <3>1 DEF LinksAreUp
    <3>3. QED
      BY <1>1, <3>1, <3>2
  <2>3. QED
    BY <1>1, <2>1, <2>2 DEF LinksAreUp, serverVars
<1>6. RequestsKnow'
  BY <1>1 DEF RequestsKnow, Waits, Opened
<1>7. ASSUME NEW e \in Devices, NEW i \in Rows, row[i] # None, file'[e].ident = row[i].dev
      PROVE  file'[e] = file[e]
  <2>1. row[i].dev # None
    BY <1>7, PairsAssumption DEF PairingTypeOK, Row
  <2>2. QED
    BY <1>2, <1>7, <2>1 DEF NoFile
<1>8. FilesAgree'
  BY <1>7 DEF FilesAgree, serverVars, history
<1>9. \A j \in Jobs : MovesOn(j)
  BY JobsStay
<1>10. CASE mem' = mem
  <2>1. OwnTokens'
    BY <1>1, <1>7, <1>9, <1>10, OwnTokensKept DEF serverVars
  <2>2. RegisteredHasItsRow'
    BY <1>1, <1>10 DEF RegisteredHasItsRow, Up, serverVars, history
  <2>3. RowsAreOfIdents' /\ DeletedIsClosed' /\ CodesAreUsed' /\ CodeOpensOnce'
    BY PairingFrame DEF serverVars, history
  <2>4. QED
    BY <1>1, <1>3, <1>4, <1>5, <1>6, <1>8, <2>1, <2>2, <2>3
<1>11. CASE mem' = [mem EXCEPT ![d] = Off]
  <2>1. OwnTokens'
    <3>1. SUFFICES ASSUME NEW j \in Jobs, Waits(j), job[j].own
                   PROVE  /\ row[job[j].row] # None
                          /\ \A e \in Devices : Sent(job[j].via, j)' /\ conn[job[j].via].dev = e =>
                               mem'[e].ident = row[job[j].row].dev
                          /\ \A e \in Devices : Opened(j) /\ file'[e].ident = row[job[j].row].dev =>
                               file'[e].token = job[j].token
      BY DEF OwnTokens, Waits, Opened, serverVars
    <3>2. PICK i \in Rows, c \in Streams : job[j].row = i /\ job[j].via = c
      BY <3>1 DEF RequestsKnow
    <3>3. row[i] # None
      BY <3>1, <3>2 DEF OwnTokens
    <3>4. ASSUME NEW e \in Devices, Sent(c, j)', conn[c].dev = e PROVE mem'[e].ident = row[i].dev
      <4>1. Sent(c, j) /\ outbox'[c] # <<>>
        <5>1. outbox'[c] = <<>> => ~Sent(c, j)'
          <6>1. outbox'[c] = <<>> => Len(outbox'[c]) = 0
            OBVIOUS
          <6>2. QED
            BY <6>1 DEF Sent
        <5>2. QED
          BY <1>1, <3>4, <5>1
      <4>2. PICK x \in Devices : conn[c].dev = x /\ link'[x] = c
        BY <1>5, <4>1 DEF LinksAreUp
      <4>3. e = x /\ e # d
        BY <1>1, <3>4, <4>2, PairingAssumption
      <4>4. QED
        BY <1>2, <3>1, <3>2, <3>4, <4>1, <4>3 DEF OwnTokens
    <3>5. \A e \in Devices : Opened(j) /\ file'[e].ident = row[i].dev => file'[e].token = job[j].token
      BY <1>7, <3>1, <3>2, <3>3 DEF OwnTokens
    <3>6. QED
      BY <3>2, <3>3, <3>4, <3>5
  <2>2. RegisteredHasItsRow'
    <3>1. \A e \in Devices : Up(e)' => e # d
      BY <1>11 DEF PairingTypeOK, Up
    <3>2. QED
      BY <1>1, <1>2, <3>1 DEF RegisteredHasItsRow, Up, serverVars, history
  <2>3. RowsAreOfIdents' /\ DeletedIsClosed' /\ CodesAreUsed' /\ CodeOpensOnce'
    BY PairingFrame DEF serverVars, history
  <2>4. QED
    BY <1>1, <1>3, <1>4, <1>5, <1>6, <1>8, <2>1, <2>2, <2>3
<1>12. QED
  BY <1>10, <1>11

LEMMA PairingCrash ==
  ASSUME PairingInv, NEW d \in Devices, Crash(d)
  PROVE  PairingInv'
<1>1. mem' = mem => mem[d] = Off
  BY DEF Crash, PairingInv, PairingTypeOK
<1>2. mem' # mem
  BY <1>1 DEF Crash, Up
<1>3. QED
  BY <1>2, PairingUnlink DEF Crash

LEMMA PairingDrop ==
  ASSUME PairingInv, NEW d \in Devices, Drop(d)
  PROVE  PairingInv'
BY PairingUnlink DEF Drop, deviceVars

(* A process that gets to know more, and writes it: it keeps its device id   *)
(* and its token.                                                            *)
LEMMA PairingMemory ==
  ASSUME PairingInv, NEW d \in Devices, Up(d), NEW m \in Memory, m.ident = mem[d].ident,
         mem[d].token # None => m.token = mem[d].token,
         mem' = [mem EXCEPT ![d] = m], file' = [file EXCEPT ![d] = Saved(m)],
         UNCHANGED <<idents, link, serverVars, conn, history>>,
         \A c \in Streams : outbox'[c] # <<>> => outbox[c] # <<>>
  PROVE  /\ mem' \in [Devices -> Memory \union {Off}]
         /\ file' \in [Devices -> [ident : Idents \union {None}, token : Tokens \union {None}]]
         /\ FilesAreWritten' /\ RowsAreOfIdents' /\ LinksAreUp' /\ DeletedIsClosed'
         /\ FilesAgree' /\ RegisteredHasItsRow'
         /\ mem'[d] = m /\ file'[d] = Saved(m)
         /\ \A e \in Devices \ {d} : mem'[e] = mem[e] /\ file'[e] = file[e]
         /\ m.token = mem[d].token => file' = file
<1> USE DEF PairingInv
<1>1. /\ mem'[d] = m /\ file'[d] = Saved(m)
      /\ \A e \in Devices \ {d} : mem'[e] = mem[e] /\ file'[e] = file[e]
  BY DEF PairingTypeOK
<1>2. file[d] = Saved(mem[d]) /\ file[d].ident = m.ident /\ file[d].token = mem[d].token
  BY DEF FilesAreWritten, Saved
<1>3. m.ident \in Idents /\ m.token \in Tokens \union {None} /\ m # Off
  BY PairsAssumption DEF Memory, Off
<1>4. mem' \in [Devices -> Memory \union {Off}]
  BY DEF PairingTypeOK
<1>5. file' \in [Devices -> [ident : Idents \union {None}, token : Tokens \union {None}]]
  <2>1. Saved(m) \in [ident : Idents \union {None}, token : Tokens \union {None}]
    BY <1>3 DEF Saved
  <2>2. QED
    BY <2>1 DEF PairingTypeOK
<1>6. file'[d].ident = file[d].ident /\ file'[d].token = m.token
  BY <1>1, <1>2 DEF Saved
<1>7. \A e \in Devices : Up(e)' <=> Up(e)
  BY <1>1, <1>3 DEF Up
<1>8. \A e \in Devices : mem'[e].ident = mem[e].ident /\ file'[e].ident = file[e].ident
  BY <1>1, <1>6
<1>9. FilesAreWritten'
  <2>1. file[d].ident \in {d} \X (1..idents[d])
    <3>1. file[d].ident # None
      BY <1>2, <1>3, PairsAssumption
    <3>2. QED
      BY <3>1 DEF FilesAreWritten, NoFile
  <2>2. Saved(mem[d])' = Saved(m)
    BY <1>1 DEF Saved
  <2>3. ASSUME NEW e \in Devices \ {d}
        PROVE  /\ Up(e)' => file'[e] = Saved(mem[e])'
               /\ file'[e] = NoFile \/ file'[e].ident \in {e} \X (1..idents[e])
    BY <1>1, <1>7 DEF FilesAreWritten, Saved
  <2>4. QED
    BY <1>1, <1>6, <2>1, <2>2, <2>3 DEF FilesAreWritten
<1>10. RowsAreOfIdents' /\ DeletedIsClosed'
  BY PairingFrame DEF serverVars, history
<1>11. LinksAreUp'
  BY <1>7 DEF LinksAreUp, serverVars
<1>12. FilesAgree'
  <2>1. row' = row /\ crossed' = crossed
    BY DEF serverVars, history
  <2>2. SUFFICES ASSUME NEW i \in Rows \ crossed, NEW e \in Devices, row[i] # None,
                        row[i].token # None, row[i].dev = file'[e].ident
                 PROVE  file'[e].token = row[i].token
    BY <2>1 DEF FilesAgree
  <2>3. file[e].token = row[i].token
    BY <1>8, <2>2 DEF FilesAgree
  <2>4. CASE e = d
    BY <1>2, <1>6, <2>2, <2>3, <2>4
  <2>5. CASE e # d
    BY <1>1, <2>3, <2>5
  <2>6. QED
    BY <2>4, <2>5
<1>13. RegisteredHasItsRow'
  <2>1. row' = row /\ reg' = reg /\ conn' = conn /\ link' = link /\ strays' = strays
    BY DEF serverVars, history
  <2>2. QED
    BY <1>7, <1>8, <2>1 DEF RegisteredHasItsRow
<1>14. ASSUME m.token = mem[d].token PROVE file' = file
  <2>1. Saved(m) = file[d]
    BY <1>2, <1>14 DEF Saved
  <2>2. QED
    BY <2>1 DEF PairingTypeOK
<1>15. QED
  BY <1>1, <1>4, <1>5, <1>9, <1>10, <1>11, <1>12, <1>13, <1>14

(* What a new code is.                                                       *)
LEMMA RotatedIs ==
  ASSUME PairingInv, NEW d \in Devices, Up(d)
  PROVE  /\ Rotated(d) \in Memory
         /\ Rotated(d).ident = mem[d].ident /\ Rotated(d).token = mem[d].token
         /\ \A k \in Tokens : [Rotated(d) EXCEPT !.token = k] \in Memory
         /\ \A k \in Tokens : /\ [Rotated(d) EXCEPT !.token = k].ident = mem[d].ident
                              /\ [Rotated(d) EXCEPT !.token = k].token = k
<1>1. mem[d] \in Memory
  BY DEF PairingInv, PairingTypeOK, Up
<1>2. QED
  BY <1>1 DEF Rotated, Memory

LEMMA PairingExpires ==
  ASSUME PairingInv, NEW d \in Devices, CodeExpires(d)
  PROVE  PairingInv'
<1> DEFINE m == [mem[d] EXCEPT !.fresh = FALSE]
<1>1. mem[d] \in Memory /\ Up(d)
  BY DEF PairingInv, PairingTypeOK, Up, CodeExpires
<1>2. m \in Memory /\ m.ident = mem[d].ident /\ m.token = mem[d].token
  BY <1>1 DEF Memory
<1>3. mem' = [mem EXCEPT ![d] = m]
  BY DEF CodeExpires
<1>4. file' = [file EXCEPT ![d] = Saved(m)]
  <2>1. file[d] = Saved(mem[d]) /\ file \in [Devices -> [ident : Idents \union {None}, token : Tokens \union {None}]]
    BY <1>1 DEF PairingInv, FilesAreWritten, PairingTypeOK
  <2>2. Saved(m) = Saved(mem[d])
    BY <1>2 DEF Saved
  <2>3. [file EXCEPT ![d] = file[d]] = file
    BY <2>1
  <2>4. QED
    BY <2>1, <2>2, <2>3 DEF CodeExpires
<1> HIDE DEF m
<1>5. UNCHANGED <<idents, tokens, codes, link, serverVars, conn, outbox, job, history, file>>
  BY DEF CodeExpires
<1>6. /\ mem' \in [Devices -> Memory \union {Off}]
      /\ FilesAreWritten' /\ RowsAreOfIdents' /\ LinksAreUp' /\ DeletedIsClosed'
      /\ FilesAgree' /\ RegisteredHasItsRow'
      /\ mem'[d] = m /\ \A e \in Devices \ {d} : mem'[e] = mem[e]
  BY <1>1, <1>2, <1>3, <1>4, <1>5, PairingMemory
<1>7. PairingTypeOK'
  BY <1>5, <1>6 DEF PairingInv, PairingTypeOK, serverVars, history
<1>8. OwnTokens'
  <2>1. \A j \in Jobs : MovesOn(j)
    BY <1>5, JobsStay
  <2>2. \A c \in Streams, j \in Jobs : Sent(c, j)' => Sent(c, j)
    BY <1>5 DEF Sent
  <2>3. \A e \in Devices : mem'[e].ident = mem[e].ident
    BY <1>2, <1>6
  <2>4. row' = row /\ conn' = conn /\ file' = file
    BY <1>5 DEF serverVars
  <2>5. QED
    BY <2>1, <2>2, <2>3, <2>4, OwnTokensKept
<1>9. SentOnce' /\ RequestsKnow' /\ CodesAreUsed' /\ CodeOpensOnce'
  BY <1>5, PairingFrame
<1>10. QED
  BY <1>6, <1>7, <1>8, <1>9 DEF PairingInv

LEMMA PairingHandleCode ==
  ASSUME PairingInv, NEW d \in Devices, NEW c \in Streams, HandleCode(d, c)
  PROVE  PairingInv'
<1> DEFINE m == Rotated(d)
<1>1. Up(d) /\ PairingTypeOK /\ SentOnce
  BY DEF PairingInv, HandleCode, Handles, LinksAreUp
<1>2. m \in Memory /\ m.ident = mem[d].ident /\ m.token = mem[d].token
  BY <1>1, RotatedIs
<1> HIDE DEF m
<1>3. /\ mem' = [mem EXCEPT ![d] = m] /\ file' = [file EXCEPT ![d] = Saved(m)]
      /\ codes' = [codes EXCEPT ![d] = codes[d] + 1] /\ codes[d] < MaxCodes
      /\ UNCHANGED <<idents, tokens, link, serverVars, conn, job, history>>
  BY DEF HandleCode, Persist, m
<1>4. /\ outbox' \in [Streams -> Seq({"code"} \union Jobs)]
      /\ \A x \in Streams : outbox'[x] # <<>> => outbox[x] # <<>>
      /\ \A x \in Streams, j \in Jobs : Sent(x, j)' => Sent(x, j)
      /\ SentOnce'
  BY <1>1, HandledDoes DEF HandleCode
<1>5. /\ mem' \in [Devices -> Memory \union {Off}]
      /\ FilesAreWritten' /\ RowsAreOfIdents' /\ LinksAreUp' /\ DeletedIsClosed'
      /\ FilesAgree' /\ RegisteredHasItsRow'
      /\ mem'[d] = m /\ \A e \in Devices \ {d} : mem'[e] = mem[e]
      /\ file' = file
  BY <1>1, <1>2, <1>3, <1>4, PairingMemory
<1>6. /\ codes' \in [Devices -> 0..MaxCodes]
      /\ \A e \in Devices : codes'[e] \in Nat /\ codes[e] \in Nat /\ codes[e] <= codes'[e]
  BY <1>1, <1>3, PairingAssumption DEF PairingTypeOK
<1>7. PairingTypeOK'
  BY <1>1, <1>3, <1>4, <1>5, <1>6 DEF PairingTypeOK, serverVars, history
<1>8. OwnTokens'
  <2>1. \A j \in Jobs : MovesOn(j)
    BY <1>3, JobsStay
  <2>2. \A e \in Devices : mem'[e].ident = mem[e].ident
    BY <1>2, <1>5
  <2>3. row' = row /\ conn' = conn /\ file' = file
    BY <1>3, <1>5 DEF serverVars
  <2>4. QED
    BY <1>4, <2>1, <2>2, <2>3, OwnTokensKept
<1>9. RequestsKnow'
  BY <1>3, <1>4 DEF PairingInv, RequestsKnow, Waits, Opened
<1>10. CodesAreUsed'
  <2>1. SUFFICES ASSUME NEW j \in Jobs, Opened(j)
                 PROVE  \E e \in Devices, n \in Nat : job[j].typed = <<e, n>> /\ n < codes'[e]
    BY <1>3 DEF CodesAreUsed, Opened
  <2>2. PICK e \in Devices, n \in Nat : job[j].typed = <<e, n>> /\ n < codes[e]
    BY <2>1 DEF PairingInv, CodesAreUsed
  <2>3. n < codes'[e]
    BY <1>6, <2>2
  <2>4. QED
    BY <2>2, <2>3
<1>11. CodeOpensOnce'
  BY <1>3, PairingFrame
<1>12. QED
  BY <1>4, <1>5, <1>7, <1>8, <1>9, <1>10, <1>11 DEF PairingInv

(* A code that is accepted is the current one, and is never again: the token *)
(* it brings is the one that the device keeps.                               *)
LEMMA PairingHandlePair ==
  ASSUME PairingInv, NEW d \in Devices, NEW c \in Streams, HandlePair(d, c)
  PROVE  PairingInv'
<1>1. Up(d) /\ PairingTypeOK /\ SentOnce /\ link[d] = c /\ Handles(d, c) /\ Handled(c)
  BY DEF PairingInv, HandlePair, Handles, LinksAreUp
<1>2. PICK k \in Jobs : k = Head(outbox[c])
  BY DEF HandlePair
<1>3. PICK ok \in BOOLEAN : ok = Accepts(d, job[k].typed)
  BY DEF Accepts
<1> DEFINE new == ok /\ mem[d].token = None
           fresh == <<d, tokens[d] + 1>>
           m == IF new THEN [Rotated(d) EXCEPT !.token = fresh] ELSE Rotated(d)
<1>4. /\ fresh \in Tokens
      /\ m \in Memory /\ m.ident = mem[d].ident
      /\ ~new => m.token = mem[d].token
      /\ new => m.token = fresh
      /\ mem[d].token # None => m.token = mem[d].token
  <2>1. fresh \in Tokens
    BY <1>1 DEF Tokens, PairingTypeOK
  <2>2. QED
    BY <1>1, <2>1, RotatedIs
<1>5. /\ mem' = [mem EXCEPT ![d] = m] /\ file' = [file EXCEPT ![d] = Saved(m)]
      /\ codes' = [codes EXCEPT ![d] = codes[d] + 1] /\ codes[d] < MaxCodes
      /\ tokens' = [tokens EXCEPT ![d] = IF new THEN tokens[d] + 1 ELSE tokens[d]]
      /\ job' = [job EXCEPT ![k].reply = IF ok THEN "token" ELSE "refused",
                            ![k].token = IF ok THEN m.token ELSE None]
      /\ UNCHANGED <<idents, link, serverVars, conn, history>>
  BY <1>2, <1>3 DEF HandlePair, Persist
<1>6. ok => job[k].typed = <<d, codes[d]>>
  BY <1>3 DEF Accepts
<1>7. ok => m.token \in Tokens
  BY <1>1, <1>4 DEF PairingTypeOK, Memory, Up
<1> HIDE DEF m
<1>8. /\ outbox' \in [Streams -> Seq({"code"} \union Jobs)]
      /\ \A x \in Streams : outbox'[x] # <<>> => outbox[x] # <<>>
      /\ \A x \in Streams, j \in Jobs : Sent(x, j)' => Sent(x, j)
      /\ Sent(c, k) /\ ~Sent(c, k)'
      /\ SentOnce'
  BY <1>1, <1>2, HandledDoes
<1>9. /\ mem' \in [Devices -> Memory \union {Off}]
      /\ file' \in [Devices -> [ident : Idents \union {None}, token : Tokens \union {None}]]
      /\ FilesAreWritten' /\ RowsAreOfIdents' /\ LinksAreUp' /\ DeletedIsClosed'
      /\ FilesAgree' /\ RegisteredHasItsRow'
      /\ mem'[d] = m /\ file'[d] = Saved(m)
      /\ \A e \in Devices \ {d} : mem'[e] = mem[e] /\ file'[e] = file[e]
      /\ m.token = mem[d].token => file' = file
  BY <1>1, <1>4, <1>5, <1>8, PairingMemory
<1>10. /\ codes' \in [Devices -> 0..MaxCodes]
       /\ codes'[d] = codes[d] + 1
       /\ \A e \in Devices : codes'[e] \in Nat /\ codes[e] \in Nat /\ codes[e] <= codes'[e]
  BY <1>1, <1>5, PairingAssumption DEF PairingTypeOK
<1>11. /\ job'[k] = [job[k] EXCEPT !.reply = IF ok THEN "token" ELSE "refused",
                                   !.token = IF ok THEN m.token ELSE None]
       /\ \A j \in Jobs \ {k} : job'[j] = job[j]
  BY <1>1, <1>5 DEF PairingTypeOK
<1>12. job[k] \in Job
  BY <1>1 DEF PairingTypeOK
<1>13. /\ job'[k].pc = job[k].pc /\ job'[k].row = job[k].row /\ job'[k].via = job[k].via
       /\ job'[k].typed = job[k].typed /\ job'[k].own = job[k].own
       /\ job'[k].reply = (IF ok THEN "token" ELSE "refused")
       /\ job'[k].token = (IF ok THEN m.token ELSE None)
  BY <1>11, <1>12 DEF Job
<1>14. PairingTypeOK'
  <2>1. job'[k] \in Job
    BY <1>7, <1>11, <1>12 DEF Job
  <2>2. job' \in [Jobs -> Job]
    BY <1>1, <1>5, <1>11, <2>1 DEF PairingTypeOK
  <2>3. tokens' \in [Devices -> Nat]
    BY <1>1, <1>5 DEF PairingTypeOK
  <2>4. QED
    BY <1>1, <1>5, <1>8, <1>9, <1>10, <2>2, <2>3 DEF PairingTypeOK, serverVars, history
<1>15. job[k].pc # "idle" /\ job[k].via = c /\ job[k].reply = "none" /\ ~Opened(k)
  BY <1>8 DEF PairingInv, RequestsKnow, Opened
<1>16. RequestsKnow'
  <2>1. SUFFICES ASSUME NEW j \in Jobs
                 PROVE  /\ Waits(j)' => job'[j].row \in Rows /\ job'[j].via \in Streams
                        /\ \A x \in Streams : Sent(x, j)' =>
                             job'[j].pc # "idle" /\ job'[j].via = x /\ job'[j].reply = "none"
                        /\ job'[j].pc = "answered" => job'[j].reply = "token"
                        /\ Opened(j)' => job'[j].token # None
    BY DEF RequestsKnow
  <2>2. CASE j # k
    BY <1>8, <1>11, <2>2 DEF PairingInv, RequestsKnow, Waits, Opened
  <2>3. CASE j = k
    <3>1. \A x \in Streams : ~Sent(x, k)'
      BY <1>8, <1>15 DEF PairingInv, RequestsKnow
    <3>2. job[k].pc # "answered"
      BY <1>15 DEF PairingInv, RequestsKnow
    <3>3. Waits(k)' => job[k].row \in Rows /\ job[k].via \in Streams
      BY <1>13 DEF PairingInv, RequestsKnow, Waits
    <3>4. Opened(k)' => job'[k].token # None
      BY <1>7, <1>13, PairsAssumption DEF Opened
    <3>5. QED
      BY <1>13, <2>3, <3>1, <3>2, <3>3, <3>4
  <2>4. QED
    BY <2>2, <2>3
<1>17. OwnTokens'
  <2>1. row' = row /\ conn' = conn
    BY <1>5 DEF serverVars
  <2>2. SUFFICES ASSUME NEW j \in Jobs, Waits(j)', job'[j].own
                 PROVE  /\ row[job'[j].row] # None
                        /\ \A e \in Devices : Sent(job[j].via, j)' /\ conn[job'[j].via].dev = e =>
                             mem'[e].ident = row[job'[j].row].dev
                        /\ \A e \in Devices : Opened(j)' /\ file'[e].ident = row[job'[j].row].dev =>
                             file'[e].token = job'[j].token
    BY <2>1 DEF OwnTokens
  <2>3. /\ Waits(j) /\ job[j].own /\ job'[j].row = job[j].row /\ job'[j].via = job[j].via
    BY <1>11, <1>13, <2>2 DEF Waits
  <2>4. PICK i \in Rows, x \in Streams : job[j].row = i /\ job[j].via = x
    BY <2>3 DEF PairingInv, RequestsKnow
  <2>5. /\ row[i] # None
        /\ \A e \in Devices : Sent(x, j) /\ conn[x].dev = e => mem[e].ident = row[i].dev
        /\ \A e \in Devices : Opened(j) /\ file[e].ident = row[i].dev => file[e].token = job[j].token
    BY <2>3, <2>4 DEF PairingInv, OwnTokens
  <2>6. \A e \in Devices : mem'[e].ident = mem[e].ident
    BY <1>4, <1>9
  <2>7. \A e \in Devices : Sent(x, j)' /\ conn[x].dev = e => mem'[e].ident = row[i].dev
    BY <1>8, <2>5, <2>6
  <2>8. file[d] = Saved(mem[d]) /\ file[d].token = mem[d].token /\ file[d].ident = mem[d].ident
    BY <1>1 DEF PairingInv, FilesAreWritten, Saved
  <2>9. file'[d].token = m.token /\ file'[d].ident = mem[d].ident
    BY <1>4, <1>9 DEF Saved
  <2>10. CASE j = k
    <3>1. x = c /\ conn[c].dev = d
      BY <1>1, <1>15, <2>4, <2>10, PairingAssumption DEF PairingInv, LinksAreUp
    <3>2. mem[d].ident = row[i].dev
      BY <1>8, <2>5, <2>10, <3>1
    <3>3. ASSUME NEW e \in Devices, ok, file'[e].ident = row[i].dev PROVE e = d
      <4>1. row[i].dev \in Idents
        BY <1>1, <2>5 DEF PairingTypeOK, Row
      <4>2. \A a \in Devices : file'[a].ident = row[i].dev => row[i].dev \in {a} \X (1..idents'[a])
        <5>1. \A a \in Devices : file'[a] = NoFile \/ file'[a].ident \in {a} \X (1..idents'[a])
          BY <1>9 DEF FilesAreWritten
        <5>2. row[i].dev # None
          BY <4>1, PairsAssumption
        <5>3. QED
          BY <5>1, <5>2 DEF NoFile
      <4>3. row[i].dev \in {e} \X (1..idents'[e]) /\ row[i].dev \in {d} \X (1..idents'[d])
        BY <2>9, <3>2, <3>3, <4>2
      <4>4. QED
        BY <4>3
    <3>4. \A e \in Devices : Opened(k)' /\ file'[e].ident = row[i].dev => file'[e].token = job'[k].token
      BY <1>13, <2>9, <3>3 DEF Opened
    <3>5. QED
      BY <2>3, <2>4, <2>5, <2>7, <2>10, <3>4
  <2>11. CASE j # k
    <3>1. job'[j] = job[j]
      BY <1>11, <2>11
    <3>2. ASSUME NEW e \in Devices, Opened(j), file'[e].ident = row[i].dev
          PROVE  file'[e].token = job[j].token
      <4>1. job[j].token # None
        BY <3>2 DEF PairingInv, RequestsKnow
      <4>2. CASE e = d
        BY <1>4, <2>5, <2>8, <2>9, <3>2, <4>1, <4>2
      <4>3. CASE e # d
        BY <1>9, <2>5, <3>2, <4>3
      <4>4. QED
        BY <4>2, <4>3
    <3>3. QED
      BY <2>3, <2>4, <2>5, <2>7, <3>1, <3>2 DEF Opened
  <2>12. QED
    BY <2>10, <2>11
<1>18. ASSUME NEW j \in Jobs, Opened(j)'
       PROVE  \E e \in Devices, n \in Nat :
                /\ job[j].typed = <<e, n>> /\ n < codes'[e]
                /\ j # k => n < codes[e]
                /\ j = k => e = d /\ n = codes[d]
  <2>1. CASE j = k
    <3>1. ok
      BY <1>13, <1>18, <2>1 DEF Opened
    <3>2. codes[d] \in Nat /\ codes[d] < codes'[d]
      BY <1>10
    <3>3. QED
      BY <1>6, <2>1, <3>1, <3>2
  <2>2. CASE j # k
    <3>1. PICK e \in Devices, n \in Nat : job[j].typed = <<e, n>> /\ n < codes[e]
      BY <1>11, <1>18, <2>2 DEF PairingInv, CodesAreUsed, Opened
    <3>2. n < codes'[e]
      BY <1>10, <3>1
    <3>3. QED
      BY <2>2, <3>1, <3>2
  <2>3. QED
    BY <2>1, <2>2
<1>19. CodesAreUsed'
  <2>1. \A j \in Jobs : job'[j].typed = job[j].typed
    BY <1>11, <1>13
  <2>2. QED
    BY <1>18, <2>1 DEF CodesAreUsed
<1>20. CodeOpensOnce'
  <2>1. \A j \in Jobs : job'[j].typed = job[j].typed
    BY <1>11, <1>13
  <2>2. SUFFICES ASSUME NEW j \in Jobs, NEW l \in Jobs, Opened(j)', Opened(l)',
                        job[j].typed = job[l].typed
                 PROVE  j = l
    BY <2>1 DEF CodeOpensOnce
  <2>3. CASE j # k /\ l # k
    BY <1>11, <2>2, <2>3 DEF PairingInv, CodeOpensOnce, Opened
  <2>4. ASSUME NEW a \in Jobs, NEW b \in Jobs, Opened(a)', Opened(b)', a = k, b # k
        PROVE  job[a].typed # job[b].typed
    <3>1. PICK e \in Devices, n \in Nat : job[b].typed = <<e, n>> /\ n < codes[e]
      BY <1>18, <2>4
    <3>2. job[a].typed = <<d, codes[d]>>
      BY <1>18, <2>4
    <3>3. codes[d] \in Nat
      BY <1>10
    <3>4. QED
      BY <3>1, <3>2, <3>3
  <2>5. QED
    BY <2>2, <2>3, <2>4
<1>21. QED
  BY <1>8, <1>9, <1>14, <1>16, <1>17, <1>19, <1>20 DEF PairingInv

-----------------------------------------------------------------------------
(* The steps of the server.                                                  *)

(* A Companion that connects gets the row of its device id, and the calls    *)
(* that waited on the row's last connection fail.                            *)
LEMMA PairingConnect ==
  ASSUME PairingInv, NEW d \in Devices, NEW c \in Streams, Connect(c, d)
  PROVE  PairingInv'
<1> DEFINE i == Assigned(d)
           token == IF row[i] = None THEN None ELSE row[i].token
           r == [dev |-> mem[d].ident, token |-> token,
                 tries |-> IF row[i] = None THEN 0 ELSE row[i].tries,
                 status |-> IF token = None THEN "pending_certification"
                            ELSE IF token = mem[d].token THEN "active"
                            ELSE row[i].status]
<1>1. Up(d) /\ link[d] = None /\ conn[c].state = "unused" /\ i \in Rows /\ PairingTypeOK
  BY DEF Connect, PairingInv
<1>2. /\ row' = [row EXCEPT ![i] = r]
      /\ reg' = [reg EXCEPT ![i] = c]
      /\ link' = [link EXCEPT ![d] = c]
      /\ conn' = [k \in Streams |->
             IF k = c THEN [state |-> "up", dev |-> d, id |-> i]
             ELSE IF k = reg[i] /\ conn[k].state = "up"
                  THEN [conn[k] EXCEPT !.state = "closed"] ELSE conn[k]]
      /\ job' = [j \in Jobs |-> IF job[j].pc = "waiting" /\ job[j].via = reg[i]
                                THEN [job[j] EXCEPT !.pc = "failed"] ELSE job[j]]
      /\ strays' = IF i \in deleting THEN strays \union {c} ELSE strays
      /\ UNCHANGED <<mem, file, idents, tokens, codes, outbox, deleting, crossed>>
  BY <1>1, Zenon DEF Connect, deviceVars
<1>3. row[i] # None => row[i].dev = mem[d].ident
  BY <1>1, AssignedRow
<1>4. mem[d] \in Memory /\ row[i] \in Row \union {None} /\ None \notin Row
  BY <1>1, PairsAssumption DEF PairingTypeOK, Up
<1>5. /\ r \in Row /\ r # None /\ r.dev = mem[d].ident
      /\ r.token = token
  <2>1. MaxTries \in Nat /\ mem[d].ident \in Idents
    BY <1>4, PairingAssumption DEF Memory
  <2>2. r.dev = mem[d].ident /\ r.token = token
    OBVIOUS
  <2>3. token \in Tokens \union {None} /\ (row[i] # None => row[i] \in Row)
    BY <1>4 DEF Row
  <2>4. r.tries \in 0..MaxTries
    BY <2>1, <2>3 DEF Row
  <2>5. r.status \in {"pending_certification", "active"}
    BY <2>3 DEF Row
  <2>6. r \in Row
    BY <2>1, <2>3, <2>4, <2>5 DEF Row
  <2>7. QED
    BY <1>4, <2>2, <2>6
<1>6. row[i] = None => r.token = None
  BY <1>5
<1>7. row[i] # None => r.token = row[i].token
  BY <1>5
<1> HIDE DEF r, token
<1>8. row'[i] = r /\ \A k \in Rows \ {i} : row'[k] = row[k]
  BY <1>1, <1>2 DEF PairingTypeOK
<1>9. \A k \in Rows : row[k] # None =>
        row'[k] # None /\ row'[k].dev = row[k].dev /\ row'[k].token = row[k].token
  BY <1>3, <1>5, <1>7, <1>8
<1>10. reg'[i] = c /\ \A k \in Rows \ {i} : reg'[k] = reg[k]
  BY <1>1, <1>2 DEF PairingTypeOK
<1>11. link'[d] = c /\ \A e \in Devices \ {d} : link'[e] = link[e]
  BY <1>1, <1>2 DEF PairingTypeOK
<1>12. /\ conn'[c].state = "up" /\ conn'[c].dev = d
       /\ \A k \in Streams \ {c} :
            /\ conn'[k].dev = conn[k].dev
            /\ conn'[k].state = "unused" <=> conn[k].state = "unused"
            /\ conn'[k].state = "up" => conn[k].state = "up"
  <2>1. \A k \in Streams : conn[k] \in [state : {"unused", "up", "closed", "ended"},
                                       dev : Devices \union {None}, id : Rows \union {0}]
    BY <1>1 DEF PairingTypeOK
  <2>2. QED
    BY <1>2, <2>1
<1>13. \A j \in Jobs : job[j] \in Job
  BY <1>1 DEF PairingTypeOK
<1>14. \A j \in Jobs : MovesOn(j) /\ job'[j] \in Job
  BY <1>2, <1>13 DEF MovesOn, Job
<1>15. PairingTypeOK'
  <2>1. conn' \in [Streams -> [state : {"unused", "up", "closed", "ended"},
                            dev : Devices \union {None}, id : Rows \union {0}]]
    <3> DEFINE C == [state : {"unused", "up", "closed", "ended"},
                     dev : Devices \union {None}, id : Rows \union {0}]
    <3>1. [state |-> "up", dev |-> d, id |-> i] \in C
      BY <1>1
    <3>2. \A k \in Streams : conn[k] \in C
      BY <1>1 DEF PairingTypeOK
    <3>3. \A k \in Streams : [conn[k] EXCEPT !.state = "closed"] \in C
      BY <3>2
    <3> HIDE DEF C
    <3>4. conn' \in [Streams -> C]
      BY <1>2, <3>1, <3>2, <3>3
    <3>5. QED
      BY <3>4 DEF C
  <2>2. job' \in [Jobs -> Job]
    BY <1>2, <1>14
  <2>3. QED
    BY <1>1, <1>2, <1>5, <2>1, <2>2 DEF PairingTypeOK
<1>16. FilesAreWritten' /\ SentOnce'
  BY <1>2, PairingFrame
<1>17. RowsAreOfIdents'
  <2>1. mem[d].ident[2] <= idents[mem[d].ident[1]]
    <3>1. file[d] = Saved(mem[d]) /\ mem[d].ident # None
      BY <1>1, <1>4, PairsAssumption DEF PairingInv, FilesAreWritten, Memory
    <3>2. mem[d].ident \in {d} \X (1..idents[d])
      BY <3>1 DEF PairingInv, FilesAreWritten, Saved, NoFile
    <3>3. idents[d] \in Nat
      BY <1>1 DEF PairingTypeOK
    <3>4. QED
      BY <3>2, <3>3
  <2>2. QED
    BY <1>2, <1>5, <1>8, <2>1 DEF PairingInv, RowsAreOfIdents
<1>18. \A e \in Devices : link[e] # c
  BY <1>1, PairingAssumption DEF PairingInv, LinksAreUp
<1>19. \A k \in Rows : reg[k] # c
  BY <1>1, PairingAssumption DEF PairingInv, LinksAreUp
<1>20. outbox[c] = <<>>
  BY <1>18 DEF PairingInv, LinksAreUp
<1>21. LinksAreUp'
  <2>1. \A e \in Devices : link'[e] # None =>
          Up(e)' /\ conn'[link'[e]].dev = e /\ conn'[link'[e]].state # "unused"
    <3>0. Up(d)' /\ conn'[link'[d]].dev = d /\ conn'[link'[d]].state # "unused"
      <4>1. conn'[link'[d]].dev = d /\ conn'[link'[d]].state # "unused"
        BY <1>11, <1>12
      <4>2. QED
        BY <1>1, <1>2, <4>1 DEF Up
    <3>1. SUFFICES ASSUME NEW e \in Devices \ {d}, link[e] # None
                   PROVE  Up(e)' /\ conn'[link[e]].dev = e /\ conn'[link[e]].state # "unused"
      BY <1>11, <3>0
    <3>2. link[e] \in Streams \ {c}
      BY <1>1, <1>18, <3>1 DEF PairingTypeOK
    <3>3. Up(e) /\ conn[link[e]].dev = e /\ conn[link[e]].state # "unused"
      BY <3>1 DEF PairingInv, LinksAreUp
    <3>4. QED
      BY <1>2, <1>12, <3>2, <3>3 DEF Up
  <2>2. \A k \in Rows : reg'[k] # None => conn'[reg'[k]].state # "unused"
    <3>1. SUFFICES ASSUME NEW k \in Rows \ {i}, reg[k] # None
                   PROVE  conn'[reg[k]].state # "unused"
      BY <1>10, <1>12
    <3>2. reg[k] \in Streams \ {c} /\ conn[reg[k]].state # "unused"
      BY <1>1, <1>19, <3>1 DEF PairingInv, PairingTypeOK, LinksAreUp
    <3>3. QED
      BY <1>12, <3>2
  <2>3. \A k \in Streams : conn'[k].state # "unused" => conn'[k].dev \in Devices
    BY <1>12 DEF PairingInv, LinksAreUp
  <2>4. ASSUME NEW k \in Streams, outbox[k] # <<>>
        PROVE  \E e \in Devices : conn'[k].dev = e /\ link'[e] = k
    <3>1. k # c
      BY <1>20, <2>4
    <3>2. PICK e \in Devices : conn[k].dev = e /\ link[e] = k
      BY <2>4 DEF PairingInv, LinksAreUp
    <3>3. e # d
      BY <1>1, <3>2, PairingAssumption
    <3>4. QED
      BY <1>11, <1>12, <3>1, <3>2, <3>3
  <2>5. QED
    BY <1>2, <2>1, <2>2, <2>3, <2>4 DEF LinksAreUp
<1>22. DeletedIsClosed'
  <2>1. SUFFICES ASSUME NEW k \in deleting, reg'[k] # None, conn'[reg'[k]].state = "up"
                 PROVE  reg'[k] \in strays'
    BY <1>2 DEF DeletedIsClosed
  <2>2. k \in Rows
    BY <1>1 DEF PairingTypeOK
  <2>3. CASE k = i
    BY <1>2, <1>10, <2>1, <2>3
  <2>4. CASE k # i
    <3>1. reg'[k] = reg[k] /\ reg[k] \in Streams \ {c}
      BY <1>1, <1>10, <1>19, <2>1, <2>2, <2>4 DEF PairingTypeOK
    <3>2. conn[reg[k]].state = "up"
      BY <1>12, <2>1, <3>1
    <3>3. reg[k] \in strays
      BY <2>1, <3>1, <3>2 DEF PairingInv, DeletedIsClosed
    <3>4. QED
      BY <1>2, <3>1, <3>3
  <2>5. QED
    BY <2>3, <2>4
<1>23. RequestsKnow' /\ CodesAreUsed' /\ CodeOpensOnce'
  BY <1>2, <1>14, <1>15, JobsMoveOn
<1>24. OwnTokens'
  <2>1. \A x \in Streams, j \in Jobs : Sent(x, j)' => Sent(x, j)
    BY <1>2 DEF Sent
  <2>2. \A j \in Jobs : Waits(j)' /\ job'[j].own /\ row[job[j].row] # None =>
           row'[job[j].row] # None /\ row'[job[j].row].dev = row[job[j].row].dev
    <3>1. SUFFICES ASSUME NEW j \in Jobs, Waits(j)', row[job[j].row] # None
                   PROVE  row'[job[j].row] # None /\ row'[job[j].row].dev = row[job[j].row].dev
      OBVIOUS
    <3>2. Waits(j)
      BY <1>14, <3>1 DEF MovesOn, Waits
    <3>3. job[j].row \in Rows
      BY <3>2 DEF PairingInv, RequestsKnow
    <3>4. QED
      BY <1>9, <3>1, <3>3
  <2>3. \A k \in Streams : conn[k].state # "unused" => conn'[k].dev = conn[k].dev
    BY <1>1, <1>12
  <2>4. \A j \in Jobs : MovesOn(j)
    BY <1>14
  <2>5. QED
    BY <1>2, <2>1, <2>2, <2>3, <2>4, OwnTokensKept
<1>25. FilesAgree'
  <2>1. SUFFICES ASSUME NEW k \in Rows \ crossed, NEW e \in Devices, row'[k] # None,
                        row'[k].token # None, row'[k].dev = file[e].ident
                 PROVE  file[e].token = row'[k].token
    BY <1>2 DEF FilesAgree
  <2>2. row[k] # None
    BY <1>6, <1>8, <2>1
  <2>3. QED
    BY <1>9, <2>1, <2>2 DEF PairingInv, FilesAgree
<1>26. RegisteredHasItsRow'
  <2>1. SUFFICES ASSUME NEW k \in Rows, NEW e \in Devices, Up(e), link'[e] = reg'[k],
                        reg'[k] # None, reg'[k] \notin strays', conn'[reg'[k]].state = "up"
                 PROVE  row'[k] # None /\ row'[k].dev = mem[e].ident
    BY <1>2 DEF RegisteredHasItsRow, Up
  <2>2. CASE e = d
    <3>1. k = i
      BY <1>10, <1>11, <1>19, <2>1, <2>2
    <3>2. QED
      BY <1>5, <1>8, <2>2, <3>1
  <2>3. CASE e # d
    <3>1. link'[e] = link[e] /\ link[e] \in Streams \ {c}
      BY <1>1, <1>11, <1>18, <2>1, <2>3 DEF PairingTypeOK
    <3>2. k # i
      BY <1>10, <2>1, <3>1
    <3>3. reg'[k] = reg[k] /\ row'[k] = row[k] /\ conn[reg[k]].state = "up" /\ reg[k] \notin strays
      BY <1>2, <1>8, <1>10, <1>12, <2>1, <3>1, <3>2
    <3>4. QED
      BY <2>1, <3>1, <3>3 DEF PairingInv, RegisteredHasItsRow
  <2>4. QED
    BY <2>2, <2>3
<1>27. QED
  BY <1>15, <1>16, <1>17, <1>21, <1>22, <1>23, <1>24, <1>25, <1>26 DEF PairingInv

(* A step that changes rows only keeps the invariant, if the rows that are   *)
(* there keep their devices and tokens, and what appears is of the device id *)
(* of a process, without a token.                                            *)
LEMMA PairingRows ==
  ASSUME PairingInv, row' \in [Rows -> Row \union {None}],
         UNCHANGED <<deviceVars, link, reg, deleting, conn, outbox, job, history>>,
         \A k \in Rows : row[k] # None =>
           row'[k] # None /\ row'[k].dev = row[k].dev /\ row'[k].token = row[k].token,
         \A k \in Rows : row[k] = None /\ row'[k] # None =>
           row'[k].token = None /\ \E d \in Devices : Up(d) /\ row'[k].dev = mem[d].ident
  PROVE  PairingInv'
<1>1. PairingTypeOK'
  BY DEF PairingInv, PairingTypeOK, deviceVars, history
<1>2. RowsAreOfIdents'
  <2>1. SUFFICES ASSUME NEW k \in Rows, row'[k] # None
                 PROVE  row'[k].dev[2] <= idents[row'[k].dev[1]]
    BY DEF RowsAreOfIdents, deviceVars
  <2>2. CASE row[k] # None
    BY <2>2 DEF PairingInv, RowsAreOfIdents
  <2>3. CASE row[k] = None
    <3>1. PICK d \in Devices : Up(d) /\ row'[k].dev = mem[d].ident
      BY <2>1, <2>3
    <3>2. file[d] = Saved(mem[d]) /\ mem[d].ident # None
      BY <3>1, PairsAssumption DEF PairingInv, PairingTypeOK, Up, FilesAreWritten, Memory
    <3>3. mem[d].ident \in {d} \X (1..idents[d]) /\ idents[d] \in Nat
      BY <3>2 DEF PairingInv, PairingTypeOK, FilesAreWritten, Saved, NoFile
    <3>4. QED
      BY <3>1, <3>3
  <2>4. QED
    BY <2>2, <2>3
<1>3. OwnTokens'
  <2>1. \A j \in Jobs : MovesOn(j)
    BY JobsStay
  <2>2. \A x \in Streams, j \in Jobs : Sent(x, j)' => Sent(x, j)
    BY DEF Sent
  <2>3. \A j \in Jobs : Waits(j)' /\ job'[j].own /\ row[job[j].row] # None =>
           row'[job[j].row] # None /\ row'[job[j].row].dev = row[job[j].row].dev
    BY DEF PairingInv, RequestsKnow, Waits
  <2>4. QED
    BY <2>1, <2>2, <2>3, OwnTokensKept DEF deviceVars
<1>4. FilesAgree'
  BY DEF PairingInv, FilesAgree, deviceVars, history
<1>5. RegisteredHasItsRow'
  BY DEF PairingInv, RegisteredHasItsRow, Up, deviceVars, history
<1>6. /\ FilesAreWritten' /\ LinksAreUp' /\ DeletedIsClosed' /\ SentOnce'
      /\ RequestsKnow' /\ CodesAreUsed' /\ CodeOpensOnce'
  BY PairingFrame DEF deviceVars, history
<1>7. QED
  BY <1>1, <1>2, <1>3, <1>4, <1>5, <1>6 DEF PairingInv

LEMMA PairingRegister ==
  ASSUME PairingInv, NEW d \in Devices, Register(d)
  PROVE  PairingInv'
<1> DEFINE i == Assigned(d)
           first == [dev |-> mem[d].ident, token |-> None, tries |-> 0,
                     status |-> "pending_certification"]
           again == [row[i] EXCEPT !.status =
                       IF row[i].token = None THEN "pending_certification" ELSE "active"]
<1>1. Up(d) /\ i \in Rows
  BY DEF Register
<1>2. row' = [row EXCEPT ![i] = IF row[i] = None THEN first ELSE again]
  BY DEF Register
<1>3. row \in [Rows -> Row \union {None}] /\ mem[d] \in Memory /\ None \notin Row
  BY <1>1, PairsAssumption DEF PairingInv, PairingTypeOK, Up
<1>4. first \in Row /\ first.token = None /\ first.dev = mem[d].ident
  BY <1>3, PairingAssumption DEF Memory, Row
<1>5. row[i] # None =>
        again \in Row /\ again.dev = row[i].dev /\ again.token = row[i].token
  BY <1>1, <1>3 DEF Row
<1>6. QED
  <2>1. row' \in [Rows -> Row \union {None}]
    BY <1>1, <1>2, <1>3, <1>4, <1>5
  <2>2. row'[i] = (IF row[i] = None THEN first ELSE again) /\ \A k \in Rows \ {i} : row'[k] = row[k]
    BY <1>1, <1>2, <1>3
  <2> HIDE DEF first, again, i
  <2>3. \A k \in Rows : row[k] # None =>
           row'[k] # None /\ row'[k].dev = row[k].dev /\ row'[k].token = row[k].token
    BY <1>3, <1>5, <2>2
  <2>4. \A k \in Rows : row[k] = None /\ row'[k] # None =>
           row'[k].token = None /\ \E e \in Devices : Up(e) /\ row'[k].dev = mem[e].ident
    BY <1>1, <1>4, <2>2
  <2>5. QED
    BY <2>1, <2>3, <2>4, PairingRows DEF Register

LEMMA PairingMinute ==
  ASSUME PairingInv, NEW i \in Rows, NewMinute(i)
  PROVE  PairingInv'
<1>1. row \in [Rows -> Row \union {None}] /\ row[i] # None
  BY DEF PairingInv, PairingTypeOK, NewMinute
<1>2. row[i] \in Row /\ None \notin Row
  BY <1>1, PairsAssumption
<1> DEFINE r == [row[i] EXCEPT !.tries = 0]
<1>3. r \in Row /\ r.dev = row[i].dev /\ r.token = row[i].token
  BY <1>2, PairingAssumption DEF Row
<1>4. row' = [row EXCEPT ![i] = r]
  BY DEF NewMinute
<1> HIDE DEF r
<1>5. row' \in [Rows -> Row \union {None}]
  BY <1>1, <1>3, <1>4
<1>6. row'[i] = r /\ \A k \in Rows \ {i} : row'[k] = row[k]
  BY <1>1, <1>4
<1>7. \A k \in Rows : row[k] # None =>
        row'[k] # None /\ row'[k].dev = row[k].dev /\ row'[k].token = row[k].token
  BY <1>2, <1>3, <1>6
<1>8. \A k \in Rows : row[k] = None /\ row'[k] # None =>
        row'[k].token = None /\ \E d \in Devices : Up(d) /\ row'[k].dev = mem[d].ident
  BY <1>1, <1>6
<1>9. QED
  BY <1>5, <1>7, <1>8, PairingRows DEF NewMinute

(* A step that moves requests on, and changes nothing they depend on.        *)
LEMMA PairingJobs ==
  ASSUME PairingInv, job' \in [Jobs -> Job], \A j \in Jobs : MovesOn(j),
         UNCHANGED <<deviceVars, link, serverVars, conn, outbox, history>>
  PROVE  PairingInv'
<1>1. PairingTypeOK'
  BY DEF PairingInv, PairingTypeOK, deviceVars, serverVars, history
<1>2. RequestsKnow' /\ CodesAreUsed' /\ CodeOpensOnce'
  BY <1>1, JobsMoveOn DEF deviceVars
<1>3. OwnTokens'
  <2>1. \A x \in Streams, j \in Jobs : Sent(x, j)' => Sent(x, j)
    BY DEF Sent
  <2>2. QED
    BY <2>1, OwnTokensKept DEF deviceVars, serverVars
<1>4. /\ FilesAreWritten' /\ RowsAreOfIdents' /\ LinksAreUp' /\ DeletedIsClosed' /\ SentOnce'
      /\ FilesAgree' /\ RegisteredHasItsRow'
  BY PairingFrame DEF deviceVars, serverVars, history
<1>5. QED
  BY <1>1, <1>2, <1>3, <1>4 DEF PairingInv

LEMMA PairingAnswer ==
  ASSUME PairingInv, NEW j \in Jobs, Answer(j)
  PROVE  PairingInv'
<1> DEFINE pc == IF job[j].reply = "refused" THEN "failed" ELSE "answered"
           r == [job[j] EXCEPT !.pc = pc]
<1>1. job \in [Jobs -> Job] /\ \A k \in Jobs : job[k] \in Job
  BY DEF PairingInv, PairingTypeOK
<1>2. r \in Job /\ MovesOn(j)
  <2>1. job'[j] = r
    BY <1>1 DEF Answer
  <2>2. r \in Job /\ r.pc = pc /\ r.row = job[j].row /\ r.via = job[j].via /\ r.typed = job[j].typed
        /\ r.reply = job[j].reply /\ r.token = job[j].token /\ r.own = job[j].own
    BY <1>1 DEF Job
  <2>3. job[j].pc = "waiting" /\ job[j].reply \in {"token", "refused"}
    BY <1>1 DEF Answer, Job
  <2>4. QED
    BY <2>1, <2>2, <2>3 DEF MovesOn
<1>3. job' = [job EXCEPT ![j] = r]
  BY DEF Answer
<1> HIDE DEF r
<1>4. job' \in [Jobs -> Job] /\ \A k \in Jobs : MovesOn(k)
  BY <1>1, <1>2, <1>3 DEF MovesOn
<1>5. QED
  BY <1>4, PairingJobs DEF Answer

LEMMA PairingTimeOut ==
  ASSUME PairingInv, NEW j \in Jobs, TimeOut(j)
  PROVE  PairingInv'
<1> DEFINE r == [job[j] EXCEPT !.pc = "failed"]
<1>1. job \in [Jobs -> Job] /\ \A k \in Jobs : job[k] \in Job
  BY DEF PairingInv, PairingTypeOK
<1>2. r \in Job /\ MovesOn(j)
  <2>1. job'[j] = r
    BY <1>1 DEF TimeOut
  <2>2. r \in Job /\ r.pc = "failed" /\ r.row = job[j].row /\ r.via = job[j].via /\ r.typed = job[j].typed
        /\ r.reply = job[j].reply /\ r.token = job[j].token /\ r.own = job[j].own
    BY <1>1 DEF Job
  <2>3. QED
    BY <2>1, <2>2 DEF MovesOn, TimeOut
<1>3. job' = [job EXCEPT ![j] = r]
  BY DEF TimeOut
<1> HIDE DEF r
<1>4. job' \in [Jobs -> Job] /\ \A k \in Jobs : MovesOn(k)
  BY <1>1, <1>2, <1>3 DEF MovesOn
<1>5. QED
  BY <1>4, PairingJobs DEF TimeOut

(* A connection that closes takes no device with it: its calls fail.         *)
LEMMA PairingClosed ==
  ASSUME PairingInv, NEW C, Closed(C),
         UNCHANGED <<deviceVars, link, row, reg, outbox, history>>,
         deleting' \subseteq Rows, \A i \in deleting' \ deleting : reg[i] \in C
  PROVE  PairingInv'
<1>1. \A k \in Streams : conn[k] \in [state : {"unused", "up", "closed", "ended"},
                                     dev : Devices \union {None}, id : Rows \union {0}]
  BY DEF PairingInv, PairingTypeOK
<1>2. \A k \in Streams :
        /\ conn'[k].dev = conn[k].dev
        /\ conn'[k].state = "unused" <=> conn[k].state = "unused"
        /\ conn'[k].state = "up" => conn[k].state = "up" /\ k \notin C
  BY <1>1 DEF Closed
<1>3. conn' \in [Streams -> [state : {"unused", "up", "closed", "ended"},
                            dev : Devices \union {None}, id : Rows \union {0}]]
  <2> DEFINE S == [state : {"unused", "up", "closed", "ended"},
                   dev : Devices \union {None}, id : Rows \union {0}]
  <2>1. \A k \in Streams : [conn[k] EXCEPT !.state = "closed"] \in S
    BY <1>1
  <2>2. \A k \in Streams : conn[k] \in S
    BY <1>1
  <2> HIDE DEF S
  <2>3. conn' \in [Streams -> S]
    BY <2>1, <2>2 DEF Closed
  <2>4. QED
    BY <2>3 DEF S
<1>4. \A j \in Jobs : job[j] \in Job
  BY DEF PairingInv, PairingTypeOK
<1>5. \A j \in Jobs : MovesOn(j) /\ job'[j] \in Job
  BY <1>4 DEF Closed, MovesOn, Job
<1>6. job' \in [Jobs -> Job]
  BY <1>5 DEF Closed
<1>7. PairingTypeOK'
  BY <1>3, <1>6 DEF PairingInv, PairingTypeOK, deviceVars, history
<1>8. RequestsKnow' /\ CodesAreUsed' /\ CodeOpensOnce'
  BY <1>5, <1>7, JobsMoveOn DEF deviceVars
<1>9. OwnTokens'
  <2>1. \A x \in Streams, j \in Jobs : Sent(x, j)' => Sent(x, j)
    BY DEF Sent
  <2>2. \A j \in Jobs : MovesOn(j)
    BY <1>5
  <2>3. \A k \in Streams : conn[k].state # "unused" => conn'[k].dev = conn[k].dev
    BY <1>2
  <2>4. QED
    BY <2>1, <2>2, <2>3, OwnTokensKept DEF deviceVars
<1>10. LinksAreUp'
  <2>1. \A d \in Devices : link[d] # None => link[d] \in Streams
    BY DEF PairingInv, PairingTypeOK
  <2>2. \A i \in Rows : reg[i] # None => reg[i] \in Streams
    BY DEF PairingInv, PairingTypeOK
  <2>3. QED
    BY <1>2, <2>1, <2>2 DEF PairingInv, LinksAreUp, Up, deviceVars
<1>11. DeletedIsClosed'
  <2>1. SUFFICES ASSUME NEW i \in deleting', reg[i] # None, conn'[reg[i]].state = "up"
                 PROVE  reg[i] \in strays
    BY DEF DeletedIsClosed, history
  <2>2. i \in Rows /\ reg[i] \in Streams
    BY <2>1 DEF PairingInv, PairingTypeOK
  <2>3. i \in deleting /\ conn[reg[i]].state = "up"
    BY <1>2, <2>1, <2>2
  <2>4. QED
    BY <2>1, <2>3 DEF PairingInv, DeletedIsClosed
<1>12. RegisteredHasItsRow'
  <2>1. SUFFICES ASSUME NEW i \in Rows, NEW d \in Devices, Up(d), link[d] = reg[i],
                        reg[i] # None, reg[i] \notin strays, conn'[reg[i]].state = "up"
                 PROVE  row[i] # None /\ row[i].dev = mem[d].ident
    BY DEF RegisteredHasItsRow, Up, deviceVars, history
  <2>2. conn[reg[i]].state = "up"
    BY <1>2, <2>1 DEF PairingInv, PairingTypeOK
  <2>3. QED
    BY <2>1, <2>2 DEF PairingInv, RegisteredHasItsRow
<1>13. FilesAreWritten' /\ RowsAreOfIdents' /\ SentOnce' /\ FilesAgree'
  BY PairingFrame DEF deviceVars, history
<1>14. QED
  BY <1>7, <1>8, <1>9, <1>10, <1>11, <1>12, <1>13 DEF PairingInv

LEMMA PairingNotice ==
  ASSUME PairingInv, NEW c \in Streams, Notice(c)
  PROVE  PairingInv'
<1>1. deleting' = deleting /\ deleting \subseteq Rows
  BY DEF Notice, serverVars, PairingInv, PairingTypeOK
<1>2. QED
  BY <1>1, PairingClosed DEF Notice, serverVars

LEMMA PairingBeginDelete ==
  ASSUME PairingInv, NEW i \in Rows, BeginDelete(i)
  PROVE  PairingInv'
<1>1. deleting' \subseteq Rows /\ deleting' \ deleting \subseteq {i}
  BY DEF BeginDelete, PairingInv, PairingTypeOK
<1>2. Closed({reg[i]}) /\ UNCHANGED <<deviceVars, link, row, reg, outbox, history>>
  BY DEF BeginDelete
<1>3. \A k \in deleting' \ deleting : reg[k] \in {reg[i]}
  BY <1>1
<1>4. QED
  BY <1>1, <1>2, <1>3, PairingClosed

(* The handler of a connection ends: only its own registration goes.         *)
LEMMA PairingUnregister ==
  ASSUME PairingInv, NEW c \in Streams, Unregister(c)
  PROVE  PairingInv'
<1>1. /\ conn[c].state = "closed"
      /\ conn' = [conn EXCEPT ![c].state = "ended"]
      /\ reg' = [reg EXCEPT ![conn[c].id] = IF reg[conn[c].id] = c THEN None ELSE reg[conn[c].id]]
      /\ strays' = strays \ {c}
      /\ UNCHANGED <<deviceVars, link, row, deleting, outbox, job, crossed>>
  BY DEF Unregister
<1>2. \A k \in Streams : conn[k] \in [state : {"unused", "up", "closed", "ended"},
                                     dev : Devices \union {None}, id : Rows \union {0}]
  BY DEF PairingInv, PairingTypeOK
<1>3. /\ conn'[c].dev = conn[c].dev /\ conn'[c].state = "ended"
      /\ \A k \in Streams \ {c} : conn'[k] = conn[k]
      /\ conn' \in [Streams -> [state : {"unused", "up", "closed", "ended"},
                                dev : Devices \union {None}, id : Rows \union {0}]]
  BY <1>1, <1>2 DEF PairingInv, PairingTypeOK
<1>4. \A k \in Streams :
        /\ conn'[k].dev = conn[k].dev
        /\ conn'[k].state = "unused" <=> conn[k].state = "unused"
        /\ conn'[k].state = "up" => conn[k].state = "up" /\ k # c
  BY <1>1, <1>3
<1>5. /\ reg' \in [Rows -> Streams \union {None}]
      /\ \A i \in Rows : reg'[i] \in {reg[i], None}
  BY <1>1 DEF PairingInv, PairingTypeOK
<1>6. PairingTypeOK'
  BY <1>1, <1>3, <1>5 DEF PairingInv, PairingTypeOK, deviceVars
<1>7. LinksAreUp'
  <2>1. \A d \in Devices : link[d] # None => link[d] \in Streams
    BY DEF PairingInv, PairingTypeOK
  <2>2. \A i \in Rows : reg'[i] # None => reg'[i] \in Streams /\ reg'[i] = reg[i]
    BY <1>5
  <2>3. QED
    BY <1>1, <1>4, <2>1, <2>2 DEF PairingInv, LinksAreUp, Up, deviceVars
<1>8. DeletedIsClosed'
  <2>1. SUFFICES ASSUME NEW i \in deleting, reg'[i] # None, conn'[reg'[i]].state = "up"
                 PROVE  reg'[i] \in strays \ {c}
    BY <1>1 DEF DeletedIsClosed
  <2>2. i \in Rows /\ reg'[i] = reg[i] /\ reg[i] \in Streams
    BY <1>5, <2>1 DEF PairingInv, PairingTypeOK
  <2>3. conn[reg[i]].state = "up" /\ reg[i] # c
    BY <1>4, <2>1, <2>2
  <2>4. QED
    BY <2>1, <2>2, <2>3 DEF PairingInv, DeletedIsClosed
<1>9. RegisteredHasItsRow'
  <2>1. SUFFICES ASSUME NEW i \in Rows, NEW d \in Devices, Up(d), link[d] = reg'[i],
                        reg'[i] # None, reg'[i] \notin strays \ {c}, conn'[reg'[i]].state = "up"
                 PROVE  row[i] # None /\ row[i].dev = mem[d].ident
    BY <1>1 DEF RegisteredHasItsRow, Up, deviceVars
  <2>2. reg'[i] = reg[i] /\ reg[i] \in Streams
    BY <1>5, <2>1
  <2>3. conn[reg[i]].state = "up" /\ reg[i] # c
    BY <1>4, <2>1, <2>2
  <2>4. QED
    BY <2>1, <2>2, <2>3 DEF PairingInv, RegisteredHasItsRow
<1>10. OwnTokens'
  <2>1. \A x \in Streams, j \in Jobs : Sent(x, j)' => Sent(x, j)
    BY <1>1 DEF Sent
  <2>2. \A j \in Jobs : MovesOn(j)
    BY <1>1, JobsStay
  <2>3. \A k \in Streams : conn[k].state # "unused" => conn'[k].dev = conn[k].dev
    BY <1>4
  <2>4. row' = row /\ mem' = mem /\ file' = file
    BY <1>1 DEF deviceVars
  <2>5. QED
    BY <2>1, <2>2, <2>3, <2>4, OwnTokensKept
<1>11. /\ FilesAreWritten' /\ RowsAreOfIdents' /\ SentOnce' /\ RequestsKnow'
       /\ FilesAgree' /\ CodesAreUsed' /\ CodeOpensOnce'
  BY <1>1, PairingFrame DEF deviceVars
<1>12. QED
  BY <1>6, <1>7, <1>8, <1>9, <1>10, <1>11 DEF PairingInv

(* What is sent goes to a linked device.                                     *)
LEMMA SentToLinked ==
  ASSUME PairingInv, NEW i \in Rows, reg[i] # None, NEW what \in {"code"} \union Jobs,
         Send(i, what), UNCHANGED <<mem, link, reg, conn>>
  PROVE  LinksAreUp'
<1>1. \A x \in Streams : outbox'[x] # <<>> =>
        \/ outbox[x] # <<>>
        \/ x = reg[i] /\ conn[x].state = "up" /\ link[conn[x].dev] = x
  BY SendDoes DEF PairingInv
<1>2. ASSUME NEW x \in Streams, outbox'[x] # <<>>
      PROVE  \E d \in Devices : conn[x].dev = d /\ link[d] = x
  BY <1>1, <1>2 DEF PairingInv, LinksAreUp
<1>3. QED
  BY <1>2 DEF PairingInv, LinksAreUp, Up

LEMMA PairingAskCode ==
  ASSUME PairingInv, NEW i \in Rows, AskCode(i)
  PROVE  PairingInv'
<1>1. /\ reg[i] # None /\ Send(i, "code")
      /\ UNCHANGED <<deviceVars, link, serverVars, conn, job, history>>
  BY DEF AskCode
<1>2. "code" \notin Jobs
  BY PairingAssumption
<1>3. /\ outbox' \in [Streams -> Seq({"code"} \union Jobs)]
      /\ \A x \in Streams, j \in Jobs : Sent(x, j)' => Sent(x, j)
      /\ SentOnce'
  <2>1. /\ outbox' \in [Streams -> Seq({"code"} \union Jobs)]
        /\ \A x \in Streams, j \in Jobs : Sent(x, j)' => Sent(x, j) \/ j = "code"
        /\ ("code" \in Jobs => ~Sent(reg[i], "code")) => SentOnce'
    BY <1>1, SendDoes DEF PairingInv
  <2>2. QED
    BY <1>2, <2>1
<1>4. LinksAreUp'
  BY <1>1, SentToLinked DEF deviceVars, serverVars
<1>5. PairingTypeOK'
  BY <1>1, <1>3 DEF PairingInv, PairingTypeOK, deviceVars, serverVars, history
<1>6. RequestsKnow'
  BY <1>1, <1>3 DEF PairingInv, RequestsKnow, Waits, Opened
<1>7. OwnTokens'
  <2>1. \A j \in Jobs : MovesOn(j)
    BY <1>1, JobsStay
  <2>2. row' = row /\ conn' = conn /\ mem' = mem /\ file' = file
    BY <1>1 DEF deviceVars, serverVars
  <2>3. QED
    BY <1>3, <2>1, <2>2, OwnTokensKept
<1>8. /\ FilesAreWritten' /\ RowsAreOfIdents' /\ DeletedIsClosed' /\ FilesAgree'
      /\ CodesAreUsed' /\ CodeOpensOnce' /\ RegisteredHasItsRow'
  BY <1>1, PairingFrame DEF deviceVars, serverVars, history
<1>9. QED
  BY <1>3, <1>4, <1>5, <1>6, <1>7, <1>8 DEF PairingInv

(* A request to pair asks the device whose row it is about, unless it goes   *)
(* out on a stream of another one: only the former is its own.               *)
LEMMA PairingAsk ==
  ASSUME PairingInv, NEW j \in Jobs, NEW i \in Rows, NEW typed \in Codes, AskPair(j, i, typed)
  PROVE  PairingInv'
<1> DEFINE r == [row[i] EXCEPT !.tries = row[i].tries + 1]
           own == OfDevice(i, reg[i])
           asked == [NoRequest EXCEPT !.pc = "waiting", !.row = i, !.via = reg[i],
                                      !.typed = typed, !.own = own]
<1>1. /\ job[j].pc = "idle" /\ row[i] # None /\ row[i].tries < MaxTries
      /\ row' = [row EXCEPT ![i] = r]
      /\ UNCHANGED <<deviceVars, link, reg, deleting, conn, history>>
  BY DEF AskPair
<1>2. /\ row \in [Rows -> Row \union {None}] /\ None \notin Row
      /\ job \in [Jobs -> Job] /\ PairingTypeOK /\ SentOnce
  BY PairsAssumption DEF PairingInv, PairingTypeOK
<1>3. r \in Row /\ r.dev = row[i].dev /\ r.token = row[i].token
  BY <1>1, <1>2, PairingAssumption DEF Row
<1> HIDE DEF r
<1>4. /\ row' \in [Rows -> Row \union {None}]
      /\ row'[i] = r /\ \A k \in Rows \ {i} : row'[k] = row[k]
  BY <1>1, <1>2, <1>3
<1>5. \A k \in Rows : /\ row'[k] # None <=> row[k] # None
                      /\ row'[k].dev = row[k].dev /\ row'[k].token = row[k].token
  BY <1>1, <1>2, <1>3, <1>4
<1>6. RowsAreOfIdents' /\ FilesAgree' /\ RegisteredHasItsRow'
  BY <1>1, <1>5 DEF PairingInv, RowsAreOfIdents, FilesAgree, RegisteredHasItsRow, Up,
                    deviceVars, history
<1>7. FilesAreWritten' /\ DeletedIsClosed'
  BY <1>1, PairingFrame DEF deviceVars, history
<1>8. CASE reg[i] = None
  <2>1. job' = [job EXCEPT ![j].pc = "failed"] /\ outbox' = outbox
    BY <1>8 DEF AskPair
  <2>2. \A k \in Jobs : job[k] \in Job
    BY <1>2
  <2>3. job' \in [Jobs -> Job]
    BY <1>2, <2>1, <2>2 DEF Job
  <2>4. /\ \A k \in Jobs \ {j} : job'[k] = job[k]
        /\ job'[j] = [job[j] EXCEPT !.pc = "failed"]
    BY <1>2, <2>1
  <2>5. \A k \in Jobs : MovesOn(k)
    BY <2>2, <2>4 DEF MovesOn, Job
  <2>6. PairingTypeOK'
    BY <1>1, <1>2, <1>4, <2>1, <2>3 DEF PairingTypeOK, deviceVars, history
  <2>7. RequestsKnow' /\ CodesAreUsed' /\ CodeOpensOnce'
    BY <1>1, <2>1, <2>5, <2>6, JobsMoveOn DEF deviceVars
  <2>8. OwnTokens'
    <3>1. \A x \in Streams, k \in Jobs : Sent(x, k)' => Sent(x, k)
      BY <2>1 DEF Sent
    <3>2. \A k \in Jobs : Waits(k)' /\ job'[k].own /\ row[job[k].row] # None =>
            row'[job[k].row] # None /\ row'[job[k].row].dev = row[job[k].row].dev
      <4>1. \A k \in Jobs : Waits(k)' => Waits(k)
        BY <2>2, <2>4 DEF Waits, Job
      <4>2. \A k \in Jobs : Waits(k) => job[k].row \in Rows
        BY DEF PairingInv, RequestsKnow
      <4>3. QED
        BY <1>5, <4>1, <4>2
    <3>3. conn' = conn /\ mem' = mem /\ file' = file
      BY <1>1 DEF deviceVars
    <3>4. QED
      BY <2>5, <3>1, <3>2, <3>3, OwnTokensKept
  <2>9. LinksAreUp' /\ SentOnce'
    BY <1>1, <2>1, PairingFrame DEF deviceVars
  <2>10. QED
    BY <1>6, <1>7, <2>6, <2>7, <2>8, <2>9 DEF PairingInv
<1>9. CASE reg[i] # None
  <2>1. job' = [job EXCEPT ![j] = asked] /\ Send(i, j) /\ reg[i] \in Streams
    BY <1>2, <1>9 DEF AskPair, PairingTypeOK
  <2>2. PICK c \in Streams : c = reg[i]
    BY <2>1
  <2>3. own \in BOOLEAN
    BY DEF OfDevice
  <2>4. /\ asked \in Job
        /\ asked.pc = "waiting" /\ asked.row = i /\ asked.via = c
        /\ asked.typed = typed /\ asked.own = own
        /\ asked.reply = "none"
    BY <2>1, <2>2, <2>3 DEF NoRequest, Job
  <2> HIDE DEF asked
  <2>5. /\ job' \in [Jobs -> Job]
        /\ job'[j] = asked /\ \A k \in Jobs \ {j} : job'[k] = job[k]
    BY <1>2, <2>1, <2>4
  <2>6. \A x \in Streams : ~Sent(x, j)
    BY <1>1 DEF PairingInv, RequestsKnow
  <2>7. /\ outbox' \in [Streams -> Seq({"code"} \union Jobs)]
        /\ \A x \in Streams, k \in Jobs : Sent(x, k)' => Sent(x, k) \/ (k = j /\ x = c)
        /\ SentOnce'
    BY <1>2, <1>9, <2>1, <2>2, <2>6, SendDoes
  <2>8. LinksAreUp'
    BY <1>1, <1>9, <2>1, SentToLinked DEF deviceVars
  <2>9. PairingTypeOK'
    BY <1>1, <1>2, <1>4, <2>5, <2>7 DEF PairingTypeOK, deviceVars, history
  <2>10. ~Opened(j)' /\ \A k \in Jobs \ {j} : Opened(k)' <=> Opened(k)
    BY <2>4, <2>5 DEF Opened
  <2>11. RequestsKnow'
    <3>1. SUFFICES ASSUME NEW k \in Jobs
                   PROVE  /\ Waits(k)' => job'[k].row \in Rows /\ job'[k].via \in Streams
                          /\ \A x \in Streams : Sent(x, k)' =>
                               job'[k].pc # "idle" /\ job'[k].via = x /\ job'[k].reply = "none"
                          /\ job'[k].pc = "answered" => job'[k].reply = "token"
                          /\ Opened(k)' => job'[k].token # None
      BY DEF RequestsKnow
    <3>2. CASE k = j
      BY <2>4, <2>5, <2>6, <2>7, <2>10, <3>2
    <3>3. CASE k # j
      BY <2>5, <2>7, <3>3 DEF PairingInv, RequestsKnow, Waits, Opened
    <3>4. QED
      BY <3>2, <3>3
  <2>12. OwnTokens'
    <3>1. conn' = conn /\ mem' = mem /\ file' = file
      BY <1>1 DEF deviceVars
    <3>2. SUFFICES ASSUME NEW k \in Jobs, Waits(k)', job'[k].own
                   PROVE  /\ row'[job'[k].row] # None
                          /\ \A e \in Devices : Sent(job[k].via, k)' /\ conn[job'[k].via].dev = e =>
                               mem[e].ident = row'[job'[k].row].dev
                          /\ \A e \in Devices : Opened(k)' /\ file[e].ident = row'[job'[k].row].dev =>
                               file[e].token = job'[k].token
      BY <3>1 DEF OwnTokens
    <3>3. CASE k = j
      <4>1. job'[k].row = i /\ job'[k].via = c /\ own
        BY <2>4, <2>5, <3>2, <3>3
      <4>2. \A e \in Devices : conn[c].dev = e => mem[e].ident = row[i].dev
        BY <2>2, <4>1 DEF OfDevice
      <4>3. QED
        BY <1>1, <1>5, <2>10, <3>3, <4>1, <4>2
    <3>4. CASE k # j
      <4>1. job'[k] = job[k] /\ Waits(k) /\ job[k].own
        BY <2>5, <3>2, <3>4 DEF Waits
      <4>2. PICK l \in Rows, x \in Streams : job[k].row = l /\ job[k].via = x
        BY <4>1 DEF PairingInv, RequestsKnow
      <4>3. /\ row[l] # None
            /\ \A e \in Devices : Sent(x, k) /\ conn[x].dev = e => mem[e].ident = row[l].dev
            /\ \A e \in Devices : Opened(k) /\ file[e].ident = row[l].dev => file[e].token = job[k].token
        BY <4>1, <4>2 DEF PairingInv, OwnTokens
      <4>4. Sent(x, k)' => Sent(x, k)
        BY <2>7, <3>4
      <4>5. QED
        BY <1>5, <2>10, <3>4, <4>1, <4>2, <4>3, <4>4
    <3>5. QED
      BY <3>3, <3>4
  <2>13. CodesAreUsed'
    BY <1>1, <2>5, <2>10 DEF PairingInv, CodesAreUsed, deviceVars
  <2>14. CodeOpensOnce'
    BY <2>5, <2>10 DEF PairingInv, CodeOpensOnce
  <2>15. QED
    BY <1>6, <1>7, <2>7, <2>8, <2>9, <2>11, <2>12, <2>13, <2>14 DEF PairingInv
<1>10. QED
  BY <1>8, <1>9

(* The token that a pairing writes is the one that the row's device keeps,   *)
(* unless the request is not the row's own any more.                         *)
LEMMA PairingFinish ==
  ASSUME PairingInv, NEW j \in Jobs, FinishPair(j)
  PROVE  PairingInv'
<1>1. PICK i \in Rows : i = job[j].row
  BY DEF FinishPair, PairingInv, RequestsKnow, Waits
<1>2. /\ job \in [Jobs -> Job] /\ row \in [Rows -> Row \union {None}] /\ None \notin Row
      /\ PairingTypeOK
  BY PairsAssumption DEF PairingInv, PairingTypeOK
<1>3. /\ job[j].pc = "answered" /\ Waits(j) /\ Opened(j) /\ job[j].token \in Tokens
      /\ UNCHANGED <<deviceVars, link, reg, deleting, conn, outbox, strays>>
  <2>1. job[j].pc = "answered" /\ UNCHANGED <<deviceVars, link, reg, deleting, conn, outbox, strays>>
    BY DEF FinishPair
  <2>2. Waits(j) /\ Opened(j) /\ job[j].token # None
    BY <2>1 DEF PairingInv, RequestsKnow, Waits, Opened
  <2>3. QED
    BY <1>2, <2>1, <2>2 DEF Job
<1> DEFINE r == [row[i] EXCEPT !.token = job[j].token, !.status = "active"]
<1>4. \/ /\ row[i] = None /\ job' = [job EXCEPT ![j].pc = "failed"]
         /\ row' = row /\ crossed' = crossed
      \/ /\ row[i] # None /\ job' = [job EXCEPT ![j].pc = "paired"]
         /\ row' = [row EXCEPT ![i] = r]
         /\ crossed' = IF job[j].own THEN crossed \ {i} ELSE crossed \union {i}
  BY <1>1 DEF FinishPair
<1>5. /\ job' \in [Jobs -> Job] /\ \A k \in Jobs : MovesOn(k) /\ (Waits(k)' => Waits(k) /\ k # j)
  <2>1. PICK pc \in {"failed", "paired"} : job' = [job EXCEPT ![j].pc = pc]
    BY <1>4
  <2>2. \A k \in Jobs : job[k] \in Job
    BY <1>2
  <2>3. /\ job'[j] = [job[j] EXCEPT !.pc = pc]
        /\ \A k \in Jobs \ {j} : job'[k] = job[k]
    BY <1>2, <2>1
  <2>4. job'[j] \in Job
    BY <2>2, <2>3 DEF Job
  <2>5. QED
    BY <1>2, <2>1, <2>2, <2>3, <2>4 DEF MovesOn, Waits, Job
<1>6. row[i] # None => r \in Row /\ r.dev = row[i].dev /\ r.token = job[j].token
  BY <1>2, <1>3 DEF Row
<1> HIDE DEF r
<1>7. /\ row' \in [Rows -> Row \union {None}] /\ crossed' \subseteq Rows
      /\ \A k \in Rows : /\ row'[k] # None <=> row[k] # None
                         /\ row'[k].dev = row[k].dev
                         /\ k # i => row'[k] = row[k] /\ (k \in crossed' <=> k \in crossed)
      /\ row[i] # None => row'[i].token = job[j].token
  <2>1. crossed \subseteq Rows
    BY <1>2 DEF PairingTypeOK
  <2>2. QED
    BY <1>2, <1>4, <1>6, <2>1
<1>8. PairingTypeOK'
  BY <1>2, <1>3, <1>5, <1>7 DEF PairingTypeOK, deviceVars
<1>9. RequestsKnow' /\ CodesAreUsed' /\ CodeOpensOnce'
  BY <1>3, <1>5, <1>8, JobsMoveOn DEF deviceVars
<1>10. OwnTokens'
  <2>1. \A x \in Streams, k \in Jobs : Sent(x, k)' => Sent(x, k)
    BY <1>3 DEF Sent
  <2>2. \A k \in Jobs : Waits(k)' /\ job'[k].own /\ row[job[k].row] # None =>
          row'[job[k].row] # None /\ row'[job[k].row].dev = row[job[k].row].dev
    BY <1>5, <1>7 DEF PairingInv, RequestsKnow
  <2>3. conn' = conn /\ mem' = mem /\ file' = file
    BY <1>3 DEF deviceVars
  <2>4. \A k \in Jobs : MovesOn(k)
    BY <1>5
  <2>5. QED
    BY <2>1, <2>2, <2>3, <2>4, OwnTokensKept
<1>11. FilesAgree'
  <2>1. SUFFICES ASSUME NEW k \in Rows \ crossed', NEW d \in Devices, row'[k] # None,
                        row'[k].token # None, row'[k].dev = file[d].ident
                 PROVE  file[d].token = row'[k].token
    BY <1>3 DEF FilesAgree, deviceVars
  <2>2. CASE k # i
    BY <1>7, <2>1, <2>2 DEF PairingInv, FilesAgree
  <2>3. CASE k = i
    <3>1. row[i] # None /\ row'[i].token = job[j].token /\ row[i].dev = file[d].ident
      BY <1>7, <2>1, <2>3
    <3>2. job[j].own
      BY <1>4, <2>1, <2>3, <3>1
    <3>3. file[d].token = job[j].token
      BY <1>1, <1>3, <3>1, <3>2 DEF PairingInv, OwnTokens
    <3>4. QED
      BY <2>3, <3>1, <3>3
  <2>4. QED
    BY <2>2, <2>3
<1>12. RowsAreOfIdents' /\ RegisteredHasItsRow'
  BY <1>3, <1>7 DEF PairingInv, RowsAreOfIdents, RegisteredHasItsRow, Up, deviceVars
<1>13. FilesAreWritten' /\ LinksAreUp' /\ DeletedIsClosed' /\ SentOnce'
  BY <1>3, PairingFrame DEF deviceVars
<1>14. QED
  BY <1>8, <1>9, <1>10, <1>11, <1>12, <1>13 DEF PairingInv

(* A row that goes leaves no registration of a device behind that is not a   *)
(* stray, and no request that is its own.                                    *)
LEMMA PairingEndDelete ==
  ASSUME PairingInv, NEW i \in Rows, EndDelete(i)
  PROVE  PairingInv'
<1>1. /\ i \in deleting /\ deleting' = deleting \ {i}
      /\ row' = [row EXCEPT ![i] = None]
      /\ job' = [j \in Jobs |-> IF job[j].row = i THEN [job[j] EXCEPT !.own = FALSE] ELSE job[j]]
      /\ crossed' = crossed \ {i}
      /\ UNCHANGED <<deviceVars, link, reg, conn, outbox, strays>>
  BY DEF EndDelete
<1>2. /\ PairingTypeOK /\ \A j \in Jobs : job[j] \in Job
  BY DEF PairingInv, PairingTypeOK
<1>3. row'[i] = None /\ \A k \in Rows \ {i} : row'[k] = row[k]
  BY <1>1, <1>2 DEF PairingTypeOK
<1>4. \A j \in Jobs : MovesOn(j) /\ job'[j] \in Job /\ (job[j].row = i => ~job'[j].own)
  BY <1>1, <1>2 DEF MovesOn, Job
<1>5. PairingTypeOK'
  <2>1. job' \in [Jobs -> Job]
    BY <1>1, <1>4
  <2>2. QED
    BY <1>1, <1>2, <2>1 DEF PairingTypeOK, deviceVars
<1>6. RequestsKnow' /\ CodesAreUsed' /\ CodeOpensOnce'
  BY <1>1, <1>4, <1>5, JobsMoveOn DEF deviceVars
<1>7. OwnTokens'
  <2>1. \A x \in Streams, k \in Jobs : Sent(x, k)' => Sent(x, k)
    BY <1>1 DEF Sent
  <2>2. \A k \in Jobs : Waits(k)' /\ job'[k].own /\ row[job[k].row] # None =>
          row'[job[k].row] # None /\ row'[job[k].row].dev = row[job[k].row].dev
    <3>1. SUFFICES ASSUME NEW k \in Jobs, Waits(k)', job'[k].own
                   PROVE  row'[job[k].row] = row[job[k].row]
      OBVIOUS
    <3>2. Waits(k) /\ job[k].row # i
      BY <1>4, <1>1, <1>2, <3>1 DEF Waits, Job
    <3>3. job[k].row \in Rows
      BY <3>2 DEF PairingInv, RequestsKnow
    <3>4. QED
      BY <1>3, <3>2, <3>3
  <2>3. conn' = conn /\ mem' = mem /\ file' = file
    BY <1>1 DEF deviceVars
  <2>4. \A k \in Jobs : MovesOn(k)
    BY <1>4
  <2>5. QED
    BY <2>1, <2>2, <2>3, <2>4, OwnTokensKept
<1>8. FilesAgree'
  <2>1. SUFFICES ASSUME NEW k \in Rows \ crossed', NEW d \in Devices, row'[k] # None,
                        row'[k].token # None, row'[k].dev = file[d].ident
                 PROVE  file[d].token = row'[k].token
    BY <1>1 DEF FilesAgree, deviceVars
  <2>2. k # i /\ k \notin crossed /\ row'[k] = row[k]
    BY <1>1, <1>3, <2>1
  <2>3. QED
    BY <2>1, <2>2 DEF PairingInv, FilesAgree
<1>9. RowsAreOfIdents'
  BY <1>1, <1>3 DEF PairingInv, RowsAreOfIdents, deviceVars
<1>10. RegisteredHasItsRow'
  <2>1. SUFFICES ASSUME NEW k \in Rows, NEW d \in Devices, Up(d), link[d] = reg[k],
                        reg[k] # None, reg[k] \notin strays, conn[reg[k]].state = "up"
                 PROVE  row'[k] # None /\ row'[k].dev = mem[d].ident
    BY <1>1 DEF RegisteredHasItsRow, Up, deviceVars
  <2>2. k # i
    BY <1>1, <2>1 DEF PairingInv, DeletedIsClosed
  <2>3. QED
    BY <1>3, <2>1, <2>2 DEF PairingInv, RegisteredHasItsRow
<1>11. DeletedIsClosed'
  BY <1>1 DEF PairingInv, DeletedIsClosed
<1>12. FilesAreWritten' /\ LinksAreUp' /\ SentOnce'
  BY <1>1, PairingFrame DEF deviceVars
<1>13. QED
  BY <1>5, <1>6, <1>7, <1>8, <1>9, <1>10, <1>11, <1>12 DEF PairingInv

-----------------------------------------------------------------------------
LEMMA PairingStarts ==
  ASSUME PairingInit
  PROVE  PairingInv
<1> USE DEF PairingInit
<1>1. /\ \A d \in Devices : mem[d] = Off /\ file[d] = NoFile /\ link[d] = None
      /\ \A i \in Rows : row[i] = None /\ reg[i] = None
      /\ \A c \in Streams : conn[c].state = "unused" /\ outbox[c] = <<>>
      /\ \A j \in Jobs : job[j] = NoRequest
  OBVIOUS
<1>2. NoRequest.pc = "idle" /\ NoRequest.reply = "none" /\ NoRequest \in Job
  BY DEF NoRequest, Job
<1>3. PairingTypeOK
  <2>1. /\ mem \in [Devices -> Memory \union {Off}]
        /\ file \in [Devices -> [ident : Idents \union {None}, token : Tokens \union {None}]]
    BY DEF NoFile
  <2>2. /\ idents \in [Devices -> 0..MaxIdents]
        /\ tokens \in [Devices -> Nat] /\ codes \in [Devices -> 0..MaxCodes]
    BY PairingAssumption
  <2>3. conn \in [Streams -> [state : {"unused", "up", "closed", "ended"},
                              dev : Devices \union {None}, id : Rows \union {0}]]
    OBVIOUS
  <2>4. outbox \in [Streams -> Seq({"code"} \union Jobs)]
    BY EmptySeq
  <2>5. job \in [Jobs -> Job]
    BY <1>2
  <2>6. QED
    BY <2>1, <2>2, <2>3, <2>4, <2>5 DEF PairingTypeOK
<1>4. \A c \in Streams, j \in Jobs : ~Sent(c, j)
  BY <1>1, SentNotEmpty
<1>5. FilesAreWritten /\ RowsAreOfIdents /\ DeletedIsClosed /\ FilesAgree
  BY <1>1 DEF FilesAreWritten, RowsAreOfIdents, DeletedIsClosed, FilesAgree, Up
<1>6. LinksAreUp /\ RegisteredHasItsRow
  BY <1>1 DEF LinksAreUp, RegisteredHasItsRow, Up
<1>7. SentOnce
  <2>1. \A c \in Streams : Len(outbox[c]) = 0
    BY <1>1
  <2>2. QED
    BY <2>1 DEF SentOnce
<1>8. RequestsKnow /\ OwnTokens /\ CodesAreUsed /\ CodeOpensOnce
  BY <1>1, <1>2, <1>4 DEF RequestsKnow, OwnTokens, CodesAreUsed, CodeOpensOnce, Waits, Opened
<1>9. QED
  BY <1>3, <1>5, <1>6, <1>7, <1>8 DEF PairingInv

LEMMA PairingStep ==
  ASSUME PairingInv, [PairingNext]_pairingVars
  PROVE  PairingInv'
<1>1. CASE UNCHANGED pairingVars
  <2>1. UNCHANGED <<mem, file, idents, tokens, codes, link, row, reg, deleting, conn, outbox,
                    job, strays, crossed>>
    BY <1>1 DEF pairingVars, deviceVars, serverVars, history
  <2>2. PairingTypeOK'
    BY <2>1 DEF PairingInv, PairingTypeOK
  <2>3. QED
    BY <2>1, <2>2, PairingFrame DEF PairingInv
<1>2. CASE PairingNext
  <2>1. CASE PairingFinished
    BY <1>1, <2>1 DEF PairingFinished
  <2>2. ASSUME NEW d \in Devices,
               Start(d) \/ Crash(d) \/ Drop(d) \/ CodeExpires(d) \/ Register(d)
        PROVE  PairingInv'
    BY <2>2, PairingStart, PairingCrash, PairingDrop, PairingExpires, PairingRegister
  <2>3. ASSUME NEW d \in Devices, NEW c \in Streams,
               Connect(c, d) \/ HandleCode(d, c) \/ HandlePair(d, c)
        PROVE  PairingInv'
    BY <2>3, PairingConnect, PairingHandleCode, PairingHandlePair
  <2>4. ASSUME NEW c \in Streams, Notice(c) \/ Unregister(c) PROVE PairingInv'
    BY <2>4, PairingNotice, PairingUnregister
  <2>5. ASSUME NEW i \in Rows, AskCode(i) \/ NewMinute(i) \/ BeginDelete(i) \/ EndDelete(i)
        PROVE  PairingInv'
    BY <2>5, PairingAskCode, PairingMinute, PairingBeginDelete, PairingEndDelete
  <2>6. ASSUME NEW j \in Jobs, NEW i \in Rows, NEW d \in Devices, NEW n \in 1..MaxCodes,
               AskPair(j, i, <<d, n>>)
        PROVE  PairingInv'
    <3>1. <<d, n>> \in Codes
      BY PairingAssumption DEF Codes
    <3>2. QED
      BY <2>6, <3>1, PairingAsk
  <2>7. ASSUME NEW j \in Jobs, Answer(j) \/ TimeOut(j) \/ FinishPair(j) PROVE PairingInv'
    BY <2>7, PairingAnswer, PairingTimeOut, PairingFinish
  <2>8. QED
    BY <1>2, <2>1, <2>2, <2>3, <2>4, <2>5, <2>6, <2>7 DEF PairingNext
<1>3. QED
  BY <1>1, <1>2

(* What the state files agree with, the processes do.                        *)
LEMMA FilesAgreeMeans ==
  ASSUME PairingInv
  PROVE  EndsAgree
<1>1. SUFFICES ASSUME NEW i \in Rows \ crossed, NEW d \in Devices, row[i] # None,
                      row[i].token # None
               PROVE  /\ Up(d) /\ row[i].dev = mem[d].ident => mem[d].token = row[i].token
                      /\ ~Up(d) /\ row[i].dev = file[d].ident => file[d].token = row[i].token
  BY DEF EndsAgree
<1>2. row[i].dev = file[d].ident => file[d].token = row[i].token
  BY <1>1 DEF PairingInv, FilesAgree
<1>3. Up(d) => file[d].ident = mem[d].ident /\ file[d].token = mem[d].token
  <2>1. Up(d) => file[d] = Saved(mem[d])
    BY DEF PairingInv, FilesAreWritten
  <2>2. QED
    BY <2>1 DEF Saved
<1>4. QED
  BY <1>2, <1>3

(* Whatever the devices, the rows, the streams, the requests and the bounds: *)
(* what is sent to a row reaches the row's device, the two ends of a pairing *)
(* have the same token, and a code opens once.                               *)
THEOREM PairingSafe ==
  PairingSpec => [](PairingTypeOK /\ RegisteredHasItsRow /\ EndsAgree /\ CodeOpensOnce)
<1>1. PairingInit => PairingInv
  BY PairingStarts
<1>2. PairingInv /\ [PairingNext]_pairingVars => PairingInv'
  BY PairingStep
<1>3. PairingInv => PairingTypeOK /\ RegisteredHasItsRow /\ EndsAgree /\ CodeOpensOnce
  BY FilesAgreeMeans DEF PairingInv
<1>4. QED
  BY <1>1, <1>2, <1>3, PTL DEF PairingSpec

-----------------------------------------------------------------------------
(***************************************************************************)
(* CodeNavigation.                                                          *)
(***************************************************************************)

\* stamps only grow, but for a file that is not there; the last one and its
\* text are in the history
StampsGrow ==
  \A f \in Files :
    /\ text[f] = 0 <=> stamp[f] = 0
    /\ <<stamp[f], text[f]>> \in past[f]
    /\ stamp[f] <= last
    /\ \A p \in past[f] : p[1] <= last /\ (stamp[f] # 0 => p[1] <= stamp[f])

Answering(q) == q.pc \in Walking \/ (q.pc = "done" /\ ~Walks(q.kind))

\* what a request does goes with its kind
Fitting(q) ==
  /\ q.pc \in Walking => q.kind \in {"symbols", "definition", "references", "all"}
  /\ q.pc = "list" => /\ q.kind # "references" /\ q.left = {}
                      /\ q.got = Nothing /\ q.full
  /\ q.pc \in {"list", "scan", "build"} => q.from = Absent /\ q.known = Nothing
  /\ q.pc = "build" => q.kind \in {"symbols", "definition"} /\ q.todo = {}
  /\ q.pc = "confirm" => q.kind = "definition" /\ q.from = "index"
  /\ q.pc = "texts" => q.kind = "all"
  /\ q.pc = "paths" => Walks(q.kind)
  /\ q.pc = "done" => q.todo = {}
  /\ q.pc \notin Walking => q.left = {}
  /\ q.kind \in {"paths", "refresh"} => q.got = Nothing /\ q.known = Nothing

\* a request under way has every text of a file since it began in its window:
\* also those that came after the stamp that it listed
WindowOpen(q) ==
  \A f \in Files :
    /\ text[f] \in q.window[f]
    /\ q.seen[f] # 0 =>
         /\ q.seen[f] <= last /\ (stamp[f] # 0 => q.seen[f] <= stamp[f])
         /\ \A p \in past[f] : p[1] > q.seen[f] => p[2] \in q.window[f]

\* a text that a file has had since it had the stamp s
Since(f, s, t) == \E p \in past[f] : p[1] >= s /\ p[2] = t

\* what a request has read it has read in its window; symbols of an index are
\* of the stamp that it listed, or of its window too
ReadsMatch(q) ==
  \A f \in Files :
    /\ q.got[f] # 0 => q.got[f] \in q.window[f]
    /\ q.known[f] # 0 =>
         q.known[f] \in q.window[f] \/ <<q.seen[f], q.known[f]>> \in past[f]
    /\ q.pc = "build" /\ q.got[f] # 0 => q.seen[f] # 0 /\ Since(f, q.seen[f], q.got[f])
    /\ q.pc = "build" /\ f \in q.left => q.seen[f] # 0

\* a directory is still to be listed, or its files are in the listing
ListingCovers(q, f) ==
  0 \notin q.window[f] => DirOf[f] \in q.todo \/ Root \in q.todo \/ q.seen[f] # 0

\* a file of the listing is still to be read, was read, or could not be; so is
\* a file whose symbols in the index are confirmed
ReadsCover(q, f) ==
  /\ q.seen[f] # 0 /\ q.pc # "list" =>
       IF q.from = "index" THEN q.known[f] # 0 \/ f \in q.missed
       ELSE f \in q.left \/ q.got[f] # 0 \/ f \in q.missed
  /\ q.from = "index" /\ q.kind = "definition" /\ q.known[f] \in Defining =>
       f \in q.left \/ q.got[f] # 0 \/ f \in q.missed

Covers(q) ==
  /\ \A f \in Files : ListingCovers(q, f) /\ ReadsCover(q, f)
  /\ q.pc = "done" /\ q.from # "index" => q.known = q.got

RequestOK(q) ==
  /\ Fitting(q)
  /\ q.pc \in Walking => WindowOpen(q)
  /\ Answering(q) => ReadsMatch(q) /\ (q.full => Covers(q))

\* an index has of a file a text since the stamp of its key
EntryOK(e) ==
  \A f \in Files :
    /\ e.items[f] # 0 => e.key[f] # 0 /\ Since(f, e.key[f], e.items[f])
    /\ e.full /\ e.key[f] # 0 => e.items[f] # 0 \/ f \in e.missed

BeforeHasEnded == \A q \in Requests : \A r \in req[q].before : req[r].pc \in Ended

\* the list that is kept is not from before a refresh that succeeded
ListIsNew ==
  list # Absent =>
    \A q \in Requests :
      req[q].pc = "done" /\ req[q].kind = "refresh" => list.by \notin req[q].before

RightRequests == {q \in RequestState : RequestOK(q)}

RightEntries == {e \in IndexEntry : EntryOK(e)}

NavigationInv ==
  /\ NavigationTypeOK /\ StampsGrow
  /\ req \in [Requests -> RightRequests] /\ index \subseteq RightEntries
  /\ BeforeHasEnded /\ ListIsNew /\ RefreshIsSeen

-----------------------------------------------------------------------------
LEMMA ConstantsAre ==
  /\ Absent \notin AllKinds /\ Absent # "index" /\ Absent \notin Requests /\ "index" \notin Requests
  /\ Root \in Dirs /\ DirOf \in [Files -> Dirs] /\ 0 \notin Defining
  /\ MaxText \in Nat /\ MaxText >= 1 /\ MaxClock \in Nat /\ MaxReads \in Nat
  /\ MaxIndexes \in Nat /\ MaxIndexes >= 1 /\ Ttl \in Nat
BY KindsAssumption, RequestsAssumption, DefiningAssumption, TreeAssumption, LimitsAssumption

LEMMA NothingIs ==
  Nothing \in [Files -> Texts] /\ \A f \in Files : Nothing[f] = 0
BY ConstantsAre DEF Nothing, Texts

LEMMA IdleIs ==
  /\ Idle \in RequestState
  /\ Idle.pc = "idle" /\ Idle.kind = Absent /\ Idle.todo = {} /\ Idle.seen = Nothing
  /\ Idle.left = {} /\ Idle.reads = 0 /\ Idle.got = Nothing /\ Idle.known = Nothing
  /\ Idle.missed = {} /\ Idle.full = TRUE /\ Idle.from = Absent /\ Idle.before = {}
  /\ \A f \in Files : Idle.window[f] = {}
BY NothingIs DEF Idle, RequestState

-----------------------------------------------------------------------------
(* What a request becomes, field by field.                                   *)
LEMMA DoneIs ==
  ASSUME NEW q \in RequestState
  PROVE  LET k == Done(q) IN
         /\ k \in RequestState
         /\ k.pc = "done" /\ k.todo = {} /\ k.left = {}
         /\ k.kind = q.kind /\ k.seen = q.seen /\ k.got = q.got /\ k.known = q.known
         /\ k.missed = q.missed /\ k.full = q.full /\ k.from = q.from
         /\ k.window = q.window /\ k.before = q.before
BY DEF Done, RequestState, Ended

LEMMA ScanIs ==
  ASSUME NEW q \in RequestState
  PROVE  LET k == Scan(q) IN
         /\ k \in RequestState
         /\ k.pc = "scan" /\ k.todo = {Root} /\ k.left = {} /\ k.kind = q.kind
         /\ k.seen = Nothing /\ k.got = Nothing /\ k.known = Nothing
         /\ k.missed = {} /\ k.full = TRUE /\ k.from = Absent
         /\ k.window = q.window /\ k.before = q.before
BY NothingIs, ConstantsAre DEF Scan, Idle, RequestState, Walking

LEMMA FailedIs ==
  ASSUME NEW q \in RequestState
  PROVE  LET k == Failed(q) IN
         /\ k \in RequestState
         /\ k.pc = "failed" /\ k.left = {} /\ k.kind = q.kind /\ k.from = Absent /\ k.before = q.before
         /\ k.got = Nothing /\ k.known = Nothing
BY NothingIs, ConstantsAre DEF Failed, Idle, RequestState, Ended

LEMMA ListedIs ==
  ASSUME NEW q \in RequestState, NEW d \in Dirs, NavigationTypeOK
  PROVE  LET k == Listed(q, d) IN
         /\ k \in RequestState
         /\ k.todo = (q.todo \ {d}) \union (IF d = Root THEN Dirs \ {Root} ELSE {})
         /\ \A f \in Files : k.seen[f] = IF DirOf[f] = d THEN stamp[f] ELSE q.seen[f]
         /\ k.pc = q.pc /\ k.kind = q.kind /\ k.left = q.left /\ k.reads = q.reads
         /\ k.got = q.got /\ k.known = q.known /\ k.missed = q.missed
         /\ k.full = q.full /\ k.from = q.from
         /\ k.window = q.window /\ k.before = q.before
<1>1. [f \in Files |-> IF DirOf[f] = d THEN stamp[f] ELSE q.seen[f]] \in [Files -> Texts]
  BY DEF NavigationTypeOK, RequestState
<1>2. (q.todo \ {d}) \union (IF d = Root THEN Dirs \ {Root} ELSE {}) \in SUBSET Dirs
  BY DEF RequestState
<1>3. QED
  BY <1>1, <1>2 DEF Listed, RequestState

\* the request to read the files of S next
ToRead(q, pc, S) == [q EXCEPT !.pc = pc, !.left = S, !.reads = 0]

LEMMA ToReadIs ==
  ASSUME NEW q \in RequestState, NEW pc \in Walking, NEW S \in SUBSET Files
  PROVE  LET k == ToRead(q, pc, S) IN
         /\ k \in RequestState
         /\ k.pc = pc /\ k.left = S /\ k.todo = q.todo
         /\ k.kind = q.kind /\ k.seen = q.seen /\ k.got = q.got /\ k.known = q.known
         /\ k.missed = q.missed /\ k.full = q.full /\ k.from = q.from
         /\ k.window = q.window /\ k.before = q.before
BY DEF ToRead, RequestState

LEMMA CutIs ==
  ASSUME NEW q \in RequestState
  PROVE  LET k == Cut(q) IN
         /\ k \in RequestState
         /\ k.pc = q.pc /\ k.kind = q.kind /\ k.seen = q.seen /\ k.reads = q.reads
         /\ k.got = q.got /\ k.missed = q.missed /\ k.from = q.from
         /\ k.window = q.window /\ k.before = q.before
         /\ \/ k = q
            \/ /\ k.left = {} /\ k.todo = {} /\ k.full = FALSE
               /\ \A f \in Files : k.known[f] \in {0, q.known[f]}
<1> DEFINE known == [f \in Files |-> IF f \in q.left THEN 0 ELSE q.known[f]]
           c == [q EXCEPT !.left = {}, !.todo = {}, !.full = FALSE, !.known = known]
<1>1. known \in [Files -> Texts] /\ \A f \in Files : known[f] \in {0, q.known[f]}
  BY ConstantsAre DEF RequestState, Texts
<1> HIDE DEF known
<1>2. /\ c \in RequestState
      /\ c.pc = q.pc /\ c.kind = q.kind /\ c.seen = q.seen /\ c.reads = q.reads
      /\ c.got = q.got /\ c.missed = q.missed /\ c.from = q.from
      /\ c.window = q.window /\ c.before = q.before
      /\ c.left = {} /\ c.todo = {} /\ c.full = FALSE /\ c.known = known
  BY <1>1 DEF RequestState
<1>3. Cut(q) = q \/ Cut(q) = c
  BY DEF Cut, known
<1> HIDE DEF c
<1>4. QED
  BY <1>1, <1>2, <1>3

-----------------------------------------------------------------------------
(* What a request becomes is right if what it was is.                        *)

(* A listing starts again, without what the index or a first one told.       *)
LEMMA ScanOK ==
  ASSUME NavigationTypeOK, NEW q \in RequestState,
         q.kind \in {"symbols", "definition", "references", "all"},
         \A f \in Files : text[f] \in q.window[f]
  PROVE  RequestOK(Scan(q))
<1> DEFINE k == Scan(q)
<1>1. /\ k \in RequestState
      /\ k.pc = "scan" /\ k.todo = {Root} /\ k.left = {} /\ k.kind = q.kind
      /\ k.seen = Nothing /\ k.got = Nothing /\ k.known = Nothing
      /\ k.missed = {} /\ k.full = TRUE /\ k.from = Absent
      /\ k.window = q.window /\ k.before = q.before
  BY ScanIs
<1> HIDE DEF k
<1>2. \A f \in Files : k.seen[f] = 0 /\ k.got[f] = 0 /\ k.known[f] = 0
  BY <1>1, NothingIs
<1>3. Fitting(k)
  BY <1>1 DEF Fitting, Walking
<1>4. WindowOpen(k)
  BY <1>1, <1>2 DEF WindowOpen
<1>5. ReadsMatch(k)
  BY <1>1, <1>2 DEF ReadsMatch
<1>6. Covers(k)
  BY <1>1, <1>2, ConstantsAre DEF Covers, ListingCovers, ReadsCover
<1>7. QED
  BY <1>3, <1>4, <1>5, <1>6 DEF RequestOK, k

(* An index that is used has the stamps that were listed.                    *)
LEMMA UseOK ==
  ASSUME NavigationTypeOK, NEW q \in RequestState, NEW e \in IndexEntry,
         q.pc \in {"list", "build"}, q.kind \in {"symbols", "definition", "all"},
         WindowOpen(q), q.left = {}, q.todo = {}, e.key = q.seen, EntryOK(e),
         e.full => \A f \in Files : 0 \notin q.window[f] => q.seen[f] # 0
  PROVE  LET u == Use(q, e) IN
         /\ u \in RequestState /\ RequestOK(u)
         /\ u.kind = q.kind /\ u.before = q.before
<1> DEFINE k == [q EXCEPT !.known = e.items, !.full = e.full, !.missed = e.missed,
                          !.got = Nothing, !.from = "index"]
<1>1. /\ k \in RequestState
      /\ k.known = e.items /\ k.full = e.full /\ k.missed = e.missed
      /\ k.got = Nothing /\ k.from = "index"
      /\ k.pc = q.pc /\ k.kind = q.kind /\ k.seen = q.seen
      /\ k.todo = {} /\ k.left = {}
      /\ k.window = q.window /\ k.before = q.before
  BY NothingIs DEF RequestState, IndexEntry
<1>2. \/ k.kind = "symbols" /\ Use(q, e) = Done(k)
      \/ /\ k.kind = "definition" /\ k.full
         /\ Use(q, e) = Reading(k, "confirm", {f \in Files : k.known[f] \in Defining})
      \/ k.kind = "definition" /\ ~k.full /\ Use(q, e) = Scan(k)
      \/ k.kind = "all" /\ Use(q, e) = Reading(k, "texts", Present(k))
  BY <1>1 DEF Use
<1> HIDE DEF k
<1>3. \A f \in Files : k.got[f] = 0
  BY <1>1, NothingIs
<1>4. WindowOpen(k)
  BY <1>1 DEF WindowOpen
<1>5. \A f \in Files : k.known[f] # 0 =>
        k.known[f] \in k.window[f] \/ <<k.seen[f], k.known[f]>> \in past[f]
  <2>1. SUFFICES ASSUME NEW f \in Files, e.items[f] # 0
                 PROVE  e.items[f] \in q.window[f] \/ <<q.seen[f], e.items[f]>> \in past[f]
    BY <1>1
  <2>2. q.seen[f] # 0 /\ Since(f, q.seen[f], e.items[f])
    BY <2>1 DEF EntryOK
  <2>3. PICK p \in past[f] : p[1] >= q.seen[f] /\ p[2] = e.items[f]
    BY <2>2 DEF Since
  <2>4. p = <<p[1], p[2]>> /\ p[1] \in Nat /\ q.seen[f] \in Nat
    BY <2>3, ConstantsAre DEF NavigationTypeOK, RequestState, Texts
  <2>5. CASE p[1] = q.seen[f]
    BY <2>3, <2>4, <2>5
  <2>6. CASE p[1] > q.seen[f]
    BY <2>2, <2>3, <2>6 DEF WindowOpen
  <2>7. QED
    BY <2>3, <2>4, <2>5, <2>6
<1>6. ASSUME k.full, NEW f \in Files
      PROVE  /\ 0 \notin k.window[f] => k.seen[f] # 0
             /\ k.seen[f] # 0 => k.known[f] # 0 \/ f \in k.missed
  BY <1>1, <1>6 DEF EntryOK
<1>7. ASSUME NEW u \in RequestState, u.pc \in {"texts", "confirm", "done"},
             u.pc = "texts" => u.kind = "all",
             u.pc = "confirm" => u.kind = "definition",
             u.pc = "done" => u.left = {},
             u.kind = "definition" => {f \in Files : k.known[f] \in Defining} \subseteq u.left,
             u.todo = {}, u.kind = k.kind, u.seen = k.seen, u.got = k.got, u.known = k.known,
             u.missed = k.missed, u.full = k.full, u.from = k.from, u.window = k.window
      PROVE  RequestOK(u)
  <2>1. Fitting(u)
    BY <1>1, <1>7, ConstantsAre DEF Fitting, Walking
  <2>2. WindowOpen(u)
    BY <1>4, <1>7 DEF WindowOpen
  <2>3. ReadsMatch(u)
    BY <1>3, <1>5, <1>7 DEF ReadsMatch
  <2>4. u.full => Covers(u)
    <3>1. SUFFICES ASSUME u.full PROVE Covers(u)
      OBVIOUS
    <3>2. \A f \in Files : ListingCovers(u, f) /\ ReadsCover(u, f)
      BY <1>1, <1>6, <1>7, <3>1 DEF ListingCovers, ReadsCover
    <3>3. QED
      BY <1>1, <1>7, <3>2, ConstantsAre DEF Covers
  <2>5. QED
    BY <2>1, <2>2, <2>3, <2>4 DEF RequestOK
<1>8. ASSUME NEW pc \in {"texts", "confirm"}, NEW S \in SUBSET Files,
             pc = "texts" => k.kind = "all",
             pc = "confirm" => k.kind = "definition",
             k.kind = "definition" => {f \in Files : k.known[f] \in Defining} \subseteq S
      PROVE  LET u == Reading(k, pc, S) IN
             u \in RequestState /\ RequestOK(u) /\ u.kind = k.kind /\ u.before = k.before
  <2>1. CASE S = {}
    <3> DEFINE u == Done(k)
    <3>1. Reading(k, pc, S) = u
      BY <2>1 DEF Reading
    <3>2. /\ u \in RequestState
          /\ u.pc = "done" /\ u.todo = {} /\ u.left = {}
          /\ u.kind = k.kind /\ u.seen = k.seen /\ u.got = k.got /\ u.known = k.known
          /\ u.missed = k.missed /\ u.full = k.full /\ u.from = k.from
          /\ u.window = k.window /\ u.before = k.before
      BY <1>1, DoneIs
    <3> HIDE DEF u
    <3>3. RequestOK(u)
      BY <1>7, <1>8, <2>1, <3>2
    <3>4. QED
      BY <3>1, <3>2, <3>3
  <2>2. CASE S # {}
    <3> DEFINE u == ToRead(k, pc, S)
    <3>1. Reading(k, pc, S) = u
      BY <2>2 DEF Reading, ToRead
    <3>2. pc \in Walking
      BY DEF Walking
    <3>3. /\ u \in RequestState
          /\ u.pc = pc /\ u.left = S /\ u.todo = k.todo
          /\ u.kind = k.kind /\ u.seen = k.seen /\ u.got = k.got /\ u.known = k.known
          /\ u.missed = k.missed /\ u.full = k.full /\ u.from = k.from
          /\ u.window = k.window /\ u.before = k.before
      BY <1>1, <3>2, ToReadIs
    <3> HIDE DEF u
    <3>4. RequestOK(u)
      BY <1>1, <1>7, <1>8, <3>3
    <3>5. QED
      BY <3>1, <3>3, <3>4
  <2>3. QED
    BY <2>1, <2>2
<1>9. CASE k.kind = "symbols" /\ Use(q, e) = Done(k)
  <2> DEFINE u == Done(k)
  <2>1. /\ u \in RequestState
        /\ u.pc = "done" /\ u.todo = {} /\ u.left = {}
        /\ u.kind = k.kind /\ u.seen = k.seen /\ u.got = k.got /\ u.known = k.known
        /\ u.missed = k.missed /\ u.full = k.full /\ u.from = k.from
        /\ u.window = k.window /\ u.before = k.before
    BY <1>1, DoneIs
  <2> HIDE DEF u
  <2>2. RequestOK(u)
    BY <1>7, <1>9, <2>1
  <2>3. QED
    BY <1>1, <1>9, <2>1, <2>2 DEF u
<1>10. CASE /\ k.kind = "definition" /\ k.full
            /\ Use(q, e) = Reading(k, "confirm", {f \in Files : k.known[f] \in Defining})
  <2>1. {f \in Files : k.known[f] \in Defining} \in SUBSET Files
    OBVIOUS
  <2>2. QED
    BY <1>1, <1>8, <1>10, <2>1
<1>11. CASE k.kind = "definition" /\ ~k.full /\ Use(q, e) = Scan(k)
  <2>1. \A f \in Files : text[f] \in k.window[f]
    BY <1>4 DEF WindowOpen
  <2>2. RequestOK(Scan(k))
    BY <1>1, <1>11, <2>1, ScanOK
  <2>3. Scan(k) \in RequestState /\ Scan(k).kind = k.kind /\ Scan(k).before = k.before
    BY <1>1, ScanIs
  <2>4. QED
    BY <1>1, <1>11, <2>2, <2>3
<1>12. CASE k.kind = "all" /\ Use(q, e) = Reading(k, "texts", Present(k))
  <2>1. Present(k) \in SUBSET Files
    BY DEF Present
  <2>2. QED
    BY <1>1, <1>8, <1>12, <2>1
<1>13. QED
  BY <1>2, <1>9, <1>10, <1>11, <1>12

(* An index that was built has of its files what was read of them.           *)
LEMMA BuiltOK ==
  ASSUME NavigationTypeOK, NEW q \in RequestState, q.pc = "build", q.left = {}, q.from = Absent,
         ReadsMatch(q), q.full => Covers(q)
  PROVE  LET e == Built(q) IN
         /\ e \in IndexEntry /\ EntryOK(e) /\ e.key = q.seen /\ e.full = q.full
<1> DEFINE e == Built(q)
<1>1. /\ e \in IndexEntry /\ e.key = q.seen /\ e.full = q.full
      /\ e.items = q.got /\ e.missed = q.missed
  BY DEF Built, Fingerprint, IndexEntry, RequestState, NavigationTypeOK
<1> HIDE DEF e
<1>2. ASSUME NEW f \in Files, e.items[f] # 0 PROVE e.key[f] # 0 /\ Since(f, e.key[f], e.items[f])
  BY <1>1, <1>2 DEF ReadsMatch
<1>3. ASSUME NEW f \in Files, e.full, e.key[f] # 0 PROVE e.items[f] # 0 \/ f \in e.missed
  <2>1. ReadsCover(q, f) /\ q.seen[f] # 0
    BY <1>1, <1>3 DEF Covers
  <2>2. QED
    BY <1>1, <2>1, ConstantsAre DEF ReadsCover
<1>4. QED
  BY <1>1, <1>2, <1>3 DEF EntryOK, e

(* The cache keeps to its limit, and to entries that are right.              *)
LEMMA StoredOK ==
  ASSUME NavigationTypeOK, \A x \in index : EntryOK(x),
         NEW e \in IndexEntry, EntryOK(e), NEW S \in Stored(e)
  PROVE  /\ S \subseteq IndexEntry /\ IsFiniteSet(S) /\ Cardinality(S) <= MaxIndexes
         /\ \A x \in S : EntryOK(x)
<1>1. /\ FreshIndex \subseteq index /\ index \subseteq IndexEntry /\ IsFiniteSet(index)
      /\ Cardinality(index) <= MaxIndexes
  BY DEF FreshIndex, NavigationTypeOK
<1>2. /\ IsFiniteSet(FreshIndex) /\ Cardinality(FreshIndex) \in Nat
      /\ Cardinality(FreshIndex) <= MaxIndexes
  BY <1>1, FS_Subset, FS_CardinalityType, ConstantsAre
<1>3. PICK kept : /\ S = {x \in kept : x.key # e.key} \union {e}
                  /\ kept \in IF Cardinality(FreshIndex) >= MaxIndexes
                              THEN {FreshIndex \ {o} : o \in Oldest(FreshIndex)}
                              ELSE {FreshIndex}
  BY DEF Stored
<1>4. kept \subseteq FreshIndex /\ IsFiniteSet(kept) /\ Cardinality(kept) \in Nat
      /\ Cardinality(kept) + 1 <= MaxIndexes
  <2>1. CASE Cardinality(FreshIndex) >= MaxIndexes
    <3>1. PICK o \in FreshIndex : kept = FreshIndex \ {o}
      BY <1>3, <2>1 DEF Oldest
    <3>2. IsFiniteSet(kept) /\ Cardinality(kept) = Cardinality(FreshIndex) - 1
      BY <1>2, <3>1, FS_RemoveElement
    <3>3. Cardinality(kept) \in Nat
      BY <3>2, FS_CardinalityType
    <3>4. QED
      BY <1>2, <3>1, <3>2, <3>3, ConstantsAre
  <2>2. CASE ~(Cardinality(FreshIndex) >= MaxIndexes)
    BY <1>2, <1>3, <2>2, ConstantsAre
  <2>3. QED
    BY <2>1, <2>2
<1> DEFINE T == {x \in kept : x.key # e.key}
<1>5. T \subseteq kept /\ IsFiniteSet(T) /\ Cardinality(T) \in Nat /\ Cardinality(T) <= Cardinality(kept)
  BY <1>4, FS_Subset, FS_CardinalityType
<1>6. S = T \union {e}
  BY <1>3
<1> HIDE DEF T
<1>7. IsFiniteSet(S) /\ (Cardinality(S) = Cardinality(T) \/ Cardinality(S) = Cardinality(T) + 1)
  BY <1>5, <1>6, FS_AddElement
<1>8. Cardinality(S) <= MaxIndexes
  BY <1>4, <1>5, <1>7, ConstantsAre
<1>9. QED
  BY <1>1, <1>4, <1>5, <1>6, <1>7, <1>8

(* The limit on reads ends what is under way, and says so.                   *)
LEMMA CutOK ==
  ASSUME NavigationTypeOK, NEW q \in RequestState, RequestOK(q), q.pc \in Walking, q.pc # "list"
  PROVE  LET k == Cut(q) IN
         /\ k \in RequestState /\ RequestOK(k)
         /\ k.pc = q.pc /\ k.kind = q.kind /\ k.before = q.before
<1> DEFINE k == Cut(q)
<1>1. /\ k \in RequestState
      /\ k.pc = q.pc /\ k.kind = q.kind /\ k.seen = q.seen /\ k.reads = q.reads
      /\ k.got = q.got /\ k.missed = q.missed /\ k.from = q.from
      /\ k.window = q.window /\ k.before = q.before
      /\ \/ k = q
         \/ /\ k.left = {} /\ k.todo = {} /\ k.full = FALSE
            /\ \A f \in Files : k.known[f] \in {0, q.known[f]}
  BY CutIs
<1> HIDE DEF k
<1>2. CASE k = q
  BY <1>1, <1>2 DEF k
<1>3. CASE /\ k.left = {} /\ k.todo = {} /\ k.full = FALSE
           /\ \A f \in Files : k.known[f] \in {0, q.known[f]}
  <2>1. q.known = Nothing => k.known = Nothing
    <3>1. SUFFICES ASSUME q.known = Nothing PROVE k.known = Nothing
      OBVIOUS
    <3>2. k.known \in [Files -> Texts] /\ \A f \in Files : k.known[f] = Nothing[f]
      BY <1>1, <1>3, <3>1, NothingIs DEF RequestState
    <3>3. QED
      BY <3>2, NothingIs
  <2>2. Fitting(k)
    BY <1>1, <1>3, <2>1 DEF Fitting, RequestOK
  <2>3. WindowOpen(k)
    BY <1>1 DEF WindowOpen, RequestOK
  <2>4. ReadsMatch(k)
    <3>1. ReadsMatch(q)
      BY DEF RequestOK, Answering
    <3>2. QED
      BY <1>1, <1>3, <3>1 DEF ReadsMatch
  <2>5. QED
    BY <1>1, <1>3, <2>2, <2>3, <2>4 DEF RequestOK, k
<1>4. QED
  BY <1>1, <1>2, <1>3

(* A scan and its like are over when nothing is left to list or read.        *)
LEMMA AnsweredOK ==
  ASSUME NavigationTypeOK, NEW q \in RequestState, RequestOK(q),
         q.pc \in {"scan", "texts", "confirm"}
  PROVE  LET k == Answered(q) IN
         /\ k \in RequestState /\ RequestOK(k)
         /\ k.kind = q.kind /\ k.before = q.before
<1>1. CASE q.left # {} \/ q.todo # {}
  BY <1>1 DEF Answered
<1>2. CASE q.left = {} /\ q.todo = {}
  <2> DEFINE m == [q EXCEPT !.known = IF q.from = "index" THEN q.known ELSE q.got]
             k == Done(m)
  <2>1. Answered(q) = k
    BY <1>2 DEF Answered
  <2>2. /\ m \in RequestState
        /\ m.pc = q.pc /\ m.kind = q.kind /\ m.seen = q.seen /\ m.got = q.got
        /\ m.known = (IF q.from = "index" THEN q.known ELSE q.got)
        /\ m.missed = q.missed /\ m.full = q.full /\ m.from = q.from
        /\ m.window = q.window /\ m.before = q.before
    BY DEF RequestState
  <2> HIDE DEF m
  <2>3. /\ k \in RequestState
        /\ k.pc = "done" /\ k.todo = {} /\ k.left = {}
        /\ k.kind = m.kind /\ k.seen = m.seen /\ k.got = m.got /\ k.known = m.known
        /\ k.missed = m.missed /\ k.full = m.full /\ k.from = m.from
        /\ k.window = m.window /\ k.before = m.before
    BY <2>2, DoneIs
  <2> HIDE DEF k
  <2>4. Fitting(k)
    <3>1. q.kind \notin {"paths", "refresh"}
      BY DEF RequestOK, Fitting, Walking
    <3>2. QED
      BY <2>2, <2>3, <3>1 DEF Fitting, Walking
  <2>5. q.pc \in Walking /\ Answering(q)
    BY DEF Walking, Answering
  <2>6. ReadsMatch(k)
    <3>1. ReadsMatch(q)
      BY <2>5 DEF RequestOK
    <3>2. QED
      BY <2>2, <2>3, <3>1 DEF ReadsMatch
  <2>7. k.full => Covers(k)
    <3>1. SUFFICES ASSUME q.full PROVE Covers(k)
      BY <2>2, <2>3
    <3>2. \A f \in Files : ListingCovers(q, f) /\ ReadsCover(q, f)
      BY <2>5, <3>1 DEF RequestOK, Covers
    <3>3. \A f \in Files : ListingCovers(k, f)
      BY <1>2, <2>2, <2>3, <3>2 DEF ListingCovers
    <3>4. \A f \in Files : ReadsCover(k, f)
      BY <1>2, <2>2, <2>3, <3>2 DEF ReadsCover
    <3>5. QED
      BY <2>2, <2>3, <3>3, <3>4 DEF Covers
  <2>8. k.pc \notin Walking
    BY <2>3 DEF Walking
  <2>9. QED
    BY <2>1, <2>2, <2>3, <2>4, <2>6, <2>7, <2>8 DEF RequestOK
<1>3. QED
  BY <1>1, <1>2

(* A file is read, or cannot be: its text is of the window, and newer than   *)
(* the stamp that was listed.                                                *)
LEMMA ReadOK ==
  ASSUME NavigationTypeOK, StampsGrow, NEW q \in RequestState, RequestOK(q),
         NEW f \in q.left, NEW ok \in BOOLEAN, ok => text[f] # 0
  PROVE  LET k == [q EXCEPT !.left = q.left \ {f}, !.reads = q.reads + 1,
                            !.got[f] = IF ok THEN text[f] ELSE 0,
                            !.missed = IF ok THEN q.missed ELSE q.missed \union {f}]
         IN  /\ k \in RequestState /\ RequestOK(k)
             /\ k.pc = q.pc /\ k.kind = q.kind /\ k.before = q.before
             /\ q.pc \in Walking /\ q.pc # "list"
<1> DEFINE k == [q EXCEPT !.left = q.left \ {f}, !.reads = q.reads + 1,
                          !.got[f] = IF ok THEN text[f] ELSE 0,
                          !.missed = IF ok THEN q.missed ELSE q.missed \union {f}]
           t == IF ok THEN text[f] ELSE 0
<1>1. f \in Files /\ q.pc \in Walking /\ q.pc # "list" /\ Answering(q)
  <2>1. f \in Files
    BY DEF RequestState
  <2>2. q.pc \in Walking /\ q.pc # "list"
    BY DEF RequestOK, Fitting
  <2>3. QED
    BY <2>1, <2>2 DEF Answering
<1>2. t \in Texts /\ text[f] \in Texts
  BY <1>1, ConstantsAre DEF NavigationTypeOK, Texts
<1>3. /\ k \in RequestState
      /\ k.left = q.left \ {f}
      /\ k.got[f] = t /\ \A g \in Files \ {f} : k.got[g] = q.got[g]
      /\ k.missed = (IF ok THEN q.missed ELSE q.missed \union {f})
      /\ k.pc = q.pc /\ k.kind = q.kind /\ k.seen = q.seen /\ k.todo = q.todo
      /\ k.known = q.known /\ k.full = q.full /\ k.from = q.from
      /\ k.window = q.window /\ k.before = q.before
  <2>1. [q.got EXCEPT ![f] = t] \in [Files -> Texts]
    BY <1>2 DEF RequestState
  <2>2. q.reads + 1 \in Nat
    BY DEF RequestState
  <2>3. QED
    BY <1>1, <1>2, <2>1, <2>2 DEF RequestState
<1> HIDE DEF k
<1>4. Fitting(k)
  BY <1>1, <1>3 DEF RequestOK, Fitting
<1>5. WindowOpen(q) /\ WindowOpen(k)
  BY <1>1, <1>3 DEF RequestOK, WindowOpen
<1>6. ReadsMatch(q)
  BY <1>1 DEF RequestOK
<1>7. ok => t \in q.window[f]
  BY <1>1, <1>5 DEF WindowOpen
<1>8. ASSUME ok, q.pc = "build" PROVE q.seen[f] # 0 /\ Since(f, q.seen[f], t)
  <2>1. q.seen[f] # 0
    BY <1>1, <1>6, <1>8 DEF ReadsMatch
  <2>2. stamp[f] # 0 /\ <<stamp[f], text[f]>> \in past[f]
    BY <1>1, <1>8 DEF StampsGrow
  <2>3. q.seen[f] <= stamp[f] /\ q.seen[f] \in Nat /\ stamp[f] \in Nat
    BY <1>1, <1>5, <2>1, <2>2, ConstantsAre DEF WindowOpen, NavigationTypeOK, RequestState, Texts
  <2>4. stamp[f] >= q.seen[f]
    BY <2>3
  <2>5. QED
    BY <1>8, <2>1, <2>2, <2>4 DEF Since
<1>9. ReadsMatch(k)
  <2>1. SUFFICES ASSUME NEW g \in Files
                 PROVE  /\ k.got[g] # 0 => k.got[g] \in k.window[g]
                        /\ k.known[g] # 0 =>
                             k.known[g] \in k.window[g] \/ <<k.seen[g], k.known[g]>> \in past[g]
                        /\ k.pc = "build" /\ k.got[g] # 0 => k.seen[g] # 0 /\ Since(g, k.seen[g], k.got[g])
                        /\ k.pc = "build" /\ g \in k.left => k.seen[g] # 0
    BY DEF ReadsMatch
  <2>2. CASE g = f
    BY <1>1, <1>3, <1>6, <1>7, <1>8, <2>2 DEF ReadsMatch
  <2>3. CASE g # f
    BY <1>3, <1>6, <2>3 DEF ReadsMatch
  <2>4. QED
    BY <2>2, <2>3
<1>10. k.full => Covers(k)
  <2>1. SUFFICES ASSUME q.full PROVE Covers(k)
    BY <1>3
  <2>2. \A g \in Files : ListingCovers(q, g) /\ ReadsCover(q, g)
    BY <1>1, <2>1 DEF RequestOK, Covers
  <2>3. \A g \in Files : ListingCovers(k, g)
    BY <1>3, <2>2 DEF ListingCovers
  <2>4. ASSUME NEW g \in Files PROVE ReadsCover(k, g)
    <3>1. CASE g = f
      BY <1>1, <1>3, <2>2, <3>1 DEF ReadsCover
    <3>2. CASE g # f
      BY <1>3, <2>2, <3>2 DEF ReadsCover
    <3>3. QED
      BY <3>1, <3>2
  <2>5. k.pc # "done"
    BY <1>1, <1>3 DEF Walking
  <2>6. QED
    BY <2>3, <2>4, <2>5 DEF Covers
<1>11. RequestOK(k)
  BY <1>4, <1>5, <1>9, <1>10 DEF RequestOK
<1>12. QED
  BY <1>1, <1>3, <1>11 DEF k

(* What a listing tells is there now, and no stamp is newer.                 *)
LEMMA ListedOK ==
  ASSUME NavigationTypeOK, StampsGrow, NEW q \in RequestState, RequestOK(q),
         q.pc \in {"list", "scan"}, NEW d \in Dirs
  PROVE  LET k == Listed(q, d) IN
         /\ Fitting(k) /\ WindowOpen(k) /\ ReadsMatch(k)
         /\ q.full => \A f \in Files : ListingCovers(k, f)
<1> DEFINE k == Listed(q, d)
<1>1. /\ k \in RequestState
      /\ k.todo = (q.todo \ {d}) \union (IF d = Root THEN Dirs \ {Root} ELSE {})
      /\ \A f \in Files : k.seen[f] = IF DirOf[f] = d THEN stamp[f] ELSE q.seen[f]
      /\ k.pc = q.pc /\ k.kind = q.kind /\ k.left = q.left /\ k.reads = q.reads
      /\ k.got = q.got /\ k.known = q.known /\ k.missed = q.missed
      /\ k.full = q.full /\ k.from = q.from
      /\ k.window = q.window /\ k.before = q.before
  BY ListedIs
<1> HIDE DEF k
<1>2. Fitting(q) /\ WindowOpen(q) /\ ReadsMatch(q) /\ (q.full => Covers(q))
  BY DEF RequestOK, Answering, Walking
<1>3. Fitting(k)
  BY <1>1, <1>2 DEF Fitting, Walking
<1>4. WindowOpen(k)
  <2>1. SUFFICES ASSUME NEW f \in Files
                 PROVE  /\ text[f] \in k.window[f]
                        /\ k.seen[f] # 0 =>
                             /\ k.seen[f] <= last /\ (stamp[f] # 0 => k.seen[f] <= stamp[f])
                             /\ \A p \in past[f] : p[1] > k.seen[f] => p[2] \in k.window[f]
    BY DEF WindowOpen
  <2>2. CASE DirOf[f] = d
    <3>1. k.seen[f] = stamp[f] /\ stamp[f] \in Nat /\ text[f] \in k.window[f]
      BY <1>1, <1>2, <2>2, ConstantsAre DEF WindowOpen, NavigationTypeOK, Texts
    <3>2. ASSUME stamp[f] # 0, NEW p \in past[f] PROVE ~(p[1] > stamp[f])
      <4>1. p \in Texts \X Texts
        BY <3>2 DEF NavigationTypeOK
      <4>2. p[1] \in Nat
        BY <4>1, ConstantsAre DEF Texts
      <4>3. p[1] <= stamp[f]
        BY <3>2 DEF StampsGrow
      <4>4. QED
        BY <3>1, <4>2, <4>3
    <3>3. stamp[f] <= last
      BY DEF StampsGrow
    <3>4. QED
      BY <3>1, <3>2, <3>3
  <2>3. CASE DirOf[f] # d
    BY <1>1, <1>2, <2>3 DEF WindowOpen
  <2>4. QED
    BY <2>2, <2>3
<1>5. \A f \in Files : k.known[f] = 0
  BY <1>1, <1>2, NothingIs DEF Fitting
<1>6. ReadsMatch(k)
  BY <1>1, <1>2, <1>5 DEF ReadsMatch
<1>7. ASSUME q.full, NEW f \in Files PROVE ListingCovers(k, f)
  <2>1. SUFFICES ASSUME 0 \notin k.window[f]
                 PROVE  DirOf[f] \in k.todo \/ Root \in k.todo \/ k.seen[f] # 0
    BY DEF ListingCovers
  <2>2. DirOf[f] \in q.todo \/ Root \in q.todo \/ q.seen[f] # 0
    BY <1>1, <1>2, <1>7, <2>1 DEF Covers, ListingCovers
  <2>3. text[f] # 0 /\ stamp[f] # 0
    BY <1>1, <1>2, <2>1 DEF WindowOpen, StampsGrow
  <2>4. DirOf[f] \in Dirs
    BY ConstantsAre
  <2>5. QED
    BY <1>1, <2>2, <2>3, <2>4
<1>8. QED
  BY <1>3, <1>4, <1>6, <1>7 DEF k

-----------------------------------------------------------------------------
(* What is right of the files as they are stays right while they stay.       *)
LEMMA RightStays ==
  ASSUME UNCHANGED diskVars
  PROVE  RightRequests' = RightRequests /\ RightEntries' = RightEntries
<1>1. text' = text /\ stamp' = stamp /\ last' = last /\ past' = past
  BY DEF diskVars
<1>2. \A q \in RequestState : RequestOK(q)' <=> RequestOK(q)
  BY <1>1 DEF RequestOK, WindowOpen, ReadsMatch, Since, Fitting, Answering, Covers,
              ListingCovers, ReadsCover
<1>3. \A e \in IndexEntry : EntryOK(e)' <=> EntryOK(e)
  BY <1>1 DEF EntryOK, Since
<1>4. RightRequests' = RightRequests
  BY <1>2 DEF RightRequests
<1>5. RightEntries' = RightEntries
  BY <1>3 DEF RightEntries
<1>6. QED
  BY <1>4, <1>5

(* A step of one request, by what it makes of the request and the caches.    *)
LEMMA OneRequest ==
  ASSUME NavigationInv, NEW r \in Requests, NEW k \in RightRequests,
         req' = [req EXCEPT ![r] = k], UNCHANGED <<diskVars, clock>>,
         req[r].pc \notin Ended, \A s \in k.before : req[s].pc \in Ended,
         index' \subseteq RightEntries, IsFiniteSet(index'), Cardinality(index') <= MaxIndexes,
         list' \in {Absent} \union ListEntry, ListIsNew', RefreshIsSeen'
  PROVE  NavigationInv'
<1>1. UNCHANGED diskVars /\ clock' = clock
  OBVIOUS
<1>2. RightRequests' = RightRequests /\ RightEntries' = RightEntries
  BY <1>1, RightStays
<1>3. req \in [Requests -> RightRequests] /\ RightRequests \subseteq RequestState
  BY DEF NavigationInv, RightRequests
<1>4. req' \in [Requests -> RightRequests]
  BY <1>3
<1>5. RightEntries \subseteq IndexEntry
  BY DEF RightEntries
<1>6. NavigationTypeOK'
  BY <1>1, <1>3, <1>4, <1>5 DEF NavigationInv, NavigationTypeOK, diskVars
<1>7. StampsGrow'
  BY <1>1 DEF NavigationInv, StampsGrow, diskVars
<1>8. BeforeHasEnded'
  <2>1. ASSUME NEW q \in Requests, NEW s \in req'[q].before PROVE req'[s].pc \in Ended
    <3>1. req'[q].before = (IF q = r THEN k.before ELSE req[q].before)
      BY <1>3
    <3>2. req[s].pc \in Ended
      BY <2>1, <3>1 DEF NavigationInv, BeforeHasEnded
    <3>3. s \in Requests /\ s # r
      BY <1>3, <1>4, <2>1, <3>2 DEF RequestState
    <3>4. QED
      BY <1>3, <3>2, <3>3
  <2>2. QED
    BY <2>1 DEF BeforeHasEnded
<1>9. QED
  BY <1>2, <1>4, <1>6, <1>7, <1>8 DEF NavigationInv

(* Only the end of a walk of the paths has to do with the list that is kept. *)
LEMMA ListKept ==
  ASSUME NavigationInv, NEW r \in Requests, NEW k \in RightRequests,
         req' = [req EXCEPT ![r] = k], req[r].pc \notin Ended,
         k.pc = "done" => k.kind \notin {"paths", "refresh"}, list' \in {list, Absent}
  PROVE  /\ ListIsNew' /\ RefreshIsSeen'
         /\ list' \in {Absent} \union ListEntry
<1>1. /\ \A q \in Requests : req'[q] = IF q = r THEN k ELSE req[q]
      /\ list \in {Absent} \union ListEntry
      /\ ListIsNew /\ RefreshIsSeen
  BY DEF NavigationInv, NavigationTypeOK
<1>2. ListIsNew'
  BY <1>1 DEF ListIsNew
<1>3. RefreshIsSeen'
  BY <1>1 DEF RefreshIsSeen
<1>4. QED
  BY <1>1, <1>2, <1>3

(* A step of a request that answers of symbols and texts.                    *)
LEMMA OneAnswer ==
  ASSUME NavigationInv, NEW r \in Requests, NEW k \in RightRequests,
         req' = [req EXCEPT ![r] = k], UNCHANGED <<diskVars, clock>>, list' \in {list, Absent},
         req[r].pc \notin Ended, \A s \in k.before : req[s].pc \in Ended,
         k.pc = "done" => k.kind \notin {"paths", "refresh"},
         index' \subseteq RightEntries, IsFiniteSet(index'), Cardinality(index') <= MaxIndexes
  PROVE  NavigationInv'
<1>1. ListIsNew' /\ RefreshIsSeen' /\ list' \in {Absent} \union ListEntry
  BY ListKept
<1>2. QED
  BY <1>1, OneRequest

(* What is known of a request under way, and of the index.                   *)
LEMMA RequestIs ==
  ASSUME NavigationInv, NEW r \in Requests
  PROVE  /\ NavigationTypeOK /\ StampsGrow /\ req[r] \in RequestState /\ RequestOK(req[r])
         /\ \A s \in req[r].before : req[s].pc \in Ended
BY DEF NavigationInv, RightRequests, BeforeHasEnded

LEMMA IndexIs ==
  ASSUME NavigationInv
  PROVE  /\ \A S \in SUBSET index :
              S \subseteq RightEntries /\ IsFiniteSet(S) /\ Cardinality(S) <= MaxIndexes
         /\ FreshIndex \in SUBSET index
         /\ \A e \in index : e \in IndexEntry /\ EntryOK(e)
<1>1. /\ IsFiniteSet(index) /\ Cardinality(index) <= MaxIndexes
      /\ index \subseteq RightEntries /\ MaxIndexes \in Nat
  BY ConstantsAre DEF NavigationInv, NavigationTypeOK
<1>2. ASSUME NEW S \in SUBSET index PROVE IsFiniteSet(S) /\ Cardinality(S) <= MaxIndexes
  <2>1. IsFiniteSet(S) /\ Cardinality(S) <= Cardinality(index)
    BY <1>1, FS_Subset
  <2>2. Cardinality(S) \in Nat /\ Cardinality(index) \in Nat
    BY <1>1, <2>1, FS_CardinalityType
  <2>3. QED
    BY <1>1, <2>1, <2>2
<1>3. FreshIndex \in SUBSET index
  BY DEF FreshIndex
<1>4. QED
  BY <1>1, <1>2, <1>3 DEF RightEntries

(* A build goes on or stores its index and uses it.                          *)
LEMMA BuildOK ==
  ASSUME NavigationInv, NEW r \in Requests, NEW q \in RequestState, RequestOK(q),
         q.pc = "build", NEW sofar \in SUBSET index, Build(r, q, sofar),
         UNCHANGED <<diskVars, list, clock>>, req[r].pc \notin Ended,
         \A s \in q.before : req[s].pc \in Ended
  PROVE  NavigationInv'
<1>1. /\ Fitting(q) /\ WindowOpen(q) /\ ReadsMatch(q) /\ (q.full => Covers(q))
      /\ q.kind \in {"symbols", "definition"} /\ q.todo = {} /\ q.from = Absent
  BY DEF RequestOK, Answering, Walking, Fitting
<1>2. CASE q.left = {}
  <2> DEFINE e == Built(q)
             u == Use(q, e)
  <2>1. index' \in Stored(e) /\ req' = [req EXCEPT ![r] = u]
    BY <1>2 DEF Build
  <2>2. NavigationTypeOK /\ \A x \in index : EntryOK(x)
    BY IndexIs DEF NavigationInv
  <2>3. e \in IndexEntry /\ EntryOK(e) /\ e.key = q.seen /\ e.full = q.full
    BY <1>1, <1>2, <2>2, BuiltOK
  <2> HIDE DEF e
  <2>4. \A f \in Files : q.full => ListingCovers(q, f)
    BY <1>1 DEF Covers
  <2>5. e.full => \A f \in Files : 0 \notin q.window[f] => q.seen[f] # 0
    BY <1>1, <2>3, <2>4 DEF ListingCovers
  <2>6. u \in RequestState /\ RequestOK(u) /\ u.kind = q.kind /\ u.before = q.before
    BY <1>1, <1>2, <2>2, <2>3, <2>5, UseOK
  <2> HIDE DEF u
  <2>7. u \in RightRequests
    BY <2>6 DEF RightRequests
  <2>8. /\ index' \subseteq IndexEntry /\ IsFiniteSet(index') /\ Cardinality(index') <= MaxIndexes
        /\ \A x \in index' : EntryOK(x)
    <3>1. PICK S \in Stored(e) : S = index'
      BY <2>1
    <3>2. /\ S \subseteq IndexEntry /\ IsFiniteSet(S) /\ Cardinality(S) <= MaxIndexes
          /\ \A x \in S : EntryOK(x)
      BY <2>2, <2>3, StoredOK
    <3>3. QED
      BY <3>1, <3>2
  <2>9. index' \subseteq RightEntries
    BY <2>8 DEF RightEntries
  <2>10. QED
    BY <1>1, <2>1, <2>6, <2>7, <2>8, <2>9, OneAnswer
<1>3. CASE q.left # {}
  <2>1. index' = sofar /\ req' = [req EXCEPT ![r] = q]
    BY <1>3 DEF Build
  <2>2. q \in RightRequests
    BY DEF RightRequests
  <2>3. index' \subseteq RightEntries /\ IsFiniteSet(index') /\ Cardinality(index') <= MaxIndexes
    BY <2>1, IndexIs
  <2>4. QED
    BY <1>1, <2>1, <2>2, <2>3, OneAnswer
<1>4. QED
  BY <1>2, <1>3

-----------------------------------------------------------------------------
(* The steps of a request.                                                   *)

(* A request begins, and what it answers from a kept list is newer than the  *)
(* refreshes that it has to see.                                             *)
LEMMA BeginOK ==
  ASSUME NavigationInv, NEW r \in Requests, NEW kind \in Kinds, Begin(r, kind)
  PROVE  NavigationInv'
<1> DEFINE ended == {s \in Requests : req[s].pc \in Ended}
           window == [f \in Files |-> IF Walks(kind) THEN {} ELSE {text[f]}]
           q == [Idle EXCEPT !.kind = kind, !.todo = {Root}, !.window = window, !.before = ended]
<1>1. /\ q \in RequestState
      /\ q.pc = "idle" /\ q.kind = kind /\ q.todo = {Root} /\ q.seen = Nothing
      /\ q.left = {} /\ q.got = Nothing /\ q.known = Nothing /\ q.missed = {}
      /\ q.full = TRUE /\ q.from = Absent /\ q.before = ended
      /\ q.window = window
  <2>1. window \in [Files -> SUBSET Texts]
    BY DEF NavigationInv, NavigationTypeOK
  <2>2. ended \in SUBSET Requests /\ {Root} \in SUBSET Dirs /\ kind \in AllKinds
    BY ConstantsAre, KindsAssumption
  <2> HIDE DEF ended, window
  <2>3. QED
    BY <2>1, <2>2, IdleIs DEF RequestState
<1>2. /\ req[r].pc = "idle" /\ UNCHANGED <<diskVars, index, clock>>
      /\ list' = IF kind = "paths" THEN FreshList ELSE list
      /\ req' = [req EXCEPT ![r] =
                   CASE kind \in {"symbols", "definition", "all"} ->
                          [q EXCEPT !.pc = "list"]
                     [] kind = "references" -> [q EXCEPT !.pc = "scan"]
                     [] kind = "paths" /\ FreshList # Absent ->
                          Done([q EXCEPT !.from = list.by])
                     [] OTHER -> [q EXCEPT !.pc = "paths"]]
  BY DEF Begin
<1>3. /\ UNCHANGED <<diskVars, clock>> /\ list' \in {list, Absent}
      /\ req[r].pc \notin Ended
      /\ index' \subseteq RightEntries /\ IsFiniteSet(index') /\ Cardinality(index') <= MaxIndexes
  BY <1>2, IndexIs DEF FreshList, Ended
<1>4. \A f \in Files : /\ q.seen[f] = 0 /\ q.got[f] = 0 /\ q.known[f] = 0
                       /\ ~Walks(kind) => text[f] \in q.window[f]
  BY <1>1, NothingIs
<1>5. \A s \in q.before : req[s].pc \in Ended
  BY <1>1
<1> HIDE DEF q, window, ended
<1>6. kind \in AllKinds
  BY KindsAssumption
<1>7. CASE kind \in {"symbols", "definition", "all", "references"}
  <2> DEFINE pc == IF kind = "references" THEN "scan" ELSE "list"
             k == [q EXCEPT !.pc = pc]
  <2>1. /\ k \in RequestState /\ k.pc = pc /\ pc \in {"list", "scan"}
        /\ k.kind = kind /\ k.todo = {Root} /\ k.seen = Nothing
        /\ k.left = {} /\ k.got = Nothing /\ k.known = Nothing /\ k.missed = {}
        /\ k.full = TRUE /\ k.from = Absent /\ k.before = q.before /\ k.window = q.window
    BY <1>1 DEF RequestState, Walking
  <2>2. req' = [req EXCEPT ![r] = k]
    BY <1>2, <1>7
  <2>3. pc = "list" => kind # "references"
    OBVIOUS
  <2> HIDE DEF pc, k
  <2>4. Fitting(k)
    BY <1>7, <2>1, <2>3 DEF Fitting, Walking
  <2>5. \A f \in Files : /\ k.seen[f] = 0 /\ k.got[f] = 0 /\ k.known[f] = 0
                         /\ text[f] \in k.window[f]
    <3>1. ~Walks(kind)
      BY <1>7 DEF Walks
    <3>2. QED
      BY <1>4, <2>1, <3>1, NothingIs
  <2>6. WindowOpen(k)
    BY <2>5 DEF WindowOpen
  <2>7. ReadsMatch(k)
    BY <2>1, <2>5 DEF ReadsMatch
  <2>8. Covers(k)
    BY <2>1, <2>5, ConstantsAre DEF Covers, ListingCovers, ReadsCover
  <2>9. k \in RightRequests
    BY <2>1, <2>4, <2>6, <2>7, <2>8 DEF RightRequests, RequestOK
  <2>10. QED
    BY <1>3, <1>5, <2>1, <2>2, <2>9, OneAnswer
<1>8. CASE kind = "paths" /\ FreshList # Absent
  <2> DEFINE m == [q EXCEPT !.from = list.by]
             k == Done(m)
  <2>1. list' = list /\ list # Absent /\ req' = [req EXCEPT ![r] = k]
    BY <1>2, <1>8 DEF FreshList
  <2>2. list.by \in Requests
    BY <2>1 DEF NavigationInv, NavigationTypeOK, ListEntry
  <2>3. /\ m \in RequestState /\ m.kind = "paths" /\ m.from = list.by /\ m.before = q.before
        /\ m.got = Nothing /\ m.known = Nothing
    BY <1>1, <1>8, <2>2 DEF RequestState
  <2> HIDE DEF m
  <2>4. /\ k \in RequestState /\ k.pc = "done" /\ k.kind = "paths" /\ k.todo = {}
        /\ k.left = {} /\ k.from = list.by /\ k.before = q.before
        /\ k.got = Nothing /\ k.known = Nothing
    BY <2>3, DoneIs
  <2> HIDE DEF k
  <2>5. k \in RightRequests
    BY <2>4 DEF RightRequests, RequestOK, Fitting, Answering, Walking, Walks
  <2>6. /\ \A s \in Requests : req'[s] = IF s = r THEN k ELSE req[s]
        /\ list \in {Absent} \union ListEntry
        /\ ListIsNew /\ RefreshIsSeen
    BY <2>1 DEF NavigationInv, NavigationTypeOK
  <2>7. ListIsNew'
    BY <2>1, <2>4, <2>6 DEF ListIsNew
  <2>8. RefreshIsSeen'
    <3>1. SUFFICES ASSUME NEW a \in Requests, NEW b \in Requests,
                          req'[a].kind = "paths", req'[a].pc = "done",
                          req'[b].kind = "refresh", req'[b].pc = "done", b \in req'[a].before
                   PROVE  req'[a].from \notin req'[b].before
      BY DEF RefreshIsSeen
    <3>2. req'[b] = req[b]
      BY <2>4, <2>6, <3>1
    <3>3. CASE a = r
      BY <2>1, <2>4, <2>6, <3>1, <3>2, <3>3 DEF ListIsNew
    <3>4. CASE a # r
      BY <2>6, <3>1, <3>2, <3>4 DEF RefreshIsSeen
    <3>5. QED
      BY <3>3, <3>4
  <2>9. QED
    BY <1>3, <1>5, <2>1, <2>4, <2>5, <2>6, <2>7, <2>8, OneRequest
<1>9. CASE Walks(kind) /\ ~(kind = "paths" /\ FreshList # Absent)
  <2> DEFINE k == [q EXCEPT !.pc = "paths"]
  <2>1. req' = [req EXCEPT ![r] = k]
    BY <1>2, <1>9 DEF Walks
  <2>2. /\ k \in RequestState /\ k.pc = "paths" /\ k.kind = kind /\ k.left = {}
        /\ k.from = Absent /\ k.before = q.before /\ k.got = Nothing /\ k.known = Nothing
    BY <1>1 DEF RequestState
  <2> HIDE DEF k
  <2>3. k \in RightRequests
    BY <1>9, <2>2 DEF RightRequests, RequestOK, Fitting, Answering, Walking
  <2>4. QED
    BY <1>3, <1>5, <2>1, <2>2, <2>3, OneAnswer
<1>10. QED
  BY <1>6, <1>7, <1>8, <1>9 DEF AllKinds, Walks

(* A listing goes on, or ends with a cached index, a search or a build.      *)
LEMMA ListForIndexOK ==
  ASSUME NavigationInv, NEW r \in Requests, NEW d \in Dirs, ListForIndex(r, d)
  PROVE  NavigationInv'
<1> DEFINE q == Listed(req[r], d)
           hits == Hits(Fingerprint(q.seen))
<1>1. /\ NavigationTypeOK /\ StampsGrow /\ req[r] \in RequestState /\ RequestOK(req[r])
      /\ \A s \in req[r].before : req[s].pc \in Ended
  BY RequestIs
<1>2. /\ req[r].pc = "list" /\ UNCHANGED <<diskVars, list, clock>>
      /\ \/ /\ q.todo # {}
            /\ req' = [req EXCEPT ![r] = q] /\ index' = index
         \/ /\ q.todo = {} /\ hits # {}
            /\ req' = [req EXCEPT ![r] = Use(q, CHOOSE e \in hits : TRUE)]
            /\ index' = FreshIndex
         \/ /\ q.todo = {} /\ hits = {} /\ q.kind = "all"
            /\ req' = [req EXCEPT ![r] = Reading(q, "texts", Present(q))]
            /\ index' = FreshIndex
         \/ /\ q.todo = {} /\ hits = {} /\ q.kind # "all"
            /\ Build(r, [q EXCEPT !.pc = "build", !.left = Present(q)], FreshIndex)
  BY DEF ListForIndex
<1>3. /\ q \in RequestState /\ q.pc = "list" /\ q.before = req[r].before /\ q.full = req[r].full
  BY <1>1, <1>2, ListedIs
<1>4. /\ Fitting(q) /\ WindowOpen(q) /\ ReadsMatch(q)
      /\ req[r].full => \A f \in Files : ListingCovers(q, f)
  BY <1>1, <1>2, ListedOK
<1>5. hits \subseteq index /\ \A e \in hits : e.key = q.seen
  BY DEF Hits, FreshIndex, Fingerprint
<1>6. /\ UNCHANGED <<diskVars, clock>> /\ list' \in {list, Absent}
      /\ req[r].pc \notin Ended /\ \A s \in q.before : req[s].pc \in Ended
  BY <1>1, <1>2, <1>3 DEF Ended
<1>7. ASSUME index' \in {index, FreshIndex}
      PROVE  index' \subseteq RightEntries /\ IsFiniteSet(index') /\ Cardinality(index') <= MaxIndexes
  BY <1>7, IndexIs
<1> HIDE DEF q, hits
<1>8. /\ q.kind \in {"symbols", "definition", "all"} /\ q.left = {} /\ q.got = Nothing
      /\ q.known = Nothing /\ q.full /\ q.from = Absent
      /\ \A f \in Files : ListingCovers(q, f)
      /\ \A f \in Files : q.got[f] = 0 /\ q.known[f] = 0
  BY <1>3, <1>4, NothingIs DEF Fitting, Walking
<1>9. ASSUME NEW k \in RequestState, k.pc \in {"list", "texts", "build", "done"},
             k.pc = "texts" => k.kind = "all",
             k.pc = "build" => k.kind # "all",
             k.pc = "list" => k.left = {},
             k.pc # "list" => q.todo = {} /\ {f \in Files : q.seen[f] # 0} \subseteq k.left,
             k.pc = "build" => k.left \subseteq {f \in Files : q.seen[f] # 0},
             k.pc = "done" => k.left = {},
             k.todo = q.todo, k.kind = q.kind, k.seen = q.seen, k.got = q.got,
             k.known = q.known, k.full = q.full, k.from = q.from, k.window = q.window
      PROVE  RequestOK(k)
  <2>1. Fitting(k)
    BY <1>8, <1>9 DEF Fitting, Walking
  <2>2. WindowOpen(k)
    BY <1>4, <1>9 DEF WindowOpen
  <2>3. ReadsMatch(k)
    BY <1>8, <1>9 DEF ReadsMatch
  <2>4. \A f \in Files : ListingCovers(k, f)
    BY <1>8, <1>9 DEF ListingCovers
  <2>5. \A f \in Files : ReadsCover(k, f)
    BY <1>8, <1>9, ConstantsAre DEF ReadsCover
  <2>6. Covers(k)
    BY <1>8, <1>9, <2>4, <2>5 DEF Covers
  <2>7. QED
    BY <2>1, <2>2, <2>3, <2>6 DEF RequestOK
<1>10. CASE q.todo # {} /\ req' = [req EXCEPT ![r] = q] /\ index' = index
  <2>1. RequestOK(q)
    BY <1>3, <1>8, <1>9
  <2>2. q \in RightRequests
    BY <1>3, <2>1 DEF RightRequests
  <2>3. QED
    BY <1>3, <1>6, <1>7, <1>10, <2>2, OneAnswer
<1>11. CASE /\ q.todo = {} /\ hits # {}
            /\ req' = [req EXCEPT ![r] = Use(q, CHOOSE e \in hits : TRUE)]
            /\ index' = FreshIndex
  <2>1. PICK e : e = CHOOSE x \in hits : TRUE
    OBVIOUS
  <2>2. e \in hits
    BY <1>11, <2>1
  <2>3. e \in IndexEntry /\ EntryOK(e) /\ e.key = q.seen
    BY <1>5, <2>2, IndexIs
  <2>4. \A f \in Files : 0 \notin q.window[f] => q.seen[f] # 0
    BY <1>8, <1>11 DEF ListingCovers
  <2> DEFINE u == Use(q, e)
  <2>5. u \in RequestState /\ RequestOK(u) /\ u.kind = q.kind /\ u.before = q.before
    BY <1>1, <1>3, <1>4, <1>8, <1>11, <2>3, <2>4, UseOK
  <2>6. req' = [req EXCEPT ![r] = u]
    BY <1>11, <2>1
  <2> HIDE DEF u
  <2>7. u \in RightRequests
    BY <2>5 DEF RightRequests
  <2>8. QED
    BY <1>6, <1>7, <1>8, <1>11, <2>5, <2>6, <2>7, OneAnswer
<1>12. CASE /\ q.todo = {} /\ q.kind = "all"
            /\ req' = [req EXCEPT ![r] = Reading(q, "texts", Present(q))]
            /\ index' = FreshIndex
  <2>1. Present(q) = {f \in Files : q.seen[f] # 0}
    BY DEF Present
  <2>2. CASE Present(q) = {}
    <3> DEFINE k == Done(q)
    <3>1. req' = [req EXCEPT ![r] = k]
      BY <1>12, <2>2 DEF Reading
    <3>2. /\ k \in RequestState
          /\ k.pc = "done" /\ k.todo = {} /\ k.left = {}
          /\ k.kind = q.kind /\ k.seen = q.seen /\ k.got = q.got /\ k.known = q.known
          /\ k.missed = q.missed /\ k.full = q.full /\ k.from = q.from
          /\ k.window = q.window /\ k.before = q.before
      BY <1>3, DoneIs
    <3> HIDE DEF k
    <3>3. RequestOK(k)
      BY <1>9, <1>12, <2>1, <2>2, <3>2
    <3>4. k \in RightRequests
      BY <3>2, <3>3 DEF RightRequests
    <3>5. QED
      BY <1>6, <1>7, <1>12, <3>1, <3>2, <3>4, OneAnswer
  <2>3. CASE Present(q) # {}
    <3> DEFINE k == ToRead(q, "texts", Present(q))
    <3>1. req' = [req EXCEPT ![r] = k]
      BY <1>12, <2>3 DEF Reading, ToRead
    <3>2. "texts" \in Walking /\ Present(q) \in SUBSET Files
      BY <2>1 DEF Walking
    <3>3. /\ k \in RequestState
          /\ k.pc = "texts" /\ k.left = Present(q) /\ k.todo = q.todo
          /\ k.kind = q.kind /\ k.seen = q.seen /\ k.got = q.got /\ k.known = q.known
          /\ k.missed = q.missed /\ k.full = q.full /\ k.from = q.from
          /\ k.window = q.window /\ k.before = q.before
      BY <1>3, <3>2, ToReadIs
    <3> HIDE DEF k
    <3>4. RequestOK(k)
      BY <1>9, <1>12, <2>1, <3>3
    <3>5. k \in RightRequests
      BY <3>3, <3>4 DEF RightRequests
    <3>6. QED
      BY <1>6, <1>7, <1>12, <3>1, <3>3, <3>5, OneAnswer
  <2>4. QED
    BY <2>2, <2>3
<1>13. CASE /\ q.todo = {} /\ q.kind # "all"
            /\ Build(r, [q EXCEPT !.pc = "build", !.left = Present(q)], FreshIndex)
  <2>1. Present(q) = {f \in Files : q.seen[f] # 0}
    BY DEF Present
  <2>2. "build" \in Walking
    BY DEF Walking
  <2> DEFINE k == [q EXCEPT !.pc = "build", !.left = Present(q)]
  <2>3. /\ k \in RequestState
        /\ k.pc = "build" /\ k.left = Present(q) /\ k.todo = q.todo
        /\ k.kind = q.kind /\ k.seen = q.seen /\ k.got = q.got /\ k.known = q.known
        /\ k.missed = q.missed /\ k.full = q.full /\ k.from = q.from
        /\ k.window = q.window /\ k.before = q.before
    BY <1>3, <2>1, <2>2 DEF RequestState
  <2>4. Build(r, k, FreshIndex)
    BY <1>13
  <2> HIDE DEF k
  <2>5. RequestOK(k)
    BY <1>9, <1>13, <2>1, <2>3
  <2>6. FreshIndex \in SUBSET index
    BY IndexIs
  <2>7. QED
    BY <1>2, <1>6, <2>3, <2>4, <2>5, <2>6, BuildOK
<1>14. QED
  BY <1>2, <1>10, <1>11, <1>12, <1>13 DEF q, hits

(* A directory of a scan is listed, and its files are to be read next.       *)
LEMMA ListForScanOK ==
  ASSUME NavigationInv, NEW r \in Requests, NEW d \in Dirs, ListForScan(r, d)
  PROVE  NavigationInv'
<1> DEFINE q == Listed(req[r], d)
           left == {f \in Present(q) : DirOf[f] = d}
           k == [q EXCEPT !.left = left]
           c == Cut(k)
           a == Answered(c)
<1>1. /\ NavigationTypeOK /\ StampsGrow /\ req[r] \in RequestState /\ RequestOK(req[r])
      /\ \A s \in req[r].before : req[s].pc \in Ended
  BY RequestIs
<1>2. /\ req[r].pc = "scan" /\ req[r].left = {} /\ UNCHANGED <<diskVars, index, list, clock>>
      /\ req' = [req EXCEPT ![r] = a]
  BY DEF ListForScan
<1>3. /\ q \in RequestState /\ q.pc = "scan" /\ q.before = req[r].before
      /\ q.full = req[r].full /\ q.left = {} /\ q.got = req[r].got /\ q.missed = req[r].missed
      /\ \A f \in Files : q.seen[f] = IF DirOf[f] = d THEN stamp[f] ELSE req[r].seen[f]
  BY <1>1, <1>2, ListedIs
<1>4. /\ Fitting(q) /\ WindowOpen(q) /\ ReadsMatch(q)
      /\ req[r].full => \A f \in Files : ListingCovers(q, f)
  BY <1>1, <1>2, ListedOK
<1> HIDE DEF q
<1>5. left = {f \in Files : q.seen[f] # 0 /\ DirOf[f] = d} /\ left \in SUBSET Files
  BY DEF Present
<1> HIDE DEF left
<1>6. /\ k \in RequestState /\ k.pc = "scan" /\ k.left = left /\ k.todo = q.todo
      /\ k.kind = q.kind /\ k.seen = q.seen /\ k.got = q.got /\ k.known = q.known
      /\ k.missed = q.missed /\ k.full = q.full /\ k.from = q.from
      /\ k.window = q.window /\ k.before = q.before
  BY <1>3, <1>5 DEF RequestState
<1> HIDE DEF k
<1>7. Fitting(k) /\ k.from = Absent
  BY <1>3, <1>4, <1>6 DEF Fitting, Walking
<1>8. WindowOpen(k)
  BY <1>4, <1>6 DEF WindowOpen
<1>9. ReadsMatch(k)
  BY <1>4, <1>6, <1>3 DEF ReadsMatch
<1>10. ASSUME k.full PROVE Covers(k)
  <2>1. Covers(req[r])
    BY <1>1, <1>2, <1>3, <1>6, <1>10 DEF RequestOK, Answering, Walking
  <2>2. \A f \in Files : ListingCovers(k, f)
    BY <1>3, <1>4, <1>6, <1>10 DEF ListingCovers
  <2>3. ASSUME NEW f \in Files PROVE ReadsCover(k, f)
    <3>1. CASE DirOf[f] = d
      BY <1>5, <1>6, <1>7, <3>1, ConstantsAre DEF ReadsCover
    <3>2. CASE DirOf[f] # d
      <4>1. q.seen[f] = req[r].seen[f] /\ ReadsCover(req[r], f)
        BY <1>3, <2>1, <3>2 DEF Covers
      <4>2. req[r].from = Absent
        BY <1>1, <1>2 DEF RequestOK, Fitting
      <4>3. QED
        BY <1>2, <1>3, <1>6, <1>7, <4>1, <4>2, ConstantsAre DEF ReadsCover
    <3>3. QED
      BY <3>1, <3>2
  <2>4. QED
    BY <1>6, <2>2, <2>3 DEF Covers
<1>11. RequestOK(k)
  BY <1>7, <1>8, <1>9, <1>10 DEF RequestOK
<1>12. "scan" \in Walking
  BY DEF Walking
<1>13. c \in RequestState /\ RequestOK(c) /\ c.pc = "scan" /\ c.kind = k.kind /\ c.before = k.before
  BY <1>1, <1>6, <1>11, <1>12, CutOK
<1> HIDE DEF c
<1>14. a \in RequestState /\ RequestOK(a) /\ a.kind = c.kind /\ a.before = c.before
  BY <1>1, <1>13, AnsweredOK
<1> HIDE DEF a
<1>15. a \in RightRequests
  BY <1>14 DEF RightRequests
<1>16. /\ UNCHANGED <<diskVars, clock>> /\ list' \in {list, Absent}
       /\ req[r].pc \notin Ended /\ \A s \in a.before : req[s].pc \in Ended
       /\ a.kind \notin {"paths", "refresh"}
  BY <1>1, <1>2, <1>3, <1>6, <1>7, <1>12, <1>13, <1>14 DEF Ended, Fitting
<1>17. index' \subseteq RightEntries /\ IsFiniteSet(index') /\ Cardinality(index') <= MaxIndexes
  BY <1>2, IndexIs
<1>18. QED
  BY <1>2, <1>15, <1>16, <1>17, OneAnswer

(* A file is read, for a build or for an answer.                             *)
LEMMA ReadStepOK ==
  ASSUME NavigationInv, NEW r \in Requests, NEW f \in Files, Read(r, f)
  PROVE  NavigationInv'
<1>0. PICK q : q = req[r]
  OBVIOUS
<1>1. /\ NavigationTypeOK /\ StampsGrow /\ q \in RequestState /\ RequestOK(q)
      /\ \A s \in q.before : req[s].pc \in Ended
  BY <1>0, RequestIs
<1>2. PICK ok \in BOOLEAN :
        LET c == Cut([q EXCEPT !.left = q.left \ {f}, !.reads = q.reads + 1,
                               !.got[f] = IF ok THEN text[f] ELSE 0,
                               !.missed = IF ok THEN q.missed ELSE q.missed \union {f}])
        IN  /\ ok => text[f] # 0
            /\ IF c.pc = "build" THEN Build(r, c, index)
               ELSE UNCHANGED index /\ req' = [req EXCEPT ![r] = Answered(c)]
  BY <1>0 DEF Read
<1> DEFINE k == [q EXCEPT !.left = q.left \ {f}, !.reads = q.reads + 1,
                          !.got[f] = IF ok THEN text[f] ELSE 0,
                          !.missed = IF ok THEN q.missed ELSE q.missed \union {f}]
           c == Cut(k)
           a == Answered(c)
<1>3. f \in q.left /\ UNCHANGED <<diskVars, list, clock>>
  BY <1>0 DEF Read
<1>4. /\ ok => text[f] # 0
      /\ c.pc = "build" => Build(r, c, index)
      /\ c.pc # "build" => UNCHANGED index /\ req' = [req EXCEPT ![r] = a]
  BY <1>2
<1>5. /\ k \in RequestState /\ RequestOK(k)
      /\ k.pc = q.pc /\ k.kind = q.kind /\ k.before = q.before
      /\ q.pc \in Walking /\ q.pc # "list"
  BY <1>1, <1>3, <1>4, ReadOK
<1> HIDE DEF k
<1>6. c \in RequestState /\ RequestOK(c) /\ c.pc = k.pc /\ c.kind = k.kind /\ c.before = k.before
  BY <1>1, <1>5, CutOK
<1> HIDE DEF c
<1>7. /\ req[r].pc \notin Ended /\ \A s \in c.before : req[s].pc \in Ended
      /\ c.kind \notin {"paths", "refresh"} /\ c.pc \in {"scan", "build", "texts", "confirm"}
  BY <1>0, <1>1, <1>5, <1>6 DEF Ended, Walking, RequestOK, Fitting
<1>8. CASE c.pc = "build"
  BY <1>3, <1>4, <1>6, <1>7, <1>8, BuildOK
<1>9. CASE c.pc # "build"
  <2>1. a \in RequestState /\ RequestOK(a) /\ a.kind = c.kind /\ a.before = c.before
    BY <1>1, <1>6, <1>7, <1>9, AnsweredOK
  <2>2. req' = [req EXCEPT ![r] = a] /\ index' = index
    BY <1>4, <1>9
  <2> HIDE DEF a
  <2>3. a \in RightRequests
    BY <2>1 DEF RightRequests
  <2>4. index' \subseteq RightEntries /\ IsFiniteSet(index') /\ Cardinality(index') <= MaxIndexes
    BY <2>2, IndexIs
  <2>5. UNCHANGED <<diskVars, clock>> /\ list' \in {list, Absent}
    BY <1>3
  <2>6. \A s \in a.before : req[s].pc \in Ended
    BY <1>7, <2>1
  <2>7. QED
    BY <1>7, <2>1, <2>2, <2>3, <2>4, <2>5, <2>6, OneAnswer
<1>10. QED
  BY <1>8, <1>9

(* A walk of the paths goes on, or ends with a list that no refresh before   *)
(* it has to do with: it has not ended before.                               *)
LEMMA ListForPathsOK ==
  ASSUME NavigationInv, NEW r \in Requests, NEW d \in Dirs, ListForPaths(r, d)
  PROVE  NavigationInv'
<1> DEFINE todo == Listed(req[r], d).todo
           q == [req[r] EXCEPT !.todo = todo]
<1>1. /\ NavigationTypeOK /\ StampsGrow /\ req[r] \in RequestState /\ RequestOK(req[r])
      /\ \A s \in req[r].before : req[s].pc \in Ended
  BY RequestIs
<1>2. /\ req[r].pc = "paths" /\ UNCHANGED <<diskVars, index, clock>>
      /\ list' = IF q.todo = {} THEN Listing(r) ELSE list
      /\ req' = [req EXCEPT ![r] = IF q.todo = {} THEN Done([q EXCEPT !.from = r]) ELSE q]
  BY DEF ListForPaths
<1>3. todo \in SUBSET Dirs
  BY <1>1, ListedIs DEF RequestState
<1> HIDE DEF todo
<1>4. /\ q \in RequestState /\ q.pc = "paths" /\ q.kind = req[r].kind /\ q.left = req[r].left
      /\ q.from = req[r].from /\ q.before = req[r].before
      /\ q.got = req[r].got /\ q.known = req[r].known
  BY <1>1, <1>2, <1>3 DEF RequestState
<1>5. q.kind \in {"paths", "refresh"} /\ q.left = {} /\ q.got = Nothing /\ q.known = Nothing
  BY <1>1, <1>2, <1>4 DEF RequestOK, Fitting, Walking, Walks
<1> HIDE DEF q
<1>6. req[r].pc \notin Ended /\ \A s \in q.before : req[s].pc \in Ended
  BY <1>1, <1>2, <1>4 DEF Ended
<1>7. index' \subseteq RightEntries /\ IsFiniteSet(index') /\ Cardinality(index') <= MaxIndexes
  BY <1>2, IndexIs
<1>8. CASE q.todo # {}
  <2>1. req' = [req EXCEPT ![r] = q] /\ list' = list
    BY <1>2, <1>8
  <2>2. q \in RightRequests
    BY <1>4, <1>5 DEF RightRequests, RequestOK, Fitting, Answering, Walking, Walks
  <2>3. UNCHANGED <<diskVars, clock>> /\ list' \in {list, Absent}
    BY <1>2, <2>1
  <2>4. QED
    BY <1>4, <1>6, <1>7, <2>1, <2>2, <2>3, OneAnswer
<1>9. CASE q.todo = {}
  <2> DEFINE m == [q EXCEPT !.from = r]
             k == Done(m)
  <2>1. req' = [req EXCEPT ![r] = k] /\ list' = Listing(r)
    BY <1>2, <1>9
  <2>2. /\ m \in RequestState /\ m.kind = q.kind /\ m.from = r /\ m.before = q.before
        /\ m.got = Nothing /\ m.known = Nothing
    BY <1>4, <1>5 DEF RequestState
  <2> HIDE DEF m
  <2>3. /\ k \in RequestState /\ k.pc = "done" /\ k.kind = q.kind /\ k.todo = {}
        /\ k.left = {} /\ k.from = r /\ k.before = q.before
        /\ k.got = Nothing /\ k.known = Nothing
    BY <2>2, DoneIs
  <2> HIDE DEF k
  <2>4. k \in RightRequests
    BY <1>5, <2>3 DEF RightRequests, RequestOK, Fitting, Answering, Walking, Walks
  <2>5. list' \in ListEntry /\ list'.by = r
    BY <1>1, <2>1 DEF Listing, ListEntry, NavigationTypeOK
  <2>6. \A s \in Requests : req'[s] = IF s = r THEN k ELSE req[s]
    BY <2>1 DEF NavigationInv, NavigationTypeOK
  <2>7. \A s \in Requests : r \notin req'[s].before /\ r \notin req[s].before
    BY <1>1, <1>4, <1>6, <2>3, <2>6, RequestIs
  <2>8. ListIsNew'
    BY <2>5, <2>7 DEF ListIsNew
  <2>9. RefreshIsSeen'
    <3>1. SUFFICES ASSUME NEW a \in Requests, NEW b \in Requests,
                          req'[a].kind = "paths", req'[a].pc = "done",
                          req'[b].kind = "refresh", req'[b].pc = "done", b \in req'[a].before
                   PROVE  req'[a].from \notin req'[b].before
      BY DEF RefreshIsSeen
    <3>2. b # r
      BY <2>7, <3>1
    <3>3. CASE a = r
      BY <2>3, <2>6, <2>7, <3>3
    <3>4. CASE a # r
      BY <2>6, <3>1, <3>2, <3>4 DEF NavigationInv, RefreshIsSeen
    <3>5. QED
      BY <3>3, <3>4
  <2>10. UNCHANGED <<diskVars, clock>>
    BY <1>2
  <2>11. QED
    BY <1>6, <1>7, <2>1, <2>3, <2>4, <2>5, <2>8, <2>9, <2>10, OneRequest
<1>10. QED
  BY <1>8, <1>9

(* A listing fails, and is tried again as a scan or ends the request.        *)
LEMMA ListFailsOK ==
  ASSUME NavigationInv, NEW r \in Requests, ListFails(r)
  PROVE  NavigationInv'
<1>1. /\ NavigationTypeOK /\ StampsGrow /\ req[r] \in RequestState /\ RequestOK(req[r])
      /\ \A s \in req[r].before : req[s].pc \in Ended
  BY RequestIs
<1>2. /\ UNCHANGED <<diskVars, index, list, clock>>
      /\ \/ req[r].pc = "list" /\ req' = [req EXCEPT ![r] = Scan(req[r])]
         \/ req[r].pc \in {"scan", "paths"} /\ req' = [req EXCEPT ![r] = Failed(req[r])]
  BY DEF ListFails
<1>3. /\ UNCHANGED <<diskVars, clock>> /\ list' \in {list, Absent}
      /\ req[r].pc \notin Ended
      /\ index' \subseteq RightEntries /\ IsFiniteSet(index') /\ Cardinality(index') <= MaxIndexes
  BY <1>2, IndexIs DEF Ended
<1>4. CASE req[r].pc = "list" /\ req' = [req EXCEPT ![r] = Scan(req[r])]
  <2>1. /\ req[r].kind \in {"symbols", "definition", "references", "all"}
        /\ \A f \in Files : text[f] \in req[r].window[f]
    BY <1>1, <1>4 DEF RequestOK, Fitting, WindowOpen, Walking
  <2> DEFINE k == Scan(req[r])
  <2>2. k \in RequestState /\ k.pc = "scan" /\ k.before = req[r].before
    BY <1>1, ScanIs
  <2>3. RequestOK(k)
    BY <1>1, <2>1, ScanOK
  <2>4. req' = [req EXCEPT ![r] = k]
    BY <1>4
  <2> HIDE DEF k
  <2>5. k \in RightRequests
    BY <2>2, <2>3 DEF RightRequests
  <2>6. QED
    BY <1>1, <1>3, <2>2, <2>4, <2>5, OneAnswer
<1>5. CASE req' = [req EXCEPT ![r] = Failed(req[r])]
  <2> DEFINE k == Failed(req[r])
  <2>1. /\ k \in RequestState /\ k.pc = "failed" /\ k.left = {} /\ k.before = req[r].before
        /\ k.got = Nothing /\ k.known = Nothing
    BY <1>1, FailedIs
  <2>2. req' = [req EXCEPT ![r] = k]
    BY <1>5
  <2> HIDE DEF k
  <2>3. k \in RightRequests
    BY <2>1 DEF RightRequests, RequestOK, Fitting, Answering, Walking
  <2>4. QED
    BY <1>1, <1>3, <2>1, <2>2, <2>3, OneAnswer
<1>6. QED
  BY <1>2, <1>4, <1>5

(* A file changes: the requests under way have the new text in their window. *)
LEMMA PutOK ==
  ASSUME NavigationInv, NEW f \in Files, NEW t \in Texts, NEW s \in Texts, Put(f, t, s),
         t = 0 <=> s = 0, s # 0 => s = last + 1 \/ (stamp[f] # 0 /\ s = stamp[f])
  PROVE  NavigationInv'
<1> DEFINE Under(q) == ~(q.pc \in Ended \union {"idle"} \/ Walks(q.kind))
           Wider(q) == [q EXCEPT !.window[f] = q.window[f] \union {t}]
<1>1. /\ last < MaxText /\ last' = last + 1 /\ last' \in 1..MaxText /\ last \in Nat
      /\ text' = [text EXCEPT ![f] = t] /\ stamp' = [stamp EXCEPT ![f] = s]
      /\ past' = [past EXCEPT ![f] = past[f] \union {<<s, t>>}]
      /\ \A r \in Requests : req'[r] = IF Under(req[r]) THEN Wider(req[r]) ELSE req[r]
      /\ index' = index /\ list' = list /\ clock' = clock
      /\ req' = [r \in Requests |-> IF Under(req[r]) THEN Wider(req[r]) ELSE req[r]]
  BY ConstantsAre DEF Put, NavigationInv, NavigationTypeOK
<1>2. /\ text \in [Files -> Texts] /\ stamp \in [Files -> Texts]
      /\ past \in [Files -> SUBSET (Texts \X Texts)] /\ Texts \subseteq Nat
      /\ text' \in [Files -> Texts] /\ stamp' \in [Files -> Texts]
      /\ past' \in [Files -> SUBSET (Texts \X Texts)]
  BY <1>1, ConstantsAre DEF NavigationInv, NavigationTypeOK, Texts
<1>3. /\ text'[f] = t /\ stamp'[f] = s /\ past'[f] = past[f] \union {<<s, t>>}
      /\ \A g \in Files \ {f} : text'[g] = text[g] /\ stamp'[g] = stamp[g] /\ past'[g] = past[g]
  BY <1>1, <1>2
<1>4. StampsGrow
  BY DEF NavigationInv
<1>5. ASSUME NEW g \in Files, NEW p \in past[g] PROVE p[1] \in Nat
  <2>1. p \in Texts \X Texts
    BY <1>2
  <2>2. QED
    BY <1>2, <2>1
<1>6. StampsGrow'
  <2>1. SUFFICES ASSUME NEW g \in Files
                 PROVE  /\ text'[g] = 0 <=> stamp'[g] = 0
                        /\ <<stamp'[g], text'[g]>> \in past'[g]
                        /\ stamp'[g] <= last'
                        /\ \A p \in past'[g] : p[1] <= last' /\ (stamp'[g] # 0 => p[1] <= stamp'[g])
    BY DEF StampsGrow
  <2>2. stamp[g] \in Nat /\ s \in Nat
    BY <1>2
  <2>3. /\ text[g] = 0 <=> stamp[g] = 0
        /\ <<stamp[g], text[g]>> \in past[g] /\ stamp[g] <= last
        /\ \A p \in past[g] : p[1] <= last /\ (stamp[g] # 0 => p[1] <= stamp[g])
    BY <1>4 DEF StampsGrow
  <2>4. ASSUME NEW x \in Nat, x <= last PROVE x <= last'
    BY <1>1, <2>4
  <2>5. CASE g = f
    <3>1. s <= last'
      BY <1>1, <2>2, <2>3, <2>5
    <3>2. ASSUME NEW p \in past[f] PROVE p[1] <= last' /\ (s # 0 => p[1] <= s)
      <4>1. p[1] \in Nat /\ p[1] <= last /\ (stamp[f] # 0 => p[1] <= stamp[f])
        BY <1>5, <2>3, <2>5
      <4>2. QED
        BY <1>1, <2>2, <4>1
    <3>3. <<s, t>>[1] = s
      OBVIOUS
    <3>4. ASSUME NEW p \in past'[f] PROVE p[1] <= last' /\ (s # 0 => p[1] <= s)
      BY <1>3, <2>2, <3>1, <3>2, <3>3
    <3>5. QED
      BY <1>3, <2>5, <3>1, <3>4
  <2>6. CASE g # f
    <3>1. text'[g] = text[g] /\ stamp'[g] = stamp[g] /\ past'[g] = past[g]
      BY <1>3, <2>6
    <3>2. ASSUME NEW p \in past[g] PROVE p[1] <= last' /\ (stamp[g] # 0 => p[1] <= stamp[g])
      BY <1>5, <2>3, <2>4
    <3>3. QED
      BY <2>2, <2>3, <2>4, <3>1, <3>2
  <2>7. QED
    BY <2>5, <2>6
<1>7. ASSUME NEW g \in Files, NEW x \in Texts, NEW y \in Texts, Since(g, x, y) PROVE Since(g, x, y)'
  BY <1>3, <1>7 DEF Since
<1>8. ASSUME NEW q \in RequestState, RequestOK(q), ~Under(q) PROVE RequestOK(q)'
  <2>1. Fitting(q) /\ q.pc \notin Walking
    BY <1>8 DEF RequestOK, Fitting, Walking, Walks, Ended
  <2>2. Fitting(q)' /\ (Covers(q)' <=> Covers(q))
    BY <2>1 DEF Fitting, Covers, ListingCovers, ReadsCover
  <2>3. ReadsMatch(q) => ReadsMatch(q)'
    BY <1>3, <2>1 DEF ReadsMatch, Walking
  <2>4. QED
    BY <1>8, <2>1, <2>2, <2>3 DEF RequestOK, Answering
<1>9. ASSUME NEW q \in RequestState, RequestOK(q), Under(q) PROVE RequestOK(Wider(q))'
  <2> DEFINE k == Wider(q)
  <2>1. /\ k \in RequestState
        /\ k.window[f] = q.window[f] \union {t}
        /\ \A g \in Files \ {f} : k.window[g] = q.window[g]
        /\ k.pc = q.pc /\ k.kind = q.kind /\ k.seen = q.seen /\ k.todo = q.todo
        /\ k.left = q.left /\ k.got = q.got /\ k.known = q.known /\ k.missed = q.missed
        /\ k.full = q.full /\ k.from = q.from
    BY DEF RequestState
  <2> HIDE DEF k
  <2>2. q.pc \in Walking
    BY <1>9 DEF RequestOK, Fitting, Walking, Ended, RequestState
  <2>3. WindowOpen(q) /\ ReadsMatch(q) /\ (q.full => Covers(q)) /\ Fitting(q)
    BY <1>9, <2>2 DEF RequestOK, Answering
  <2>4. Fitting(k)'
    BY <2>1, <2>3 DEF Fitting
  <2>5. ASSUME NEW g \in Files
        PROVE  /\ text'[g] \in k.window[g]
               /\ k.seen[g] # 0 =>
                    /\ k.seen[g] <= last' /\ (stamp'[g] # 0 => k.seen[g] <= stamp'[g])
                    /\ \A p \in past'[g] : p[1] > k.seen[g] => p[2] \in k.window[g]
    <3>1. q.seen[g] \in Nat /\ stamp[g] \in Nat /\ s \in Nat /\ last \in Nat
      BY <1>1, <1>2 DEF RequestState
    <3>2. CASE g = f
      <4>1. q.seen[f] # 0 => q.seen[f] <= last' /\ (s # 0 => q.seen[f] <= s)
        BY <1>1, <2>3, <3>1, <3>2 DEF WindowOpen
      <4>2. ASSUME q.seen[f] # 0, NEW p \in past'[f], p[1] > q.seen[f] PROVE p[2] \in k.window[f]
        BY <1>3, <2>1, <2>3, <4>2 DEF WindowOpen
      <4>3. QED
        BY <1>3, <2>1, <3>2, <4>1, <4>2
    <3>3. CASE g # f
      BY <1>1, <1>3, <2>1, <2>3, <3>1, <3>3 DEF WindowOpen
    <3>4. QED
      BY <3>2, <3>3
  <2>6. WindowOpen(k)'
    BY <2>5 DEF WindowOpen
  <2>7. \A g \in Files : q.window[g] \subseteq k.window[g] /\ past[g] \subseteq past'[g]
    BY <1>3, <2>1
  <2>8. ReadsMatch(k)'
    BY <2>1, <2>3, <2>7 DEF ReadsMatch, Since
  <2>9. k.full => Covers(k)'
    BY <2>1, <2>3, <2>7 DEF Covers, ListingCovers, ReadsCover
  <2>10. QED
    BY <2>4, <2>6, <2>8, <2>9 DEF RequestOK, k
<1>10. ASSUME NEW e \in IndexEntry, EntryOK(e) PROVE EntryOK(e)'
  <2>1. \A g \in Files : past[g] \subseteq past'[g]
    BY <1>3
  <2>2. QED
    BY <1>10, <2>1 DEF EntryOK, Since
<1>11. ASSUME NEW q \in RequestState
       PROVE  LET k == Wider(q) IN
              /\ k \in RequestState /\ k.pc = q.pc /\ k.kind = q.kind
              /\ k.from = q.from /\ k.before = q.before
  BY DEF RequestState
<1>12. req \in [Requests -> RightRequests] /\ index \subseteq RightEntries
  BY DEF NavigationInv
<1>13. ASSUME NEW r \in Requests PROVE req'[r] \in RightRequests'
  <2>1. PICK q : q = req[r]
    OBVIOUS
  <2>2. q \in RequestState /\ RequestOK(q)
    BY <1>12, <2>1 DEF RightRequests
  <2>3. PICK k : k = req'[r]
    OBVIOUS
  <2>4. k = IF Under(q) THEN Wider(q) ELSE q
    BY <1>1, <2>1, <2>3
  <2>5. k \in RequestState
    BY <1>11, <2>2, <2>4
  <2>6. RequestOK(k)'
    BY <1>8, <1>9, <2>2, <2>4
  <2>7. k \in RightRequests'
    BY <2>5, <2>6 DEF RightRequests
  <2>8. QED
    BY <2>3, <2>7
<1>14. req' \in [Requests -> RightRequests'] /\ RightRequests' \subseteq RequestState
  BY <1>1, <1>13 DEF RightRequests
<1>15. index' \subseteq RightEntries'
  <2>1. RightEntries \subseteq RightEntries'
    BY <1>10 DEF RightEntries
  <2>2. QED
    BY <1>1, <1>12, <2>1
<1>16. \A r \in Requests : /\ req'[r].pc = req[r].pc /\ req'[r].kind = req[r].kind
                           /\ req'[r].from = req[r].from /\ req'[r].before = req[r].before
  <2>1. \A r \in Requests : req[r] \in RequestState
    BY <1>12 DEF RightRequests
  <2>2. QED
    BY <1>1, <1>11, <2>1
<1>17. NavigationTypeOK'
  BY <1>1, <1>2, <1>14 DEF NavigationInv, NavigationTypeOK
<1>18. BeforeHasEnded'
  <2>1. \A r \in Requests : req[r].before \subseteq Requests
    BY <1>12 DEF RightRequests, RequestState
  <2>2. QED
    BY <1>16, <2>1 DEF NavigationInv, BeforeHasEnded
<1>19. ListIsNew' /\ RefreshIsSeen'
  BY <1>1, <1>16 DEF NavigationInv, ListIsNew, RefreshIsSeen
<1>20. QED
  BY <1>6, <1>14, <1>15, <1>17, <1>18, <1>19 DEF NavigationInv

-----------------------------------------------------------------------------
LEMMA NavigationStarts == NavigationInit => NavigationInv
<1> SUFFICES ASSUME NavigationInit PROVE NavigationInv
  OBVIOUS
<1>1. /\ text \in [Files -> {0, 1}] /\ stamp = text /\ last = 1
      /\ \A f \in Files : past[f] = {<<text[f], text[f]>>}
      /\ past = [f \in Files |-> {<<text[f], text[f]>>}]
      /\ index = {} /\ list = Absent /\ clock = 0
      /\ req = [r \in Requests |-> Idle]
  BY DEF NavigationInit
<1>2. {0, 1} \subseteq Texts /\ 1 \in 1..MaxText /\ 0 \in 0..MaxClock
  BY ConstantsAre DEF Texts
<1>3. text \in [Files -> Texts]
  BY <1>1, <1>2
<1>4. past \in [Files -> SUBSET (Texts \X Texts)]
  BY <1>1, <1>3
<1>5. IsFiniteSet(index) /\ Cardinality(index) <= MaxIndexes
  BY <1>1, FS_EmptySet, ConstantsAre
<1>6. Idle \in RightRequests
  BY IdleIs DEF RightRequests, RequestOK, Fitting, Answering, Walking
<1>7. req \in [Requests -> RightRequests] /\ RightRequests \subseteq RequestState
  BY <1>1, <1>6 DEF RightRequests
<1>8. NavigationTypeOK
  BY <1>1, <1>2, <1>3, <1>4, <1>5, <1>7 DEF NavigationTypeOK
<1>9. StampsGrow
  <2>1. ASSUME NEW f \in Files
        PROVE  /\ text[f] = 0 <=> stamp[f] = 0
               /\ <<stamp[f], text[f]>> \in past[f] /\ stamp[f] <= last
               /\ \A p \in past[f] : p[1] <= last /\ (stamp[f] # 0 => p[1] <= stamp[f])
    <3>1. stamp[f] = text[f] /\ text[f] \in {0, 1} /\ past[f] = {<<text[f], text[f]>>}
      BY <1>1
    <3>2. <<text[f], text[f]>>[1] = text[f]
      OBVIOUS
    <3>3. QED
      BY <1>1, <3>1, <3>2
  <2>2. QED
    BY <2>1 DEF StampsGrow
<1>10. BeforeHasEnded
  BY <1>1, IdleIs DEF BeforeHasEnded
<1>11. ListIsNew /\ RefreshIsSeen
  BY <1>1, IdleIs DEF ListIsNew, RefreshIsSeen
<1>12. QED
  BY <1>1, <1>7, <1>8, <1>9, <1>10, <1>11 DEF NavigationInv

LEMMA NavigationTicks ==
  ASSUME NavigationInv, UNCHANGED <<diskVars, index, list, req>>, clock' \in 0..MaxClock
  PROVE  NavigationInv'
<1>1. UNCHANGED diskVars
  OBVIOUS
<1>2. RightRequests' = RightRequests /\ RightEntries' = RightEntries
  BY <1>1, RightStays
<1>3. NavigationTypeOK' /\ StampsGrow'
  BY DEF diskVars, NavigationInv, NavigationTypeOK, StampsGrow
<1>4. BeforeHasEnded' /\ ListIsNew' /\ RefreshIsSeen'
  BY DEF NavigationInv, BeforeHasEnded, ListIsNew, RefreshIsSeen
<1>5. QED
  BY <1>2, <1>3, <1>4 DEF NavigationInv

LEMMA NavigationSteps ==
  ASSUME NavigationInv, [NavigationNext]_navigationVars PROVE NavigationInv'
<1>1. ASSUME NEW r \in Requests, Request(r) PROVE NavigationInv'
  <2>1. ASSUME NEW k \in Kinds, Begin(r, k) PROVE NavigationInv'
    BY <2>1, BeginOK
  <2>2. ASSUME NEW d \in Dirs, ListForIndex(r, d) PROVE NavigationInv'
    BY <2>2, ListForIndexOK
  <2>3. ASSUME NEW d \in Dirs, ListForScan(r, d) PROVE NavigationInv'
    BY <2>3, ListForScanOK
  <2>4. ASSUME NEW d \in Dirs, ListForPaths(r, d) PROVE NavigationInv'
    BY <2>4, ListForPathsOK
  <2>5. ASSUME NEW f \in Files, Read(r, f) PROVE NavigationInv'
    BY <2>5, ReadStepOK
  <2>6. ASSUME ListFails(r) PROVE NavigationInv'
    BY <2>6, ListFailsOK
  <2>7. QED
    BY <1>1, <2>1, <2>2, <2>3, <2>4, <2>5, <2>6 DEF Request
<1>2. ASSUME Edit PROVE NavigationInv'
  <2>1. PICK f \in Files : Write(f) \/ EditKept(f) \/ Delete(f)
    BY <1>2 DEF Edit
  <2>2. last \in 1..MaxText /\ stamp[f] \in Texts /\ MaxText \in Nat
    BY ConstantsAre DEF NavigationInv, NavigationTypeOK
  <2>3. 0 \in Texts /\ (last < MaxText => last + 1 \in Texts /\ last + 1 # 0)
    BY <2>2 DEF Texts
  <2>4. CASE Write(f)
    <3>1. Put(f, last + 1, last + 1) /\ last < MaxText
      BY <2>4 DEF Write, Put
    <3>2. QED
      BY <2>3, <3>1, PutOK
  <2>5. CASE EditKept(f)
    <3>1. Put(f, last + 1, stamp[f]) /\ stamp[f] # 0 /\ last < MaxText
      BY <2>5 DEF EditKept, Put
    <3>2. QED
      BY <2>2, <2>3, <3>1, PutOK
  <2>6. CASE Delete(f)
    <3>1. Put(f, 0, 0)
      BY <2>6 DEF Delete
    <3>2. QED
      BY <2>3, <3>1, PutOK
  <2>7. QED
    BY <2>1, <2>4, <2>5, <2>6
<1>3. ASSUME Tick PROVE NavigationInv'
  <2>1. clock \in 0..MaxClock /\ MaxClock \in Nat
    BY ConstantsAre DEF NavigationInv, NavigationTypeOK
  <2>2. UNCHANGED <<diskVars, index, list, req>> /\ clock' \in 0..MaxClock
    BY <1>3, <2>1 DEF Tick
  <2>3. QED
    BY <2>2, NavigationTicks
<1>4. ASSUME UNCHANGED navigationVars PROVE NavigationInv'
  <2>1. UNCHANGED <<diskVars, index, list, req>> /\ clock' \in 0..MaxClock
    BY <1>4 DEF navigationVars, diskVars, NavigationInv, NavigationTypeOK
  <2>2. QED
    BY <2>1, NavigationTicks
<1>5. QED
  BY <1>1, <1>2, <1>3, <1>4 DEF NavigationNext, NavigationFinished

-----------------------------------------------------------------------------
(* What an ended request answers is what the invariant says of it.           *)
LEMMA NavigationAnswers ==
  ASSUME NavigationInv PROVE AnswersMatchTheFiles /\ WholeUnlessTruncated
<1>1. ASSUME NEW q \in RequestState, RequestOK(q), q.pc = "done"
      PROVE  ReadsMatch(q)
  <2>1. CASE q.kind \in {"paths", "refresh"}
    <3>1. \A f \in Files : q.got[f] = 0 /\ q.known[f] = 0
      BY <1>1, <2>1, NothingIs DEF RequestOK, Fitting
    <3>2. QED
      BY <1>1, <3>1 DEF ReadsMatch
  <2>2. CASE q.kind \notin {"paths", "refresh"}
    BY <1>1, <2>2 DEF RequestOK, Answering, Walks
  <2>3. QED
    BY <2>1, <2>2
<1>2. AnswersMatchTheFiles
  <2>1. SUFFICES ASSUME NEW r \in Requests, req[r].pc = "done"
                 PROVE  /\ \A a \in Located(req[r]) : a[2] \in req[r].window[a[1]]
                        /\ \A a \in Answers(req[r]) :
                             \/ a[2] \in req[r].window[a[1]]
                             \/ <<req[r].seen[a[1]], a[2]>> \in past[a[1]]
    BY DEF AnswersMatchTheFiles
  <2>2. ReadsMatch(req[r])
    BY <1>1, <2>1, RequestIs
  <2>3. ASSUME NEW a \in Located(req[r]) PROVE a[2] \in req[r].window[a[1]]
    <3>1. PICK f \in Files : req[r].got[f] # 0 /\ a = <<f, req[r].got[f]>>
      BY DEF Located
    <3>2. QED
      BY <2>2, <3>1 DEF ReadsMatch
  <2>4. ASSUME NEW a \in Answers(req[r])
        PROVE  a[2] \in req[r].window[a[1]] \/ <<req[r].seen[a[1]], a[2]>> \in past[a[1]]
    <3>1. PICK f \in Files : req[r].known[f] # 0 /\ a = <<f, req[r].known[f]>>
      BY DEF Answers
    <3>2. QED
      BY <2>2, <3>1 DEF ReadsMatch
  <2>5. QED
    BY <2>3, <2>4
<1>3. WholeUnlessTruncated
  <2>1. SUFFICES ASSUME NEW r \in Requests, NEW q \in RequestState, q = req[r],
                        q.pc = "done", q.kind \notin {"paths", "refresh"}, q.full,
                        NEW f \in Files \ q.missed
                 PROVE  /\ q.kind # "definition" /\ 0 \notin q.window[f] => q.known[f] # 0
                        /\ /\ q.kind = "definition" /\ q.window[f] \subseteq Defining
                           /\ \A p \in past[f] : p[1] = q.seen[f] => p[2] \in Defining
                           => q.got[f] # 0
    BY RequestIs DEF WholeUnlessTruncated
  <2>2. RequestOK(q)
    BY <2>1, RequestIs
  <2>3. Covers(q) /\ ReadsMatch(q) /\ q.todo = {} /\ q.left = {}
    BY <2>1, <2>2 DEF RequestOK, Answering, Walks, Fitting, Walking
  <2>4. ListingCovers(q, f) /\ ReadsCover(q, f) /\ (q.from # "index" => q.known = q.got)
    BY <2>1, <2>3 DEF Covers
  <2>5. ASSUME 0 \notin q.window[f]
        PROVE  IF q.from = "index" THEN q.known[f] # 0 ELSE q.got[f] # 0
    BY <2>1, <2>3, <2>4, <2>5 DEF ListingCovers, ReadsCover
  <2>6. ASSUME q.kind = "definition", q.window[f] \subseteq Defining,
               \A p \in past[f] : p[1] = q.seen[f] => p[2] \in Defining
        PROVE  q.got[f] # 0
    <3>1. 0 \notin q.window[f]
      BY <2>6, ConstantsAre
    <3>2. CASE q.from = "index"
      <4>1. q.known[f] # 0
        BY <2>5, <3>1, <3>2
      <4>2. CASE <<q.seen[f], q.known[f]>> \in past[f]
        <5>1. <<q.seen[f], q.known[f]>>[1] = q.seen[f] /\ <<q.seen[f], q.known[f]>>[2] = q.known[f]
          OBVIOUS
        <5>2. q.known[f] \in Defining
          BY <2>6, <4>2, <5>1
        <5>3. QED
          BY <2>1, <2>3, <2>4, <2>6, <3>2, <5>2 DEF ReadsCover
      <4>3. CASE q.known[f] \in q.window[f]
        BY <2>1, <2>3, <2>4, <2>6, <3>2, <4>3 DEF ReadsCover
      <4>4. QED
        BY <2>1, <2>3, <4>1, <4>2, <4>3 DEF ReadsMatch
    <3>3. CASE q.from # "index"
      BY <2>5, <3>1, <3>3
    <3>4. QED
      BY <3>2, <3>3
  <2>7. QED
    BY <2>4, <2>5, <2>6
<1>4. QED
  BY <1>2, <1>3

(* Whatever edits, failures and other requests fall between its awaits, a    *)
(* request answers of a file a text that it had during the request, or with  *)
(* the stamp that the request listed; an answer that does not call itself    *)
(* truncated leaves no file out that was there throughout and could be read; *)
(* and after a refresh of the paths no older list is answered.  For any      *)
(* files, directories, requests, limits and times of expiry.                 *)
THEOREM NavigationSafe ==
  NavigationSpec =>
    [](/\ NavigationTypeOK /\ AnswersMatchTheFiles
       /\ WholeUnlessTruncated /\ RefreshIsSeen)
<1>1. NavigationInv =>
        NavigationTypeOK /\ AnswersMatchTheFiles /\ WholeUnlessTruncated /\ RefreshIsSeen
  BY NavigationAnswers DEF NavigationInv
<1>2. QED
  BY <1>1, NavigationStarts, NavigationSteps, PTL DEF NavigationSpec
=============================================================================
