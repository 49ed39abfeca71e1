------------------------ MODULE MemoryRotationProofs ------------------------
(***************************************************************************)
(* Proofs about MemoryRotation for any entries, day length, window, limits    *)
(* and bounds: its types, that an entry whose append returned is never lost, *)
(* that it is summarized once but for failures, and that a final day stays   *)
(* final.                                                                  *)
(***************************************************************************)
EXTENDS MemoryRotation, FiniteSetTheorems, WellFoundedInduction, TLAPS

-----------------------------------------------------------------------------
(* The inductive invariant.                                                  *)

InDaily(e) == \E d \in Days : daily[d] # None /\ daily[d].sums[e] > 0

\* entry e is in the current file c, which is not empty
HeldIn(c, e) ==
  c # None /\ c.entries > 0 /\ audit[c.file] # None /\ e \in audit[c.file].entries

\* with c as the current file no entry whose append returned is lost
Kept(c) == \A e \in Entries : fate[e] = "done" => InDaily(e) \/ HeldIn(c, e)

\* no file is younger than the moment it was started for
Dated(c) ==
  c # None => /\ c.start <= clock /\ c.file <= files
              /\ audit[c.file] # None => c.start <= audit[c.file].mtime

\* a final day that is open is the day of the file that waits to be summarized
OpenWaits(s) ==
  \A d \in s.finalized :
    /\ daily[d] # None
    /\ daily[d].open => /\ s.current # None /\ s.current.entries > 0
                        /\ Day(s.current.start) = d /\ audit[s.current.file] # None

Sound(s) == Kept(s.current) /\ Dated(s.current) /\ OpenWaits(s)

\* nothing depends on a current file
Settled ==
  /\ \A e \in Entries : fate[e] = "done" => InDaily(e)
  /\ \A d \in op.mem.finalized : ~daily[d].open

\* the operation left the current file as it is, which is too young to expire
Unrotated ==
  /\ op.mem.current # None /\ state.current # None
  /\ op.mem.current.file = state.current.file /\ op.mem.current.start = state.current.start
  /\ op.now < state.current.start + Window

\* the operation is to append its entry
ToAppend == op.kind = "append" /\ op.pc \in {"rotate", "start", "append"}

\* what an operation knows and has done, by how far it is
OpInv ==
  Running =>
    /\ op.now <= clock /\ Sound(op.mem)
    /\ op.kind = "append" <=> op.entry \in Entries
    /\ op.kind = "append" => fate[op.entry] = "called"
    /\ op.pc \in {"rotate", "note"} => op.mem = state
    /\ At("start") => op.mem.current = None /\ Settled
    /\ At("append") => op.mem.current # None /\ op.kind = "append"
    /\ op.pc \in {"append", "finalize", "replace", "save"} => Settled \/ Unrotated
    /\ op.kind = "append" /\ op.pc \in {"finalize", "replace", "save"} =>
         /\ HeldIn(op.mem.current, op.entry)
         /\ op.now <= audit[op.mem.current.file].mtime
    /\ At("replace") =>
         daily[op.day] # None /\ ~daily[op.day].open /\ op.read \in LongTerm

\* no file and no summary has the entry e yet
Nowhere(e) ==
  /\ SummariesOf(e) = {}
  /\ \A f \in Files : audit[f] # None => e \notin audit[f].entries

InUse == IF Running THEN op.mem.current ELSE state.current

\* how often entries are summarized: those of the current file once less
CountInv ==
  /\ \A e \in Entries : IsFiniteSet(SummariesOf(e)) /\ Summaries(e) <= 1 + faults
  /\ \A e \in Entries :
       fate[e] = "new" \/ (Running /\ ToAppend /\ op.entry = e) => Nowhere(e)
  /\ InUse # None /\ audit[InUse.file] # None =>
       \A e \in audit[InUse.file].entries : Summaries(e) <= faults

Inv == TypeOK /\ Sound(state) /\ OpInv /\ CountInv

-----------------------------------------------------------------------------
(* Days.                                                                     *)

(* A moment is in its day, which is one of the days.                         *)
LEMMA DayTyped ==
  ASSUME NEW t \in Nat
  PROVE  Day(t) \in Nat /\ (t <= MaxTime => Day(t) \in Days)
<1>1. DayLen \in Nat \ {0} /\ MaxTime \in Nat
  BY MemoryAssumption
<1>2. Day(t) \in Nat
  BY <1>1 DEF Day
<1>3. ASSUME t <= MaxTime PROVE Day(t) <= Day(MaxTime)
  BY <1>1, <1>3 DEF Day
<1>4. QED
  BY <1>1, <1>2, <1>3 DEF Day, Days

(* A moment of no later day is less than a day later.                        *)
LEMMA DayLater ==
  ASSUME NEW a \in Nat, NEW b \in Nat, Day(b) <= Day(a)
  PROVE  b < a + DayLen
  BY MemoryAssumption DEF Day

\* the order of the natural numbers, which is well-founded
LessNat == {ss \in Nat \X Nat : ss[1] < ss[2]}

(* The earliest of some days is one of them.                                 *)
LEMMA FirstDay ==
  ASSUME NEW D \in SUBSET Nat, D # {}
  PROVE  First(D) \in D
<1>1. IsWellFoundedOn(LessNat, Nat)
  BY NatLessThanWellFounded DEF OpToRel, LessNat
<1>2. PICK d \in D : \A k \in D : <<k, d>> \notin LessNat
  BY <1>1, WFMin
<1>3. \A k \in D : d <= k
  <2> TAKE k \in D
  <2>1. <<k, d>>[1] = k /\ <<k, d>>[2] = d /\ <<k, d>> \in Nat \X Nat
    OBVIOUS
  <2>2. QED
    BY <1>2, <2>1 DEF LessNat
<1>4. QED
  BY <1>3 DEF First

-----------------------------------------------------------------------------
(* The files are as they were.                                               *)

(* What is known of a state file stays true.                                 *)
LEMMA SoundSame ==
  ASSUME NEW s, Sound(s), UNCHANGED <<audit, daily, files, fate, clock>>
  PROVE  Sound(s)'
  BY DEF Sound, Kept, InDaily, HeldIn, Dated, OpenWaits

(* So does what is known of the summaries.                                   *)
LEMMA SummariesSame ==
  ASSUME UNCHANGED daily, NEW e
  PROVE  SummariesOf(e)' = SummariesOf(e) /\ Summaries(e)' = Summaries(e)
  BY DEF SummariesOf, Summaries

(* A count is a number.                                                      *)
LEMMA SummariesTyped ==
  ASSUME CountInv, NEW e \in Entries
  PROVE  Summaries(e) \in Nat
  BY FS_CardinalityType DEF CountInv, Summaries

(* Nothing was audited yet.                                                  *)
LEMMA InitInv == Init => Inv
<1> SUFFICES ASSUME Init PROVE Inv
  OBVIOUS
<1>1. TypeOK
  <2>1. Day(0) \in Days /\ MaxTime \in Nat /\ MaxFiles \in Nat /\ MaxFaults \in Nat
          /\ MaxSaves \in Nat
    BY MemoryAssumption, DayTyped
  <2>2. QED
    BY <2>1 DEF Init, TypeOK, State, LongTerm, Form
<1>2. ~Running
  BY DEF Init, Running
<1>3. Sound(state)
  BY DEF Init, Sound, Kept, Dated, OpenWaits
<1>4. \A e : SummariesOf(e) = {}
  BY DEF Init, SummariesOf
<1>5. CountInv
  <2>1. IsFiniteSet({}) /\ Cardinality({}) = 0
    BY FS_EmptySet
  <2>2. InUse = None
    BY <1>2 DEF Init, InUse
  <2>3. faults = 0
    BY DEF Init
  <2>4. \A f \in Files : audit[f] = None
    BY DEF Init
  <2>5. QED
    BY <1>4, <2>1, <2>2, <2>3, <2>4 DEF CountInv, Summaries, Nowhere
<1>6. QED
  BY <1>1, <1>2, <1>3, <1>5 DEF Inv, OpInv

(* Time goes on, but not under an operation.                                 *)
LEMMA TickInv ==
  ASSUME Inv, Tick
  PROVE  Inv'
<1>1. /\ TypeOK /\ ~Running /\ clock' = clock + 1 /\ clock' \in 0..MaxTime
      /\ UNCHANGED <<state, disk, op, form, faults, fate>>
  BY MemoryAssumption DEF Tick, Inv, TypeOK
<1>2. TypeOK'
  BY <1>1 DEF TypeOK, disk
<1>3. Sound(state)'
  <2>1. /\ clock \in Nat
        /\ state.current # None => state.current.start \in Nat
    BY <1>1 DEF TypeOK, State, Current
  <2>2. QED
    BY <1>1, <2>1 DEF Inv, Sound, Kept, InDaily, HeldIn, Dated, OpenWaits, disk
<1>4. ~Running' /\ InUse' = InUse
  BY <1>1 DEF Running, InUse
<1>5. CountInv'
  BY <1>1, <1>4, SummariesSame DEF Inv, CountInv, Nowhere, disk
<1>6. QED
  BY <1>2, <1>3, <1>4, <1>5 DEF Inv, OpInv

(* The user's save of MEMORY.md touches nothing else.                        *)
LEMMA FormInv ==
  ASSUME Inv, Truncate \/ WriteText \/ UNCHANGED vars
  PROVE  Inv'
<1>1. /\ UNCHANGED <<clock, state, audit, daily, op, files, faults, fate>>
      /\ longTerm' \in LongTerm /\ form' \in Form
  <2>1. TypeOK /\ MaxSaves \in Nat
    BY MemoryAssumption DEF Inv
  <2>2. CASE Truncate
    BY <2>1, <2>2 DEF Truncate, TypeOK, Form, LongTerm
  <2>3. CASE WriteText
    BY <2>1, <2>3 DEF WriteText, TypeOK, Form, LongTerm
  <2>4. CASE UNCHANGED vars
    BY <2>1, <2>4 DEF vars, disk, TypeOK
  <2>5. QED
    BY <2>2, <2>3, <2>4
<1>2. TypeOK'
  BY <1>1 DEF Inv, TypeOK, Running
<1>3. Sound(state)' /\ (Sound(op.mem) => Sound(op.mem)')
  BY <1>1, SoundSame DEF Inv
<1>4. OpInv'
  BY <1>1, <1>3 DEF Inv, OpInv, Running, At, Settled, Unrotated, InDaily, HeldIn
<1>5. CountInv'
  BY <1>1, SummariesSame DEF Inv, CountInv, Nowhere, InUse, Running, ToAppend
<1>6. QED
  BY <1>2, <1>3, <1>4, <1>5 DEF Inv

(* An operation starts from what the state file says.                        *)
LEMMA BeginInv ==
  ASSUME Inv, NEW kind \in Kinds, NEW e \in Entries \union {None}, NEW now \in 0..clock,
         kind = "append" <=> e \in Entries,
         Begin(kind, e, now)
  PROVE  Inv'
<1>1. /\ TypeOK /\ ~Running /\ None \notin Entries
      /\ UNCHANGED <<clock, state, audit, daily, longTerm, files, form, faults>>
  BY NoneAssumption DEF Begin, Inv, disk
<1> DEFINE pc == IF kind = "feedback" THEN "note" ELSE "rotate"
           o == [pc |-> pc, kind |-> kind, entry |-> e, now |-> now, mem |-> state,
                 day |-> 0, read |-> None]
<1>2. op' = o
  BY DEF Begin
<1>3. IF kind = "append" THEN fate[e] = "new" /\ fate' = [fate EXCEPT ![e] = "called"]
                         ELSE fate' = fate
  BY DEF Begin
<1>4. /\ fate' \in [Entries -> {"new", "called", "done"}]
      /\ \A k \in Entries : /\ fate'[k] = "done" => fate[k] = "done"
                            /\ fate'[k] = "new" => fate[k] = "new"
      /\ kind = "append" => fate'[e] = "called" /\ fate[e] = "new"
  BY <1>1, <1>3 DEF TypeOK
<1>5. o \in Operation
  <2>1. now \in 0..MaxTime /\ 0 \in Days
    <3>1. MaxTime \in Nat /\ clock \in 0..MaxTime
      BY <1>1, MemoryAssumption DEF TypeOK
    <3>2. Day(MaxTime) \in Nat
      BY <3>1, DayTyped
    <3>3. QED
      BY <3>1, <3>2 DEF Days
  <2>2. QED
    BY <1>1, <2>1 DEF Operation, TypeOK
<1>6. TypeOK'
  BY <1>1, <1>2, <1>4, <1>5 DEF TypeOK
<1>7. Sound(state)'
  BY <1>1, <1>4 DEF Inv, Sound, Kept, InDaily, HeldIn, Dated, OpenWaits
<1>8. OpInv'
  <2>1. now <= clock'
    BY <1>1 DEF TypeOK
  <2>2. /\ op'.pc \in {"note", "rotate"} /\ op'.kind = kind /\ op'.entry = e
        /\ op'.now = now /\ op'.mem = state'
    BY <1>1, <1>2
  <2>3. Sound(op.mem)'
    BY <1>7, <2>2 DEF Sound, Kept, InDaily, HeldIn, Dated, OpenWaits
  <2>4. QED
    BY <1>4, <2>1, <2>2, <2>3 DEF OpInv, At
<1>9. CountInv'
  <2>1. InUse' = InUse
    BY <1>1, <1>2 DEF InUse, Running, Idle
  <2>2. \A k \in Entries : ToAppend' /\ op'.entry = k => fate[k] = "new"
    BY <1>1, <1>2, <1>4 DEF ToAppend
  <2>3. QED
    BY <1>1, <1>4, <2>1, <2>2, SummariesSame DEF Inv, CountInv, Nowhere
<1>10. QED
  BY <1>6, <1>7, <1>8, <1>9 DEF Inv

(* An operation that fails leaves the state file behind what it wrote.       *)
LEMMA FailInv ==
  ASSUME Inv, Fail
  PROVE  Inv'
<1>1. /\ TypeOK /\ Running /\ faults' = faults + 1 /\ faults' \in 0..MaxFaults
      /\ op' = Idle /\ UNCHANGED <<clock, state, disk, form, fate>>
  BY MemoryAssumption DEF Fail, Inv, TypeOK
<1>2. TypeOK' /\ ~Running' /\ InUse' = state.current
  BY <1>1 DEF TypeOK, disk, Running, InUse
<1>3. Sound(state)'
  BY <1>1, SoundSame DEF Inv, disk
<1>4. CountInv'
  <2>1. \A e \in Entries : Summaries(e) \in Nat /\ Summaries(e) <= 1 + faults
    BY SummariesTyped DEF Inv, CountInv
  <2>2. state.current # None /\ audit[state.current.file] # None =>
          audit[state.current.file].entries \subseteq Entries
    BY <1>1 DEF TypeOK, State, Current, Audit
  <2>3. faults \in Nat
    BY <1>1 DEF TypeOK
  <2>4. QED
    BY <1>1, <1>2, <2>1, <2>2, <2>3, SummariesSame DEF Inv, CountInv, Nowhere, disk
<1>5. QED
  BY <1>2, <1>3, <1>4 DEF Inv, OpInv

-----------------------------------------------------------------------------
(* The audit file in use is rotated or not.                                  *)

(* A running operation is typed, and goes on to another step.                *)
LEMMA GoesOn ==
  ASSUME TypeOK, Running, NEW pc, NEW m \in State,
         pc \in {"rotate", "start", "append", "finalize", "replace", "save", "note"},
         op' = [op EXCEPT !.pc = pc, !.mem = m]
  PROVE  /\ op \in Operation /\ op' \in Operation /\ Running'
         /\ op'.pc = pc /\ op'.mem = m /\ op'.kind = op.kind /\ op'.entry = op.entry
         /\ op'.now = op.now /\ op'.day = op.day /\ op'.read = op.read
<1>1. op \in Operation
  BY DEF TypeOK, Running
<1>2. /\ op' \in Operation
      /\ op'.pc = pc /\ op'.mem = m /\ op'.kind = op.kind /\ op'.entry = op.entry
      /\ op'.now = op.now /\ op'.day = op.day /\ op'.read = op.read
  BY <1>1 DEF Operation
<1>3. op' # Idle
  BY <1>2 DEF Idle
<1>4. QED
  BY <1>1, <1>2, <1>3 DEF Running

(* An operation at a step runs.                                              *)
LEMMA AtRuns ==
  ASSUME TypeOK,
         op.pc \in {"rotate", "start", "append", "finalize", "replace", "save", "note"}
  PROVE  Running /\ op \in Operation /\ op.mem \in State
  BY DEF TypeOK, Running, Idle, Operation

(* What the summary of a file changes: its entries are in the day once more. *)
LEMMA SummarizeAdds ==
  ASSUME TypeOK, NEW d \in Days, NEW es \in SUBSET Entries, Summarize(d, es)
  PROVE  /\ daily' \in [Days -> Daily \union {None}]
         /\ \A k \in Days \ {d} : daily'[k] = daily[k]
         /\ daily'[d] # None /\ daily'[d].open
         /\ \A e \in Entries : InDaily(e) \/ e \in es => InDaily(e)'
         /\ \A e \in Entries \ es : SummariesOf(e)' = SummariesOf(e)
         /\ \A e \in es : \E x : x \notin SummariesOf(e)
                                 /\ SummariesOf(e)' = SummariesOf(e) \union {x}
<1> DEFINE n(e) == IF daily[d] = None THEN 0 ELSE daily[d].sums[e]
           new == [sums |-> [e \in Entries |-> n(e) + (IF e \in es THEN 1 ELSE 0)],
                   open |-> TRUE]
<1>1. \A e \in Entries : n(e) \in Nat
  BY DEF TypeOK, Daily
<1>2. new \in Daily /\ new # None
  <2> HIDE DEF n
  <2>1. \A e \in Entries : n(e) + (IF e \in es THEN 1 ELSE 0) \in Nat
    BY <1>1
  <2>2. [e \in Entries |-> n(e) + (IF e \in es THEN 1 ELSE 0)] \in [Entries -> Nat]
    BY <2>1
  <2>3. \A g \in [Entries -> Nat] : [sums |-> g, open |-> TRUE] \in Daily
    BY DEF Daily
  <2>4. new \in Daily
    BY <2>2, <2>3
  <2>5. QED
    BY <2>4, NoneAssumption
<1>3. daily' = [daily EXCEPT ![d] = new]
  BY DEF Summarize
<1>4. /\ daily' \in [Days -> Daily \union {None}] /\ daily'[d] = new
      /\ \A k \in Days \ {d} : daily'[k] = daily[k]
  BY <1>2, <1>3 DEF TypeOK
<1>5. daily'[d] # None /\ daily'[d].open
  BY <1>2, <1>4
<1>6. \A e \in Entries : daily'[d].sums[e] = n(e) + (IF e \in es THEN 1 ELSE 0)
  BY <1>4
<1> HIDE DEF new
<1>7. ASSUME NEW e \in Entries, InDaily(e) \/ e \in es
      PROVE  InDaily(e)'
  <2>1. CASE e \in es
    BY <1>1, <1>5, <1>6, <2>1 DEF InDaily
  <2>2. CASE InDaily(e)
    <3>1. PICK k \in Days : daily[k] # None /\ daily[k].sums[e] > 0
      BY <2>2 DEF InDaily
    <3>2. CASE k = d
      <4>1. n(e) > 0 /\ n(e) \in Nat
        BY <1>1, <3>1, <3>2
      <4>2. daily'[d].sums[e] > 0
        BY <1>6, <4>1
      <4>3. QED
        BY <1>5, <4>2 DEF InDaily
    <3>3. CASE k # d
      BY <1>4, <3>1, <3>3 DEF InDaily
    <3>4. QED
      BY <3>2, <3>3
  <2>3. QED
    BY <1>7, <2>1, <2>2
<1> DEFINE Of(e) == {{k} \X (1..daily[k].sums[e]) : k \in {j \in Days : daily[j] # None}}
<1>8. \A e \in Entries : \A x :
        x \in SummariesOf(e) <=>
          \E k \in Days : daily[k] # None /\ x \in {k} \X (1..daily[k].sums[e])
  BY DEF SummariesOf
<1>9. \A e \in Entries : \A x :
        x \in SummariesOf(e)' <=>
          \E k \in Days : daily'[k] # None /\ x \in {k} \X (1..daily'[k].sums[e])
  BY DEF SummariesOf
<1>10. \A e \in Entries : \A x :
        x \in SummariesOf(e) <=>
          \/ x \in {d} \X (1..n(e))
          \/ \E k \in Days \ {d} : daily[k] # None /\ x \in {k} \X (1..daily[k].sums[e])
  BY <1>8
<1>11. \A e \in Entries : \A x :
        x \in SummariesOf(e)' <=>
          \/ x \in {d} \X (1..n(e) + (IF e \in es THEN 1 ELSE 0))
          \/ \E k \in Days \ {d} : daily[k] # None /\ x \in {k} \X (1..daily[k].sums[e])
  BY <1>4, <1>5, <1>6, <1>9
<1> HIDE DEF n
<1>12. ASSUME NEW e \in Entries \ es PROVE SummariesOf(e)' = SummariesOf(e)
  <2>1. n(e) + 0 = n(e)
    BY <1>1
  <2>2. \A x : x \in SummariesOf(e)' <=> x \in SummariesOf(e)
    BY <1>10, <1>11, <2>1
  <2>3. QED
    BY <2>2
<1>13. ASSUME NEW e \in es
       PROVE  \E x : x \notin SummariesOf(e) /\ SummariesOf(e)' = SummariesOf(e) \union {x}
  <2> DEFINE x == <<d, n(e) + 1>>
  <2>1. n(e) \in Nat /\ e \in Entries
    BY <1>1
  <2>2. {d} \X (1..n(e) + 1) = ({d} \X (1..n(e))) \union {x}
    BY <2>1
  <2>3. x \notin {d} \X (1..n(e)) /\ \A k \in Days \ {d} : x \notin {k} \X (1..daily[k].sums[e])
    BY <2>1
  <2> HIDE DEF x
  <2>4. x \notin SummariesOf(e)
    BY <1>10, <2>1, <2>3
  <2>5. \A y : y \in SummariesOf(e)' <=> y \in SummariesOf(e) \union {x}
    BY <1>10, <1>11, <2>1, <2>2
  <2>6. SummariesOf(e)' = SummariesOf(e) \union {x}
    BY <2>5
  <2>7. QED
    BY <2>4, <2>6
<1>14. QED
  BY <1>4, <1>5, <1>7, <1>12, <1>13

(* The file in use has a day.                                                *)
LEMMA CurrentTyped ==
  ASSUME TypeOK, NEW s \in State, s.current # None
  PROVE  /\ s.current \in Current /\ s.current.file \in Files
         /\ s.current.start \in Nat /\ s.current.start <= MaxTime
         /\ s.current.entries \in Nat /\ Day(s.current.start) \in Days
<1>1. /\ s.current \in Current /\ s.current.file \in Files
      /\ s.current.start \in Nat /\ s.current.start <= MaxTime
      /\ s.current.entries \in Nat
  BY MemoryAssumption DEF State, Current
<1>2. QED
  BY <1>1, DayTyped

(* A rotation puts every entry that waits into a summary, whose day is open, *)
(* or its file is gone and none waits.                                       *)
LEMMA RotateInv ==
  ASSUME Inv, Rotate
  PROVE  Inv'
<1> DEFINE m == op.mem
           f == m.current.file
           d == Day(m.current.start)
<1>1. /\ TypeOK /\ At("rotate") /\ Running /\ op \in Operation /\ m \in State
      /\ m.current # None /\ m.current.entries > 0 /\ m = state
      /\ UNCHANGED <<clock, state, audit, longTerm, files, form, faults, fate>>
  BY AtRuns DEF Rotate, Inv, OpInv, Due, At
<1>2. f \in Files /\ d \in Days
  BY <1>1, CurrentTyped
<1>3. Sound(state) /\ CountInv
  BY DEF Inv
<1>4. PICK n \in State :
        /\ op' = [op EXCEPT !.pc = "start", !.mem = n]
        /\ n.current = None
        /\ audit[f] # None => n.finalized = m.finalized \ {d}
                              /\ Summarize(d, audit[f].entries)
        /\ audit[f] = None => n.finalized = m.finalized /\ UNCHANGED daily
  <2>1. CASE audit[f] # None
    <3> DEFINE n == [current |-> None, summarized |-> m.summarized \union {f},
                     finalized |-> m.finalized \ {d}]
    <3>1. n \in State
      BY <1>1, <1>2 DEF State
    <3>2. op' = [op EXCEPT !.pc = "start", !.mem = n] /\ Summarize(d, audit[f].entries)
      BY <2>1 DEF Rotate, GoWith
    <3>3. QED
      BY <2>1, <3>1, <3>2
  <2>2. CASE audit[f] = None
    <3> DEFINE n == [m EXCEPT !.current = None]
    <3>1. n \in State /\ n.finalized = m.finalized /\ n.current = None
      BY <1>1 DEF State
    <3>2. op' = [op EXCEPT !.pc = "start", !.mem = n] /\ UNCHANGED daily
      BY <2>2 DEF Rotate, GoWith
    <3>3. QED
      BY <2>2, <3>1, <3>2
  <2>3. QED
    BY <2>1, <2>2
<1>5. /\ op' \in Operation /\ Running' /\ op'.pc = "start" /\ op'.mem = n
      /\ op'.kind = op.kind /\ op'.entry = op.entry /\ op'.now = op.now
  BY <1>1, <1>4, GoesOn
<1>6. audit[f] # None => audit[f].entries \in SUBSET Entries
  BY <1>1, <1>2 DEF TypeOK, Audit
<1>7. /\ daily' \in [Days -> Daily \union {None}]
      /\ \A k \in Days : daily[k] # None => daily'[k] # None
      /\ \A k \in Days : daily'[k] # None /\ daily'[k].open =>
           (daily[k] # None /\ daily[k].open) \/ (k = d /\ audit[f] # None)
      /\ \A e \in Entries : InDaily(e) => InDaily(e)'
      /\ audit[f] # None => \A e \in audit[f].entries : InDaily(e)'
  <2>1. CASE audit[f] # None
    BY <1>2, <1>4, <1>1, <1>6, <2>1, SummarizeAdds
  <2>2. CASE audit[f] = None
    BY <1>1, <1>4, <2>2 DEF TypeOK, InDaily
  <2>3. QED
    BY <2>1, <2>2
<1>8. state.finalized \subseteq Days /\ n.finalized \subseteq state.finalized
  BY <1>1, <1>4 DEF State
<1> HIDE DEF m, f, d
<1>9. TypeOK'
  BY <1>1, <1>5, <1>7 DEF TypeOK
<1>10. Sound(state)'
  <2>1. Kept(state.current)'
    BY <1>1, <1>3, <1>7 DEF Sound, Kept, HeldIn
  <2>2. Dated(state.current)'
    BY <1>1, <1>3 DEF Sound, Dated
  <2>3. OpenWaits(state)'
    BY <1>1, <1>3, <1>7, <1>8 DEF Sound, OpenWaits, m, f, d
  <2>4. QED
    BY <2>1, <2>2, <2>3 DEF Sound
<1>11. \A e \in Entries : fate'[e] = "done" => InDaily(e)'
  BY <1>1, <1>3, <1>7 DEF Sound, Kept, HeldIn, m, f
<1>12. \A k \in n.finalized : daily'[k] # None /\ ~daily'[k].open
  <2> SUFFICES ASSUME NEW k \in n.finalized PROVE daily'[k] # None /\ ~daily'[k].open
    OBVIOUS
  <2>1. k \in state.finalized /\ k \in Days
    BY <1>8
  <2>2. daily'[k] # None
    BY <1>3, <1>7, <2>1 DEF Sound, OpenWaits
  <2>3. daily[k] # None /\ daily[k].open => k = d /\ audit[f] # None
    BY <1>1, <1>3, <2>1 DEF Sound, OpenWaits, m, f, d
  <2>4. audit[f] # None => k # d
    BY <1>4 DEF m, f, d
  <2>5. QED
    BY <1>7, <2>1, <2>2, <2>3, <2>4
<1>13. OpInv'
  <2>1. Sound(op.mem)'
    BY <1>4, <1>5, <1>11, <1>12 DEF Sound, Kept, Dated, OpenWaits
  <2>2. Settled'
    BY <1>5, <1>11, <1>12 DEF Settled
  <2>3. op.now <= clock /\ (op.kind = "append" <=> op.entry \in Entries)
          /\ (op.kind = "append" => fate[op.entry] = "called")
    BY <1>1 DEF Inv, OpInv
  <2>4. QED
    BY <1>1, <1>4, <1>5, <2>1, <2>2, <2>3 DEF OpInv, At
<1>14. CountInv'
  <2>1. InUse' = None /\ InUse = m.current
    BY <1>1, <1>4, <1>5 DEF InUse, m
  <2>2. \A e \in Entries : fate'[e] = "new" \/ (ToAppend' /\ op'.entry = e) => Nowhere(e)
    BY <1>1, <1>3, <1>5 DEF CountInv, ToAppend, At
  <2>3. audit[f] # None => \A e \in audit[f].entries : Summaries(e) <= faults /\ ~Nowhere(e)
    BY <1>1, <1>2, <1>3, <2>1 DEF CountInv, Nowhere, f
  <2>4. faults \in Nat
    BY <1>1 DEF TypeOK
  <2>5. CASE audit[f] # None
    <3>1. ASSUME NEW e \in Entries
          PROVE  /\ IsFiniteSet(SummariesOf(e)') /\ Summaries(e)' <= 1 + faults
                 /\ Nowhere(e) => SummariesOf(e)' = {}
      <4>1. IsFiniteSet(SummariesOf(e)) /\ Summaries(e) <= 1 + faults
        BY <1>3 DEF CountInv
      <4>2. CASE e \notin audit[f].entries
        <5>1. SummariesOf(e)' = SummariesOf(e)
          BY <1>1, <1>2, <1>4, <1>6, <2>5, <4>2, SummarizeAdds
        <5>2. QED
          BY <4>1, <5>1 DEF Summaries, Nowhere
      <4>3. CASE e \in audit[f].entries
        <5>1. PICK x : x \notin SummariesOf(e) /\ SummariesOf(e)' = SummariesOf(e) \union {x}
          BY <1>1, <1>2, <1>4, <1>6, <2>5, <4>3, SummarizeAdds
        <5>2. /\ IsFiniteSet(SummariesOf(e)')
              /\ Cardinality(SummariesOf(e)') = Cardinality(SummariesOf(e)) + 1
          BY <4>1, <5>1, FS_AddElement
        <5>3. Cardinality(SummariesOf(e)) \in Nat
          BY <4>1, FS_CardinalityType
        <5>4. QED
          BY <2>3, <2>4, <2>5, <4>3, <5>2, <5>3 DEF Summaries
      <4>4. QED
        BY <4>2, <4>3
    <3>2. QED
      BY <1>1, <2>1, <2>2, <3>1 DEF CountInv, Nowhere
  <2>6. CASE audit[f] = None
    <3>1. UNCHANGED daily
      BY <1>4, <2>6 DEF f, m
    <3>2. QED
      BY <1>1, <1>3, <2>1, <2>2, <3>1, SummariesSame DEF CountInv, Nowhere
  <2>7. QED
    BY <2>5, <2>6
<1>15. QED
  BY <1>9, <1>10, <1>13, <1>14 DEF Inv

(* A step that only goes on.                                                 *)
LEMMA OnlyGoes ==
  ASSUME TypeOK, Running, NEW pc,
         pc \in {"rotate", "start", "append", "finalize", "replace", "save", "note"},
         Go(pc)
  PROVE  /\ op \in Operation /\ op' \in Operation /\ Running'
         /\ op'.pc = pc /\ op'.mem = op.mem /\ op'.kind = op.kind /\ op'.entry = op.entry
         /\ op'.now = op.now /\ op'.day = op.day /\ op'.read = op.read
<1>1. op \in Operation
  BY DEF TypeOK, Running
<1>2. /\ op' \in Operation
      /\ op'.pc = pc /\ op'.mem = op.mem /\ op'.kind = op.kind /\ op'.entry = op.entry
      /\ op'.now = op.now /\ op'.day = op.day /\ op'.read = op.read
  BY <1>1 DEF Go, Operation
<1>3. op' # Idle
  BY <1>2 DEF Idle
<1>4. QED
  BY <1>1, <1>2, <1>3 DEF Running

(* A file that is not rotated is empty, so that nothing waits, or younger    *)
(* than the window.                                                          *)
LEMMA NoRotationInv ==
  ASSUME Inv, NoRotation
  PROVE  Inv'
<1> DEFINE c == op.mem.current
           pc == IF op.kind = "append" /\ c = None THEN "start" ELSE AfterRotation(op)
<1>1. /\ TypeOK /\ At("rotate") /\ Running /\ op \in Operation /\ op.mem \in State
      /\ op.mem = state /\ ~Due(op) /\ Go(pc)
      /\ UNCHANGED <<clock, state, audit, daily, longTerm, files, form, faults, fate>>
  BY AtRuns DEF NoRotation, Inv, OpInv, At, disk
<1>2. pc \in {"start", "append", "finalize"}
  BY DEF AfterRotation
<1>3. /\ op' \in Operation /\ Running' /\ op'.pc = pc /\ op'.mem = op.mem
      /\ op'.kind = op.kind /\ op'.entry = op.entry /\ op'.now = op.now
  BY <1>1, <1>2, OnlyGoes
<1>4. TypeOK'
  BY <1>1, <1>3 DEF TypeOK
<1>5. Sound(state)' /\ Sound(op.mem)'
  BY <1>1, <1>3, SoundSame DEF Inv
<1>6. c # None => c.start \in Nat /\ c.entries \in Nat /\ op.now \in Nat /\ Window \in Nat \ {0}
  BY <1>1, CurrentTyped, MemoryAssumption DEF Operation
<1>7. CASE c = None \/ c.entries = 0
  <2>1. \A e : ~HeldIn(c, e)
    BY <1>7 DEF HeldIn
  <2>2. \A e \in Entries : fate[e] = "done" => InDaily(e)
    BY <1>1, <2>1 DEF Inv, Sound, Kept
  <2>3. \A d \in op.mem.finalized : ~daily[d].open
    BY <1>1, <1>7 DEF Inv, Sound, OpenWaits
  <2>4. Settled'
    BY <1>1, <1>3, <2>2, <2>3 DEF Settled, InDaily
  <2>5. pc = "start" => c = None
    BY DEF AfterRotation
  <2>6. pc = "append" => op.kind = "append" /\ c # None
    BY DEF AfterRotation
  <2>7. pc = "finalize" => op.kind # "append"
    BY DEF AfterRotation
  <2> HIDE DEF pc
  <2>8. OpInv'
    <3>1. /\ op.now <= clock /\ (op.kind = "append" <=> op.entry \in Entries)
          /\ (op.kind = "append" => fate[op.entry] = "called")
      BY <1>1 DEF Inv, OpInv
    <3>2. QED
      BY <1>1, <1>2, <1>3, <1>5, <2>4, <2>5, <2>6, <2>7, <3>1 DEF OpInv, At
  <2>9. CountInv'
    <3>1. InUse' = InUse
      BY <1>1, <1>3 DEF InUse
    <3>2. ToAppend' => ToAppend
      BY <1>1, <1>3 DEF ToAppend, At
    <3>3. QED
      BY <1>1, <1>3, <3>1, <3>2, SummariesSame DEF Inv, CountInv, Nowhere
  <2>10. QED
    BY <1>4, <1>5, <2>8, <2>9 DEF Inv
<1>8. CASE c # None /\ c.entries # 0
  <2>1. c.entries > 0 /\ op.now < c.start + Window
    BY <1>1, <1>6, <1>8 DEF Due, Age
  <2>2. Unrotated'
    BY <1>1, <1>3, <1>8, <2>1 DEF Unrotated
  <2>3. /\ pc = "append" => op.kind = "append"
        /\ pc = "finalize" => op.kind # "append"
        /\ pc # "start"
    BY <1>8 DEF AfterRotation
  <2> HIDE DEF pc
  <2>4. OpInv'
    <3>1. /\ op.now <= clock /\ (op.kind = "append" <=> op.entry \in Entries)
          /\ (op.kind = "append" => fate[op.entry] = "called")
      BY <1>1 DEF Inv, OpInv
    <3>2. QED
      BY <1>1, <1>2, <1>3, <1>5, <1>8, <2>2, <2>3, <3>1 DEF OpInv, At
  <2>5. CountInv'
    <3>1. InUse' = InUse
      BY <1>1, <1>3 DEF InUse
    <3>2. ToAppend' => ToAppend
      BY <1>1, <1>3 DEF ToAppend, At
    <3>3. QED
      BY <1>1, <1>3, <3>1, <3>2, SummariesSame DEF Inv, CountInv, Nowhere
  <2>6. QED
    BY <1>4, <1>5, <2>4, <2>5 DEF Inv
<1>9. QED
  BY <1>7, <1>8

(* A new file is empty; no state file knows of it yet.                       *)
LEMMA StartFileInv ==
  ASSUME Inv, StartFile
  PROVE  Inv'
<1> DEFINE n == files + 1
           c == [file |-> n, start |-> op.now, entries |-> 0]
           m == [op.mem EXCEPT !.current = c]
           new == [entries |-> {}, mtime |-> clock]
<1>1. /\ TypeOK /\ At("start") /\ Running /\ op \in Operation /\ op.mem \in State
      /\ files \in Nat /\ n \in Files /\ files' = n /\ audit' = [audit EXCEPT ![n] = new]
      /\ UNCHANGED <<clock, state, daily, longTerm, form, faults, fate>>
  BY AtRuns, MemoryAssumption DEF StartFile, Inv, TypeOK, At, Files
<1>2. /\ c \in Current /\ c # None /\ new \in Audit /\ m \in State
      /\ m.finalized = op.mem.finalized /\ m.current = c
      /\ op.now \in Nat /\ op.now <= clock /\ clock \in Nat
  <2>1. op.now \in 0..MaxTime /\ clock \in 0..MaxTime /\ op.now <= clock
    BY <1>1 DEF Operation, TypeOK, Inv, OpInv
  <2>2. c \in Current
    BY <1>1, <2>1 DEF Current
  <2>3. new \in Audit
    BY <2>1 DEF Audit
  <2>4. c # None /\ op.now \in Nat /\ clock \in Nat
    BY <2>1, <2>2, MemoryAssumption, NoneAssumption
  <2>5. m \in State /\ m.finalized = op.mem.finalized /\ m.current = c
    <3> HIDE DEF c
    <3>1. QED
      BY <1>1, <2>2 DEF State
  <2>6. QED
    BY <2>1, <2>2, <2>3, <2>4, <2>5
<1>3. op' = [op EXCEPT !.pc = AfterRotation(op), !.mem = m]
  BY DEF StartFile, GoWith
<1>4. /\ op' \in Operation /\ Running' /\ op'.pc = AfterRotation(op) /\ op'.mem = m
      /\ op'.kind = op.kind /\ op'.entry = op.entry /\ op'.now = op.now
  <2> HIDE DEF m
  <2>1. AfterRotation(op) \in {"append", "finalize"} /\ m \in State /\ TypeOK /\ Running
    BY <1>1, <1>2 DEF AfterRotation
  <2>2. QED
    BY <1>3, <2>1, GoesOn
<1>5. /\ audit' \in [Files -> Audit \union {None}] /\ audit'[n] = new
      /\ \A f \in Files \ {n} : audit'[f] = audit[f]
  BY <1>1, <1>2 DEF TypeOK
<1>6. op.mem.current = None /\ Settled
  BY <1>1 DEF Inv, OpInv
<1>7. c.file = n /\ c.start = op.now /\ c.entries = 0 /\ new.entries = {} /\ new.mtime = clock
  OBVIOUS
<1> HIDE DEF c, m, new
<1>8. TypeOK'
  <2>1. files' \in 0..MaxFiles
    BY <1>1, MemoryAssumption DEF Files
  <2>2. QED
    BY <1>1, <1>4, <1>5, <2>1 DEF TypeOK
<1>9. state.current # None => state.current.file \in Files \ {n} /\ state.current.file <= files'
  <2> SUFFICES ASSUME state.current # None
               PROVE  state.current.file \in Files \ {n} /\ state.current.file <= files'
    OBVIOUS
  <2>1. state.current.file \in Files /\ state.current.file <= files
    BY <1>1, CurrentTyped DEF Inv, Sound, Dated, TypeOK
  <2>2. QED
    BY <1>1, <2>1 DEF Files
<1>10. Sound(state)'
  BY <1>1, <1>5, <1>9 DEF Inv, Sound, Kept, InDaily, HeldIn, Dated, OpenWaits
<1>11. Settled'
  BY <1>1, <1>2, <1>4, <1>6 DEF Settled, InDaily
<1>12. Sound(op.mem)'
  <2>1. Kept(op.mem.current)'
    BY <1>11 DEF Kept, Settled
  <2>2. Dated(op.mem.current)'
    BY <1>1, <1>2, <1>4, <1>5, <1>7 DEF Dated
  <2>3. OpenWaits(op.mem)'
    BY <1>1, <1>2, <1>4, <1>6 DEF Inv, OpInv, Sound, OpenWaits, Settled
  <2>4. QED
    BY <2>1, <2>2, <2>3 DEF Sound
<1>13. OpInv'
  <2>1. /\ op.now <= clock /\ (op.kind = "append" <=> op.entry \in Entries)
        /\ (op.kind = "append" => fate[op.entry] = "called")
    BY <1>1 DEF Inv, OpInv
  <2>2. QED
    BY <1>1, <1>2, <1>4, <1>11, <1>12, <2>1 DEF OpInv, At, AfterRotation
<1>14. CountInv'
  <2>1. InUse' = c
    BY <1>2, <1>4 DEF InUse
  <2>2. ToAppend' => ToAppend
    BY <1>1, <1>4 DEF ToAppend, At
  <2>3. \A e : Nowhere(e) => Nowhere(e)'
    BY <1>1, <1>5, <1>7, SummariesSame DEF Nowhere
  <2>4. QED
    BY <1>1, <1>4, <1>5, <1>7, <2>1, <2>2, <2>3, SummariesSame DEF Inv, CountInv
<1>15. QED
  BY <1>8, <1>10, <1>13, <1>14 DEF Inv

(* An entry goes to the file in use, which is as young as the moment then.   *)
LEMMA AppendInv ==
  ASSUME Inv, Append
  PROVE  Inv'
<1> DEFINE c == op.mem.current
           f == c.file
           es == IF audit[f] = None THEN {} ELSE audit[f].entries
           new == [entries |-> es \union {op.entry}, mtime |-> clock]
           nc == [c EXCEPT !.entries = c.entries + 1]
           m == [op.mem EXCEPT !.current = nc]
<1>1. /\ TypeOK /\ At("append") /\ Running /\ op \in Operation /\ op.mem \in State
      /\ c # None /\ op.kind = "append" /\ op.entry \in Entries
      /\ fate[op.entry] = "called" /\ op.now <= clock
      /\ audit' = [audit EXCEPT ![f] = new] /\ faults \in Nat
      /\ UNCHANGED <<clock, state, daily, longTerm, files, form, faults, fate>>
  BY AtRuns DEF Append, Inv, OpInv, TypeOK, At
<1>2. /\ c \in Current /\ f \in Files /\ c.entries \in Nat /\ c.start \in Nat
  BY <1>1, CurrentTyped
<1>3. audit[f] # None => audit[f].entries \subseteq Entries
  BY <1>1, <1>2 DEF TypeOK, Audit
<1>4. new \in Audit /\ new # None
  <2>1. es \union {op.entry} \in SUBSET Entries
    BY <1>1, <1>3
  <2>2. clock \in 0..MaxTime
    BY <1>1 DEF TypeOK
  <2> HIDE DEF es
  <2>3. QED
    BY <2>1, <2>2, NoneAssumption DEF Audit
<1>5. /\ nc \in Current /\ nc # None /\ nc.file = f /\ nc.start = c.start
      /\ nc.entries = c.entries + 1 /\ nc.entries > 0
  BY <1>2, NoneAssumption DEF Current
<1>6. m \in State /\ m.finalized = op.mem.finalized /\ m.current = nc
  <2> HIDE DEF nc
  <2>1. QED
    BY <1>1, <1>5 DEF State
<1>7. op' = [op EXCEPT !.pc = "finalize", !.mem = m]
  <2>1. m = [op.mem EXCEPT !.current.entries = @ + 1]
    BY <1>1, <1>2 DEF State, Current
  <2> HIDE DEF m
  <2>2. QED
    BY <2>1 DEF Append, GoWith
<1>8. /\ op' \in Operation /\ Running' /\ op'.pc = "finalize" /\ op'.mem = m
      /\ op'.kind = op.kind /\ op'.entry = op.entry /\ op'.now = op.now
  <2> HIDE DEF m
  <2>1. QED
    BY <1>1, <1>6, <1>7, GoesOn
<1>9. /\ audit' \in [Files -> Audit \union {None}] /\ audit'[f] = new
      /\ \A g \in Files \ {f} : audit'[g] = audit[g]
  <2> HIDE DEF new
  <2>1. QED
    BY <1>1, <1>2, <1>4 DEF TypeOK
<1>10. /\ new.entries = es \union {op.entry} /\ new.mtime = clock
       /\ audit[f] # None => audit[f].entries \subseteq new.entries
       /\ \A e \in new.entries :
            e = op.entry \/ (audit[f] # None /\ e \in audit[f].entries)
  OBVIOUS
<1> HIDE DEF c, f, es, new, nc, m
<1>11. TypeOK'
  BY <1>1, <1>8, <1>9 DEF TypeOK
<1>12. state.current # None => state.current.file \in Files
  BY <1>1, CurrentTyped DEF TypeOK
<1>13. \A g \in Files : audit[g] # None =>
         audit'[g] # None /\ audit[g].entries \subseteq audit'[g].entries
  BY <1>4, <1>9, <1>10
<1>14. \A e : InDaily(e)' <=> InDaily(e)
  BY <1>1 DEF InDaily
<1>15. Sound(state)'
  <2>1. Kept(state.current)'
    BY <1>1, <1>12, <1>13, <1>14 DEF Inv, Sound, Kept, HeldIn
  <2>2. Dated(state.current)'
    BY <1>1, <1>9, <1>10, <1>12 DEF Inv, Sound, Dated
  <2>3. OpenWaits(state)'
    BY <1>1, <1>12, <1>13 DEF Inv, Sound, OpenWaits
  <2>4. QED
    BY <2>1, <2>2, <2>3 DEF Sound
<1>16. Sound(op.mem) /\ (Settled \/ Unrotated)
  BY <1>1 DEF Inv, OpInv, At
<1>17. /\ op'.mem.current # None /\ op'.mem.current.file = f
       /\ op'.mem.current.start = c.start /\ op'.mem.current.entries > 0
  BY <1>5, <1>6, <1>8
<1>18. Sound(op.mem)'
  <2>1. \A e : HeldIn(op.mem.current, e) => HeldIn(op.mem.current, e)'
    BY <1>2, <1>13, <1>17 DEF HeldIn, c, f
  <2>2. Kept(op.mem.current)'
    BY <1>1, <1>14, <1>16, <2>1 DEF Sound, Kept
  <2>3. Dated(op.mem.current)'
    <3>1. c.start <= clock /\ f <= files
      BY <1>1, <1>16 DEF Sound, Dated, c, f
    <3>2. QED
      BY <1>1, <1>9, <1>10, <1>17, <3>1 DEF Dated
  <2>4. OpenWaits(op.mem)'
    <3>1. op'.mem.finalized = op.mem.finalized
      BY <1>6, <1>8
    <3>2. QED
      BY <1>1, <1>4, <1>9, <1>16, <1>17, <3>1 DEF Sound, OpenWaits, c
  <2>5. QED
    BY <2>2, <2>3, <2>4 DEF Sound
<1>19. Settled' \/ Unrotated'
  <2>1. Settled => Settled'
    BY <1>1, <1>6, <1>8, <1>14 DEF Settled
  <2>2. Unrotated => Unrotated'
    BY <1>1, <1>5, <1>6, <1>8 DEF Unrotated, c, f
  <2>3. QED
    BY <1>16, <2>1, <2>2
<1>20. OpInv'
  <2>1. HeldIn(op.mem.current, op.entry)' /\ (op.now <= audit[op.mem.current.file].mtime)'
    BY <1>1, <1>4, <1>5, <1>6, <1>8, <1>9, <1>10 DEF HeldIn
  <2>2. QED
    BY <1>1, <1>8, <1>18, <1>19, <2>1 DEF OpInv, At
<1>21. CountInv'
  <2>1. InUse = c /\ InUse' = nc
    BY <1>1, <1>6, <1>8 DEF InUse, c
  <2>2. Nowhere(op.entry) /\ Summaries(op.entry) = 0
    <3>1. Nowhere(op.entry)
      BY <1>1 DEF Inv, CountInv, ToAppend, At
    <3>2. QED
      BY <3>1, FS_EmptySet DEF Nowhere, Summaries
  <2>3. \A e \in new.entries : Summaries(e) <= faults
    BY <1>1, <1>2, <1>10, <2>1, <2>2 DEF Inv, CountInv, f
  <2>4. ~ToAppend'
    BY <1>8 DEF ToAppend
  <2>5. \A e \in Entries : e # op.entry /\ Nowhere(e) => Nowhere(e)'
    BY <1>1, <1>2, <1>9, <1>10, SummariesSame DEF Nowhere
  <2>6. \A e \in Entries : fate[e] = "new" => Nowhere(e) /\ e # op.entry
    BY <1>1 DEF Inv, CountInv
  <2>7. \A e \in Entries : IsFiniteSet(SummariesOf(e)) /\ Summaries(e) <= 1 + faults
    BY DEF Inv, CountInv
  <2>8. QED
    BY <1>1, <1>5, <1>9, <2>1, <2>3, <2>4, <2>5, <2>6, <2>7, SummariesSame DEF CountInv
<1>22. QED
  BY <1>11, <1>15, <1>20, <1>21 DEF Inv

-----------------------------------------------------------------------------
(* Days become final, files expire, and the state file is saved.             *)

(* A final version leaves every summary, and closes its day.                 *)
LEMMA FinalizeDayInv ==
  ASSUME Inv, FinalizeDay
  PROVE  Inv'
<1> DEFINE d == First(DueDays(op))
           o == [op EXCEPT !.pc = "replace", !.day = d, !.read = longTerm]
<1>1. /\ TypeOK /\ At("finalize") /\ Running /\ op \in Operation
      /\ daily' = [daily EXCEPT ![d].open = FALSE] /\ op' = o
      /\ UNCHANGED <<clock, state, audit, longTerm, files, form, faults, fate>>
  BY AtRuns DEF FinalizeDay, Inv, At
<1>2. d \in Days /\ daily[d] # None /\ daily[d] \in Daily
  <2>1. DueDays(op) \in SUBSET Nat /\ DueDays(op) # {}
    BY DEF FinalizeDay, DueDays, Days
  <2>2. d \in DueDays(op)
    BY <2>1, FirstDay
  <2>3. QED
    BY <1>1, <2>2 DEF DueDays, TypeOK
<1> HIDE DEF d
<1>3. /\ daily' \in [Days -> Daily \union {None}]
      /\ daily'[d] # None /\ ~daily'[d].open /\ daily'[d].sums = daily[d].sums
      /\ \A k \in Days \ {d} : daily'[k] = daily[k]
  <2> DEFINE new == [daily[d] EXCEPT !.open = FALSE]
  <2>1. new \in Daily /\ ~new.open /\ new.sums = daily[d].sums
    BY <1>2 DEF Daily
  <2>2. daily' = [daily EXCEPT ![d] = new]
    BY <1>1
  <2> HIDE DEF new
  <2>3. QED
    BY <1>1, <1>2, <2>1, <2>2, NoneAssumption DEF TypeOK
<1>4. \A k \in Days :
        /\ daily'[k] # None <=> daily[k] # None
        /\ daily[k] # None => daily'[k].sums = daily[k].sums
        /\ daily'[k].open => daily[k].open
  BY <1>2, <1>3
<1>5. /\ o \in Operation /\ o # Idle /\ o.pc = "replace" /\ o.mem = op.mem /\ o.day = d
      /\ o.kind = op.kind /\ o.entry = op.entry /\ o.now = op.now /\ o.read = longTerm
  <2>1. longTerm \in LongTerm
    BY <1>1 DEF TypeOK
  <2>2. QED
    BY <1>1, <1>2, <2>1 DEF Operation, Idle
<1>6. TypeOK' /\ Running'
  BY <1>1, <1>3, <1>5 DEF TypeOK, Running
<1> HIDE DEF o
<1>7. (\A e : InDaily(e) => InDaily(e)') /\ \A e : SummariesOf(e)' = SummariesOf(e)
  BY <1>4 DEF InDaily, SummariesOf
<1>8. /\ op'.mem = op.mem /\ op'.kind = op.kind /\ op'.entry = op.entry
      /\ op'.now = op.now /\ op'.pc = "replace" /\ op'.day = d /\ op'.read \in LongTerm
  BY <1>1, <1>5 DEF TypeOK
<1>9. \A s \in State : Kept(s.current) => Kept(s.current)'
  BY <1>1, <1>7 DEF Kept, HeldIn
<1>10. ASSUME NEW s \in State, Sound(s) PROVE Sound(s)'
  <2>1. s.finalized \subseteq Days
    BY DEF State
  <2>2. OpenWaits(s)'
    BY <1>1, <1>4, <1>10, <2>1 DEF Sound, OpenWaits
  <2>3. Dated(s.current)'
    BY <1>1, <1>10 DEF Sound, Dated
  <2>4. QED
    BY <1>9, <1>10, <2>2, <2>3 DEF Sound
<1>11. Sound(state)'
  <2>1. state \in State /\ state' = state
    BY <1>1 DEF TypeOK
  <2>2. QED
    BY <1>10, <2>1 DEF Inv, Sound, Kept, HeldIn, InDaily, Dated, OpenWaits
<1>12. OpInv'
  <2>1. op.mem \in State /\ Sound(op.mem) /\ (Settled \/ Unrotated)
    BY <1>1 DEF Inv, OpInv, At, Operation
  <2>2. Sound(op.mem)'
    BY <1>8, <1>10, <2>1 DEF Sound, Kept, HeldIn, InDaily, Dated, OpenWaits
  <2>3. Settled => Settled'
    <3>1. op.mem.finalized \subseteq Days
      BY <2>1 DEF State
    <3>2. QED
      BY <1>1, <1>4, <1>7, <1>8, <3>1 DEF Settled
  <2>4. Unrotated => Unrotated'
    BY <1>1, <1>8 DEF Unrotated
  <2>5. op.kind = "append" =>
          HeldIn(op.mem.current, op.entry)' /\ (op.now <= audit[op.mem.current.file].mtime)'
    BY <1>1, <1>8 DEF Inv, OpInv, At, HeldIn
  <2>6. /\ op.now <= clock /\ (op.kind = "append" <=> op.entry \in Entries)
        /\ (op.kind = "append" => fate[op.entry] = "called")
    BY <1>1 DEF Inv, OpInv
  <2>7. QED
    BY <1>1, <1>3, <1>8, <2>1, <2>2, <2>3, <2>4, <2>5, <2>6 DEF OpInv, At
<1>13. CountInv'
  <2>1. InUse' = InUse /\ ~ToAppend'
    BY <1>1, <1>6, <1>8 DEF InUse, ToAppend
  <2>2. \A e : Summaries(e)' = Summaries(e)
    BY <1>7 DEF Summaries
  <2>3. QED
    BY <1>1, <1>7, <2>1, <2>2 DEF Inv, CountInv, Nowhere
<1>14. QED
  BY <1>6, <1>11, <1>12, <1>13 DEF Inv

(* The day whose final version was written is closed.                        *)
LEMMA ReplaceLongTermInv ==
  ASSUME Inv, ReplaceLongTerm
  PROVE  Inv'
<1> DEFINE m == [op.mem EXCEPT !.finalized = @ \union {op.day}]
           o == [op EXCEPT !.pc = "finalize", !.day = 0, !.read = None, !.mem = m]
<1>1. /\ TypeOK /\ At("replace") /\ Running /\ op \in Operation /\ op.mem \in State
      /\ op.day \in Days /\ op.read \in LongTerm
      /\ daily[op.day] # None /\ ~daily[op.day].open
      /\ longTerm' = [op.read EXCEPT !.days = @ \union {op.day}]
      /\ UNCHANGED <<clock, state, audit, daily, files, faults, fate>>
  BY AtRuns DEF ReplaceLongTerm, Inv, OpInv, At, Operation
<1>2. m \in State /\ m.current = op.mem.current
      /\ m.finalized = op.mem.finalized \union {op.day}
  BY <1>1 DEF State
<1>3. op' = o
  BY <1>1 DEF ReplaceLongTerm, Operation
<1> HIDE DEF m
<1>4. /\ o \in Operation /\ o # Idle /\ o.pc = "finalize" /\ o.mem = m
      /\ o.kind = op.kind /\ o.entry = op.entry /\ o.now = op.now
  <2>1. 0 \in Days
    <3>1. MaxTime \in Nat
      BY MemoryAssumption
    <3>2. Day(MaxTime) \in Nat
      BY <3>1, DayTyped
    <3>3. QED
      BY <3>2 DEF Days
  <2>2. QED
    BY <1>1, <1>2, <2>1 DEF Operation, Idle
<1> HIDE DEF o
<1>5. TypeOK' /\ Running'
  <2>1. longTerm' \in LongTerm
    BY <1>1 DEF LongTerm
  <2>2. form' \in Form
    BY <1>1 DEF ReplaceLongTerm, TypeOK, Form
  <2>3. QED
    BY <1>1, <1>3, <1>4, <2>1, <2>2 DEF TypeOK, Running
<1>6. /\ op'.mem = m /\ op'.kind = op.kind /\ op'.entry = op.entry
      /\ op'.now = op.now /\ op'.pc = "finalize"
  BY <1>3, <1>4
<1>7. Sound(state)' /\ Sound(op.mem) /\ (Settled \/ Unrotated)
  BY <1>1, SoundSame DEF Inv, OpInv, At
<1>8. Sound(op.mem)'
  <2>1. Kept(op.mem.current)' /\ Dated(op.mem.current)'
    BY <1>1, <1>2, <1>6, <1>7 DEF Sound, Kept, HeldIn, InDaily, Dated
  <2>2. OpenWaits(op.mem)'
    BY <1>1, <1>2, <1>6, <1>7 DEF Sound, OpenWaits
  <2>3. QED
    BY <2>1, <2>2 DEF Sound
<1>9. OpInv'
  <2>1. Settled => Settled'
    BY <1>1, <1>2, <1>6 DEF Settled, InDaily
  <2>2. Unrotated => Unrotated'
    BY <1>1, <1>2, <1>6 DEF Unrotated
  <2>3. op.kind = "append" =>
          HeldIn(op.mem.current, op.entry)' /\ (op.now <= audit[op.mem.current.file].mtime)'
    BY <1>1, <1>2, <1>6 DEF Inv, OpInv, At, HeldIn
  <2>4. /\ op.now <= clock /\ (op.kind = "append" <=> op.entry \in Entries)
        /\ (op.kind = "append" => fate[op.entry] = "called")
    BY <1>1 DEF Inv, OpInv
  <2>5. QED
    BY <1>1, <1>6, <1>7, <1>8, <2>1, <2>2, <2>3, <2>4 DEF OpInv, At
<1>10. CountInv'
  <2>1. InUse' = InUse /\ ~ToAppend'
    BY <1>1, <1>2, <1>5, <1>6 DEF InUse, ToAppend
  <2>2. QED
    BY <1>1, <2>1, SummariesSame DEF Inv, CountInv, Nowhere
<1>11. QED
  BY <1>5, <1>7, <1>9, <1>10 DEF Inv

(* No file expires that holds what is yet to be summarized: it is younger    *)
(* than a window, or of a day that is not over.                              *)
LEMMA CleanupInv ==
  ASSUME Inv, Cleanup
  PROVE  Inv'
<1>1. /\ TypeOK /\ At("finalize") /\ Running /\ op \in Operation /\ op.mem \in State
      /\ op' = [op EXCEPT !.pc = "save"] /\ DueDays(op) = {}
      /\ audit' = [f \in Files |-> IF audit[f] # None /\ audit[f].mtime + Ttl < op.now
                                   THEN None ELSE audit[f]]
      /\ UNCHANGED <<clock, state, daily, longTerm, files, form, faults, fate>>
  BY AtRuns DEF Cleanup, Inv, At, Go
<1>2. /\ op' \in Operation /\ Running' /\ op'.pc = "save" /\ op'.mem = op.mem
      /\ op'.kind = op.kind /\ op'.entry = op.entry /\ op'.now = op.now
  BY <1>1 DEF Operation, Running, Idle
<1>3. /\ audit' \in [Files -> Audit \union {None}]
      /\ \A f \in Files : audit'[f] \in {audit[f], None}
      /\ \A f \in Files : audit'[f] # audit[f] => audit[f].mtime + Ttl < op.now
  BY <1>1 DEF TypeOK
<1>4. TypeOK'
  BY <1>1, <1>2, <1>3 DEF TypeOK
<1>5. Sound(state) /\ Sound(op.mem) /\ (Settled \/ Unrotated)
  BY <1>1 DEF Inv, OpInv, At
<1>6. /\ DayLen \in Nat \ {0} /\ Window \in Nat /\ Ttl \in Nat
      /\ Window < Ttl /\ DayLen <= Ttl /\ op.now \in Nat
  BY <1>1, MemoryAssumption DEF Operation
<1>7. \A e : InDaily(e) <=> InDaily(e)'
  BY <1>1 DEF InDaily
<1>8. \A e : SummariesOf(e)' = SummariesOf(e) /\ Summaries(e)' = Summaries(e)
  BY <1>1, SummariesSame
\* a file that was started less than its time to live ago stays
<1>9. ASSUME NEW s \in State, Sound(s), s.current # None,
             op.now < s.current.start + Ttl
      PROVE  audit'[s.current.file] = audit[s.current.file]
  <2>1. s.current.file \in Files /\ s.current.start \in Nat
    BY <1>1, <1>9, CurrentTyped
  <2>2. audit[s.current.file] # None =>
          audit[s.current.file].mtime \in Nat /\ s.current.start <= audit[s.current.file].mtime
    BY <1>1, <1>9, <2>1 DEF TypeOK, Audit, Sound, Dated
  <2>3. QED
    BY <1>3, <1>6, <1>9, <2>1, <2>2
<1>10. ASSUME NEW s \in State, Sound(s),
              Settled \/ (s.current # None /\ op.now < s.current.start + Window)
       PROVE  Kept(s.current)'
  <2>1. CASE Settled
    BY <1>1, <1>7, <2>1 DEF Settled, Kept
  <2>2. CASE s.current # None /\ op.now < s.current.start + Window
    <3>1. audit'[s.current.file] = audit[s.current.file]
      BY <1>1, <1>6, <1>9, <1>10, <2>2, CurrentTyped
    <3>2. QED
      BY <1>1, <1>7, <1>10, <3>1 DEF Sound, Kept, HeldIn
  <2>3. QED
    BY <1>10, <2>1, <2>2
<1>11. ASSUME NEW s \in State, Sound(s) PROVE Dated(s.current)'
  <2>1. s.current # None => s.current.file \in Files
    BY <1>1, CurrentTyped
  <2>2. QED
    BY <1>1, <1>3, <1>11, <2>1 DEF Sound, Dated
<1>12. ASSUME NEW s \in State, Sound(s),
              \/ Settled
              \/ s.current # None /\ op.now < s.current.start + Window
       PROVE  OpenWaits(s)'
  <2> SUFFICES ASSUME NEW d \in s.finalized, daily[d].open
               PROVE  audit'[s.current.file] # None
    BY <1>1, <1>12 DEF Sound, OpenWaits
  <2>1. /\ d \in Days /\ daily[d] # None /\ s.current # None
        /\ Day(s.current.start) = d /\ audit[s.current.file] # None
    BY <1>12 DEF Sound, OpenWaits, State
  <2>2. s.current.start \in Nat
    BY <1>1, <2>1, CurrentTyped
  <2>3. op.now < s.current.start + Ttl
    <3>1. CASE Settled
      <4>1. d \notin op.mem.finalized
        BY <3>1 DEF Settled
      <4>2. ~(d < Day(op.now))
        BY <1>1, <2>1, <4>1 DEF DueDays
      <4>3. Day(op.now) <= Day(s.current.start)
        <5>1. Day(op.now) \in Nat /\ Day(s.current.start) \in Nat
          BY <1>6, <2>2, DayTyped
        <5>2. QED
          BY <2>1, <4>2, <5>1
      <4>4. op.now < s.current.start + DayLen
        BY <1>6, <2>2, <4>3, DayLater
      <4>5. QED
        BY <1>6, <2>2, <4>4
    <3>2. CASE op.now < s.current.start + Window
      BY <1>6, <2>2, <3>2
    <3>3. QED
      BY <1>12, <3>1, <3>2
  <2>4. QED
    BY <1>9, <1>12, <2>1, <2>3
<1>13. /\ state \in State /\ state' = state
       /\ Settled \/ (state.current # None /\ op.now < state.current.start + Window)
       /\ Settled \/ (op.mem.current # None /\ op.now < op.mem.current.start + Window)
  BY <1>1, <1>5 DEF Unrotated, TypeOK
<1>14. Kept(state.current)' /\ Dated(state.current)' /\ OpenWaits(state)'
  BY <1>5, <1>10, <1>11, <1>12, <1>13
       DEF Kept, HeldIn, InDaily, Dated, OpenWaits
<1>15. Kept(op.mem.current)' /\ Dated(op.mem.current)' /\ OpenWaits(op.mem)'
  BY <1>1, <1>2, <1>5, <1>10, <1>11, <1>12, <1>13
       DEF Kept, HeldIn, InDaily, Dated, OpenWaits
<1>16. OpInv'
  <2>1. Settled => Settled'
    BY <1>1, <1>2, <1>7 DEF Settled
  <2>2. Unrotated => Unrotated'
    BY <1>1, <1>2 DEF Unrotated
  <2>3. ASSUME op.kind = "append"
        PROVE  /\ HeldIn(op.mem.current, op.entry)'
               /\ (op.now <= audit[op.mem.current.file].mtime)'
    <3>1. /\ HeldIn(op.mem.current, op.entry)
          /\ op.now <= audit[op.mem.current.file].mtime
      BY <1>1, <2>3 DEF Inv, OpInv, At
    <3>2. op.mem.current.file \in Files
      BY <1>1, <3>1, CurrentTyped DEF HeldIn
    <3>3. audit[op.mem.current.file].mtime \in Nat
      BY <1>1, <3>1, <3>2 DEF TypeOK, Audit, HeldIn
    <3>4. audit'[op.mem.current.file] = audit[op.mem.current.file]
      BY <1>3, <1>6, <3>1, <3>2, <3>3
    <3>5. QED
      BY <1>2, <3>1, <3>4 DEF HeldIn
  <2>4. /\ op.now <= clock /\ (op.kind = "append" <=> op.entry \in Entries)
        /\ (op.kind = "append" => fate[op.entry] = "called")
    BY <1>1 DEF Inv, OpInv
  <2>5. QED
    BY <1>1, <1>2, <1>5, <1>15, <2>1, <2>2, <2>3, <2>4 DEF OpInv, At, Sound
<1>17. CountInv'
  <2>1. InUse' = InUse /\ ~ToAppend'
    BY <1>1, <1>2 DEF InUse, ToAppend
  <2>2. InUse # None => InUse.file \in Files
    BY <1>1, CurrentTyped DEF InUse
  <2>3. \A e : Nowhere(e) => Nowhere(e)'
    BY <1>3, <1>8 DEF Nowhere
  <2>4. QED
    BY <1>1, <1>3, <1>8, <2>1, <2>2, <2>3 DEF Inv, CountInv
<1>18. QED
  BY <1>4, <1>14, <1>16, <1>17 DEF Inv, Sound

(* The state file says what the operation knows, and its entry is kept.      *)
LEMMA SaveInv ==
  ASSUME Inv, Save
  PROVE  Inv'
<1>1. /\ TypeOK /\ At("save") /\ Running /\ op \in Operation /\ op.mem \in State
      /\ state' = op.mem /\ op' = Idle
      /\ fate' = [e \in Entries |-> IF e = op.entry THEN "done" ELSE fate[e]]
      /\ UNCHANGED <<clock, audit, daily, longTerm, files, form, faults>>
  BY AtRuns DEF Save, Inv, At, disk
<1>2. TypeOK' /\ ~Running'
  BY <1>1 DEF TypeOK, Running
<1>3. Sound(op.mem) /\ (op.entry \in Entries => HeldIn(op.mem.current, op.entry))
  BY <1>1 DEF Inv, OpInv, At
<1>4. Sound(state)'
  <2>1. Kept(state.current)'
    BY <1>1, <1>3 DEF Sound, Kept, HeldIn, InDaily
  <2>2. Dated(state.current)' /\ OpenWaits(state)'
    BY <1>1, <1>3 DEF Sound, Dated, OpenWaits
  <2>3. QED
    BY <2>1, <2>2 DEF Sound
<1>5. CountInv'
  <2>1. InUse' = InUse /\ \A e \in Entries : fate'[e] = "new" => fate[e] = "new"
    BY <1>1, <1>2 DEF InUse
  <2>2. QED
    BY <1>1, <1>2, <2>1, SummariesSame DEF Inv, CountInv, Nowhere
<1>6. QED
  BY <1>2, <1>4, <1>5 DEF Inv, OpInv

(* A note summarizes nothing.                                                *)
LEMMA FeedbackInv ==
  ASSUME Inv, Feedback
  PROVE  Inv'
<1> DEFINE d == Day(op.now)
           none == [sums |-> NoSums, open |-> FALSE]
<1>1. /\ TypeOK /\ Running /\ op \in Operation /\ op' = Idle /\ op.mem = state
      /\ daily' = [daily EXCEPT ![d] = IF @ = None THEN none ELSE @]
      /\ UNCHANGED <<clock, state, audit, longTerm, files, form, faults, fate>>
  BY AtRuns DEF Feedback, Inv, OpInv, At
<1>2. d \in Days
  BY <1>1, MemoryAssumption, DayTyped DEF Operation
<1>3. none \in Daily /\ none # None /\ ~none.open /\ \A e \in Entries : none.sums[e] = 0
  <2>1. NoSums \in [Entries -> Nat] /\ \A e \in Entries : NoSums[e] = 0
    BY DEF NoSums
  <2>2. none.sums = NoSums /\ none \in Daily
    BY <2>1 DEF Daily
  <2>3. QED
    BY <2>1, <2>2, NoneAssumption
<1> HIDE DEF d, none
<1>4. /\ daily' \in [Days -> Daily \union {None}]
      /\ \A k \in Days : daily[k] # None => daily'[k] = daily[k]
      /\ \A k \in Days : daily[k] = None => daily'[k] \in {None, none}
  BY <1>1, <1>2, <1>3 DEF TypeOK
<1>5. TypeOK' /\ ~Running'
  BY <1>1, <1>4 DEF TypeOK, Running
<1>6. \A e : InDaily(e) => InDaily(e)'
  BY <1>4 DEF InDaily
<1>7. ASSUME NEW e \in Entries
      PROVE  SummariesOf(e)' = SummariesOf(e) /\ Summaries(e)' = Summaries(e)
  <2>1. \A x : x \in SummariesOf(e) <=>
          \E k \in Days : daily[k] # None /\ x \in {k} \X (1..daily[k].sums[e])
    BY DEF SummariesOf
  <2>2. \A x : x \in SummariesOf(e)' <=>
          \E k \in Days : daily'[k] # None /\ x \in {k} \X (1..daily'[k].sums[e])
    BY DEF SummariesOf
  <2>3. \A k, x : x \notin {k} \X (1..none.sums[e])
    BY <1>3
  <2>4. \A x : x \in SummariesOf(e)' <=> x \in SummariesOf(e)
    BY <1>4, <2>1, <2>2, <2>3
  <2>5. SummariesOf(e)' = SummariesOf(e)
    BY <2>4
  <2>6. QED
    BY <2>5 DEF Summaries
<1>8. Sound(state)'
  <2>1. state.finalized \subseteq Days
    BY <1>1 DEF TypeOK, State
  <2>2. Kept(state.current)'
    BY <1>1, <1>6 DEF Inv, Sound, Kept, HeldIn
  <2>3. Dated(state.current)' /\ OpenWaits(state)'
    BY <1>1, <1>4, <2>1 DEF Inv, Sound, Dated, OpenWaits
  <2>4. QED
    BY <2>2, <2>3 DEF Sound
<1>9. CountInv'
  <2>1. InUse' = InUse
    BY <1>1, <1>5 DEF InUse
  <2>2. \A e \in Entries : Nowhere(e) => Nowhere(e)'
    BY <1>1, <1>7 DEF Nowhere
  <2>3. InUse # None /\ audit[InUse.file] # None =>
          audit[InUse.file].entries \subseteq Entries
    BY <1>1, CurrentTyped DEF InUse, TypeOK, Audit
  <2>4. QED
    BY <1>1, <1>5, <1>7, <2>1, <2>2, <2>3 DEF Inv, CountInv
<1>10. QED
  BY <1>5, <1>8, <1>9 DEF Inv, OpInv

-----------------------------------------------------------------------------
(* Every step keeps the invariant.                                           *)
LEMMA StepInv == Inv /\ [Next]_vars => Inv'
<1> SUFFICES ASSUME Inv, [Next]_vars PROVE Inv'
  OBVIOUS
<1>1. CASE \E now \in 0..clock : \E e \in Entries : Begin("append", e, now)
  <2>1. PICK now \in 0..clock, e \in Entries : Begin("append", e, now)
    BY <1>1
  <2>2. "append" \in Kinds
    BY DEF Kinds
  <2>3. QED
    BY <2>1, <2>2, BeginInv
<1>2. CASE \E now \in 0..clock : \E kind \in Kinds \ {"append"} : Begin(kind, None, now)
  <2>1. PICK now \in 0..clock, kind \in Kinds \ {"append"} : Begin(kind, None, now)
    BY <1>2
  <2>2. QED
    BY <2>1, BeginInv, NoneAssumption
<1>3. QED
  BY <1>1, <1>2, TickInv, FormInv, FailInv, RotateInv, NoRotationInv, StartFileInv,
     AppendInv, FinalizeDayInv, ReplaceLongTermInv, CleanupInv, SaveInv, FeedbackInv
  DEF Next, Finished

(* What the invariant says of entries and days.                              *)
LEMMA InvKeeps == Inv => TypeOK /\ AuditedIsKept /\ SummarizedOnce /\ FinalIsFinal
<1> SUFFICES ASSUME Inv PROVE TypeOK /\ AuditedIsKept /\ SummarizedOnce /\ FinalIsFinal
  OBVIOUS
<1>1. Kept(state.current) => AuditedIsKept
  BY DEF Kept, InDaily, HeldIn, AuditedIsKept, Pending
<1>2. OpenWaits(state) => FinalIsFinal
  BY DEF OpenWaits, FinalIsFinal, Pending
<1>3. CountInv => SummarizedOnce
  BY DEF CountInv, SummarizedOnce
<1>4. QED
  BY <1>1, <1>2, <1>3 DEF Inv, Sound

(* No audited entry is lost, whatever write an operation fails before: it is *)
(* in a daily file or in the file the next rotation summarizes; it is        *)
(* summarized once but for failures; what a final day is missing is waiting. *)
THEOREM AuditIsKept == Spec => [](TypeOK /\ AuditedIsKept /\ SummarizedOnce /\ FinalIsFinal)
<1>1. Spec => []Inv
  BY InitInv, StepInv, PTL DEF Spec
<1>2. QED
  BY <1>1, InvKeeps, PTL
=============================================================================
