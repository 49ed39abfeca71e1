--------------------------- MODULE MemoryRotation ---------------------------
(***************************************************************************)
(* The files of the memory domain (openfocus/domains/memory/service.py):    *)
(* audit entries are appended to a current audit file, which is rotated by   *)
(* age or size and then summarized into the daily file of its day; a daily   *)
(* file of an earlier day is finalized, and its stable facts go to MEMORY.md.*)
(*                                                                         *)
(* Every operation takes the time, waits for the one lock, loads the state   *)
(* file, writes file after file and saves the state file last.  It can fail  *)
(* between any two writes: by an exception, which try_audit_memory swallows, *)
(* or with the process.  The user's form writes MEMORY.md without the lock.  *)
(*                                                                         *)
(* A file holds the set of its entries; a daily file counts how often it     *)
(* summarizes each.  Left out: texts, headers, file names, the listing, the   *)
(* preferences that feedback appends to MEMORY.md.                           *)
(***************************************************************************)
EXTENDS Naturals, FiniteSets

CONSTANTS
  Entries,     \* the audit entries
  None,
  DayLen,      \* the length of a day
  Window,      \* audit_window_seconds
  MaxEntries,  \* audit_max_entries
  Ttl,         \* audit_ttl_days
  MaxWait,     \* bound: how long an operation waits for the lock
  MaxTime,     \* bound: the last moment
  MaxFiles,    \* bound: audit files
  MaxFaults,   \* bound: operations that fail
  MaxSaves     \* bound: the user's saves of MEMORY.md

\* The configured values satisfy this unless the window is set to a day or more.
ASSUME MemoryAssumption ==
  /\ {DayLen, Window, MaxEntries, Ttl} \subseteq Nat \ {0}
  /\ {MaxWait, MaxTime, MaxFiles, MaxFaults, MaxSaves} \subseteq Nat
  /\ Window < Ttl /\ DayLen <= Ttl

VARIABLES
  clock,
  state,     \* .memory_state.json
  audit,     \* [Files -> the audit file, or None]
  daily,     \* [Days -> the daily file, or None]
  longTerm,  \* MEMORY.md
  op,        \* the operation that holds the lock
  form,      \* the user's save of MEMORY.md
  files,     \* audit files started
  faults,    \* operations failed
  fate       \* [Entries -> "new", "called", or "done" once its append has returned]

disk == <<audit, daily, longTerm, files>>
vars == <<clock, state, disk, op, form, faults, fate>>

Files == 1..MaxFiles
Day(t) == t \div DayLen
Days == 0..Day(MaxTime)
Kinds == {"append", "maintain", "force", "feedback"}

Current == [file : Files, start : 0..MaxTime, entries : Nat]
State == [current : Current \union {None}, summarized : SUBSET Files,
          finalized : SUBSET Days]
Audit == [entries : SUBSET Entries, mtime : 0..MaxTime]
\* open: something was summarized after the file was finalized last
Daily == [sums : [Entries -> Nat], open : BOOLEAN]
\* the days with facts, and the user's save whose text it is
LongTerm == [days : SUBSET Days, text : 0..MaxSaves]

Idle == [pc |-> "idle"]
Operation == [pc : {"rotate", "start", "append", "finalize", "replace", "save", "note"},
              kind : Kinds, entry : Entries \union {None}, now : 0..MaxTime,
              mem : State, day : Days, read : LongTerm \union {None}]
Form == [pc : {"idle", "writing"}, n : 0..MaxSaves, safe : BOOLEAN]

ASSUME NoneAssumption ==
  None \notin Entries /\ None \notin Current /\ None \notin Audit /\ None \notin Daily

NoSums == [e \in Entries |-> 0]

Init ==
  /\ clock = 0
  /\ state = [current |-> None, summarized |-> {}, finalized |-> {}]
  /\ audit = [f \in Files |-> None]
  /\ daily = [d \in Days |-> None]
  /\ longTerm = [days |-> {}, text |-> 0]
  /\ op = Idle
  /\ form = [pc |-> "idle", n |-> 0, safe |-> TRUE]
  /\ files = 0
  /\ faults = 0
  /\ fate = [e \in Entries |-> "new"]

-----------------------------------------------------------------------------
(* The operation that holds the lock.                                        *)

Running == op # Idle
At(pc) == op.pc = pc
Go(next) == op' = [op EXCEPT !.pc = next]
GoWith(next, m) == op' = [op EXCEPT !.pc = next, !.mem = m]

(* How long an operation takes is part of how long ago its time was taken.   *)
Tick ==
  /\ ~Running /\ clock < MaxTime
  /\ clock' = clock + 1
  /\ UNCHANGED <<state, disk, op, form, faults, fate>>

(* An operation took the time before it waited for the lock; with the lock   *)
(* it loads the state file.                                                  *)
Begin(kind, e, now) ==
  /\ ~Running
  /\ clock <= now + MaxWait
  /\ op' = [pc |-> IF kind = "feedback" THEN "note" ELSE "rotate", kind |-> kind,
            entry |-> e, now |-> now, mem |-> state, day |-> 0, read |-> None]
  /\ IF kind = "append"
     THEN fate[e] = "new" /\ fate' = [fate EXCEPT ![e] = "called"]
     ELSE UNCHANGED fate
  /\ UNCHANGED <<clock, state, disk, form, faults>>

(* An exception, or the end of the process.                                  *)
Fail ==
  /\ Running /\ faults < MaxFaults
  /\ faults' = faults + 1
  /\ op' = Idle
  /\ UNCHANGED <<clock, state, disk, form, fate>>

-----------------------------------------------------------------------------
(* rotate_current_audit_unlocked                                             *)

Age(o) == IF o.now > o.mem.current.start THEN o.now - o.mem.current.start ELSE 0

\* whether the current file is to be rotated
Due(o) ==
  /\ o.mem.current # None
  /\ o.kind = "force" \/ o.mem.current.entries >= MaxEntries \/ Age(o) >= Window
  /\ o.mem.current.entries > 0

\* the daily file of day d after the entries es were summarized into it
Summarize(d, es) ==
  daily' = [daily EXCEPT ![d] =
    [sums |-> [e \in Entries |-> (IF daily[d] = None THEN 0 ELSE daily[d].sums[e])
                                 + (IF e \in es THEN 1 ELSE 0)],
     open |-> TRUE]]

AfterRotation(o) == IF o.kind = "append" THEN "append" ELSE "finalize"

\* the day stays final
Rotate_StaysFinal ==
  /\ At("rotate") /\ Due(op)
  /\ LET m == op.mem
         f == m.current.file
     IN IF audit[f] # None
        THEN /\ Summarize(Day(m.current.start), audit[f].entries)
             /\ GoWith("start", [m EXCEPT !.current = None,
                                             !.summarized = @ \union {f}])
        ELSE /\ GoWith("start", [m EXCEPT !.current = None])
             /\ UNCHANGED daily
  /\ UNCHANGED <<clock, state, audit, longTerm, files, form, faults, fate>>

(* The summary is appended to the daily file, whose day is no longer final.  *)
Rotate ==
  /\ At("rotate") /\ Due(op)
  /\ LET m == op.mem
         f == m.current.file
         d == Day(m.current.start)
     IN IF audit[f] # None
        THEN /\ Summarize(d, audit[f].entries)
             /\ GoWith("start", [current |-> None,
                                    summarized |-> m.summarized \union {f},
                                    finalized |-> m.finalized \ {d}])
        ELSE /\ GoWith("start", [m EXCEPT !.current = None])
             /\ UNCHANGED daily
  /\ UNCHANGED <<clock, state, audit, longTerm, files, form, faults, fate>>

NoRotation ==
  /\ At("rotate") /\ ~Due(op)
  /\ Go(IF op.kind = "append" /\ op.mem.current = None
           THEN "start" ELSE AfterRotation(op))
  /\ UNCHANGED <<clock, state, disk, form, faults, fate>>

(* start_audit_file_unlocked                                                 *)
StartFile ==
  /\ At("start") /\ files < MaxFiles
  /\ files' = files + 1
  /\ audit' = [audit EXCEPT ![files + 1] = [entries |-> {}, mtime |-> clock]]
  /\ GoWith(AfterRotation(op),
            [op.mem EXCEPT !.current = [file |-> files + 1, start |-> op.now,
                                           entries |-> 0]])
  /\ UNCHANGED <<clock, state, daily, longTerm, form, faults, fate>>

\* the entry is not counted
Append_NoCount ==
  /\ At("append")
  /\ LET f == op.mem.current.file
         es == IF audit[f] = None THEN {} ELSE audit[f].entries
     IN audit' = [audit EXCEPT ![f] = [entries |-> es \union {op.entry}, mtime |-> clock]]
  /\ Go("finalize")
  /\ UNCHANGED <<clock, state, daily, longTerm, files, form, faults, fate>>

(* append_audit_entry: a current file that was deleted comes back.           *)
Append ==
  /\ At("append")
  /\ LET f == op.mem.current.file
         es == IF audit[f] = None THEN {} ELSE audit[f].entries
     IN audit' = [audit EXCEPT ![f] = [entries |-> es \union {op.entry},
                                       mtime |-> clock]]
  /\ GoWith("finalize", [op.mem EXCEPT !.current.entries = @ + 1])
  /\ UNCHANGED <<clock, state, daily, longTerm, files, form, faults, fate>>

-----------------------------------------------------------------------------
(* finalize_due_days_unlocked                                                *)

DueDays(o) == {d \in Days : d < Day(o.now) /\ daily[d] # None /\ d \notin o.mem.finalized}
First(D) == CHOOSE d \in D : \A k \in D : d <= k

(* render_daily_final and its write; write_long_term_unlocked reads MEMORY.md *)
FinalizeDay ==
  /\ At("finalize") /\ DueDays(op) # {}
  /\ LET d == First(DueDays(op)) IN
     /\ daily' = [daily EXCEPT ![d].open = FALSE]
     /\ op' = [op EXCEPT !.pc = "replace", !.day = d, !.read = longTerm]
  /\ UNCHANGED <<clock, state, audit, longTerm, files, form, faults, fate>>

(* and replaces it by what it read and the facts of the day.             *)
ReplaceLongTerm ==
  /\ At("replace")
  /\ longTerm' = [op.read EXCEPT !.days = @ \union {op.day}]
  /\ form' = IF op.read = longTerm /\ form.pc = "idle" THEN form
             ELSE [form EXCEPT !.safe = FALSE]
  /\ op' = [op EXCEPT !.pc = "finalize", !.day = 0, !.read = None,
                     !.mem.finalized = @ \union {op.day}]
  /\ UNCHANGED <<clock, state, audit, daily, files, faults, fate>>

-----------------------------------------------------------------------------
(* cleanup_audit_files_unlocked                                              *)
Cleanup ==
  /\ At("finalize") /\ DueDays(op) = {}
  /\ audit' = [f \in Files |-> IF audit[f] # None /\ audit[f].mtime + Ttl < op.now
                               THEN None ELSE audit[f]]
  /\ Go("save")
  /\ UNCHANGED <<clock, state, daily, longTerm, files, form, faults, fate>>

\* a forced summary does not save the state
Save_NotForced ==
  /\ At("save")
  /\ state' = IF op.kind = "force" THEN state ELSE op.mem
  /\ fate' = [e \in Entries |-> IF e = op.entry THEN "done" ELSE fate[e]]
  /\ op' = Idle
  /\ UNCHANGED <<clock, disk, form, faults>>

(* save_state_unlocked, and the lock is released                             *)
Save ==
  /\ At("save")
  /\ state' = op.mem
  /\ fate' = [e \in Entries |-> IF e = op.entry THEN "done" ELSE fate[e]]
  /\ op' = Idle
  /\ UNCHANGED <<clock, disk, form, faults>>

(* persist_feedback_learning: the note goes to the daily file, and the state  *)
(* file is not touched.                                                      *)
Feedback ==
  /\ At("note")
  /\ LET d == Day(op.now) IN
     daily' = [daily EXCEPT ![d] = IF @ = None THEN [sums |-> NoSums, open |-> FALSE]
                                               ELSE @]
  /\ op' = Idle
  /\ UNCHANGED <<clock, state, audit, longTerm, files, form, faults, fate>>

-----------------------------------------------------------------------------
(* memory_save of the memory page, without the lock: the file is truncated,  *)
(* then the user's text is written.                                          *)
Truncate ==
  /\ form.pc = "idle" /\ form.n < MaxSaves
  /\ form' = [pc |-> "writing", n |-> form.n + 1, safe |-> TRUE]
  /\ longTerm' = [days |-> {}, text |-> 0]
  /\ UNCHANGED <<clock, state, audit, daily, op, files, faults, fate>>

\* over what was appended meanwhile; into nowhere if the file was replaced
WriteText ==
  /\ form.pc = "writing"
  /\ form' = [form EXCEPT !.pc = "idle"]
  /\ longTerm' = IF form.safe THEN [days |-> {}, text |-> form.n]
                 ELSE longTerm
  /\ UNCHANGED <<clock, state, audit, daily, op, files, faults, fate>>

\* nothing is going on and time has run out
Finished ==
  /\ clock = MaxTime \/ files = MaxFiles
  /\ form.pc = "idle"
  /\ UNCHANGED vars

-----------------------------------------------------------------------------
Next ==
  \/ Tick \/ Truncate \/ WriteText \/ Finished \/ Fail
  \/ \E now \in 0..clock :
       \/ \E e \in Entries : Begin("append", e, now)
       \/ \E kind \in Kinds \ {"append"} : Begin(kind, None, now)
  \/ Rotate \/ NoRotation \/ StartFile \/ Append \/ FinalizeDay \/ ReplaceLongTerm
  \/ Cleanup \/ Save \/ Feedback

Spec == Init /\ [][Next]_vars

-----------------------------------------------------------------------------
TypeOK ==
  /\ clock \in 0..MaxTime /\ files \in 0..MaxFiles /\ faults \in 0..MaxFaults
  /\ state \in State
  /\ audit \in [Files -> Audit \union {None}]
  /\ daily \in [Days -> Daily \union {None}]
  /\ longTerm \in LongTerm
  /\ fate \in [Entries -> {"new", "called", "done"}]
  /\ op \in Operation \union {Idle}
  /\ form \in Form

\* the summaries of entry e: the day, and which of the day's
SummariesOf(e) ==
  UNION {{d} \X (1..daily[d].sums[e]) : d \in {k \in Days : daily[k] # None}}
Summaries(e) == Cardinality(SummariesOf(e))

\* the current file of the state file holds something that is yet to be summarized
Pending == state.current # None /\ state.current.entries > 0

(* An entry whose append returned is never lost: it is in a summary, or in   *)
(* the file that the next rotation will summarize.  So it is whatever write  *)
(* an operation fails before, and retention deletes nothing unsummarized.    *)
AuditedIsKept ==
  \A e \in Entries : fate[e] = "done" =>
    \/ \E d \in Days : daily[d] # None /\ daily[d].sums[e] > 0
    \/ Pending /\ audit[state.current.file] # None
       /\ e \in audit[state.current.file].entries

(* An entry is in one summary, and in one more for each operation that       *)
(* failed between the summary and the state file.                            *)
SummarizedOnce == \A e \in Entries : Summaries(e) <= 1 + faults

(* A day that the state file calls final has nothing summarized behind its   *)
(* final version, unless that will be summarized and finalized once more.    *)
FinalIsFinal ==
  \A d \in state.finalized :
    daily[d].open => Pending /\ Day(state.current.start) = d
=============================================================================
