--------------------------- MODULE CodeNavigation ---------------------------
(***************************************************************************)
(* What OpenFocus remembers of the files of one AgentSpace, which a         *)
(* Companion holds and somebody edits meanwhile: the symbol index of        *)
(* domains/code_navigation/service.py, and the file path list of            *)
(* domains/companion/service.py.                                            *)
(*                                                                         *)
(* A request walks the directories and reads files, one awaited Companion   *)
(* command each; other requests and edits run during every await, and every *)
(* command may fail.  An index is kept under the fingerprint (path, size,   *)
(* modification time) of the listing it was built from.                     *)
(*                                                                         *)
(* A text is a number, and so is what a listing tells of a file (its size   *)
(* and time), 0 for no file.  Left out: patterns, parsing, previews, and    *)
(* the limits on paths, symbols and results, which set "truncated" as the   *)
(* limit on reads does.  There is one space, so the path list has one entry. *)
(***************************************************************************)
EXTENDS Naturals, FiniteSets

CONSTANTS
  Requests,    \* the requests, each once
  Kinds,       \* which run, of AllKinds
  Files, Dirs, Root,
  DirOf,       \* [Files -> Dirs]
  Defining,    \* the texts that define the symbol that is looked up
  MaxText,     \* bound: one more than how many edits there are
  MaxReads,    \* MAX_WORKSPACE_READ_FILES
  MaxIndexes,  \* SYMBOL_INDEX_MAX_CACHE_ENTRIES
  Ttl,         \* SYMBOL_INDEX_TTL_SECONDS, FILE_PATH_LIST_CACHE_TTL_SECONDS
  MaxClock,    \* bound: how long time runs
  Absent       \* no list, no request, no kind

\* symbols, also as a search; definition; references, also a search for text
\* or files; a search for all; list_space_file_paths without and with refresh
AllKinds == {"symbols", "definition", "references", "all", "paths", "refresh"}

ASSUME KindsAssumption ==
  Kinds \subseteq AllKinds /\ Absent \notin AllKinds \union {"index"}
ASSUME RequestsAssumption == {Absent, "index"} \intersect Requests = {}
ASSUME DefiningAssumption == Defining \subseteq 1..MaxText
ASSUME TreeAssumption == Root \in Dirs /\ DirOf \in [Files -> Dirs]
ASSUME LimitsAssumption ==
  /\ MaxReads \in Nat \ {0} /\ MaxIndexes \in Nat \ {0}
  /\ Ttl \in Nat /\ MaxClock \in Nat /\ MaxText \in Nat \ {0}

VARIABLES
  text,    \* [Files -> texts]: what is in the files
  stamp,   \* [Files -> stamps]: their sizes and modification times
  last,    \* the number of edits, plus one: the text that the last one wrote
  past,    \* history: the <<stamp, text>> pairs that files have had
  index,   \* _SYMBOL_INDEX_CACHE: the entries, each with its key
  list,    \* _FILE_PATH_LIST_CACHE: the entry of this space, or Absent
  req,     \* [Requests -> request]
  clock

navigationVars == <<text, stamp, last, past, index, list, req, clock>>
diskVars == <<text, stamp, last, past>>

Nothing == [f \in Files |-> 0]

(* todo, seen: the directories to list, and the listing so far; left, reads, *)
(* got: the files to read, the reads so far, the texts read; known: the      *)
(* symbols answered; missed: the files whose read failed; full: not          *)
(* truncated; from: the request whose walk is answered; window, before:      *)
(* history, the texts of the files and the requests that ended before.       *)
Idle == [pc |-> "idle", kind |-> Absent, todo |-> {}, seen |-> Nothing,
         left |-> {}, reads |-> 0, got |-> Nothing, known |-> Nothing,
         missed |-> {}, full |-> TRUE, from |-> Absent,
         window |-> [f \in Files |-> {}], before |-> {}]

Ended == {"done", "failed"}

NavigationInit ==
  /\ text \in [Files -> {0, 1}]
  /\ stamp = text /\ last = 1
  /\ past = [f \in Files |-> {<<text[f], text[f]>>}]
  /\ index = {} /\ list = Absent
  /\ req = [r \in Requests |-> Idle]
  /\ clock = 0
-----------------------------------------------------------------------------
(* The files and the time.                                                   *)
Walks(k) == k \in {"paths", "refresh"}

Put(f, t, s) ==
  /\ last < MaxText /\ last' = last + 1
  /\ text' = [text EXCEPT ![f] = t]
  /\ stamp' = [stamp EXCEPT ![f] = s]
  /\ past' = [past EXCEPT ![f] = @ \union {<<s, t>>}]
  /\ req' = [r \in Requests |->
               IF req[r].pc \in Ended \union {"idle"} \/ Walks(req[r].kind)
               THEN req[r] ELSE [req[r] EXCEPT !.window[f] = @ \union {t}]]
  /\ UNCHANGED <<index, list, clock>>

\* A file is written, or edited so that its size and time stay, or deleted.
Write(f) == Put(f, last + 1, last + 1)

EditKept(f) == stamp[f] # 0 /\ Put(f, last + 1, stamp[f])

Delete(f) == stamp[f] # 0 /\ Put(f, 0, 0)

Tick ==
  /\ clock < MaxClock /\ clock' = clock + 1
  /\ UNCHANGED <<diskVars, index, list, req>>
-----------------------------------------------------------------------------
(* The two caches.                                                           *)
IsFresh(e) == clock - e.at <= Ttl

FreshIndex == {e \in index : IsFresh(e)}

Hits(key) == {e \in FreshIndex : e.key = key}

\* the file list without sizes and times
Fingerprint_Paths(seen) == [f \in Files |-> IF seen[f] = 0 THEN 0 ELSE 1]

Fingerprint(seen) == seen

Oldest(S) == {e \in S : \A x \in S : e.at <= x.at}

\* Expired entries go; at the limit an oldest one goes, whatever its key.
Stored(e) ==
  {{x \in kept : x.key # e.key} \union {e} :
     kept \in IF Cardinality(FreshIndex) >= MaxIndexes
              THEN {FreshIndex \ {o} : o \in Oldest(FreshIndex)} ELSE {FreshIndex}}

Built(q) == [key |-> Fingerprint(q.seen), items |-> q.got, full |-> q.full,
             missed |-> q.missed, at |-> clock]

FreshList == IF list # Absent /\ clock - list.at <= Ttl THEN list ELSE Absent

\* a list that is there is kept
Listing_First(r) == IF FreshList # Absent THEN list ELSE [by |-> r, at |-> clock]

Listing(r) == [by |-> r, at |-> clock]
-----------------------------------------------------------------------------
(* What a request does next without an await.                                *)
Done(q) == [q EXCEPT !.pc = "done", !.todo = {}, !.left = {}, !.reads = 0]

Failed(q) == [Idle EXCEPT !.pc = "failed", !.kind = q.kind, !.before = q.before]

Scan(q) == [Idle EXCEPT !.pc = "scan", !.kind = q.kind, !.todo = {Root},
                        !.window = q.window, !.before = q.before]

Present(q) == {f \in Files : q.seen[f] # 0}

Reading(q, pc, S) ==
  IF S = {} THEN Done(q)
  ELSE [q EXCEPT !.pc = pc, !.left = S, !.reads = 0]

\* a build that stops at the limit keeps an index that calls itself whole
Cut_Silent(q) ==
  IF q.reads = MaxReads /\ q.left # {}
  THEN [q EXCEPT !.left = {}, !.todo = {}, !.full = (q.pc = "build")] ELSE q

(* consume_read: the read after the last one allowed is not made; a search   *)
(* answers no symbols either of the files that it did not come to.           *)
Cut(q) ==
  IF q.reads = MaxReads /\ q.left # {}
  THEN [q EXCEPT !.left = {}, !.todo = {}, !.full = FALSE,
                 !.known = [f \in Files |-> IF f \in q.left THEN 0 ELSE @[f]]]
  ELSE q

(* _symbols_from_index, _definition_from_index, search: what an index is for.*)
Use(q, e) ==
  LET k == [q EXCEPT !.known = e.items, !.full = e.full, !.missed = e.missed,
                     !.got = Nothing, !.from = "index"]
  IN  CASE k.kind = "symbols" -> Done(k)
        [] k.kind = "definition" /\ k.full ->
             Reading(k, "confirm", {f \in Files : k.known[f] \in Defining})
        [] k.kind = "definition" /\ ~k.full -> Scan(k)
        [] k.kind = "all" -> Reading(k, "texts", Present(k))

\* The end of a scan, of the texts and of the candidates of a definition.
Answered(q) ==
  IF q.left # {} \/ q.todo # {} THEN q
  ELSE Done([q EXCEPT !.known = IF q.from = "index" THEN @ ELSE q.got])
-----------------------------------------------------------------------------
(* The requests.  list_space_file_paths answers from its cache at once.      *)
Begin(r, k) ==
  LET q == [Idle EXCEPT !.kind = k, !.todo = {Root},
                        !.window = [f \in Files |-> IF Walks(k) THEN {} ELSE {text[f]}],
                        !.before = {s \in Requests : req[s].pc \in Ended}]
  IN  /\ req[r].pc = "idle" /\ k \in Kinds
      /\ list' = IF k = "paths" THEN FreshList ELSE list
      /\ req' = [req EXCEPT ![r] =
                   CASE k \in {"symbols", "definition", "all"} ->
                          [q EXCEPT !.pc = "list"]
                     [] k = "references" -> [q EXCEPT !.pc = "scan"]
                     [] k = "paths" /\ FreshList # Absent ->
                          Done([q EXCEPT !.from = list.by])
                     [] OTHER -> [q EXCEPT !.pc = "paths"]]
      /\ UNCHANGED <<diskVars, index, clock>>

\* A directory is listed; the root tells the others.
Listed(q, d) ==
  [q EXCEPT !.todo = (@ \ {d}) \union (IF d = Root THEN Dirs \ {Root} ELSE {}),
            !.seen = [f \in Files |-> IF DirOf[f] = d THEN stamp[f] ELSE @[f]]]

\* _build_symbol_index is over: the index is stored and used.
Build(r, q, sofar) ==
  IF q.left = {}
  THEN /\ index' \in Stored(Built(q))
       /\ req' = [req EXCEPT ![r] = Use(q, Built(q))]
  ELSE index' = sofar /\ req' = [req EXCEPT ![r] = q]

(* After the last listing the index is looked up; search of all kinds does   *)
(* not build one.                                                            *)
ListForIndex(r, d) ==
  LET q == Listed(req[r], d)
      hits == Hits(Fingerprint(q.seen))
  IN  /\ req[r].pc = "list" /\ d \in req[r].todo
      /\ \/ /\ q.todo # {}
            /\ req' = [req EXCEPT ![r] = q] /\ UNCHANGED index
         \/ /\ q.todo = {} /\ hits # {}
            /\ req' = [req EXCEPT ![r] = Use(q, CHOOSE e \in hits : TRUE)]
            /\ index' = FreshIndex
         \/ /\ q.todo = {} /\ hits = {} /\ q.kind = "all"
            /\ req' = [req EXCEPT ![r] = Reading(q, "texts", Present(q))]
            /\ index' = FreshIndex
         \/ /\ q.todo = {} /\ hits = {} /\ q.kind # "all"
            /\ Build(r, [q EXCEPT !.pc = "build", !.left = Present(q)], FreshIndex)
      /\ UNCHANGED <<diskVars, list, clock>>

(* The fallback scans read the files of a directory after they listed it.    *)
ListForScan(r, d) ==
  LET q == Listed(req[r], d) IN
  /\ req[r].pc = "scan" /\ d \in req[r].todo /\ req[r].left = {}
  /\ req' = [req EXCEPT ![r] =
               Answered(Cut([q EXCEPT !.left = {f \in Present(q) : DirOf[f] = d}]))]
  /\ UNCHANGED <<diskVars, index, list, clock>>

\* read_text: a failed read is passed over, in an index too.
Read(r, f) ==
  /\ f \in req[r].left
  /\ \E ok \in {TRUE, FALSE} :
       LET q == Cut([req[r] EXCEPT !.left = @ \ {f}, !.reads = @ + 1,
                                   !.got[f] = IF ok THEN text[f] ELSE 0,
                                   !.missed = IF ok THEN @ ELSE @ \union {f}])
       IN  /\ ok => text[f] # 0
           /\ IF q.pc = "build" THEN Build(r, q, index)
              ELSE UNCHANGED index /\ req' = [req EXCEPT ![r] = Answered(q)]
  /\ UNCHANGED <<diskVars, list, clock>>

(* _scan_space_file_paths passes over a directory that it cannot list, but   *)
(* not the root.                                                             *)
ListForPaths(r, d) ==
  LET q == [req[r] EXCEPT !.todo = Listed(req[r], d).todo] IN
  /\ req[r].pc = "paths" /\ d \in req[r].todo
  /\ list' = IF q.todo = {} THEN Listing(r) ELSE list
  /\ req' = [req EXCEPT ![r] = IF q.todo = {} THEN Done([q EXCEPT !.from = r]) ELSE q]
  /\ UNCHANGED <<diskVars, index, clock>>

\* A listing fails: an index gives way to a scan, a scan to an error.
ListFails(r) ==
  /\ req[r].todo # {} /\ req[r].left = {}
  /\ \/ req[r].pc = "list" /\ req' = [req EXCEPT ![r] = Scan(req[r])]
     \/ /\ req[r].pc = "scan" \/ (req[r].pc = "paths" /\ Root \in req[r].todo)
        /\ req' = [req EXCEPT ![r] = Failed(req[r])]
  /\ UNCHANGED <<diskVars, index, list, clock>>
-----------------------------------------------------------------------------
Request(r) ==
  \/ \E k \in Kinds : Begin(r, k)
  \/ \E d \in Dirs : ListForIndex(r, d) \/ ListForScan(r, d) \/ ListForPaths(r, d)
  \/ \E f \in Files : Read(r, f)
  \/ ListFails(r)

Edit == \E f \in Files : Write(f) \/ EditKept(f) \/ Delete(f)

NavigationFinished == (\A r \in Requests : req[r].pc \in Ended) /\ UNCHANGED navigationVars

NavigationNext == (\E r \in Requests : Request(r)) \/ Edit \/ Tick \/ NavigationFinished

NavigationSpec == NavigationInit /\ [][NavigationNext]_navigationVars
-----------------------------------------------------------------------------
Texts == 0..MaxText

IndexEntry == [key : [Files -> Texts], items : [Files -> Texts], full : BOOLEAN,
               missed : SUBSET Files, at : 0..MaxClock]
ListEntry == [by : Requests, at : 0..MaxClock]

Walking == {"list", "scan", "build", "texts", "confirm"}

RequestState ==
  [pc : Walking \union Ended \union {"idle", "paths"}, kind : AllKinds \union {Absent},
   todo : SUBSET Dirs, seen : [Files -> Texts], left : SUBSET Files, reads : Nat,
   got : [Files -> Texts], known : [Files -> Texts], missed : SUBSET Files,
   full : BOOLEAN, from : Requests \union {"index", Absent},
   window : [Files -> SUBSET Texts], before : SUBSET Requests]

NavigationTypeOK ==
  /\ text \in [Files -> Texts] /\ stamp \in [Files -> Texts] /\ last \in 1..MaxText
  /\ past \in [Files -> SUBSET (Texts \X Texts)]
  /\ index \subseteq IndexEntry
  /\ IsFiniteSet(index) /\ Cardinality(index) <= MaxIndexes
  /\ list \in {Absent} \union ListEntry
  /\ req \in [Requests -> RequestState]
  /\ clock \in 0..MaxClock

\* The files of which an ended request answers symbols, or text that it read.
Answers(q) ==
  {<<f, q.known[f]>> : f \in {g \in Files : q.kind # "definition" /\ q.known[g] # 0}}

Located(q) ==
  {<<f, q.got[f]>> : f \in {g \in Files : q.kind # "symbols" /\ q.got[g] # 0}}

(* A symbol is answered as it is in a text that the file had during the      *)
(* request, or had with the size and time that the request listed, however   *)
(* edits fall between listing, reading and storing; a definition and a text  *)
(* match are always of a text that the file had during the request.          *)
AnswersMatchTheFiles ==
  \A r \in Requests : req[r].pc = "done" =>
    /\ \A a \in Located(req[r]) : a[2] \in req[r].window[a[1]]
    /\ \A a \in Answers(req[r]) :
         \/ a[2] \in req[r].window[a[1]]
         \/ <<req[r].seen[a[1]], a[2]>> \in past[a[1]]

(* An answer that does not call itself truncated covers every file that was  *)
(* there throughout the request and whose reads succeeded: neither the limit *)
(* on reads nor an index built by another request leaves one out; a          *)
(* definition may be missed where an edit kept the size and time.            *)
WholeUnlessTruncated ==
  \A r \in Requests :
    LET q == req[r] IN
    q.pc = "done" /\ q.kind \notin {"paths", "refresh"} /\ q.full =>
      \A f \in Files \ q.missed :
        /\ q.kind # "definition" /\ 0 \notin q.window[f] => q.known[f] # 0
        /\ /\ q.kind = "definition" /\ q.window[f] \subseteq Defining
           /\ \A p \in past[f] : p[1] = q.seen[f] => p[2] \in Defining
           => q.got[f] # 0

(* After a refresh that succeeded no request answers with a list that was    *)
(* there before the refresh began: only a walk that overlapped the refresh   *)
(* or came later can have replaced its result.                               *)
RefreshIsSeen ==
  \A r, q \in Requests :
    /\ req[r].kind = "paths" /\ req[r].pc = "done"
    /\ req[q].kind = "refresh" /\ req[q].pc = "done" /\ q \in req[r].before
    => req[r].from \notin req[q].before
=============================================================================
