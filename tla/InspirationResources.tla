------------------------ MODULE InspirationResources ------------------------
(***************************************************************************)
(* The resources of an inspiration space: rows in the database and files in *)
(* the space's resources directory                                           *)
(* (openfocus/domains/inspirations/resources.py and workspace.py, the routes *)
(* in openfocus/web/routes/inspirations.py).                                 *)
(*                                                                         *)
(* A row names its file.  Users upload and replace images, write and rename  *)
(* texts and delete resources; an agent in the space's terminal writes files *)
(* of its own; a synchronisation turns files without a row into rows.        *)
(* Uploads wait for the bytes between choosing an id and storing the file.   *)
(* Creating and replacing run on the event loop, one after another between   *)
(* waits; updates, deletions and synchronisations run in threads, so that    *)
(* every other operation may act between their file system steps and their   *)
(* commits.                                                                  *)
(*                                                                         *)
(* Left out: the contents of texts, uploads that are no images, the space's  *)
(* status published (nothing can be changed then), forking and deleting a    *)
(* space, files that the agent removes.                                      *)
(***************************************************************************)
EXTENDS Naturals, Sequences, FiniteSets, FiniteSetsExt

CONSTANTS
  Ops,         \* requests under way
  Exts,        \* suffixes of image files
  Names,       \* names of texts
  MaxRows,     \* bound
  MaxRequests  \* bound

ASSUME ResourcesAssumption ==
  /\ MaxRows \in Nat /\ MaxRequests \in Nat
  /\ Ops # {}
  /\ Exts \intersect Names = {}
  /\ {"draft", "notes"} \intersect (Exts \union Names) = {}

VARIABLES
  open,     \* is the space open? (else it is closed)
  rows,     \* the inspiration_resources rows of the space, by id
  disk,     \* a function from the files there are to what they show
  op,       \* [Ops -> a request]
  requests, \* begun so far; an upload that is the n-th request brings picture n
  raced,    \* history: ids whose files were handled by two requests at once
  spoiled,  \* history: ids with an upload that was refused after it was stored
  stray     \* history: ids of edited summaries that got draft_summary.md back

history == <<raced, spoiled, stray>>
resourceVars == <<open, rows, disk, op, requests, history>>

Text == 0    \* what a text file shows; the pictures are 1, 2, ...

\* resource_<seq>_<name>.md, resource_<seq><ext>, or a file of the agent's own
File(n, tag) == [seq |-> n, tag |-> tag]
Draft == File(0, "draft")     \* draft_summary.md
Notes == File(0, "notes")
Kind(p) == IF p = Draft THEN "summary" ELSE IF p.tag \in Exts THEN "image" ELSE "text"

Row(n, p, shows) ==
  [seq |-> n, kind |-> Kind(p), path |-> p, shows |-> shows, live |-> TRUE]

(* row: what it is about; path: the file it handles, for an update from old; *)
(* paths, shown: the files that a synchronisation listed, and those that had *)
(* a row then.                                                               *)
Idle == [pc |-> "idle", kind |-> "none", row |-> 0, path |-> Draft, old |-> Draft,
         shows |-> Text, paths |-> {}, shown |-> {}]

Live == {i \in DOMAIN rows : rows[i].live}
LivePaths == {rows[i].path : i \in Live}
Seqs == {rows[i].seq : i \in DOMAIN rows}

Write(d, p, c) == [q \in DOMAIN d \union {p} |-> IF q = p THEN c ELSE d[q]]
Without(d, p) == [q \in DOMAIN d \ {p} |-> d[q]]

ResourcesInit ==
  /\ open = TRUE
  /\ rows = <<>> /\ disk = <<>>
  /\ op = [o \in Ops |-> Idle]
  /\ requests = 0
  /\ raced = {} /\ spoiled = {} /\ stray = {}

\* the rows that are deleted count, so that an id is not used again
NextSeq == 1 + Max({0} \union Seqs)

\* a request is between its file system steps and its commit, or the reverse
AtWork(o) == op[o].pc \in {"written", "unlink"}

\* the event loop is not inside a request
LoopFree == \A o \in Ops : AtWork(o) => op[o].kind \notin {"create", "replace"}

BeginRequest(o, rec) ==
  /\ op[o] = Idle /\ op' = [op EXCEPT ![o] = rec]
  /\ requests < MaxRequests /\ requests' = requests + 1
EndRequest(o) == op' = [op EXCEPT ![o] = Idle]
At(o, kind, pc) == op[o].pc = pc /\ op[o].kind = kind

\* id n was given out twice: another row has it, or a file that has no row yet
Clash(n, files) ==
  IF n \in Seqs \/ \E p \in files : p.seq = n THEN raced \union {n} ELSE raced

-----------------------------------------------------------------------------
(* Texts: the file is written before the row is committed.                   *)

BeginText(o, name) ==
  /\ LoopFree /\ open /\ Len(rows) < MaxRows
  /\ LET p == File(NextSeq, name) IN
     /\ BeginRequest(o, [Idle EXCEPT !.pc = "written", !.kind = "create", !.path = p])
     /\ disk' = Write(disk, p, Text)
  /\ UNCHANGED <<open, rows, history>>

(* create_resource, at its commit                                            *)
CreateResource(o) ==
  /\ At(o, "create", "written") /\ Len(rows) < MaxRows
  /\ LET p == op[o].path IN
     /\ rows' = Append(rows, Row(p.seq, p, op[o].shows))
     /\ raced' = Clash(p.seq, {})
  /\ EndRequest(o)
  /\ UNCHANGED <<open, disk, requests, spoiled, stray>>

(* update_resource with a name: the file moves.                              *)
BeginUpdate(o, i, name) ==
  /\ open /\ i \in Live /\ rows[i].kind # "image"
  /\ LET new == File(rows[i].seq, name)
         old == rows[i].path
         written == Write(disk, new, Text)
     IN /\ BeginRequest(o, [Idle EXCEPT !.pc = "written", !.kind = "update",
                                        !.row = i, !.path = new, !.old = old])
        /\ disk' = IF old = new THEN written ELSE Without(written, old)
  /\ raced' = IF \E u \in Ops : At(u, "update", "written") /\ op[u].row = i
              THEN raced \union {rows[i].seq} ELSE raced
  /\ UNCHANGED <<open, rows, spoiled, stray>>

\* only a column whose value changed is written
Update(o) ==
  /\ At(o, "update", "written")
  /\ rows' = IF op[o].path = op[o].old THEN rows
             ELSE [rows EXCEPT ![op[o].row].path = op[o].path]
  /\ EndRequest(o)
  /\ UNCHANGED <<open, disk, requests, history>>

-----------------------------------------------------------------------------
(* Images: an id is chosen, the bytes are awaited, the file is stored, the   *)
(* space's status is checked again, and the row is committed.                *)

\* prepare_resource_upload
BeginUpload(o, ext) ==
  /\ LoopFree /\ open
  /\ BeginRequest(o, [Idle EXCEPT !.pc = "slot", !.kind = "upload",
                                  !.path = File(NextSeq, ext), !.shows = requests + 1])
  /\ UNCHANGED <<open, rows, disk, history>>

\* store_uploaded_resource_file, and create_resource up to its commit
StoreUpload(o) ==
  /\ At(o, "upload", "slot") /\ LoopFree
  /\ LET p == op[o].path IN
     /\ disk' = Write(disk, p, op[o].shows)
     /\ raced' = Clash(p.seq, DOMAIN disk)
     /\ spoiled' = IF open THEN spoiled ELSE spoiled \union {p.seq}
     /\ IF open THEN op' = [op EXCEPT ![o].pc = "written", ![o].kind = "create"]
        ELSE EndRequest(o)
  /\ UNCHANGED <<open, rows, requests, stray>>

\* prepare_resource_file_replacement
BeginReplace(o, i, ext) ==
  /\ LoopFree /\ open
  /\ i \in Live /\ rows[i].kind = "image"
  /\ BeginRequest(o, [Idle EXCEPT !.pc = "slot", !.kind = "replace", !.row = i,
                                  !.path = File(rows[i].seq, ext), !.shows = requests + 1])
  /\ UNCHANGED <<open, rows, disk, history>>

(* The bytes are stored before replace_resource_file checks anything.        *)
StoreReplace(o) ==
  /\ At(o, "replace", "slot") /\ LoopFree
  /\ disk' = Write(disk, op[o].path, op[o].shows)
  /\ op' = [op EXCEPT ![o].pc = "written"]
  /\ UNCHANGED <<open, rows, requests, history>>

\* the old file is removed whatever its name
Replace_Careless(o) ==
  /\ At(o, "replace", "written")
  /\ LET i == op[o].row IN
     IF open /\ i \in Live
     THEN /\ rows' = [rows EXCEPT ![i].path = op[o].path, ![i].shows = op[o].shows]
          /\ op' = [op EXCEPT ![o] = [Idle EXCEPT !.pc = "unlink", !.kind = "replace",
                                                  !.path = rows[i].path]]
          /\ UNCHANGED spoiled
     ELSE /\ spoiled' = spoiled \union {rows[i].seq}
          /\ EndRequest(o) /\ UNCHANGED rows
  /\ UNCHANGED <<open, disk, requests, raced, stray>>

Replace(o) ==
  /\ At(o, "replace", "written")
  /\ LET i == op[o].row
         old == rows[i].path
     IN IF open /\ i \in Live
        THEN /\ rows' = [rows EXCEPT ![i].path = op[o].path, ![i].shows = op[o].shows]
             /\ op' = [op EXCEPT ![o] =
                  IF old = op[o].path THEN Idle
                  ELSE [Idle EXCEPT !.pc = "unlink", !.kind = "replace", !.path = old]]
             /\ UNCHANGED spoiled
        ELSE /\ spoiled' = spoiled \union {rows[i].seq}
             /\ EndRequest(o) /\ UNCHANGED rows
  /\ UNCHANGED <<open, disk, requests, raced, stray>>

-----------------------------------------------------------------------------
(* delete_resource: the row is kept as a tombstone; the file goes after the  *)
(* commit.                                                                   *)
DeleteResource(o, i) ==
  /\ open /\ i \in Live
  /\ rows' = [rows EXCEPT ![i].live = FALSE]
  /\ BeginRequest(o, [Idle EXCEPT !.pc = "unlink", !.kind = "delete", !.path = rows[i].path])
  /\ UNCHANGED <<open, disk, history>>

UnlinkFile(o) ==
  /\ op[o].pc = "unlink"
  /\ disk' = Without(disk, op[o].path)
  /\ EndRequest(o)
  /\ UNCHANGED <<open, rows, requests, history>>

-----------------------------------------------------------------------------
(* Synchronisation.                                                          *)

Tombstones == {rows[i] : i \in DOMAIN rows \ Live}

\* only the ids of deleted rows are compared
Buried_Ids(p) == \E t \in Tombstones : t.seq = p.seq

Buried(p) == \E t \in Tombstones : t.path = p \/ t.seq = p.seq

\* sync_resources_dir reads the tombstones and lists the files ...
Scan(o) ==
  /\ BeginRequest(o, [Idle EXCEPT !.pc = "scanned", !.kind = "sync",
                                  !.paths = {p \in DOMAIN disk : ~Buried(p)},
                                  !.shown = LivePaths])
  /\ UNCHANGED <<open, rows, disk, history>>

\* a text that cannot be read is skipped; of an image only the name is used
Taken(o) == {p \in op[o].paths : Kind(p) = "image" \/ p \in DOMAIN disk}

\* every file is new
RowsOf_None(p) == {}

RowsOf(p) == {i \in Live : rows[i].path = p}

Summaries == {i \in Live : rows[i].kind = "summary"}

\* the row with the highest id
Newest(I) == {i \in I : \A k \in I : k <= i}

\* the row that becomes that of draft_summary.md, which is the first of the files
DraftRow(S) ==
  IF Draft \notin S THEN {}
  ELSE IF RowsOf(Draft) # {} THEN Newest(RowsOf(Draft)) ELSE Newest(Summaries)

\* a row when the files of S have been gone through
Synced(i, S) ==
  IF i \in DraftRow(S) THEN [rows[i] EXCEPT !.path = Draft, !.kind = "summary"]
  ELSE IF rows[i].path \in S /\ i \in Newest(RowsOf(rows[i].path) \ DraftRow(S))
       THEN [rows[i] EXCEPT !.kind = Kind(rows[i].path)]
  ELSE rows[i]

\* the files of S that had no row
New(S) == {p \in S : IF p = Draft THEN DraftRow(S) = {} ELSE RowsOf(p) \subseteq DraftRow(S)}

\* the orders in which files can come: of the others the names say nothing here
Orders(S) ==
  {f \in [1..Cardinality(S) -> S] :
     (\A p \in S : \E n \in DOMAIN f : f[n] = p) /\ (Draft \in S => f[1] = Draft)}

\* the row of the n-th new file
Added(p, n) == Row(NextSeq + n - 1, p, IF p \in DOMAIN disk THEN disk[p] ELSE Text)

\* what the synchronisation o knows of p is no longer so
InHand(p) == \E u \in Ops : AtWork(u) /\ op[u].path = p
Unsettled(o, p) ==
  \/ InHand(p) \/ p \notin DOMAIN disk
  \/ Buried(p)
  \/ (p \in op[o].shown) # (p \in LivePaths)

\* summaries whose row is given draft_summary.md while their own file stays
Repointed == stray' = stray \union {rows[i].seq : i \in {k \in Live : rows'[k].path # rows[k].path}}

\* ... and goes through them
Sync(o) ==
  /\ At(o, "sync", "scanned")
  /\ LET S == Taken(o)
         n == Len(rows)
     IN /\ n + Cardinality(New(S)) <= MaxRows
        /\ \E f \in Orders(New(S)) :
             rows' = [i \in 1..(n + Cardinality(New(S))) |->
                        IF i <= n THEN Synced(i, S) ELSE Added(f[i - n], i - n)]
        /\ raced' = raced \union {p.seq : p \in {q \in S : Unsettled(o, q)}}
  /\ Repointed
  /\ EndRequest(o)
  /\ UNCHANGED <<open, disk, requests, spoiled>>

(* prepare_draft_from_draft_summary: the draft summary alone, at once.       *)
SyncDraft ==
  /\ LoopFree /\ Draft \in DOMAIN disk
  /\ \A t \in Tombstones : t.path # Draft
  /\ \/ /\ Summaries = {} /\ Len(rows) < MaxRows
        /\ rows' = Append(rows, Row(NextSeq, Draft, Text))
     \/ \E i \in Newest(Summaries) :
          rows' = IF \E t \in Tombstones : t.seq = rows[i].seq THEN rows
                  ELSE [rows EXCEPT ![i].path = Draft]
  /\ raced' = IF InHand(Draft) THEN raced \union {Draft.seq} ELSE raced
  /\ Repointed
  /\ UNCHANGED <<open, disk, op, requests, spoiled>>

-----------------------------------------------------------------------------
(* The agent in the terminal writes a file.                                  *)
AgentWrites(p) ==
  /\ disk' = Write(disk, p, Text)
  /\ UNCHANGED <<open, rows, op, requests, history>>

CloseSpace ==
  /\ LoopFree /\ open /\ open' = FALSE
  /\ UNCHANGED <<rows, disk, op, requests, history>>

ReopenSpace ==
  /\ ~open /\ open' = TRUE
  /\ UNCHANGED <<rows, disk, op, requests, history>>

OfRow(o, i) ==
  \/ \E name \in Names : BeginUpdate(o, i, name)
  \/ \E ext \in Exts : BeginReplace(o, i, ext)
  \/ DeleteResource(o, i)

ResourcesNext ==
  \/ \E o \in Ops :
       \/ \E name \in Names : BeginText(o, name)
       \/ \E ext \in Exts : BeginUpload(o, ext)
       \/ \E i \in DOMAIN rows : OfRow(o, i)
       \/ CreateResource(o) \/ Update(o) \/ StoreUpload(o) \/ StoreReplace(o) \/ Replace(o)
       \/ UnlinkFile(o) \/ Scan(o) \/ Sync(o)
  \/ SyncDraft \/ CloseSpace \/ ReopenSpace
  \/ \E p \in {Draft, Notes} : AgentWrites(p)

ResourcesSpec == ResourcesInit /\ [][ResourcesNext]_resourceVars

-----------------------------------------------------------------------------
Bad == raced \union spoiled \union stray

\* no two requests worked on the files of this row at the same time, and no
\* refused upload and no edited summary left a file behind
Orderly(i) == rows[i].seq \notin Bad /\ rows[i].path.seq \notin Bad

\* a request has changed the file of row i, or the row, but not yet both
Between(i) == \E o \in Ops : op[o].pc = "written" /\ op[o].kind # "create" /\ op[o].row = i

Files == [seq : Nat, tag : Exts \union Names \union {"draft", "notes"}]
Rows == [seq : Nat \ {0}, kind : {"text", "image", "summary"}, path : Files,
         shows : Nat, live : BOOLEAN]
OpStates == [pc : {"idle", "slot", "written", "unlink", "scanned"},
             kind : {"none", "create", "update", "upload", "replace", "delete", "sync"},
             row : Nat, path : Files, old : Files, shows : Nat,
             paths : SUBSET Files, shown : SUBSET Files]

ResourcesTypeOK ==
  /\ open \in BOOLEAN /\ requests \in 0..MaxRequests
  /\ rows \in Seq(Rows) /\ Len(rows) <= MaxRows
  /\ DOMAIN disk \subseteq Files /\ \A p \in DOMAIN disk : disk[p] \in Nat
  /\ op \in [Ops -> OpStates]
  /\ Bad \subseteq Nat

(* A resource shows the file that was last accepted for it: no update,       *)
(* replacement, deletion or synchronisation of another resource takes its    *)
(* file away or overwrites it.  A replacement that is refused because the    *)
(* space was closed meanwhile has overwritten the file all the same.         *)
RowShowsItsFile ==
  \A i \in Live : Orderly(i) /\ ~Between(i) =>
    rows[i].path \in DOMAIN disk /\ disk[rows[i].path] = rows[i].shows

(* A file is listed as one resource, however often it is synchronised.       *)
OneRowPerFile ==
  \A i, j \in Live : i # j /\ Orderly(i) /\ Orderly(j) => rows[i].path # rows[j].path

(* No step brings back a deleted resource: neither its own file nor another  *)
(* that was stored under its id becomes a resource again.                    *)
DeletedStaysDeleted ==
  [][\A j \in DOMAIN rows' \ DOMAIN rows :
       \/ rows'[j].path.seq \in Bad'
       \/ \A i \in DOMAIN rows \ Live :
            rows[i].path # rows'[j].path /\ rows[i].seq # rows'[j].path.seq]_resourceVars
=============================================================================
