-------------------------- MODULE CompanionPairing --------------------------
(***************************************************************************)
(* Who a Companion is, and how the two ends come to share a token:          *)
(* the identity and the pairing codes of the Companion                       *)
(* (openfocus/companion/runtime.py), the Connect handler of the server       *)
(* (openfocus/companion/grpc.py) and the pairing and deletion of Companion   *)
(* rows (openfocus/domains/companion/service.py).                            *)
(*                                                                         *)
(* A Companion is a process on a device with a state file.  It connects with *)
(* a device id that it made up once; the server keeps one row per device id. *)
(* To pair, the user asks for a code, reads it on the Companion's terminal   *)
(* and types it in; the server sends it to the Companion, which answers with *)
(* its token.  deleting runs in a thread, everything else on the event loop. *)
(*                                                                         *)
(* A code is the number of codes its device had generated before it, plus    *)
(* one: random codes are different.  Two devices do not share codes.         *)
(* Left out: names, capabilities, last_seen, events, the agent spaces that a *)
(* deletion unbinds, the commands other than pairing, a write of the state   *)
(* file that fails, the server id in the server's hello.                     *)
(***************************************************************************)
EXTENDS Naturals, Sequences, FiniteSets

CONSTANTS
  Devices,    \* the machines with a Companion
  Rows,       \* the ids a Companion row can get: 1..n
  Streams,    \* the Connect RPCs
  Jobs,       \* the requests to pair
  None,       \* no token, no row, no connection
  MaxTries,   \* pair_attempt_count's limit (ten in the code)
  MaxIdents,  \* bound: device ids a device makes up
  MaxCodes,   \* bound: codes a device generates
  MaxWire     \* bound: commands on their way on a connection

ASSUME PairingAssumption ==
  /\ IsFiniteSet(Rows) /\ Rows = 1..Cardinality(Rows)
  /\ None \notin Devices \union Streams /\ "code" \notin Jobs
  /\ MaxTries \in Nat /\ MaxIdents \in Nat /\ MaxCodes \in Nat /\ MaxWire \in Nat

VARIABLES
  mem,      \* [Devices -> Memory]: _CompanionRuntime while the process runs
  file,     \* [Devices -> what _load_state returns]
  idents,   \* [Devices -> Nat]: device ids made up
  tokens,   \* [Devices -> Nat]: tokens made up
  codes,    \* [Devices -> Nat]: codes generated
  link,     \* [Devices -> Streams or None]: the stream the Companion reads
  row,      \* [Rows -> the companions row, or None]
  reg,      \* [Rows -> Streams or None]: the registry
  conn,     \* [Streams -> ConnState]
  outbox,   \* [Streams -> Seq]: sent to the Companion, not yet handled
  job,      \* [Jobs -> JobState]
  deleting, \* the rows whose deletion has closed the connection, not yet the row
  strays,   \* history: connections accepted while their row was being deleted
  crossed   \* history: rows paired by a job of a row deleted since, or of another device

deviceVars == <<mem, file, idents, tokens, codes>>
serverVars == <<row, reg, deleting>>
history == <<strays, crossed>>
pairingVars == <<deviceVars, link, serverVars, conn, outbox, job, history>>

-----------------------------------------------------------------------------
(* A device id is a pair of the device and a number: so is a token.          *)
Idents == Devices \X (1..MaxIdents)
Tokens == Devices \X Nat
Codes == Devices \X Nat

\* what a process knows; fresh: its code, the last one generated, has an expiry
\* that has not passed
Memory == [ident : Idents, token : Tokens \union {None}, fresh : BOOLEAN]
Off == [ident |-> None, token |-> None, fresh |-> FALSE]

NoFile == [ident |-> None, token |-> None]

Row == [dev : Idents, token : Tokens \union {None},
        status : {"pending_certification", "active"}, tries : 0..MaxTries]

ASSUME PairsAssumption == None \notin Idents \union Tokens \union Row

\* own: history, the row is still the one that was found, and the stream is of
\* its device
NoRequest == [pc |-> "idle", row |-> 0, via |-> None, typed |-> None,
              reply |-> "none", token |-> None, own |-> FALSE]

Up(d) == mem[d] # Off

\* the part of the memory that _persist writes
Saved(m) == [ident |-> m.ident, token |-> m.token]

\* _persist after the memory of device d became m
Persist(d, m) == file' = [file EXCEPT ![d] = Saved(m)]

PairingInit ==
  /\ mem = [d \in Devices |-> Off]
  /\ file = [d \in Devices |-> NoFile]
  /\ idents = [d \in Devices |-> 0]
  /\ tokens = [d \in Devices |-> 0]
  /\ codes = [d \in Devices |-> 0]
  /\ link = [d \in Devices |-> None]
  /\ row = [i \in Rows |-> None]
  /\ reg = [i \in Rows |-> None]
  /\ conn = [c \in Streams |-> [state |-> "unused", dev |-> None, id |-> 0]]
  /\ outbox = [c \in Streams |-> <<>>]
  /\ job = [j \in Jobs |-> NoRequest]
  /\ deleting = {}
  /\ strays = {}
  /\ crossed = {}

-----------------------------------------------------------------------------
(* The Companion process.                                                    *)

(* Start: read the state file, make up a device id if there is none, write   *)
(* the file.  A code that is read has no expiry.                             *)
Start(d) ==
  /\ ~Up(d)
  /\ LET new == file[d].ident = None
         m == [ident |-> IF new THEN <<d, idents[d] + 1>> ELSE file[d].ident,
               token |-> file[d].token, fresh |-> FALSE]
     IN /\ new => idents[d] < MaxIdents
        /\ idents' = [idents EXCEPT ![d] = IF new THEN @ + 1 ELSE @]
        /\ mem' = [mem EXCEPT ![d] = m]
        /\ Persist(d, m)
  /\ UNCHANGED <<tokens, codes, link, serverVars, conn, outbox, job, history>>

\* the Companion's end of its stream is gone, with what it had not handled
Unlink(d) ==
  /\ link' = [link EXCEPT ![d] = None]
  /\ outbox' = [c \in Streams |-> IF c = link[d] THEN <<>> ELSE outbox[c]]

(* The process ends, at worst while it rewrites its state file in place.     *)
Crash(d) ==
  /\ Up(d)
  /\ mem' = [mem EXCEPT ![d] = Off]
  /\ Unlink(d)
  /\ \/ UNCHANGED file
     \/ file' = [file EXCEPT ![d] = NoFile]
  /\ UNCHANGED <<idents, tokens, codes, serverVars, conn, job, history>>

(* The Companion sees its stream end.                                        *)
Drop(d) ==
  /\ link[d] # None
  /\ Unlink(d)
  /\ UNCHANGED <<deviceVars, serverVars, conn, job, history>>

(* The expiry of the current code passes.                                    *)
CodeExpires(d) ==
  /\ Up(d) /\ mem[d].fresh
  /\ mem' = [mem EXCEPT ![d].fresh = FALSE]
  /\ UNCHANGED <<file, idents, tokens, codes, link, serverVars, conn, outbox, job,
                 history>>

Handles(d, c) == link[d] = c /\ c # None /\ outbox[c] # <<>>
Handled(c) == outbox' = [outbox EXCEPT ![c] = Tail(@)]

\* a memory after _rotate_code(force=True)
Rotated(d) == [mem[d] EXCEPT !.fresh = TRUE]

(* current_code(force_new=True): a new code, shown on the terminal.          *)
HandleCode(d, c) ==
  /\ Handles(d, c) /\ Head(outbox[c]) = "code"
  /\ codes[d] < MaxCodes
  /\ codes' = [codes EXCEPT ![d] = @ + 1]
  /\ mem' = [mem EXCEPT ![d] = Rotated(d)]
  /\ Persist(d, Rotated(d))
  /\ Handled(c)
  /\ UNCHANGED <<idents, tokens, link, serverVars, conn, job, history>>

\* whether confirm_pair accepts the code typed: a code without an expiry ahead
\* is replaced before it is compared
Accepts(d, typed) == mem[d].fresh /\ typed = <<d, codes[d]>>

\* the code rotates only if it was wrong
HandlePair_KeepCode(d, c) ==
  /\ Handles(d, c) /\ Head(outbox[c]) \in Jobs
  /\ codes[d] < MaxCodes
  /\ LET j == Head(outbox[c])
         ok == Accepts(d, job[j].typed)
         new == ok /\ mem[d].token = None
         m == IF new THEN [Rotated(d) EXCEPT !.token = <<d, tokens[d] + 1>>]
                     ELSE Rotated(d)
     IN /\ codes' = [codes EXCEPT ![d] = IF ok THEN @ ELSE @ + 1]
        /\ tokens' = [tokens EXCEPT ![d] = IF new THEN @ + 1 ELSE @]
        /\ mem' = [mem EXCEPT ![d] = m]
        /\ Persist(d, m)
        /\ job' = [job EXCEPT ![j].reply = IF ok THEN "token" ELSE "refused",
                              ![j].token = IF ok THEN m.token ELSE None]
  /\ Handled(c)
  /\ UNCHANGED <<idents, link, serverVars, conn, history>>

\* every pairing makes up a token
HandlePair_NewToken(d, c) ==
  /\ Handles(d, c) /\ Head(outbox[c]) \in Jobs
  /\ codes[d] < MaxCodes
  /\ LET j == Head(outbox[c])
         ok == Accepts(d, job[j].typed)
         m == IF ok THEN [Rotated(d) EXCEPT !.token = <<d, tokens[d] + 1>>]
                    ELSE Rotated(d)
     IN /\ codes' = [codes EXCEPT ![d] = @ + 1]
        /\ tokens' = [tokens EXCEPT ![d] = IF ok THEN @ + 1 ELSE @]
        /\ mem' = [mem EXCEPT ![d] = m]
        /\ Persist(d, m)
        /\ job' = [job EXCEPT ![j].reply = IF ok THEN "token" ELSE "refused",
                              ![j].token = IF ok THEN m.token ELSE None]
  /\ Handled(c)
  /\ UNCHANGED <<idents, link, serverVars, conn, history>>

(* confirm_pair: compare, rotate whatever came out, and answer with the      *)
(* token, which is made up the first time.                                   *)
HandlePair(d, c) ==
  /\ Handles(d, c) /\ Head(outbox[c]) \in Jobs
  /\ codes[d] < MaxCodes
  /\ LET j == Head(outbox[c])
         ok == Accepts(d, job[j].typed)
         new == ok /\ mem[d].token = None
         m == IF new THEN [Rotated(d) EXCEPT !.token = <<d, tokens[d] + 1>>]
                     ELSE Rotated(d)
     IN /\ codes' = [codes EXCEPT ![d] = @ + 1]
        /\ tokens' = [tokens EXCEPT ![d] = IF new THEN @ + 1 ELSE @]
        /\ mem' = [mem EXCEPT ![d] = m]
        /\ Persist(d, m)
        /\ job' = [job EXCEPT ![j].reply = IF ok THEN "token" ELSE "refused",
                                     ![j].token = IF ok THEN m.token ELSE None]
  /\ Handled(c)
  /\ UNCHANGED <<idents, link, serverVars, conn, history>>

-----------------------------------------------------------------------------
(* The server.                                                               *)

\* the row that Connect finds or makes for a device: by the id in the hello if
\* the device id agrees, by device id, or SQLite's next id
RowOf(ident) == {i \in Rows : row[i] # None /\ row[i].dev = ident}
NextRow == 1 + Cardinality({i \in Rows : \E k \in Rows : k >= i /\ row[k] # None})
Assigned(d) ==
  IF RowOf(mem[d].ident) # {} THEN CHOOSE i \in RowOf(mem[d].ident) : TRUE
                              ELSE NextRow

(* close on the connections of C: their waiting callers fail.                *)
Closed(C) ==
  /\ conn' = [c \in Streams |-> IF c \in C /\ conn[c].state = "up"
                              THEN [conn[c] EXCEPT !.state = "closed"] ELSE conn[c]]
  /\ job' = [j \in Jobs |-> IF job[j].pc = "waiting" /\ job[j].via \in C
                            THEN [job[j] EXCEPT !.pc = "failed"] ELSE job[j]]

(* Connect, from the hello to the wait for outgoing messages.                *)
Connect(c, d) ==
  /\ Up(d) /\ link[d] = None
  /\ conn[c].state = "unused"
  /\ LET i == Assigned(d)
         old == IF i \in Rows THEN row[i] ELSE None
         token == IF old = None THEN None ELSE old.token
     IN /\ i \in Rows
        /\ row' = [row EXCEPT ![i] =
             [dev |-> mem[d].ident, token |-> token,
              tries |-> IF old = None THEN 0 ELSE old.tries,
              status |-> IF token = None THEN "pending_certification"
                         ELSE IF token = mem[d].token THEN "active"
                         ELSE old.status]]
        /\ reg' = [reg EXCEPT ![i] = c]
        /\ conn' = [k \in Streams |->
             IF k = c THEN [state |-> "up", dev |-> d, id |-> i]
             ELSE IF k = reg[i] /\ conn[k].state = "up"
                  THEN [conn[k] EXCEPT !.state = "closed"] ELSE conn[k]]
        /\ job' = [j \in Jobs |-> IF job[j].pc = "waiting" /\ job[j].via = reg[i]
                                  THEN [job[j] EXCEPT !.pc = "failed"] ELSE job[j]]
        /\ strays' = IF i \in deleting THEN strays \union {c} ELSE strays
  /\ link' = [link EXCEPT ![d] = c]
  /\ UNCHANGED <<deviceVars, outbox, deleting, crossed>>

(* register_companion: the row of a device without a connection.             *)
Register(d) ==
  /\ Up(d)
  /\ LET i == Assigned(d) IN
     /\ i \in Rows
     /\ row' = [row EXCEPT ![i] =
          IF row[i] = None
          THEN [dev |-> mem[d].ident, token |-> None, tries |-> 0,
                status |-> "pending_certification"]
          ELSE [row[i] EXCEPT !.status =
                  IF row[i].token = None THEN "pending_certification" ELSE "active"]]
  /\ UNCHANGED <<deviceVars, link, reg, deleting, conn, outbox, job, history>>

(* The server sees a stream end.                                             *)
Notice(c) ==
  /\ conn[c].state = "up" /\ link[conn[c].dev] # c
  /\ Closed({c})
  /\ UNCHANGED <<deviceVars, link, serverVars, outbox, history>>

(* The handler of a closed connection ends: set_disconnected.                *)
Unregister(c) ==
  /\ conn[c].state = "closed"
  /\ conn' = [conn EXCEPT ![c].state = "ended"]
  /\ reg' = [reg EXCEPT ![conn[c].id] = IF @ = c THEN None ELSE @]
  /\ strays' = strays \ {c}
  /\ UNCHANGED <<deviceVars, link, row, deleting, outbox, job, crossed>>

\* a command goes out on the registered connection, unless it is closed
Send(i, what) ==
  LET c == reg[i] IN
  outbox' = IF conn[c].state = "up" /\ link[conn[c].dev] = c
            THEN [outbox EXCEPT ![c] = Append(@, what)] ELSE outbox

(* request_pairing_code: nothing of its answer is kept.                      *)
AskCode(i) ==
  /\ row[i] # None /\ reg[i] # None
  /\ Len(outbox[reg[i]]) < MaxWire
  /\ Send(i, "code")
  /\ UNCHANGED <<deviceVars, link, serverVars, conn, job, history>>

\* the stream is of the device that the row is of
OfDevice(i, c) ==
  LET d == conn[c].dev IN link[d] = c /\ row[i].dev = mem[d].ident

(* pair_companion until its await: the attempt counts even if no connection  *)
(* is there.                                                                 *)
AskPair(j, i, typed) ==
  /\ job[j].pc = "idle"
  /\ row[i] # None /\ row[i].tries < MaxTries
  /\ row' = [row EXCEPT ![i].tries = @ + 1]
  /\ IF reg[i] = None
     THEN /\ job' = [job EXCEPT ![j].pc = "failed"]
          /\ UNCHANGED outbox
     ELSE /\ Len(outbox[reg[i]]) < MaxWire
          /\ job' = [job EXCEPT ![j] =
               [NoRequest EXCEPT !.pc = "waiting", !.row = i, !.via = reg[i],
                                 !.typed = typed, !.own = OfDevice(i, reg[i])]]
          /\ Send(i, j)
  /\ UNCHANGED <<deviceVars, link, reg, deleting, conn, history>>

(* The next clock minute: the window of the attempts starts again.           *)
NewMinute(i) ==
  /\ row[i] # None /\ row[i].tries > 0
  /\ row' = [row EXCEPT ![i].tries = 0]
  /\ UNCHANGED <<deviceVars, link, reg, deleting, conn, outbox, job, history>>

(* The Companion's answer settles the future.                                *)
Answer(j) ==
  /\ job[j].pc = "waiting" /\ job[j].reply # "none"
  /\ conn[job[j].via].state = "up"
  /\ job' = [job EXCEPT ![j].pc = IF job[j].reply = "refused" THEN "failed" ELSE "answered"]
  /\ UNCHANGED <<deviceVars, link, serverVars, conn, outbox, history>>

(* The wait times out; the Companion may still handle the command.           *)
TimeOut(j) ==
  /\ job[j].pc = "waiting"
  /\ job' = [job EXCEPT ![j].pc = "failed"]
  /\ UNCHANGED <<deviceVars, link, serverVars, conn, outbox, history>>

(* pair_companion after its await.                                           *)
FinishPair(j) ==
  /\ job[j].pc = "answered"
  /\ LET i == job[j].row IN
     IF row[i] = None
     THEN /\ job' = [job EXCEPT ![j].pc = "failed"]
          /\ UNCHANGED <<row, crossed>>
     ELSE /\ job' = [job EXCEPT ![j].pc = "paired"]
          /\ row' = [row EXCEPT ![i].token = job[j].token, ![i].status = "active"]
          /\ crossed' = IF job[j].own THEN crossed \ {i} ELSE crossed \union {i}
  /\ UNCHANGED <<deviceVars, link, reg, deleting, conn, outbox, strays>>

\* the connection of a deleted row stays
BeginDelete_Connected(i) ==
  /\ row[i] # None /\ i \notin deleting
  /\ deleting' = deleting \union {i}
  /\ UNCHANGED <<deviceVars, link, row, reg, conn, outbox, job, history>>

(* delete_companion, in a thread: close the connection, then delete the row. *)
BeginDelete(i) ==
  /\ row[i] # None /\ i \notin deleting
  /\ deleting' = deleting \union {i}
  /\ Closed({reg[i]})
  /\ UNCHANGED <<deviceVars, link, row, reg, outbox, history>>

EndDelete(i) ==
  /\ i \in deleting
  /\ deleting' = deleting \ {i}
  /\ row' = [row EXCEPT ![i] = None]
  /\ job' = [j \in Jobs |-> IF job[j].row = i THEN [job[j] EXCEPT !.own = FALSE] ELSE job[j]]
  /\ crossed' = crossed \ {i}
  /\ UNCHANGED <<deviceVars, link, reg, conn, outbox, strays>>

\* no stream, no request and no deletion under way
PairingFinished ==
  /\ \A d \in Devices : link[d] = None
  /\ \A j \in Jobs : job[j].pc \notin {"waiting", "answered"}
  /\ deleting = {}
  /\ UNCHANGED pairingVars

-----------------------------------------------------------------------------
PairingNext ==
  \/ PairingFinished
  \/ \E d \in Devices : Start(d) \/ Crash(d) \/ Drop(d) \/ CodeExpires(d) \/ Register(d)
  \/ \E d \in Devices, c \in Streams :
       \/ Connect(c, d)
       \/ HandleCode(d, c) \/ HandlePair(d, c)
  \/ \E c \in Streams : Notice(c) \/ Unregister(c)
  \/ \E i \in Rows : AskCode(i) \/ NewMinute(i) \/ BeginDelete(i) \/ EndDelete(i)
  \/ \E j \in Jobs, i \in Rows, d \in Devices, n \in 1..MaxCodes :
       n <= codes[d] /\ AskPair(j, i, <<d, n>>)
  \/ \E j \in Jobs : Answer(j) \/ TimeOut(j) \/ FinishPair(j)

PairingSpec == PairingInit /\ [][PairingNext]_pairingVars

-----------------------------------------------------------------------------
Job == [pc : {"idle", "waiting", "answered", "failed", "paired"},
        row : Rows \union {0}, via : Streams \union {None},
        typed : Codes \union {None}, reply : {"none", "token", "refused"},
        token : Tokens \union {None}, own : BOOLEAN]

PairingTypeOK ==
  /\ mem \in [Devices -> Memory \union {Off}]
  /\ file \in [Devices -> [ident : Idents \union {None}, token : Tokens \union {None}]]
  /\ idents \in [Devices -> 0..MaxIdents]
  /\ tokens \in [Devices -> Nat] /\ codes \in [Devices -> 0..MaxCodes]
  /\ link \in [Devices -> Streams \union {None}]
  /\ row \in [Rows -> Row \union {None}]
  /\ reg \in [Rows -> Streams \union {None}]
  /\ conn \in [Streams -> [state : {"unused", "up", "closed", "ended"},
                            dev : Devices \union {None}, id : Rows \union {0}]]
  /\ outbox \in [Streams -> Seq({"code"} \union Jobs)]
  /\ job \in [Jobs -> Job]
  /\ deleting \subseteq Rows /\ strays \subseteq Streams /\ crossed \subseteq Rows

(* A Companion that is connected is registered for the row of its device, so *)
(* that what is sent to a row reaches that device, over reconnections,       *)
(* deletions and ids that are used again.  Only a connection accepted while  *)
(* the row was being deleted may be left without one.                        *)
RegisteredHasItsRow ==
  \A i \in Rows, d \in Devices :
    LET c == reg[i] IN
    Up(d) /\ link[d] = c /\ c # None /\ c \notin strays /\ conn[c].state = "up"
      => row[i] # None /\ row[i].dev = mem[d].ident

(* If a row has a token, its device has the same one, running or stopped,    *)
(* also after lost answers, timeouts, restarts and a second pairing: the     *)
(* server never shows a Companion as paired that would refuse its commands.  *)
(* Only a pairing that finishes after its row was deleted and the id given   *)
(* away can break this, or one that was sent on a connection of another      *)
(* device, accepted while that device's row with this id was being deleted.  *)
EndsAgree ==
  \A i \in Rows \ crossed, d \in Devices :
    row[i] # None /\ row[i].token # None =>
      /\ Up(d) /\ row[i].dev = mem[d].ident => mem[d].token = row[i].token
      /\ ~Up(d) /\ row[i].dev = file[d].ident => file[d].token = row[i].token

Opened(j) == job[j].reply = "token"

(* A code opens for one request at most, whatever becomes of its answer.     *)
CodeOpensOnce ==
  \A j, k \in Jobs :
    Opened(j) /\ Opened(k) /\ job[j].typed = job[k].typed => j = k
=============================================================================
