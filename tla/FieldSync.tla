----------------------------- MODULE FieldSync ------------------------------
(***************************************************************************)
(* Offline field work: src/modules/offlineQueue keeps a device's mutations *)
(* in IndexedDB and posts them to /api/v1/field-sync/batch, where          *)
(* api/services/fieldSync.ts runs each one in a transaction of its own     *)
(* together with its row of field_sync_operations, the idempotency ledger. *)
(*                                                                         *)
(* Several tabs of the browser share the queue, each with its own flush in *)
(* flight.  A request outlives the tab that made it, and an answer may be  *)
(* lost.  A row of the tenant is its updated_at, modelled as a version: a  *)
(* device only ever sees that time in milliseconds while PostgreSQL        *)
(* compares microseconds, so even the current version may fail to match.   *)
(***************************************************************************)
EXTENDS Integers, FiniteSets

CONSTANTS
  Ops,        \* client_op_ids
  Tabs,       \* browser tabs with the page open
  Requests,   \* bound: calls of POST /batch the server works on at a time
  Rows,       \* rows that operations may update
  ChunkSize,  \* operations in a batch (100)
  MaxVersion, \* bound: the version up to which others edit a row
  Mishaps     \* "db" a transaction fails, "crash" the server dies,
              \* "lost" a connection breaks, "close" a tab is closed

ASSUME FieldSyncAssumption ==
  /\ ChunkSize \in Nat \ {0} /\ MaxVersion \in Nat
  /\ Mishaps \subseteq {"db", "crash", "lost", "close"}

VARIABLES
  queue,    \* field_sync_queue, the object store of the device
  tab,      \* the flush in flight of each tab
  request,  \* the batches the server is processing
  record,   \* field_sync_operations: the status of the row of each operation
  row,      \* updated_at of the rows
  applied   \* history: times each operation's mutation has been committed

vars == <<queue, tab, request, record, row, applied>>

-----------------------------------------------------------------------------
\* "unfit": a required field is missing, nothing to set, or no such row.  base 0:
\* no base_updated_at.
Call == [op : {"create", "update", "unfit"}, row : Rows, base : Nat]

QueuedOp == [status : {"absent", "pending", "synced", "conflict", "failed", "removed"},
             call : SUBSET Call]

Answers == [Ops -> {"none", "success", "conflict", "error", "replay"}]

NoAnswers == [o \in Ops |-> "none"]

\* rest: what this flush has read from the store and not sent.
FlushState == [step : {"idle", "send", "wait", "mark"}, rest : SUBSET Ops,
               answers : Answers]

NoFlush == [step |-> "idle", rest |-> {}, answers |-> NoAnswers]

\* by: the tab that still waits for the answer; if none does, answers are not kept.
BatchState == [by : SUBSET Tabs, todo : SUBSET Ops, answers : Answers]

NoBatch == [by |-> {}, todo |-> {}, answers |-> NoAnswers]

Init ==
  /\ queue = [o \in Ops |-> [status |-> "absent", call |-> {}]]
  /\ tab = [t \in Tabs |-> NoFlush]
  /\ request = [r \in Requests |-> NoBatch]
  /\ record = [o \in Ops |-> "none"]
  /\ row = [x \in Rows |-> 1]
  /\ applied = [o \in Ops |-> 0]

-----------------------------------------------------------------------------
(* The device *)

\* enqueue: a mutation of a row the device has fetched, at whatever version.
Enqueue(o) ==
  /\ queue[o].status = "absent"
  /\ \E op \in {"create", "update", "unfit"}, x \in Rows : \E base \in 0..row[x] :
       /\ op # "update" => base = 0
       /\ queue' = [queue EXCEPT ![o] =
            [status |-> "pending", call |-> {[op |-> op, row |-> x, base |-> base]}]]
  /\ UNCHANGED <<tab, request, record, row, applied>>

\* requeue: a conflict or a failure goes back to pending, under the same id.
Requeue(o) ==
  /\ queue[o].status \in {"conflict", "failed"}
  /\ queue' = [queue EXCEPT ![o].status = "pending"]
  /\ UNCHANGED <<tab, request, record, row, applied>>

\* remove: the operation is dropped from the store.
Remove(o) ==
  /\ queue[o].status \notin {"absent", "removed"}
  /\ queue' = [queue EXCEPT ![o].status = "removed"]
  /\ UNCHANGED <<tab, request, record, row, applied>>

Pending == {o \in Ops : queue[o].status = "pending"}

\* flush with none in flight in this tab: on enqueue, on "online", at boot, on a
\* click on the indicator.
Flush(t) ==
  /\ tab[t].step = "idle" /\ Pending # {}
  /\ tab' = [tab EXCEPT ![t] = [NoFlush EXCEPT !.step = "send", !.rest = Pending]]
  /\ UNCHANGED <<queue, request, record, row, applied>>

Chunks(ops) == {c \in SUBSET ops :
  Cardinality(c) = ChunkSize \/ (c = ops /\ Cardinality(c) \in 1..ChunkSize)}

\* The next chunk goes out as it was read, whatever has become of it since.
SendChunk(t) ==
  /\ tab[t].step = "send"
  /\ \E r \in Requests, chunk \in Chunks(tab[t].rest) :
       /\ request[r] = NoBatch
       /\ request' = [request EXCEPT ![r] = [NoBatch EXCEPT !.by = {t}, !.todo = chunk]]
       /\ tab' = [tab EXCEPT ![t].step = "wait", ![t].rest = @ \ chunk]
  /\ UNCHANGED <<queue, record, row, applied>>

\* The tab no longer waits for the answer of any request.
Forget(t) ==
  request' = [r \in Requests |->
    IF t \in request[r].by THEN [request[r] EXCEPT !.by = {}, !.answers = NoAnswers]
    ELSE request[r]]

\* The chunk is dealt with: on to the next one, or the flush is over.
MoveOn(t) == tab' = [tab EXCEPT ![t] =
  IF tab[t].rest = {} THEN NoFlush ELSE [NoFlush EXCEPT !.step = "send", !.rest = tab[t].rest]]

\* fetch rejects or the status is not 2xx: attempts is bumped, the status kept.
CallFails(t) ==
  /\ tab[t].step = "wait"
  /\ "lost" \in Mishaps \/ \A r \in Requests : t \notin request[r].by
  /\ Forget(t)
  /\ MoveOn(t)
  /\ UNCHANGED <<queue, record, row, applied>>

\* Bug: the status of the answer, for want of a name for failures.
MarkedAsAnswered(answer) ==
  CASE answer \in {"success", "replay"} -> "synced" [] OTHER -> answer

\* Bug: whatever the server has answered is done.
MarkedAsDone(answer) == IF answer = "conflict" THEN "conflict" ELSE "synced"

MarkedAs(answer) ==
  CASE answer \in {"success", "replay"} -> "synced"
    [] answer = "conflict" -> "conflict"
    [] OTHER -> "failed"

\* _markSynced, _markConflict, _markFailed: one transaction for each result, and
\* nothing to do when the operation has been removed.  Then on to the next chunk.
Mark(t) ==
  /\ tab[t].step = "mark"
  /\ \E o \in Ops :
       /\ tab[t].answers[o] # "none"
       /\ queue' = [queue EXCEPT ![o].status =
                      IF @ = "removed" THEN @ ELSE MarkedAs(tab[t].answers[o])]
       /\ LET left == [tab[t].answers EXCEPT ![o] = "none"] IN
          IF left = NoAnswers THEN MoveOn(t)
          ELSE tab' = [tab EXCEPT ![t].answers = left]
  /\ UNCHANGED <<request, record, row, applied>>

\* The page is closed or reloaded; what it had in flight is gone.
TabCloses(t) ==
  /\ "close" \in Mishaps
  /\ tab[t].step # "idle"
  /\ tab' = [tab EXCEPT ![t] = NoFlush]
  /\ Forget(t)
  /\ UNCHANGED <<queue, record, row, applied>>

-----------------------------------------------------------------------------
(* The server *)

Answer(r, o, answer) ==
  request' = [request EXCEPT
    ![r].todo = @ \ {o}, ![r].answers[o] = IF request[r].by = {} THEN @ ELSE answer]

\* Bug: the UPDATE has no condition on updated_at.
OutcomesUnlocked(call) == IF call.op = "unfit" THEN {"error"} ELSE {"success"}

\* _dispatchCreate and _dispatchUpdate; _optimisticUpdate compares updated_at with
\* a base_updated_at that has lost its microseconds.
Outcomes(call) ==
  CASE call.op = "unfit" -> {"error"}
    [] call.op = "create" \/ call.base = 0 -> {"success"}
    [] call.base = row[call.row] -> {"success", "conflict"}
    [] OTHER -> {"conflict"}

\* The transaction of _processOne: mutation and ledger row commit together.  The
\* trigger of the table renews updated_at.
Commit(o, call, outcome) ==
  /\ record' = [record EXCEPT ![o] = outcome]
  /\ applied' = [applied EXCEPT ![o] = IF outcome = "success" THEN @ + 1 ELSE @]
  /\ row' = [row EXCEPT ![call.row] =
       IF outcome = "success" /\ call.op = "update" THEN @ + 1 ELSE @]

\* A ledger row is there: its cached result is returned as a replay.
Replay(r) ==
  /\ \E o \in request[r].todo : record[o] # "none" /\ Answer(r, o, "replay")
  /\ UNCHANGED <<queue, tab, record, row, applied>>

\* Bug: the ledger row is written without looking whether there is one.
ExecuteUnreserved(r) ==
  /\ \E o \in request[r].todo : \E call \in queue[o].call : \E outcome \in Outcomes(call) :
       Commit(o, call, outcome) /\ Answer(r, o, outcome)
  /\ UNCHANGED <<queue, tab>>

Execute(r) ==
  /\ \E o \in request[r].todo : \E call \in queue[o].call : \E outcome \in Outcomes(call) :
       /\ record[o] = "none"
       /\ Commit(o, call, outcome)
       /\ Answer(r, o, outcome)
  /\ UNCHANGED <<queue, tab>>

\* The transaction throws: it is rolled back, or the connection broke on a COMMIT
\* that went through.  Either way the answer is an error.
ExecuteFails(r) ==
  /\ "db" \in Mishaps
  /\ \E o \in request[r].todo : \E call \in queue[o].call : \E outcome \in Outcomes(call) :
       /\ record[o] = "none"
       /\ Commit(o, call, outcome) \/ UNCHANGED <<record, row, applied>>
       /\ Answer(r, o, "error")
  /\ UNCHANGED <<queue, tab>>

\* The process dies, or the look-up of the ledger throws: no answer at all.
BatchDies(r) ==
  /\ "crash" \in Mishaps
  /\ request[r] # NoBatch
  /\ request' = [request EXCEPT ![r] = NoBatch]
  /\ UNCHANGED <<queue, tab, record, row, applied>>

Reply(r) ==
  /\ request[r] # NoBatch /\ request[r].todo = {}
  /\ tab' = [t \in Tabs |->
       IF t \in request[r].by
       THEN [tab[t] EXCEPT !.step = "mark", !.answers = request[r].answers] ELSE tab[t]]
  /\ request' = [request EXCEPT ![r] = NoBatch]
  /\ UNCHANGED <<queue, record, row, applied>>

\* Somebody else edits the row.
Edit(x) ==
  /\ row[x] < MaxVersion
  /\ row' = [row EXCEPT ![x] = @ + 1]
  /\ UNCHANGED <<queue, tab, request, record, applied>>

-----------------------------------------------------------------------------
Device ==
  \/ \E o \in Ops : Enqueue(o) \/ Requeue(o) \/ Remove(o)
  \/ \E t \in Tabs :
       \/ Flush(t) \/ SendChunk(t) \/ CallFails(t) \/ Mark(t)
       \/ TabCloses(t)

Server ==
  \/ \E r \in Requests :
       Replay(r) \/ Execute(r) \/ ExecuteFails(r) \/ BatchDies(r) \/ Reply(r)
  \/ \E x \in Rows : Edit(x)

Next == Device \/ Server

Spec == Init /\ [][Next]_vars

-----------------------------------------------------------------------------
(* Correctness *)

\* Every variable keeps its type.
TypeOK ==
  /\ queue \in [Ops -> QueuedOp]
  /\ tab \in [Tabs -> FlushState]
  /\ request \in [Requests -> BatchState]
  /\ record \in [Ops -> {"none", "success", "conflict", "error"}]
  /\ row \in [Rows -> Nat]
  /\ applied \in [Ops -> Nat]

\* "Retries that hit an already-processed client_op_id return the cached result
\* instead of re-executing the mutation": however often an operation is sent, by
\* however many tabs, it takes effect once if its ledger row says success and not
\* at all otherwise.
AppliedOnce == \A o \in Ops : applied[o] = IF record[o] = "success" THEN 1 ELSE 0

\* Two operations made from the same version of a row are never both applied: one
\* of two people who edited the same thing offline is told of the conflict.
OneWinsPerVersion ==
  \A o, p \in Ops : o # p =>
    \A c \in queue[o].call, d \in queue[p].call :
      /\ c.op = "update" /\ d.op = "update"
      /\ c.row = d.row /\ c.base = d.base /\ c.base > 0
      => ~(applied[o] = 1 /\ applied[p] = 1)

\* The device settles an operation only by what the server has on record: synced
\* when a result is recorded, conflict when that result is a conflict.
SettledIsRecorded ==
  \A o \in Ops :
    /\ queue[o].status = "synced" => record[o] # "none"
    /\ queue[o].status = "conflict" => record[o] = "conflict"

\* "Ops that returned status='conflict' or 'error' stay in the store with that flag
\* so the UI can surface them": what the server has refused is not called synced.
\* A replayed refusal is, for MarkedAs takes any replay for a success.
RefusalSurfaces ==
  \A o \in Ops : record[o] \in {"conflict", "error"} => queue[o].status # "synced"
=============================================================================
