----------------------------- MODULE MobileSync -----------------------------
(***************************************************************************)
(* The upload of offline edits (api/services/mobile/syncEngine.ts) and the *)
(* resolution of their conflicts (conflictResolver.ts).  Each edit carries *)
(* a client_id; the server records it, applies it and records the outcome, *)
(* in statements that share no transaction.                                *)
(*                                                                         *)
(* One action is one statement.  A device repeats an upload whenever it    *)
(* has no answer, so uploads of the same edit overlap.  The type of an     *)
(* edit, which decides on its handler, is left open.                       *)
(***************************************************************************)
EXTENDS Integers

CONSTANTS
  Edits,    \* client_ids of one device
  Uploads   \* uploads in progress, each at one of its edits

VARIABLES
  edit,       \* offline_mutations
  conflict,   \* offline_conflicts
  gone,       \* edits whose entity is missing: never there, or deleted
  effects,    \* history: how often each edit changed or made its entity
  upload,     \* what each upload is doing
  resolving   \* resolutions recorded and not yet carried over to the edit

syncVars == <<edit, conflict, gone, effects, upload, resolving>>

-----------------------------------------------------------------------------
EditStatuses == {"none", "pending", "applied", "conflicted", "rejected"}
Resolutions  == {"client_wins", "server_wins", "merged", "rejected"}

IdleUpload == [step |-> "idle"]
SyncSteps == {"insert", "dispatch", "write", "applied", "conflict", "conflicted", "rejected"}
BusyUpload == [step : SyncSteps, edit : Edits]

SyncInit ==
  /\ edit = [e \in Edits |-> "none"]
  /\ conflict = [e \in Edits |-> "none"]
  /\ gone = {}
  /\ effects = [e \in Edits |-> 0]
  /\ upload = [u \in Uploads |-> IdleUpload]
  /\ resolving = {}

Then(u, step) == upload' = [upload EXCEPT ![u].step = step]
NextEdit(u)   == upload' = [upload EXCEPT ![u] = IdleUpload]
Mark(u, status) == edit' = [edit EXCEPT ![upload[u].edit] = status]

-----------------------------------------------------------------------------
(* applyMutation *)

\* The SELECT by client_id finds nothing; a row of any status is skipped.
LookUp(u, e) ==
  /\ upload[u] = IdleUpload
  /\ edit[e] = "none"
  /\ upload' = [upload EXCEPT ![u] = [step |-> "insert", edit |-> e]]
  /\ UNCHANGED <<edit, conflict, gone, effects, resolving>>

\* Bug: ON CONFLICT DO UPDATE makes the row pending again and goes on.
UpsertEdit(u) ==
  /\ upload[u].step = "insert"
  /\ Mark(u, "pending") /\ Then(u, "dispatch")
  /\ UNCHANGED <<conflict, gone, effects, resolving>>

\* The INSERT; UNIQUE (tenant_id, device_id, client_id) ends the upload if
\* another one was faster.
InsertEdit(u) ==
  /\ upload[u].step = "insert"
  /\ IF edit[upload[u].edit] = "none" THEN Mark(u, "pending") /\ Then(u, "dispatch")
     ELSE NextEdit(u) /\ UNCHANGED edit
  /\ UNCHANGED <<conflict, gone, effects, resolving>>

\* The statement of the handler is done, or done and its answer lost.
Written(u) == Then(u, "applied") \/ Then(u, "rejected")

Write(u) ==
  /\ effects' = [effects EXCEPT ![upload[u].edit] = @ + 1]
  /\ Written(u)

\* UPDATE ... WHERE id = $1, whose row count nobody looks at.
Update(u) ==
  \/ upload[u].edit \notin gone /\ Write(u)
  \/ upload[u].edit \in gone /\ Written(u) /\ UNCHANGED effects

\* A new punch item, or the notes of a daily log: INSERT, ON CONFLICT DO UPDATE.
DispatchCreate(u) ==
  /\ upload[u].step = "dispatch"
  /\ Write(u)
  /\ UNCHANGED <<edit, conflict, gone, resolving>>

\* complete_inspection: the UPDATE, without a look whether the row is there.
DispatchComplete(u) ==
  /\ upload[u].step = "dispatch"
  /\ Update(u)
  /\ UNCHANGED <<edit, conflict, gone, resolving>>

\* update_punch_item: a SELECT, after which a missing row is a conflict ...
DispatchUpdate(u) ==
  /\ upload[u].step = "dispatch"
  /\ Then(u, IF upload[u].edit \in gone THEN "conflict" ELSE "write")
  /\ UNCHANGED <<edit, conflict, gone, effects, resolving>>

\* ... and then the UPDATE.
UpdateFound(u) ==
  /\ upload[u].step = "write"
  /\ Update(u)
  /\ UNCHANGED <<edit, conflict, gone, resolving>>

\* Unknown type, a constraint, a column the tables do not have, a lost connection.
DispatchThrows(u) ==
  /\ upload[u].step \in {"dispatch", "write"}
  /\ Then(u, "rejected")
  /\ UNCHANGED <<edit, conflict, gone, effects, resolving>>

Dispatch(u) ==
  \/ DispatchCreate(u) \/ DispatchComplete(u) \/ DispatchUpdate(u)
  \/ UpdateFound(u) \/ DispatchThrows(u)

MarkApplied(u) ==
  /\ upload[u].step = "applied"
  /\ Mark(u, "applied") /\ NextEdit(u)
  /\ UNCHANGED <<conflict, gone, effects, resolving>>

\* This UPDATE is inside the try block: its failure rejects an applied edit.
MarkAppliedFails(u) ==
  /\ upload[u].step = "applied"
  /\ Then(u, "rejected")
  /\ UNCHANGED <<edit, conflict, gone, effects, resolving>>

RecordConflict(u) ==
  /\ upload[u].step = "conflict"
  /\ conflict' = [conflict EXCEPT ![upload[u].edit] = "open"]
  /\ Then(u, "conflicted")
  /\ UNCHANGED <<edit, gone, effects, resolving>>

MarkConflicted(u) ==
  /\ upload[u].step = "conflicted"
  /\ Mark(u, "conflicted") /\ NextEdit(u)
  /\ UNCHANGED <<conflict, gone, effects, resolving>>

MarkRejected(u) ==
  /\ upload[u].step = "rejected"
  /\ Mark(u, "rejected") /\ NextEdit(u)
  /\ UNCHANGED <<conflict, gone, effects, resolving>>

\* A statement outside the try block fails, or the process dies.
BreakOff(u) ==
  /\ upload[u] # IdleUpload
  /\ NextEdit(u)
  /\ UNCHANGED <<edit, conflict, gone, effects, resolving>>

\* DELETE /punch-items/:id, or with the punch list or the project it is of.
DeleteEntity(e) ==
  /\ gone' = gone \cup {e}
  /\ UNCHANGED <<edit, conflict, effects, upload, resolving>>

-----------------------------------------------------------------------------
(* resolveConflict *)

\* The first UPDATE; one that was resolved before is resolved again.
RecordResolution(e) ==
  /\ conflict[e] # "none"
  /\ \E strategy \in Resolutions :
       /\ conflict' = [conflict EXCEPT ![e] = strategy]
       /\ resolving' = resolving \cup {[edit |-> e, strategy |-> strategy]}
  /\ UNCHANGED <<edit, gone, effects, upload>>

\* Bug: stores the strategy where the status belongs.
CarryStrategy(x) ==
  /\ edit' = [edit EXCEPT ![x.edit] = x.strategy]
  /\ resolving' = resolving \ {x}
  /\ UNCHANGED <<conflict, gone, effects, upload>>

\* The second: whatever wins, nothing is written to the entity.
CarryOver(x) ==
  /\ edit' = [edit EXCEPT ![x.edit] =
       IF x.strategy = "rejected" THEN "rejected" ELSE "applied"]
  /\ resolving' = resolving \ {x}
  /\ UNCHANGED <<conflict, gone, effects, upload>>

\* It fails, or the process dies before it.
DropResolution(x) ==
  /\ resolving' = resolving \ {x}
  /\ UNCHANGED <<edit, conflict, gone, effects, upload>>

SyncNext ==
  \/ \E u \in Uploads, e \in Edits : LookUp(u, e)
  \/ \E u \in Uploads :
       \/ InsertEdit(u) \/ Dispatch(u)
       \/ MarkApplied(u) \/ MarkAppliedFails(u) \/ RecordConflict(u)
       \/ MarkConflicted(u) \/ MarkRejected(u) \/ BreakOff(u)
  \/ \E e \in Edits : DeleteEntity(e) \/ RecordResolution(e)
  \/ \E x \in resolving : CarryOver(x) \/ DropResolution(x)

SyncSpec == SyncInit /\ [][SyncNext]_syncVars

-----------------------------------------------------------------------------
(* Correctness *)

SyncTypeOK ==
  /\ edit \in [Edits -> EditStatuses]
  /\ conflict \in [Edits -> {"none", "open"} \cup Resolutions]
  /\ gone \subseteq Edits
  /\ effects \in [Edits -> Nat]
  /\ upload \in [Uploads -> BusyUpload \cup {IdleUpload}]
  /\ resolving \subseteq [edit : Edits, strategy : Resolutions]

\* An edit takes effect at most once, and not at all if it is in conflict,
\* however often and in how many overlapping uploads the device repeats it.  It is
\* called applied only if it was, if its conflict was resolved, or if there was
\* nothing to apply it to: an entity deleted behind the handler's SELECT, or an
\* inspection that is not there, makes no conflict.
EditedOnce ==
  \A e \in Edits :
    /\ effects[e] <= IF conflict[e] = "none" /\ edit[e] # "none" THEN 1 ELSE 0
    /\ edit[e] = "applied" /\ conflict[e] = "none" => effects[e] = 1 \/ e \in gone
=============================================================================
