------------------------ MODULE FieldRecords_proofs ------------------------
(***************************************************************************)
(* Theorems about what comes in from the field: MobileSync, for any edits  *)
(* and any number of uploads that overlap, and CostPosting, for any        *)
(* documents, amounts and number of approvals in progress.                 *)
(***************************************************************************)
EXTENDS MobileSync, CostPosting, TLAPS

-----------------------------------------------------------------------------
(* MobileSync *)

\* The upload has inserted the row of its edit.
PastSteps == {"dispatch", "write", "applied", "conflict", "conflicted", "rejected"}
Owns(u, e) == upload[u].step \in PastSteps /\ upload[u].edit = e

\* Whoever inserted the row of an edit is alone with it until it lets go, and
\* nobody comes after it.
Owned ==
  \A u \in Uploads, e \in Edits : Owns(u, e) =>
    /\ edit[e] # "none"
    /\ \A v \in Uploads : Owns(v, e) => v = u
    /\ upload[u].step \in {"dispatch", "write", "conflict"} =>
         effects[e] = 0 /\ conflict[e] = "none"
    /\ upload[u].step = "applied" => (effects[e] = 1 \/ e \in gone) /\ conflict[e] = "none"
    /\ upload[u].step = "conflicted" => conflict[e] # "none"

Recorded ==
  \A e \in Edits :
    /\ effects[e] <= 1
    /\ edit[e] = "none" => effects[e] = 0 /\ conflict[e] = "none"
    /\ conflict[e] # "none" => effects[e] = 0
    /\ edit[e] = "applied" /\ conflict[e] = "none" => effects[e] = 1 \/ e \in gone

ResolvedConflicts == \A x \in resolving : conflict[x.edit] # "none"

SyncInv == SyncTypeOK /\ Owned /\ Recorded /\ ResolvedConflicts

LEMMA BusyUploads ==
  ASSUME SyncTypeOK, NEW u \in Uploads, upload[u].step # "idle"
  PROVE  upload[u] \in BusyUpload /\ upload[u].edit \in Edits
BY DEF SyncTypeOK, BusyUpload, IdleUpload

\* Only the upload that moves changes, and it stays with its edit.
LEMMA ThenKeeps ==
  ASSUME SyncTypeOK, NEW u \in Uploads, upload[u].step # "idle", NEW step \in SyncSteps,
         Then(u, step)
  PROVE  /\ upload' \in [Uploads -> BusyUpload \cup {IdleUpload}]
         /\ upload'[u].step = step /\ upload'[u].edit = upload[u].edit
         /\ \A v \in Uploads \ {u} : upload'[v] = upload[v]
<1> DEFINE moved == [upload[u] EXCEPT !.step = step]
<1>1. moved \in BusyUpload /\ moved.step = step /\ moved.edit = upload[u].edit
  BY BusyUploads DEF BusyUpload
<1>2. upload' = [upload EXCEPT ![u] = moved]
  BY DEF Then, SyncTypeOK
<1> HIDE DEF moved
<1> QED BY <1>1, <1>2 DEF SyncTypeOK

LEMMA NextEditKeeps ==
  ASSUME SyncTypeOK, NEW u \in Uploads, NextEdit(u)
  PROVE  /\ upload' \in [Uploads -> BusyUpload \cup {IdleUpload}]
         /\ upload'[u].step = "idle"
         /\ \A v \in Uploads \ {u} : upload'[v] = upload[v]
BY DEF NextEdit, SyncTypeOK, IdleUpload

\* The status of an edit: whatever it becomes, it is recorded from then on.
LEMMA EditSet ==
  ASSUME SyncTypeOK, NEW e \in Edits, NEW status \in EditStatuses,
         edit' = [edit EXCEPT ![e] = status]
  PROVE  /\ edit' \in [Edits -> EditStatuses]
         /\ \A d \in Edits : edit'[d] = IF d = e THEN status ELSE edit[d]
BY DEF SyncTypeOK

LEMMA SyncInitially == SyncInit => SyncInv
BY DEF SyncInit, SyncInv, SyncTypeOK, Owned, Owns, Recorded, ResolvedConflicts,
   EditStatuses, IdleUpload, PastSteps

-----------------------------------------------------------------------------
LEMMA LookUpStep ==
  ASSUME SyncInv, NEW u \in Uploads, NEW e \in Edits, LookUp(u, e)
  PROVE  SyncInv'
<1> DEFINE begun == [step |-> "insert", edit |-> e]
<1>1. begun \in BusyUpload /\ begun.step = "insert"
  BY DEF BusyUpload, SyncSteps
<1>2. upload' = [upload EXCEPT ![u] = begun] /\ UNCHANGED <<edit, conflict, gone, effects, resolving>>
  BY DEF LookUp
<1> HIDE DEF begun
<1>3. \A v \in Uploads : upload'[v] = IF v = u THEN begun ELSE upload[v]
  BY <1>2 DEF SyncInv, SyncTypeOK
<1>4. \A v \in Uploads, d \in Edits : Owns(v, d)' => Owns(v, d) /\ upload'[v] = upload[v]
  BY <1>1, <1>3 DEF Owns, PastSteps
<1> QED BY <1>1, <1>2, <1>4 DEF SyncInv, SyncTypeOK, Owned, Recorded, ResolvedConflicts

LEMMA InsertStep ==
  ASSUME SyncInv, NEW u \in Uploads, InsertEdit(u)
  PROVE  SyncInv'
<1> DEFINE e == upload[u].edit
<1>1. upload[u].step # "idle" /\ e \in Edits
  BY BusyUploads DEF InsertEdit, SyncInv
<1>2. CASE edit[e] = "none"
  <2>1. Mark(u, "pending") /\ Then(u, "dispatch") /\ UNCHANGED <<conflict, gone, effects, resolving>>
    BY <1>2 DEF InsertEdit
  <2>2. /\ upload' \in [Uploads -> BusyUpload \cup {IdleUpload}]
        /\ upload'[u].step = "dispatch" /\ upload'[u].edit = e
        /\ \A v \in Uploads \ {u} : upload'[v] = upload[v]
    BY <1>1, <2>1, ThenKeeps DEF SyncInv, SyncSteps
  <2>3. /\ edit' \in [Edits -> EditStatuses]
        /\ \A d \in Edits : edit'[d] = IF d = e THEN "pending" ELSE edit[d]
    BY <1>1, <2>1, EditSet DEF SyncInv, Mark, EditStatuses
  <2>4. \A v \in Uploads : ~Owns(v, e)
    BY <1>1, <1>2 DEF SyncInv, Owned
  <2> HIDE DEF e
  <2>5. \A v \in Uploads, d \in Edits :
          Owns(v, d)' => \/ v = u /\ d = e
                         \/ v # u /\ d # e /\ Owns(v, d) /\ upload'[v] = upload[v]
    BY <2>2, <2>4 DEF Owns
  <2>6. effects[e] = 0 /\ conflict[e] = "none"
    BY <1>1, <1>2 DEF SyncInv, Recorded
  <2>7. Owned'
    BY <2>1, <2>2, <2>3, <2>5, <2>6 DEF SyncInv, Owned
  <2> QED BY <1>1, <2>1, <2>2, <2>3, <2>6, <2>7 DEF SyncInv, SyncTypeOK, Recorded, ResolvedConflicts
<1>3. CASE edit[e] # "none"
  <2>1. NextEdit(u) /\ UNCHANGED <<edit, conflict, gone, effects, resolving>>
    BY <1>3 DEF InsertEdit
  <2> QED BY <2>1, NextEditKeeps
          DEF SyncInv, SyncTypeOK, Owned, Owns, Recorded, ResolvedConflicts, PastSteps
<1> QED BY <1>2, <1>3

\* What the steps of a dispatched upload have in common: it moves on or lets
\* go, and touches the row, the conflict and the entity of its own edit only.
LEMMA OwnerStep ==
  ASSUME SyncInv, NEW u \in Uploads, NEW e \in Edits, Owns(u, e),
         NEW step \in PastSteps,
         \/ Then(u, step) /\ edit' = edit
         \/ NextEdit(u) /\ \E status \in EditStatuses \ {"none"} :
              /\ edit' = [edit EXCEPT ![e] = status]
              /\ status = "applied" => effects'[e] = 1 \/ e \in gone \/ conflict'[e] # "none"
         \/ NextEdit(u) /\ edit' = edit,
         effects' \in [Edits -> Nat], conflict' \in [Edits -> {"none", "open"} \cup Resolutions],
         \A d \in Edits \ {e} : effects'[d] = effects[d] /\ conflict'[d] = conflict[d],
         effects'[e] <= 1, conflict'[e] # "none" => effects'[e] = 0,
         conflict[e] # "none" => conflict'[e] # "none",
         effects[e] = 1 => effects'[e] = 1,
         Then(u, step) =>
            /\ step \in {"dispatch", "write", "conflict"} =>
                 effects'[e] = 0 /\ conflict'[e] = "none"
            /\ step = "applied" => (effects'[e] = 1 \/ e \in gone) /\ conflict'[e] = "none"
            /\ step = "conflicted" => conflict'[e] # "none",
         UNCHANGED <<gone, resolving>>
  PROVE  SyncInv'
<1>1. upload[u].step # "idle" /\ upload[u].edit = e /\ step \in SyncSteps
  BY DEF Owns, PastSteps, SyncSteps
<1>2. /\ upload' \in [Uploads -> BusyUpload \cup {IdleUpload}]
      /\ \A v \in Uploads \ {u} : upload'[v] = upload[v]
      /\ \/ upload'[u].step = "idle"
         \/ Then(u, step) /\ upload'[u].step = step /\ upload'[u].edit = e
  BY <1>1, ThenKeeps, NextEditKeeps DEF SyncInv
<1>3. /\ edit' \in [Edits -> EditStatuses]
      /\ \A d \in Edits \ {e} : edit'[d] = edit[d]
      /\ edit'[e] # "none"
      /\ edit'[e] = "applied" =>
           edit[e] = "applied" \/ effects'[e] = 1 \/ e \in gone \/ conflict'[e] # "none"
  BY DEF SyncInv, SyncTypeOK, Owned
<1>4. \A v \in Uploads, d \in Edits :
        Owns(v, d)' => \/ v = u /\ d = e /\ upload'[u].step # "idle"
                       \/ v # u /\ d # e /\ Owns(v, d) /\ upload'[v] = upload[v]
  BY <1>1, <1>2 DEF SyncInv, Owned, Owns, PastSteps
<1>5. Owned'
  BY <1>2, <1>3, <1>4 DEF SyncInv, Owned
<1>6. Recorded'
  BY <1>3 DEF SyncInv, SyncTypeOK, Recorded
<1>7. ResolvedConflicts'
  BY DEF SyncInv, SyncTypeOK, ResolvedConflicts
<1> QED BY <1>2, <1>3, <1>5, <1>6, <1>7 DEF SyncInv, SyncTypeOK

LEMMA UploadStep ==
  ASSUME SyncInv, NEW u \in Uploads,
         \/ Dispatch(u) \/ MarkApplied(u) \/ MarkAppliedFails(u)
         \/ RecordConflict(u) \/ MarkConflicted(u) \/ MarkRejected(u)
  PROVE  SyncInv'
<1> DEFINE e == upload[u].edit
<1>1. e \in Edits /\ Owns(u, e)
  <2>1. upload[u].step \in PastSteps
    BY DEF Dispatch, DispatchCreate, DispatchComplete, DispatchUpdate, UpdateFound,
           DispatchThrows, MarkApplied, MarkAppliedFails, RecordConflict,
           MarkConflicted, MarkRejected, PastSteps
  <2>2. upload[u].step # "idle"
    BY <2>1 DEF PastSteps
  <2> QED BY <2>1, <2>2, BusyUploads DEF SyncInv, Owns
<1>2. /\ effects \in [Edits -> Nat] /\ conflict \in [Edits -> {"none", "open"} \cup Resolutions]
      /\ effects[e] <= 1 /\ (conflict[e] # "none" => effects[e] = 0)
  BY <1>1 DEF SyncInv, SyncTypeOK, Recorded
<1>3. /\ upload[u].step \in {"dispatch", "write", "conflict"} =>
           effects[e] = 0 /\ conflict[e] = "none"
      /\ upload[u].step = "applied" => (effects[e] = 1 \/ e \in gone) /\ conflict[e] = "none"
      /\ upload[u].step = "conflicted" => conflict[e] # "none"
  BY <1>1 DEF SyncInv, Owned
<1>4. CASE /\ upload[u].step \in {"dispatch", "write"} /\ Written(u)
           /\ Write(u) \/ (e \in gone /\ UNCHANGED effects)
           /\ UNCHANGED <<edit, conflict, gone, resolving>>
  <2>1. PICK step \in {"applied", "rejected"} : Then(u, step)
    BY <1>4 DEF Written
  <2>2. effects[e] = 0 /\ conflict[e] = "none"
    BY <1>3, <1>4
  <2>3. /\ effects' \in [Edits -> Nat] /\ effects'[e] <= 1
        /\ effects'[e] = 1 \/ e \in gone
        /\ \A d \in Edits \ {e} : effects'[d] = effects[d]
    BY <1>1, <1>2, <1>4, <2>2 DEF Write
  <2>4. UNCHANGED <<edit, conflict, gone, resolving>>
    BY <1>4
  <2> HIDE DEF e
  <2> QED BY <1>1, <1>2, <2>1, <2>2, <2>3, <2>4, OwnerStep DEF PastSteps
<1>5. CASE DispatchUpdate(u) \/ DispatchThrows(u)
  <2>1. PICK step \in {"conflict", "write", "rejected"} : Then(u, step)
    BY <1>5 DEF DispatchUpdate, DispatchThrows
  <2>2. effects[e] = 0 /\ conflict[e] = "none"
        /\ UNCHANGED <<edit, conflict, gone, effects, resolving>>
    BY <1>3, <1>5 DEF DispatchUpdate, DispatchThrows
  <2> HIDE DEF e
  <2> QED BY <1>1, <1>2, <2>1, <2>2, OwnerStep DEF PastSteps
<1>11. CASE Dispatch(u)
  <2>1. CASE DispatchCreate(u) \/ DispatchComplete(u) \/ UpdateFound(u)
    BY <1>4, <2>1 DEF DispatchCreate, DispatchComplete, UpdateFound, Update, Write
  <2> QED BY <1>5, <1>11, <2>1 DEF Dispatch
<1>6. CASE MarkApplied(u)
  <2>1. NextEdit(u) /\ edit' = [edit EXCEPT ![e] = "applied"]
        /\ UNCHANGED <<conflict, gone, effects, resolving>> /\ (effects[e] = 1 \/ e \in gone)
    BY <1>3, <1>6 DEF MarkApplied, Mark
  <2>2. ~Then(u, "rejected")
    BY <2>1, <1>1, ThenKeeps, NextEditKeeps DEF SyncInv, Owns, PastSteps, SyncSteps
  <2> HIDE DEF e
  <2> QED BY <1>1, <1>2, <2>1, <2>2, OwnerStep DEF PastSteps, EditStatuses
<1>7. CASE MarkAppliedFails(u)
  <2>1. Then(u, "rejected") /\ UNCHANGED <<edit, conflict, gone, effects, resolving>>
    BY <1>7 DEF MarkAppliedFails
  <2> HIDE DEF e
  <2> QED BY <1>1, <1>2, <2>1, OwnerStep DEF PastSteps
<1>8. CASE RecordConflict(u)
  <2>1. Then(u, "conflicted") /\ conflict' = [conflict EXCEPT ![e] = "open"]
        /\ UNCHANGED <<edit, gone, effects, resolving>> /\ effects[e] = 0
    BY <1>3, <1>8 DEF RecordConflict
  <2>2. /\ conflict' \in [Edits -> {"none", "open"} \cup Resolutions] /\ conflict'[e] = "open"
        /\ \A d \in Edits \ {e} : conflict'[d] = conflict[d]
    BY <1>1, <1>2, <2>1
  <2> HIDE DEF e
  <2> QED BY <1>1, <1>2, <2>1, <2>2, OwnerStep DEF PastSteps
<1>9. CASE MarkConflicted(u)
  <2>1. NextEdit(u) /\ edit' = [edit EXCEPT ![e] = "conflicted"]
        /\ UNCHANGED <<conflict, gone, effects, resolving>>
    BY <1>9 DEF MarkConflicted, Mark
  <2> HIDE DEF e
  <2>2. \E status \in EditStatuses \ {"none"} :
          /\ edit' = [edit EXCEPT ![e] = status]
          /\ status = "applied" => effects'[e] = 1 \/ e \in gone \/ conflict'[e] # "none"
    <3>1. "conflicted" \in EditStatuses \ {"none"} /\ "conflicted" # "applied"
      BY DEF EditStatuses
    <3> QED BY <2>1, <3>1
  <2>3. "rejected" \in PastSteps
    BY DEF PastSteps
  <2>4. /\ \A d \in Edits \ {e} : effects'[d] = effects[d] /\ conflict'[d] = conflict[d]
        /\ effects' \in [Edits -> Nat] /\ conflict' \in [Edits -> {"none", "open"} \cup Resolutions]
        /\ effects'[e] <= 1 /\ (conflict'[e] # "none" => effects'[e] = 0)
        /\ conflict'[e] = conflict[e] /\ effects'[e] = effects[e]
    BY <1>2, <2>1
  <2> QED BY <1>1, <2>1, <2>2, <2>3, <2>4, OwnerStep
<1>10. CASE MarkRejected(u)
  <2>1. NextEdit(u) /\ edit' = [edit EXCEPT ![e] = "rejected"]
        /\ UNCHANGED <<conflict, gone, effects, resolving>>
    BY <1>10 DEF MarkRejected, Mark
  <2> HIDE DEF e
  <2>2. \E status \in EditStatuses \ {"none"} :
          /\ edit' = [edit EXCEPT ![e] = status]
          /\ status = "applied" => effects'[e] = 1 \/ e \in gone \/ conflict'[e] # "none"
    <3>1. "rejected" \in EditStatuses \ {"none"} /\ "rejected" # "applied"
      BY DEF EditStatuses
    <3> QED BY <2>1, <3>1
  <2>3. "rejected" \in PastSteps
    BY DEF PastSteps
  <2>4. /\ \A d \in Edits \ {e} : effects'[d] = effects[d] /\ conflict'[d] = conflict[d]
        /\ effects' \in [Edits -> Nat] /\ conflict' \in [Edits -> {"none", "open"} \cup Resolutions]
        /\ effects'[e] <= 1 /\ (conflict'[e] # "none" => effects'[e] = 0)
        /\ conflict'[e] = conflict[e] /\ effects'[e] = effects[e]
    BY <1>2, <2>1
  <2> QED BY <1>1, <2>1, <2>2, <2>3, <2>4, OwnerStep
<1> QED BY <1>6, <1>7, <1>8, <1>9, <1>10, <1>11

LEMMA BreakOffStep ==
  ASSUME SyncInv, NEW u \in Uploads, BreakOff(u)
  PROVE  SyncInv'
BY NextEditKeeps DEF BreakOff, SyncInv, SyncTypeOK, Owned, Owns, Recorded, ResolvedConflicts, PastSteps

LEMMA EntityStep ==
  ASSUME SyncInv, NEW e \in Edits, DeleteEntity(e)
  PROVE  SyncInv'
BY DEF DeleteEntity, SyncInv, SyncTypeOK, Owned, Owns, Recorded, ResolvedConflicts

LEMMA ResolutionStep ==
  ASSUME SyncInv,
         \/ \E e \in Edits : RecordResolution(e)
         \/ \E x \in resolving : CarryOver(x) \/ DropResolution(x)
  PROVE  SyncInv'
<1>1. CASE \E e \in Edits : RecordResolution(e)
  <2>1. PICK e \in Edits : RecordResolution(e)
    BY <1>1
  <2>2. PICK strategy \in Resolutions :
          /\ conflict' = [conflict EXCEPT ![e] = strategy]
          /\ resolving' = resolving \cup {[edit |-> e, strategy |-> strategy]}
    BY <2>1 DEF RecordResolution
  <2>3. conflict[e] # "none" /\ strategy # "none" /\ UNCHANGED <<edit, gone, effects, upload>>
    BY <2>1 DEF RecordResolution, Resolutions
  <2>4. /\ conflict' \in [Edits -> {"none", "open"} \cup Resolutions]
        /\ \A d \in Edits : conflict'[d] = "none" <=> conflict[d] = "none"
    BY <2>2, <2>3 DEF SyncInv, SyncTypeOK
  <2>5. SyncTypeOK' /\ ResolvedConflicts'
    BY <2>2, <2>3, <2>4 DEF SyncInv, SyncTypeOK, ResolvedConflicts
  <2> QED BY <2>3, <2>4, <2>5 DEF SyncInv, Owned, Owns, Recorded
<1>2. CASE \E x \in resolving : CarryOver(x)
  <2>1. PICK x \in resolving : CarryOver(x)
    BY <1>2
  <2> DEFINE status == IF x.strategy = "rejected" THEN "rejected" ELSE "applied"
             e == x.edit
  <2>2. e \in Edits /\ conflict[e] # "none" /\ status \in EditStatuses \ {"none"}
    BY DEF SyncInv, SyncTypeOK, ResolvedConflicts, EditStatuses
  <2>3. /\ edit' = [edit EXCEPT ![e] = status] /\ resolving' = resolving \ {x}
        /\ UNCHANGED <<conflict, gone, effects, upload>>
    BY <2>1 DEF CarryOver
  <2> HIDE DEF e, status
  <2>4. /\ edit' \in [Edits -> EditStatuses]
        /\ \A d \in Edits : edit'[d] = IF d = e THEN status ELSE edit[d]
    BY <2>2, <2>3, EditSet DEF SyncInv
  <2> QED BY <2>2, <2>3, <2>4 DEF SyncInv, SyncTypeOK, Owned, Owns, Recorded, ResolvedConflicts
<1>3. CASE \E x \in resolving : DropResolution(x)
  BY <1>3 DEF DropResolution, SyncInv, SyncTypeOK, Owned, Owns, Recorded, ResolvedConflicts
<1> QED BY <1>1, <1>2, <1>3

LEMMA SyncInvariant == SyncSpec => []SyncInv
<1>1. SyncInv /\ [SyncNext]_syncVars => SyncInv'
  <2> SUFFICES ASSUME SyncInv, [SyncNext]_syncVars PROVE SyncInv'
    OBVIOUS
  <2>1. CASE UNCHANGED syncVars
    BY <2>1 DEF syncVars, SyncInv, SyncTypeOK, Owned, Owns, Recorded, ResolvedConflicts
  <2>2. CASE SyncNext
    BY <2>2, LookUpStep, InsertStep, UploadStep, BreakOffStep, EntityStep, ResolutionStep DEF SyncNext
  <2> QED BY <2>1, <2>2
<1> QED BY <1>1, SyncInitially, PTL DEF SyncSpec

\* An edit takes effect at most once, for applyMutation and resolveConflict, in
\* any number of overlapping uploads and whatever statement fails; and one that is
\* called applied did, or was resolved, or had lost the row it was about.
THEOREM EditsTakeEffectOnce == SyncSpec => []EditedOnce
<1>1. SyncInv => EditedOnce
  <2> SUFFICES ASSUME SyncInv, NEW e \in Edits
               PROVE  /\ effects[e] <= IF conflict[e] = "none" /\ edit[e] # "none" THEN 1 ELSE 0
                      /\ edit[e] = "applied" /\ conflict[e] = "none" => effects[e] = 1 \/ e \in gone
    BY DEF EditedOnce
  <2> QED BY DEF SyncInv, SyncTypeOK, Recorded
<1> QED BY <1>1, SyncInvariant, PTL

\* The rows and the uploads always have the form the tables and the code give.
THEOREM SyncTyping == SyncSpec => []SyncTypeOK
BY SyncInvariant, PTL DEF SyncInv

-----------------------------------------------------------------------------
(* CostPosting *)

\* A transaction has its document to itself, and it is still as it was read.
HeldAsRead ==
  \A a \in Approvers : approval[a] # Idle =>
    /\ Postable(approval[a].doc)
    /\ doc[approval[a].doc].amount = approval[a].amount
    /\ \A b \in Approvers : approval[b] # Idle /\ approval[b].doc = approval[a].doc => b = a

CostInv == CostTypeOK /\ HeldAsRead /\ PostedOnce

LEMMA PostableIsOpen ==
  ASSUME NEW d \in Docs, Postable(d) PROVE ~Closed(d)
BY DEF Postable, Closed

LEMMA HeldDoc ==
  ASSUME CostTypeOK, NEW a \in Approvers, approval[a] # Idle
  PROVE  approval[a].doc \in Docs /\ approval[a].amount \in Amounts \cup {0}
BY DEF CostTypeOK, Posting

\* A row nobody holds may be written, as long as it is not closed by that.
LEMMA OpenDocWritten ==
  ASSUME CostInv, NEW d \in Docs, ~Locked(d), ~Closed(d),
         NEW row \in DocRow, row.status \notin {"approved", "posted"},
         doc' = [doc EXCEPT ![d] = row], UNCHANGED <<actuals, approval>>
  PROVE  CostInv'
<1>1. \A e \in Docs : doc'[e] = IF e = d THEN row ELSE doc[e]
  BY DEF CostInv, CostTypeOK
<1>2. CostTypeOK'
  BY DEF CostInv, CostTypeOK
<1>3. HeldAsRead'
  <2> SUFFICES ASSUME NEW a \in Approvers, approval[a] # Idle
               PROVE  /\ Postable(approval[a].doc)'
                      /\ doc'[approval[a].doc].amount = approval[a].amount
                      /\ \A b \in Approvers :
                           approval[b] # Idle /\ approval[b].doc = approval[a].doc => b = a
    BY DEF HeldAsRead
  <2>1. approval[a].doc \in Docs /\ approval[a].doc # d
    BY HeldDoc DEF CostInv, Locked
  <2>2. doc'[approval[a].doc] = doc[approval[a].doc]
    BY <1>1, <2>1
  <2> QED BY <2>2 DEF CostInv, HeldAsRead, Postable
<1>4. PostedOnce'
  <2> SUFFICES ASSUME NEW e \in Docs
               PROVE  actuals[e] = IF Closed(e)' /\ doc'[e].amount > 0
                                   THEN <<doc'[e].amount>> ELSE <<>>
    BY DEF PostedOnce
  <2>1. CASE e = d
    <3>1. ~Closed(e)'
      BY <1>1, <2>1 DEF Closed
    <3>2. actuals[e] = <<>>
      BY <2>1 DEF CostInv, PostedOnce
    <3> QED BY <3>1, <3>2
  <2>2. CASE e # d
    <3>1. doc'[e] = doc[e]
      BY <1>1, <2>2
    <3> QED BY <3>1 DEF CostInv, PostedOnce, Closed
  <2> QED BY <2>1, <2>2
<1> QED BY <1>2, <1>3, <1>4 DEF CostInv

-----------------------------------------------------------------------------
LEMMA CostInitially == CostInit => CostInv
BY AmountsAssumption DEF CostInit, CostInv, CostTypeOK, HeldAsRead, PostedOnce, DocRow, DocStatuses,
   Absent, Closed

LEMMA StatusSet ==
  ASSUME CostInv, NEW d \in Docs, NEW from, NEW to \in {"draft", "submitted", "void"},
         "approved" \notin from, "posted" \notin from, SetStatus(d, from, to)
  PROVE  CostInv'
<1> DEFINE row == [doc[d] EXCEPT !.status = to]
<1>1. row \in DocRow /\ row.status = to
  BY DEF CostInv, CostTypeOK, DocRow, DocStatuses
<1>2. doc' = [doc EXCEPT ![d] = row]
  BY DEF SetStatus, CostInv, CostTypeOK
<1>3. ~Locked(d) /\ ~Closed(d) /\ UNCHANGED <<actuals, approval>>
  BY DEF SetStatus, Closed
<1> HIDE DEF row
<1> QED BY <1>1, <1>2, <1>3, OpenDocWritten

LEMMA DocStep ==
  ASSUME CostInv, NEW d \in Docs,
         \/ CreateDoc(d) \/ EditDoc(d) \/ SubmitTimesheet(d) \/ RejectTimesheet(d)
         \/ VoidCostEntry(d) \/ DeleteCostEntry(d)
  PROVE  CostInv'
<1>1. CASE CreateDoc(d)
  <2>1. ~Locked(d)
    <3> SUFFICES ASSUME NEW a \in Approvers, approval[a] # Idle, approval[a].doc = d PROVE FALSE
      BY DEF Locked
    <3>1. Postable(d)
      BY DEF CostInv, HeldAsRead
    <3> QED BY <3>1, <1>1 DEF CreateDoc, Postable
  <2>2. PICK amount \in Amounts :
          doc' = [doc EXCEPT ![d] = [status |-> "draft", amount |-> amount]]
    BY <1>1 DEF CreateDoc
  <2> DEFINE row == [status |-> "draft", amount |-> amount]
  <2>3. row \in DocRow /\ row.status = "draft"
    BY DEF DocRow, DocStatuses
  <2>4. ~Closed(d) /\ UNCHANGED <<actuals, approval>>
    BY <1>1 DEF CreateDoc, Closed
  <2>5. doc' = [doc EXCEPT ![d] = row]
    BY <2>2
  <2> HIDE DEF row
  <2> QED BY <2>1, <2>3, <2>4, <2>5, OpenDocWritten
<1>2. CASE EditDoc(d)
  <2>1. PICK amount \in Amounts : doc' = [doc EXCEPT ![d].amount = amount]
    BY <1>2 DEF EditDoc
  <2> DEFINE row == [doc[d] EXCEPT !.amount = amount]
  <2>2. row \in DocRow /\ row.status = "draft"
    BY <1>2 DEF EditDoc, CostInv, CostTypeOK, DocRow
  <2>3. ~Locked(d) /\ ~Closed(d) /\ UNCHANGED <<actuals, approval>>
    BY <1>2 DEF EditDoc, Closed
  <2>4. doc' = [doc EXCEPT ![d] = row]
    BY <2>1 DEF CostInv, CostTypeOK
  <2> HIDE DEF row
  <2> QED BY <2>2, <2>3, <2>4, OpenDocWritten
<1>3. CASE SubmitTimesheet(d)
  BY <1>3, StatusSet DEF SubmitTimesheet
<1>4. CASE RejectTimesheet(d)
  BY <1>4, StatusSet DEF RejectTimesheet
<1>5. CASE VoidCostEntry(d)
  BY <1>5, StatusSet DEF VoidCostEntry
<1>6. CASE DeleteCostEntry(d)
  <2>1. Absent \in DocRow /\ Absent.status = "absent"
    BY DEF Absent, DocRow, DocStatuses
  <2>2. ~Locked(d) /\ ~Closed(d) /\ UNCHANGED <<actuals, approval>>
    BY <1>6 DEF DeleteCostEntry, Closed
  <2>3. doc' = [doc EXCEPT ![d] = Absent]
    BY <1>6 DEF DeleteCostEntry
  <2> QED BY <2>1, <2>2, <2>3, OpenDocWritten
<1> QED BY <1>1, <1>2, <1>3, <1>4, <1>5, <1>6

LEMMA LockStep ==
  ASSUME CostInv, NEW a \in Approvers, NEW d \in Docs, LockDoc(a, d)
  PROVE  CostInv'
<1> DEFINE held == [step |-> "post", doc |-> d, amount |-> doc[d].amount]
<1>1. held \in Posting /\ held # Idle /\ held.doc = d /\ held.amount = doc[d].amount
  BY DEF Posting, Idle, CostInv, CostTypeOK, DocRow
<1>2. approval' = [approval EXCEPT ![a] = held] /\ UNCHANGED <<doc, actuals>>
  BY DEF LockDoc
<1> HIDE DEF held
<1>3. CostTypeOK' /\ PostedOnce'
  BY <1>1, <1>2 DEF CostInv, CostTypeOK, PostedOnce, Closed
<1>4. \A b \in Approvers : approval'[b] = IF b = a THEN held ELSE approval[b]
  BY <1>2 DEF CostInv, CostTypeOK
<1>5. Postable(d) /\ \A b \in Approvers : approval[b] # Idle => approval[b].doc # d
  BY DEF LockDoc, Locked
<1>6. HeldAsRead'
  <2> SUFFICES ASSUME NEW b \in Approvers, approval'[b] # Idle
               PROVE  /\ Postable(approval'[b].doc)
                      /\ doc[approval'[b].doc].amount = approval'[b].amount
                      /\ \A c \in Approvers :
                           approval'[c] # Idle /\ approval'[c].doc = approval'[b].doc => c = b
    BY <1>2 DEF HeldAsRead, Postable
  <2> QED BY <1>1, <1>4, <1>5 DEF CostInv, HeldAsRead
<1> QED BY <1>3, <1>6 DEF CostInv

\* Whoever lets go takes nothing away from the others.
LEMMA ReleaseKeeps ==
  ASSUME CostInv, NEW a \in Approvers, approval' = [approval EXCEPT ![a] = Idle]
  PROVE  /\ approval' \in [Approvers -> Posting \cup {Idle}]
         /\ \A b \in Approvers : approval'[b] # Idle => b # a /\ approval'[b] = approval[b]
BY DEF CostInv, CostTypeOK

LEMMA RollbackStep ==
  ASSUME CostInv, NEW a \in Approvers, RollbackPosting(a)
  PROVE  CostInv'
BY ReleaseKeeps DEF RollbackPosting, CostInv, CostTypeOK, HeldAsRead, PostedOnce, Postable, Closed

LEMMA CostCommitStep ==
  ASSUME CostInv, NEW a \in Approvers, CommitPosting(a)
  PROVE  CostInv'
<1> DEFINE d == approval[a].doc
           final == IF d \in Sheets THEN "approved" ELSE "posted"
           row == [doc[d] EXCEPT !.status = final]
           amount == approval[a].amount
<1>1. approval[a] # Idle /\ d \in Docs /\ amount \in Amounts \cup {0} /\ amount \in Nat
  BY HeldDoc, AmountsAssumption DEF CommitPosting, CostInv
<1>2. /\ Postable(d) /\ doc[d].amount = amount
      /\ \A b \in Approvers : approval[b] # Idle /\ approval[b].doc = d => b = a
  BY <1>1 DEF CostInv, HeldAsRead
<1>3. actuals[d] = <<>>
  BY <1>1, <1>2, PostableIsOpen DEF CostInv, PostedOnce
<1>4. row \in DocRow /\ row.status \in {"approved", "posted"} /\ row.amount = amount
  BY <1>1, <1>2 DEF CostInv, CostTypeOK, DocRow, DocStatuses
<1>5. doc' = [doc EXCEPT ![d] = row]
  BY <1>1 DEF CommitPosting, CostInv, CostTypeOK
<1>6. actuals' = [actuals EXCEPT ![d] = IF amount > 0 THEN <<amount>> ELSE <<>>]
  <2>1. Append(actuals[d], amount) = <<amount>>
    BY <1>3
  <2> QED BY <1>3, <2>1 DEF CommitPosting
<1>7. /\ approval' \in [Approvers -> Posting \cup {Idle}]
      /\ \A b \in Approvers : approval'[b] # Idle => b # a /\ approval'[b] = approval[b]
  BY ReleaseKeeps DEF CommitPosting
<1> HIDE DEF d, row, amount
<1>8. CostTypeOK'
  <2>1. (IF amount > 0 THEN <<amount>> ELSE <<>>) \in Seq(Amounts)
    BY <1>1
  <2> QED BY <1>1, <1>4, <1>5, <1>6, <1>7, <2>1 DEF CostInv, CostTypeOK
<1>9. \A e \in Docs : doc'[e] = IF e = d THEN row ELSE doc[e]
  BY <1>5 DEF CostInv, CostTypeOK
<1>10. HeldAsRead'
  <2> SUFFICES ASSUME NEW b \in Approvers, approval'[b] # Idle
               PROVE  /\ Postable(approval[b].doc)'
                      /\ doc'[approval'[b].doc].amount = approval'[b].amount
                      /\ \A c \in Approvers :
                           approval'[c] # Idle /\ approval'[c].doc = approval'[b].doc => c = b
    BY DEF HeldAsRead
  <2>1. b # a /\ approval'[b] = approval[b] /\ approval[b] # Idle
    BY <1>7
  <2>2. approval[b].doc # d /\ approval[b].doc \in Docs
    BY <1>2, <2>1, HeldDoc DEF CostInv
  <2>3. doc'[approval[b].doc] = doc[approval[b].doc]
    BY <1>9, <2>2
  <2>4. Postable(approval[b].doc)' /\ doc'[approval'[b].doc].amount = approval'[b].amount
    BY <2>1, <2>3 DEF CostInv, HeldAsRead, Postable
  <2> QED BY <1>7, <2>1, <2>4 DEF CostInv, HeldAsRead
<1>11. PostedOnce'
  <2> SUFFICES ASSUME NEW e \in Docs
               PROVE  actuals'[e] = IF Closed(e)' /\ doc'[e].amount > 0
                                    THEN <<doc'[e].amount>> ELSE <<>>
    BY DEF PostedOnce
  <2>1. actuals'[e] = IF e = d THEN (IF amount > 0 THEN <<amount>> ELSE <<>>) ELSE actuals[e]
    BY <1>6 DEF CostInv, CostTypeOK
  <2>2. CASE e = d
    <3>1. Closed(e)' /\ doc'[e].amount = amount
      BY <1>4, <1>9, <2>2 DEF Closed
    <3> QED BY <2>1, <2>2, <3>1
  <2>3. CASE e # d
    <3>1. doc'[e] = doc[e] /\ actuals'[e] = actuals[e]
      BY <1>9, <2>1, <2>3
    <3> QED BY <3>1 DEF CostInv, PostedOnce, Closed
  <2> QED BY <2>2, <2>3
<1> QED BY <1>8, <1>10, <1>11 DEF CostInv

LEMMA CostInvariant == CostSpec => []CostInv
<1>1. CostInv /\ [CostNext]_costVars => CostInv'
  <2> SUFFICES ASSUME CostInv, [CostNext]_costVars PROVE CostInv'
    OBVIOUS
  <2>1. CASE UNCHANGED costVars
    BY <2>1 DEF costVars, CostInv, CostTypeOK, HeldAsRead, PostedOnce, Postable, Closed
  <2>2. CASE CostNext
    BY <2>2, DocStep, LockStep, CostCommitStep, RollbackStep DEF CostNext
  <2> QED BY <2>1, <2>2
<1> QED BY <1>1, CostInitially, PTL DEF CostSpec

\* A cost counts once and as approved, for approveTimesheet and postCostEntry:
\* whatever else is done to the documents at the same time.
THEOREM CostsPostedOnce == CostSpec => []PostedOnce
BY CostInvariant, PTL DEF CostInv

\* Rows, amounts and transactions are always what the tables and the code allow.
THEOREM CostTyping == CostSpec => []CostTypeOK
BY CostInvariant, PTL DEF CostInv
=============================================================================
