----------------------------- MODULE CostPosting ----------------------------
(***************************************************************************)
(* How labour and other costs become actuals of a project:                 *)
(* api/services/timesheets/timesheetService.ts approves a timesheet and    *)
(* api/services/costEntry/costEntryService.ts posts a cost entry, each in  *)
(* one transaction that reads the document FOR UPDATE, inserts into        *)
(* evm_actuals (a timesheet also into cost_entries, already posted) and    *)
(* closes the document by its id alone.                                    *)
(*                                                                         *)
(* The rate of a member is folded into the amount: hours and money are     *)
(* one number here.  A timesheet also locks its member and project, which  *)
(* only keeps more transactions apart than this module does.               *)
(***************************************************************************)
EXTENDS Integers, Sequences

CONSTANTS
  Sheets,     \* timesheets: one per member, project and week
  Entries,    \* cost entries
  Amounts,    \* what a document may come to; a sheet may come to 0
  Approvers   \* approvals and postings in progress at a time

ASSUME AmountsAssumption == Amounts \subseteq Nat
ASSUME DocsAssumption == Sheets \cap Entries = {}

VARIABLES
  doc,       \* timesheets and cost_entries
  actuals,   \* evm_actuals: the amounts inserted for each document, in order
  approval   \* transactions of approveTimesheet and postCostEntry

costVars == <<doc, actuals, approval>>

-----------------------------------------------------------------------------
Docs == Sheets \cup Entries
DocStatuses == {"absent", "draft", "submitted", "approved", "posted", "void"}
DocRow == [status : DocStatuses, amount : Amounts \cup {0}]

Absent == [status |-> "absent", amount |-> 0]

\* No transaction, or the row its SELECT ... FOR UPDATE returned.
Idle == [step |-> "idle"]
Posting == [step : {"post"}, doc : Docs, amount : Amounts \cup {0}]

Closed(d)   == doc[d].status \in {"approved", "posted"}
Postable(d) == doc[d].status = IF d \in Sheets THEN "submitted" ELSE "draft"

CostInit ==
  /\ doc = [d \in Docs |-> Absent]
  /\ actuals = [d \in Docs |-> <<>>]
  /\ approval = [a \in Approvers |-> Idle]

\* Bug: the SELECT has lost its FOR UPDATE.
NeverLocked(d) == FALSE

\* Somebody holds the row: every other writer waits, then checks it again.
Locked(d) == \E a \in Approvers : approval[a] # Idle /\ approval[a].doc = d

SetStatus(d, from, to) ==
  /\ ~Locked(d) /\ doc[d].status \in from
  /\ doc' = [doc EXCEPT ![d].status = to]
  /\ UNCHANGED <<actuals, approval>>

-----------------------------------------------------------------------------
\* createCostEntry; upsertTimesheet, which inserts or edits a draft.
CreateDoc(d) ==
  /\ doc[d].status = "absent"
  /\ \E amount \in Amounts :
       /\ d \in Entries => amount > 0
       /\ doc' = [doc EXCEPT ![d] = [status |-> "draft", amount |-> amount]]
  /\ UNCHANGED <<actuals, approval>>

\* upsertTimesheet, updateCostEntry: drafts only.
EditDoc(d) ==
  /\ ~Locked(d) /\ doc[d].status = "draft"
  /\ \E amount \in Amounts :
       /\ d \in Entries => amount > 0
       /\ doc' = [doc EXCEPT ![d].amount = amount]
  /\ UNCHANGED <<actuals, approval>>

SubmitTimesheet(d) == d \in Sheets /\ SetStatus(d, {"draft"}, "submitted")

RejectTimesheet(d) == d \in Sheets /\ SetStatus(d, {"submitted"}, "draft")

VoidCostEntry(d) == d \in Entries /\ SetStatus(d, {"draft"}, "void")

DeleteCostEntry(d) ==
  /\ d \in Entries /\ ~Locked(d) /\ doc[d].status = "draft"
  /\ doc' = [doc EXCEPT ![d] = Absent]
  /\ UNCHANGED <<actuals, approval>>

\* BEGIN and SELECT ... FOR UPDATE: no row, nothing happens.
LockDoc(a, d) ==
  /\ approval[a] = Idle
  /\ ~Locked(d) /\ Postable(d)
  /\ approval' = [approval EXCEPT ![a] = [step |-> "post", doc |-> d, amount |-> doc[d].amount]]
  /\ UNCHANGED <<doc, actuals>>

\* The inserts, the UPDATE by id and COMMIT.  A timesheet that comes to
\* nothing, or of a member without a rate, is approved and posts nothing.
CommitPosting(a) ==
  /\ approval[a] # Idle
  /\ LET d == approval[a].doc IN
       /\ doc' = [doc EXCEPT ![d].status = IF d \in Sheets THEN "approved" ELSE "posted"]
       /\ actuals' = [actuals EXCEPT ![d] =
            IF approval[a].amount > 0 THEN Append(@, approval[a].amount) ELSE @]
  /\ approval' = [approval EXCEPT ![a] = Idle]

\* A statement fails or the process dies: ROLLBACK.
RollbackPosting(a) ==
  /\ approval[a] # Idle
  /\ approval' = [approval EXCEPT ![a] = Idle]
  /\ UNCHANGED <<doc, actuals>>

CostNext ==
  \/ \E d \in Docs :
       \/ CreateDoc(d) \/ EditDoc(d) \/ SubmitTimesheet(d) \/ RejectTimesheet(d)
       \/ VoidCostEntry(d) \/ DeleteCostEntry(d)
  \/ \E a \in Approvers : CommitPosting(a) \/ RollbackPosting(a)
  \/ \E a \in Approvers, d \in Docs : LockDoc(a, d)

CostSpec == CostInit /\ [][CostNext]_costVars

-----------------------------------------------------------------------------
(* Correctness *)

CostTypeOK ==
  /\ doc \in [Docs -> DocRow]
  /\ actuals \in [Docs -> Seq(Amounts)]
  /\ approval \in [Approvers -> Posting \cup {Idle}]

\* A cost counts once and as approved: however approvals, edits, rejections and
\* failures interleave, a document that is closed has one actual, of exactly
\* the amount it shows, and one that is not has none.
PostedOnce ==
  \A d \in Docs :
    actuals[d] = IF Closed(d) /\ doc[d].amount > 0 THEN <<doc[d].amount>> ELSE <<>>
=============================================================================
