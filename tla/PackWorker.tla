----------------------------- MODULE PackWorker -----------------------------
(***************************************************************************)
(* Commissioning packs drafted for credits: the queue generation_jobs, its *)
(* poll loop (api/services/packWorker.ts) and the routes that feed it      *)
(* (api/routes/commissioning.ts), for the jobs and credits of one tenant.  *)
(*                                                                         *)
(* setInterval does not wait for the last tick, and every process polls:   *)
(* ticks overlap.  The balance is a sum read before a draft is generated   *)
(* and charged when it is inserted, in one transaction with the pack and   *)
(* the job's completion.                                                   *)
(***************************************************************************)
EXTENDS Integers, FiniteSets

CONSTANTS
  PackJobs,     \* rows generation_jobs may hold
  Ticks,        \* ticks of all processes that are in progress at a time
  Cost,         \* PACK_CREDIT_COST
  MaxAttempts,  \* max_attempts
  MaxDelta,     \* bound: credits granted or removed at a time
  MaxGrants     \* bound: grants and removals

ASSUME PackBounds ==
  /\ IsFiniteSet(Ticks) /\ Ticks # {}
  /\ Cost \in Nat /\ MaxAttempts \in Nat /\ MaxDelta \in Nat /\ MaxGrants \in Nat

VARIABLES
  packJob,     \* generation_jobs
  credits,     \* the sum of billing_credits
  packs,       \* history: packs each job has drafted, each charged with it
  unanswered,  \* history: of these, how many whose COMMIT was not answered
  tick,        \* ticks and the job each has in hand
  removed,     \* history: credits administrators have taken away
  grants       \* grants and removals so far

packVars == <<packJob, credits, packs, unanswered, tick, removed, grants>>

-----------------------------------------------------------------------------
Kinds == {"generate_draft", "finalize_pack"}
PackStatuses == {"absent", "queued", "running", "complete", "failed"}

\* due: run_after has passed.  locked_at is set while running and never else.
PackRow == [status : PackStatuses, kind : Kinds, attempts : Nat, due : BOOLEAN]
NoPackJob == [status |-> "absent", kind |-> "generate_draft", attempts |-> 0, due |-> FALSE]

IdleTick == [step |-> "idle"]
PackSteps == {"balance", "draft", "finalize", "fail"}
BusyTick == [step : PackSteps, job : PackJobs, attempts : Nat]

PackInit ==
  /\ packJob = [j \in PackJobs |-> NoPackJob]
  /\ credits = 0
  /\ packs = [j \in PackJobs |-> 0]
  /\ unanswered = [j \in PackJobs |-> 0]
  /\ tick = [t \in Ticks |-> IdleTick]
  /\ removed = 0 /\ grants = 0

Proceed(t, step) == tick' = [tick EXCEPT ![t].step = step]
Rest(t)          == tick' = [tick EXCEPT ![t] = IdleTick]

-----------------------------------------------------------------------------
(* The routes *)

\* POST /credits: a delta of either sign.
ChangeCredits ==
  /\ grants < MaxGrants
  /\ grants' = grants + 1
  /\ \E n \in 1..MaxDelta :
       \/ credits' = credits + n /\ UNCHANGED removed
       \/ credits' = credits - n /\ removed' = removed + n
  /\ UNCHANGED <<packJob, packs, unanswered, tick>>

\* POST /generate-draft and /finalize; only the first looks at the balance.
QueuePackJob(j) ==
  /\ packJob[j].status = "absent"
  /\ \E kind \in Kinds :
       /\ kind = "generate_draft" => credits >= Cost
       /\ packJob' = [packJob EXCEPT ![j] =
            [status |-> "queued", kind |-> kind, attempts |-> 0, due |-> TRUE]]
  /\ UNCHANGED <<credits, packs, unanswered, tick, removed, grants>>

\* run_after passes.
PackFallsDue(j) ==
  /\ packJob[j].status = "queued" /\ ~packJob[j].due
  /\ packJob' = [packJob EXCEPT ![j].due = TRUE]
  /\ UNCHANGED <<credits, packs, unanswered, tick, removed, grants>>

-----------------------------------------------------------------------------
(* _tick *)

\* Bug: also takes running jobs whose lock is old, as the header comment has it.
ClaimableOrSlow(j) ==
  /\ packJob[j].status \in {"queued", "running"} /\ packJob[j].due
  /\ packJob[j].attempts < MaxAttempts

PackClaimable(j) ==
  /\ packJob[j].status = "queued" /\ packJob[j].due
  /\ packJob[j].attempts < MaxAttempts

\* UPDATE ... FOR UPDATE SKIP LOCKED; which row is the oldest is left open.
ClaimPackJob(t, j) ==
  /\ tick[t] = IdleTick /\ PackClaimable(j)
  /\ packJob' = [packJob EXCEPT ![j].status = "running", ![j].attempts = @ + 1]
  /\ tick' = [tick EXCEPT ![t] =
       [step |-> IF packJob[j].kind = "generate_draft" THEN "balance" ELSE "finalize",
        job |-> j, attempts |-> packJob[j].attempts + 1]]
  /\ UNCHANGED <<credits, packs, unanswered, removed, grants>>

\* Bug: takes a balance of nothing for enough.
HasAnything == credits >= 0

HasCredit == credits >= Cost

CheckBalance(t) ==
  /\ tick[t].step = "balance"
  /\ Proceed(t, IF HasCredit THEN "draft" ELSE "fail")
  /\ UNCHANGED <<packJob, credits, packs, unanswered, removed, grants>>

\* The draft is generated; pack, charge and completion are one transaction.
Drafted(t) ==
  LET j == tick[t].job IN
  /\ tick[t].step = "draft"
  /\ packs' = [packs EXCEPT ![j] = @ + 1]
  /\ credits' = credits - Cost
  /\ packJob' = [packJob EXCEPT ![j].status = "complete"]
  /\ UNCHANGED <<removed, grants>>

DraftPack(t) == Drafted(t) /\ Rest(t) /\ UNCHANGED unanswered

\* The connection is lost at COMMIT: done, but the catch clause hears of a failure.
DraftUnanswered(t) ==
  /\ Drafted(t)
  /\ Proceed(t, "fail")
  /\ unanswered' = [unanswered EXCEPT ![tick[t].job] = @ + 1]

\* Files are written, then pack and job are updated in one transaction.
FinalizePack(t) ==
  /\ tick[t].step = "finalize"
  /\ packJob' = [packJob EXCEPT ![tick[t].job].status = "complete"]
  /\ Rest(t) \/ Proceed(t, "fail")
  /\ UNCHANGED <<credits, packs, unanswered, removed, grants>>

\* A statement, the file system or the template engine throws.
PackThrows(t) ==
  /\ tick[t].step \in {"balance", "draft", "finalize"}
  /\ Proceed(t, "fail")
  /\ UNCHANGED <<packJob, credits, packs, unanswered, removed, grants>>

\* _failJob, by the attempts the claim returned and by id alone.
FailPackJob(t) ==
  /\ tick[t].step = "fail"
  /\ packJob' = [packJob EXCEPT
       ![tick[t].job].status = IF tick[t].attempts >= MaxAttempts THEN "failed" ELSE "queued",
       ![tick[t].job].due = FALSE]
  /\ Rest(t)
  /\ UNCHANGED <<credits, packs, unanswered, removed, grants>>

\* The process dies, or the UPDATE of _failJob fails: nothing takes the row up
\* again, for the claim wants it queued, however old the lock.
LeavePackJob(t) ==
  /\ tick[t] # IdleTick
  /\ Rest(t)
  /\ UNCHANGED <<packJob, credits, packs, unanswered, removed, grants>>

PackNext ==
  \/ ChangeCredits
  \/ \E j \in PackJobs : QueuePackJob(j) \/ PackFallsDue(j)
  \/ \E t \in Ticks, j \in PackJobs : ClaimPackJob(t, j)
  \/ \E t \in Ticks :
       \/ CheckBalance(t) \/ DraftPack(t) \/ DraftUnanswered(t) \/ FinalizePack(t)
       \/ PackThrows(t) \/ FailPackJob(t) \/ LeavePackJob(t)

PackSpec == PackInit /\ [][PackNext]_packVars

-----------------------------------------------------------------------------
(* Correctness *)

PackTypeOK ==
  /\ packJob \in [PackJobs -> PackRow]
  /\ credits \in Int
  /\ packs \in [PackJobs -> Nat] /\ unanswered \in [PackJobs -> Nat]
  /\ tick \in [Ticks -> BusyTick \cup {IdleTick}]
  /\ removed \in Nat /\ grants \in 0..MaxGrants

\* Drafts that pass the check of the balance together may overdraw it, by what
\* all of them but one cost and no more, whatever retries and failures do; what
\* administrators take away comes on top.
OverdraftBounded == credits + removed >= -(Cost * (Cardinality(Ticks) - 1))

\* A job drafts, and is charged for, one pack: a second one only if the COMMIT
\* of the first was not answered, and never more than it was attempted.
PackedOnce ==
  \A j \in PackJobs :
    /\ packs[j] <= 1 + unanswered[j]
    /\ packs[j] <= packJob[j].attempts
    /\ packJob[j].attempts <= MaxAttempts
=============================================================================
