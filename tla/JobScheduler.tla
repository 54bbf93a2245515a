--------------------------- MODULE JobScheduler ---------------------------
(***************************************************************************)
(* The generic scheduler of api/services/scheduler.ts: the background_jobs *)
(* queue, the recurring definitions of scheduled_jobs, the ticks that      *)
(* promote, claim and run them, and the admin routes of                    *)
(* api/routes/automation.ts that edit both tables behind the ticks' backs. *)
(*                                                                         *)
(* Every SQL statement is one action (a single statement is atomic in      *)
(* PostgreSQL); everything between two statements may interleave.  A tick  *)
(* is an asynchronous activity: setInterval starts one every 5 s without   *)
(* waiting for the last, so one process may have several, and the API      *)
(* server and the worker process both run the loop.                        *)
(*                                                                         *)
(* Time is abstract: a job is due or not, a lock fresh or expired, and a   *)
(* definition is eta units of time away from next_run_at.                  *)
(***************************************************************************)
EXTENDS Integers, FiniteSets

CONSTANTS
  Ticks,        \* activities running _tick, over all processes
  Procs,        \* operating-system processes that run the poll loop
  ProcOf,       \* [Ticks -> Procs]
  JobTypes,     \* values of job_type
  Handlers,     \* the job types with a registered handler (same in each process)
  Defs,         \* rows scheduled_jobs may hold
  DefSpecs,     \* contents of a definition: [interval, max, type]
  AttemptLimits,\* max_attempts values an ad-hoc enqueue may pass
  Nobody,       \* stands for the holder of a job no tick holds
  Env,          \* what may go wrong or interfere, see Disturbances
  MaxJobs,      \* bound: rows ever inserted into background_jobs
  MaxAdHoc,     \* bound: of which inserted by ad-hoc enqueue
  MaxClock      \* bound: time units that pass for the definitions

\* "crash": a process dies between two statements (deploy, OOM, fatalExit);
\* "db": a statement fails and has no effect; "retry", "edit": admin requests.
Disturbances == {"crash", "db", "retry", "edit"}

ASSUME TicksAssumption    ==
  Ticks # {} /\ IsFiniteSet(Ticks) /\ ProcOf \in [Ticks -> Procs]
ASSUME NobodyAssumption   == Nobody \notin Ticks
ASSUME TypesAssumption    == JobTypes # {} /\ Handlers \subseteq JobTypes
ASSUME SpecsAssumption    ==
  DefSpecs # {} /\ DefSpecs \subseteq [interval : Nat, max : Int, type : JobTypes]
ASSUME LimitsAssumption   == AttemptLimits \subseteq Int
ASSUME BoundsAssumption   == MaxJobs \in Nat /\ MaxAdHoc \in Nat /\ MaxClock \in Nat
ASSUME EnvAssumption      == Env \subseteq Disturbances

VARIABLES
  jobs,      \* background_jobs; ids are handed out in created_at order
  inserted,  \* number of rows in background_jobs
  defs,      \* scheduled_jobs
  tick,      \* where each tick is and what it read into local variables
  fired,     \* history: jobs each definition got since it came due, see Counted
  clock      \* time units spent, to bound the cadence

vars == <<jobs, inserted, defs, tick, fired, clock>>

-----------------------------------------------------------------------------
(* Rows and local state *)

JobIds == 1..MaxJobs

Statuses == {"absent", "queued", "running", "complete", "failed"}
Locks    == {"none", "held", "expired"}

JobRow == [status : Statuses, attempts : Nat, max : Int, lock : Locks,
           due : BOOLEAN, type : JobTypes]

\* A row enqueue() inserts: attempts and locked_at take their column defaults.
QueuedRow(type, max, due) ==
  [status |-> "queued", attempts |-> 0, max |-> max, lock |-> "none",
   due |-> due, type |-> type]

NoRow == [QueuedRow(CHOOSE ty \in JobTypes : TRUE, 0, FALSE) EXCEPT !.status = "absent"]

DefRow == [present : BOOLEAN, enabled : BOOLEAN, eta : Nat, spec : DefSpecs]

NoDef == [present |-> FALSE, enabled |-> FALSE, eta |-> 0,
          spec |-> CHOOSE s \in DefSpecs : TRUE]

\* Definitions an earlier run left behind, one unit away from falling due.
ReadyDefs == {[present |-> TRUE, enabled |-> TRUE, eta |-> 1, spec |-> s] : s \in DefSpecs}

Entry == [def : Defs, spec : DefSpecs]      \* a row of the SELECT in _promoteDueScheduled

\* The places a tick can be suspended; in Holding it owns a claimed job.
Holding == {"handler", "complete", "fail"}
Places  == {"idle", "select", "promote", "advance", "claim"} \cup Holding

\* batch: definitions still to promote; current: the one inserted and not yet
\* advanced (at most one); job and attempts: what the claim RETURNED.
TickState == [pc : Places, batch : SUBSET Entry, current : SUBSET Entry,
              job : JobIds \cup {0}, attempts : Nat]

IdleTick == [pc |-> "idle", batch |-> {}, current |-> {}, job |-> 0, attempts |-> 0]

Init ==
  /\ jobs = [j \in JobIds |-> NoRow]
  /\ inserted = 0
  /\ defs \in [Defs -> {NoDef} \cup ReadyDefs]
  /\ tick = [t \in Ticks |-> IdleTick]
  /\ fired = [d \in Defs |-> 1]
  /\ clock = 0

Goto(t, pc) == tick' = [tick EXCEPT ![t].pc = pc]
Finish(t)   == tick' = [tick EXCEPT ![t] = IdleTick]

\* Bug: next_run_at is not compared with the clock.
IsEnabled(d) == defs[d].present /\ defs[d].enabled

IsDue(d) == defs[d].present /\ defs[d].enabled /\ defs[d].eta = 0

\* fired: the jobs inserted for a definition since it last came due.  A job not
\* yet recorded in the definition counts for the next due as well, since the
\* UPDATE still to come advances past that one; a job whose UPDATE is lost while
\* the definition is due does not count, since the next tick inserts another.
\* So, while the definition is due, it is the number of ticks still to record
\* one.  From the moment an admin edits the row its firings are not Counted.
Edited     == 0 - 1
Counted(d) == fired[d] # Edited

Recording(d) == {t \in Ticks : \E e \in tick[t].current : e.def = d}

\* What fired is after a step in which ticks drop what they were to record.
Recount == fired' = [d \in Defs |->
  IF Counted(d) /\ IsDue(d) THEN Cardinality(Recording(d)') ELSE fired[d]]

-----------------------------------------------------------------------------
(* enqueue and the passing of time *)

\* INSERT INTO background_jobs.
Insert(type, max, due) ==
  /\ inserted < MaxJobs
  /\ inserted' = inserted + 1
  /\ jobs' = [jobs EXCEPT ![inserted + 1] = QueuedRow(type, max, due)]

\* Any route, service or registered promoter enqueues a one-off job, at once
\* or with a delayed runAfter.
Enqueue ==
  /\ inserted < MaxAdHoc
  /\ \E type \in JobTypes, max \in AttemptLimits, due \in BOOLEAN :
       Insert(type, max, due)
  /\ UNCHANGED <<defs, tick, fired, clock>>

\* run_after passes.
JobFallsDue(j) ==
  /\ jobs[j].status = "queued" /\ ~jobs[j].due
  /\ jobs' = [jobs EXCEPT ![j].due = TRUE]
  /\ UNCHANGED <<inserted, defs, tick, fired, clock>>

\* locked_at falls more than LOCK_TIMEOUT_MS behind.
LockExpires(j) ==
  /\ jobs[j].lock = "held"
  /\ jobs' = [jobs EXCEPT ![j].lock = "expired"]
  /\ UNCHANGED <<inserted, defs, tick, fired, clock>>

\* next_run_at comes one unit nearer.  An enabled definition that reaches it
\* comes due.
DefClock(d) ==
  /\ clock < MaxClock
  /\ defs[d].present /\ defs[d].eta > 0
  /\ clock' = clock + 1
  /\ defs' = [defs EXCEPT ![d].eta = @ - 1]
  /\ fired' = IF Counted(d) /\ defs[d].enabled /\ defs[d].eta = 1
              THEN [fired EXCEPT ![d] = Cardinality(Recording(d))] ELSE fired
  /\ UNCHANGED <<jobs, inserted, tick>>

-----------------------------------------------------------------------------
(* _tick, first half: promotion of due definitions *)

StartTick(t) ==
  /\ tick[t].pc = "idle"
  /\ Goto(t, "select")
  /\ UNCHANGED <<jobs, inserted, defs, fired, clock>>

\* Bug: a SELECT that forgets the definitions without an interval.
SelectRecurring(t) ==
  /\ tick[t].pc = "select"
  /\ tick' = [tick EXCEPT ![t].pc = "promote",
        ![t].batch = {[def |-> d, spec |-> defs[d].spec] :
                        d \in {d \in Defs : IsDue(d) /\ defs[d].spec.interval > 0}}]
  /\ UNCHANGED <<jobs, inserted, defs, fired, clock>>

\* SELECT ... WHERE enabled AND next_run_at <= NOW(): takes no lock.
SelectDue(t) ==
  /\ tick[t].pc = "select"
  /\ tick' = [tick EXCEPT ![t].pc = "promote",
        ![t].batch = {[def |-> d, spec |-> defs[d].spec] : d \in {d \in Defs : IsDue(d)}}]
  /\ UNCHANGED <<jobs, inserted, defs, fired, clock>>

\* The SELECT throws: nothing catches it inside _tick, the tick is over.
SelectFails(t) ==
  /\ "db" \in Env
  /\ tick[t].pc = "select"
  /\ Finish(t)
  /\ UNCHANGED <<jobs, inserted, defs, fired, clock>>

\* enqueue(def) with the spec read by the SELECT; the foreign key
\* scheduled_job_id makes it fail once the definition is deleted.
PromoteInsert(t) ==
  /\ tick[t].pc = "promote"
  /\ \E e \in tick[t].batch :
       /\ defs[e.def].present
       /\ Insert(e.spec.type, e.spec.max, TRUE)
       /\ tick' = [tick EXCEPT ![t].pc = "advance", ![t].current = {e},
                               ![t].batch = @ \ {e}]
       /\ fired' = IF Counted(e.def) THEN [fired EXCEPT ![e.def] = @ + 1] ELSE fired
  /\ UNCHANGED <<defs, clock>>

\* Bug: the UPDATE stands outside the try block of the insert.
SkipAndAdvance(t) ==
  /\ tick[t].pc = "promote"
  /\ \E e \in tick[t].batch :
       /\ ~defs[e.def].present \/ "db" \in Env
       /\ tick' = [tick EXCEPT ![t].batch = @ \ {e}]
       /\ defs' = [defs EXCEPT ![e.def].enabled = FALSE]
  /\ UNCHANGED <<jobs, inserted, fired, clock>>

\* The insert throws: caught per definition, the loop goes on.
PromoteSkip(t) ==
  /\ tick[t].pc = "promote"
  /\ \E e \in tick[t].batch :
       /\ ~defs[e.def].present \/ "db" \in Env
       /\ tick' = [tick EXCEPT ![t].batch = @ \ {e}]
  /\ UNCHANGED <<jobs, inserted, defs, fired, clock>>

\* Bug: the UPDATE advances the cadence and never disables.
RowWithoutDisable(row, spec) == [row EXCEPT !.eta = @ + spec.interval]

\* The row after the UPDATE of one promoted definition: GREATEST(next + i,
\* now + i) for a recurring one, enabled = FALSE for a one-shot.
AdvancedRow(row, spec) ==
  IF spec.interval > 0 THEN [row EXCEPT !.eta = @ + spec.interval]
                       ELSE [row EXCEPT !.enabled = FALSE]

PromoteAdvance(t) ==
  /\ tick[t].pc = "advance"
  /\ \E e \in tick[t].current :
       defs' = IF defs[e.def].present
               THEN [defs EXCEPT ![e.def] = AdvancedRow(@, e.spec)]
               ELSE defs
  /\ tick' = [tick EXCEPT ![t].pc = "promote", ![t].current = {}]
  /\ UNCHANGED <<jobs, inserted, fired, clock>>

\* The UPDATE throws: caught per definition, the job stays inserted.
PromoteAdvanceFails(t) ==
  /\ "db" \in Env
  /\ tick[t].pc = "advance"
  /\ tick' = [tick EXCEPT ![t].pc = "promote", ![t].current = {}]
  /\ Recount
  /\ UNCHANGED <<jobs, inserted, defs, clock>>

PromoteDone(t) ==
  /\ tick[t].pc = "promote" /\ tick[t].batch = {}
  /\ Goto(t, "claim")
  /\ UNCHANGED <<jobs, inserted, defs, fired, clock>>

-----------------------------------------------------------------------------
(* _tick, second half: claim one job, run its handler, settle it *)

\* Bug: reclaims a running job whose lock expired, though its tick may be alive.
ClaimableOrStalled(j) ==
  /\ jobs[j].status \in {"queued", "running"} /\ jobs[j].due
  /\ jobs[j].attempts < jobs[j].max
  /\ jobs[j].lock # "held"

Claimable(j) ==
  /\ jobs[j].status = "queued" /\ jobs[j].due
  /\ jobs[j].attempts < jobs[j].max
  /\ jobs[j].lock # "held"

\* UPDATE ... FOR UPDATE SKIP LOCKED: the oldest claimable row.  A job whose
\* type has no handler goes straight to _failJob.
Claim(t) ==
  /\ tick[t].pc = "claim"
  /\ \E j \in JobIds :
       /\ Claimable(j)
       /\ \A k \in JobIds : Claimable(k) => j <= k
       /\ jobs' = [jobs EXCEPT ![j].status = "running", ![j].lock = "held",
                               ![j].attempts = @ + 1]
       /\ tick' = [tick EXCEPT ![t].job = j, ![t].attempts = jobs[j].attempts + 1,
            ![t].pc = IF jobs[j].type \in Handlers THEN "handler" ELSE "fail"]
  /\ UNCHANGED <<inserted, defs, fired, clock>>

\* Nothing to claim, or the statement throws: the tick is over.
ClaimNone(t) ==
  /\ tick[t].pc = "claim"
  /\ (\A j \in JobIds : ~Claimable(j)) \/ "db" \in Env
  /\ Finish(t)
  /\ UNCHANGED <<jobs, inserted, defs, fired, clock>>

HandlerReturns(t) ==
  /\ tick[t].pc = "handler"
  /\ Goto(t, "complete")
  /\ UNCHANGED <<jobs, inserted, defs, fired, clock>>

HandlerThrows(t) ==
  /\ tick[t].pc = "handler"
  /\ Goto(t, "fail")
  /\ UNCHANGED <<jobs, inserted, defs, fired, clock>>

\* _completeJob: UPDATE by id alone.
Complete(t) ==
  /\ tick[t].pc = "complete"
  /\ jobs' = [jobs EXCEPT ![tick[t].job].status = "complete",
                          ![tick[t].job].lock = "none"]
  /\ Finish(t)
  /\ UNCHANGED <<inserted, defs, fired, clock>>

\* _completeJob throws inside the try: the catch clause fails the job.
CompleteFails(t) ==
  /\ "db" \in Env
  /\ tick[t].pc = "complete"
  /\ Goto(t, "fail")
  /\ UNCHANGED <<jobs, inserted, defs, fired, clock>>

\* Bug: one attempt too many.
ExhaustedLate(t) == tick[t].attempts > jobs[tick[t].job].max

\* _failJob: decides on the attempts the claim returned; UPDATE by id alone,
\* with a backoff in the future unless the attempts are exhausted.
Exhausted(t) == tick[t].attempts >= jobs[tick[t].job].max

\* Bug: a status the column does not know.
FailToRetrying(t) ==
  /\ tick[t].pc = "fail"
  /\ jobs' = [jobs EXCEPT ![tick[t].job].status = "retrying"]
  /\ Finish(t)
  /\ UNCHANGED <<inserted, defs, fired, clock>>

Fail(t) ==
  /\ tick[t].pc = "fail"
  /\ jobs' = [jobs EXCEPT
       ![tick[t].job].status = IF Exhausted(t) THEN "failed" ELSE "queued",
       ![tick[t].job].due    = IF Exhausted(t) THEN @ ELSE FALSE,
       ![tick[t].job].lock   = "none"]
  /\ Finish(t)
  /\ UNCHANGED <<inserted, defs, fired, clock>>

\* _failJob throws: startScheduler logs the tick error, the row stays running.
FailFails(t) ==
  /\ "db" \in Env
  /\ tick[t].pc = "fail"
  /\ Finish(t)
  /\ UNCHANGED <<jobs, inserted, defs, fired, clock>>

-----------------------------------------------------------------------------
(* Crashes and the admin routes *)

\* A process dies (and restarts): all its ticks and their local state are gone.
Crash(p) ==
  /\ "crash" \in Env
  /\ \E t \in Ticks : ProcOf[t] = p /\ tick[t].pc # "idle"
  /\ tick' = [t \in Ticks |-> IF ProcOf[t] = p THEN IdleTick ELSE tick[t]]
  /\ Recount
  /\ UNCHANGED <<jobs, inserted, defs, clock>>

\* Bug: the retry route does not spare running jobs.
RetryAny(j) ==
  /\ "retry" \in Env
  /\ jobs[j].status # "absent"
  /\ jobs' = [jobs EXCEPT ![j].status = "queued", ![j].attempts = 0,
                          ![j].lock = "none", ![j].due = TRUE]
  /\ UNCHANGED <<inserted, defs, tick, fired, clock>>

\* POST /background/:id/retry: any row that is not running starts afresh.
Retry(j) ==
  /\ "retry" \in Env
  /\ jobs[j].status \in {"failed", "queued", "complete"}
  /\ jobs' = [jobs EXCEPT ![j].status = "queued", ![j].attempts = 0,
                          ![j].lock = "none", ![j].due = TRUE]
  /\ UNCHANGED <<inserted, defs, tick, fired, clock>>

\* POST /scheduled and PATCH /scheduled/:id: any content, any next_run_at.
EditDef(d) ==
  /\ "edit" \in Env
  /\ \E enabled \in BOOLEAN, eta \in {0, 1, defs[d].eta}, spec \in DefSpecs :
       defs' = [defs EXCEPT ![d] =
         [present |-> TRUE, enabled |-> enabled, eta |-> eta, spec |-> spec]]
  /\ fired' = [fired EXCEPT ![d] = Edited]
  /\ UNCHANGED <<jobs, inserted, tick, clock>>

\* DELETE /scheduled/:id.
DeleteDef(d) ==
  /\ "edit" \in Env
  /\ defs[d].present
  /\ defs' = [defs EXCEPT ![d] = NoDef]
  /\ fired' = [fired EXCEPT ![d] = Edited]
  /\ UNCHANGED <<jobs, inserted, tick, clock>>

-----------------------------------------------------------------------------
Promotion(t) ==
  \/ StartTick(t) \/ SelectDue(t) \/ SelectFails(t)
  \/ PromoteInsert(t) \/ PromoteSkip(t)
  \/ PromoteAdvance(t) \/ PromoteAdvanceFails(t) \/ PromoteDone(t)

Execution(t) ==
  \/ Claim(t) \/ ClaimNone(t)
  \/ HandlerReturns(t) \/ HandlerThrows(t)
  \/ Complete(t) \/ CompleteFails(t) \/ Fail(t) \/ FailFails(t)

Passing ==
  \/ \E j \in JobIds : JobFallsDue(j) \/ LockExpires(j)
  \/ \E d \in Defs : DefClock(d)

Administration ==
  \/ \E j \in JobIds : Retry(j)
  \/ \E d \in Defs : EditDef(d) \/ DeleteDef(d)

Next ==
  \/ Enqueue
  \/ \E t \in Ticks : Promotion(t) \/ Execution(t)
  \/ Passing
  \/ Administration
  \/ \E p \in Procs : Crash(p)

Spec == Init /\ [][Next]_vars

\* setInterval keeps starting ticks, an awaited statement or handler answers
\* one way or the other, and time passes.  Nobody promises an enqueue, an
\* admin request, a crash or which way a handler settles.
Fairness ==
  /\ \A t \in Ticks : WF_vars(Promotion(t)) /\ WF_vars(Execution(t))
  /\ \A j \in JobIds : WF_vars(JobFallsDue(j)) /\ WF_vars(LockExpires(j))
  /\ \A d \in Defs : WF_vars(DefClock(d))

FairSpec == Spec /\ Fairness

-----------------------------------------------------------------------------
(* Correctness *)

\* Every variable keeps its type; local copies a tick no longer needs are reset.
TypeOK ==
  /\ jobs \in [JobIds -> JobRow]
  /\ inserted \in 0..MaxJobs
  /\ defs \in [Defs -> DefRow]
  /\ tick \in [Ticks -> TickState]
  /\ fired \in [Defs -> Nat \cup {Edited}]
  /\ clock \in Nat
  /\ \A t \in Ticks : tick[t].pc \in Holding => tick[t].job \in JobIds

Holds(t, j) == tick[t].pc \in Holding /\ tick[t].job = j

\* _completeJob and _failJob update "WHERE id = $1" with no guard on status,
\* owner or attempts.  They are right only because a job a tick has claimed is
\* still running, with the very attempts the claim returned, when the tick gets
\* round to settling it.
HeldIsRunning ==
  \A t \in Ticks, j \in JobIds :
    Holds(t, j) => /\ jobs[j].status = "running"
                   /\ jobs[j].attempts = tick[t].attempts

\* FOR UPDATE SKIP LOCKED hands a job to one tick only: no two ticks, of one
\* process or of two, are ever between the claim and the settling of one job.
SingleOwner ==
  \A t, u \in Ticks, j \in JobIds : Holds(t, j) /\ Holds(u, j) => t = u

\* A queued job with a positive limit can always be claimed once it is due: it
\* has attempts left and no lock, so nothing can sit in the queue for ever.
\* (It also shows that the lock clause of _claimJob never rejects a row.)
QueuedIsClaimable ==
  \A j \in JobIds :
    jobs[j].status = "queued" =>
      /\ jobs[j].lock = "none"
      /\ jobs[j].max > 0 => jobs[j].attempts < jobs[j].max

\* _failJob and the admin retry never disagree about a job in flight: only the
\* tick that claimed a running job moves it out of running.
OnlyOwnerSettles ==
  [][\A j \in JobIds :
       jobs[j].status = "running" /\ jobs'[j].status # "running"
         => \E t \in Ticks : Holds(t, j) /\ ~Holds(t, j)']_vars

\* Advancing next_run_at or disabling a one-shot never swallows a firing: a
\* definition that has had no job since it came due is still due, whatever ticks
\* overlap, die or see a statement fail.
NoLostFiring == \A d \in Defs : fired[d] = 0 => IsDue(d)

\* The SELECT of due definitions takes no lock, so ticks that overlap promote a
\* definition once each; but no more than that: each time it comes due it gets at
\* most one job per tick, hence one when ticks do not overlap.
FiringsBounded == \A d \in Defs : fired[d] <= Cardinality(Ticks)

\* GREATEST(next + i, now + i) is one interval from now only for the first UPDATE:
\* each tick that promoted the same due adds another.  A recurring definition is
\* never further from its next run than one interval per tick, hence within one
\* interval, as the comment on GREATEST has it, when ticks do not overlap.
CadenceKept ==
  \A d \in Defs :
    Counted(d) /\ defs[d].present /\ defs[d].spec.interval > 0
      => defs[d].eta <= Cardinality(Ticks) * defs[d].spec.interval

\* Every job that can be claimed at all ends complete or failed.
EveryJobSettles ==
  \A j \in JobIds :
    (jobs[j].status = "queued" /\ jobs[j].max > 0)
      ~> jobs[j].status \in {"complete", "failed"}

\* A definition that comes due gets its job.
OwedIsPromoted == \A d \in Defs : (fired[d] = 0) ~> (fired[d] # 0)

\* 009_scheduler.sql says of a definition without interval that it "is treated
\* as a one-shot at next_run_at and is auto-disabled after it fires": each time
\* it comes due it fires once.  Two ticks that both SELECT it before either
\* UPDATEs it break this.
OneShotFiresOnce ==
  [][\A t \in Ticks :
       tick[t].pc = "promote" /\ tick'[t].pc = "advance"
         => \A e \in tick'[t].current : e.spec.interval = 0 => fired[e.def] = 0]_vars

-----------------------------------------------------------------------------
(* The queue implements WorkQueue *)

Owner(j) == IF \E t \in Ticks : Holds(t, j)
            THEN CHOOSE t \in Ticks : Holds(t, j) ELSE Nobody

Items == [j \in JobIds |->
  [status |-> jobs[j].status, tries |-> jobs[j].attempts,
   limit |-> jobs[j].max, holder |-> Owner(j)]]

Queue == INSTANCE WorkQueue
  WITH Workers <- Ticks, Jobs <- JobIds, item <- Items,
       Limits <- AttemptLimits \cup {spec.max : spec \in DefSpecs}

\* Seen through its owners, every step of the scheduler is a step of the
\* abstract queue or a stutter: one holder, settled by it alone, taken at most
\* max times, never handed on after a crash.
ImplementsWorkQueue == Queue!Spec
=============================================================================
