----------------------------- MODULE NovaOutbox -----------------------------
(***************************************************************************)
(* The transactional outbox of Denver -> Nova events,                      *)
(* api/services/integration/novaOutbox.ts, composed with the scheduler     *)
(* that drives it: the promoter _promoteDueOutbox runs at the start of a   *)
(* tick and enqueues drain jobs, the handler _handleDrainJob runs inside   *)
(* the tick that claimed one.  A job type stands for the pair (drain job,  *)
(* tenant), so JobTypes is the set of tenants.                             *)
(*                                                                         *)
(* Nova's endpoint is external: it accepts an event or not, and its answer *)
(* arrives or not.                                                         *)
(*                                                                         *)
(* Of the scheduler's actions those that never touch a drain job are left  *)
(* out (definitions, ad-hoc jobs), and LockExpires: by QueuedIsClaimable   *)
(* the age of a lock decides nothing.                                      *)
(***************************************************************************)
EXTENDS JobScheduler

CONSTANTS
  TenantOf,      \* [RowIds -> JobTypes], the tenant whose state change inserts a row
  MaxRows,       \* bound: rows ever inserted into nova_outbox
  MaxAttempts,   \* attempts before a row is dead (MAX_ATTEMPTS, 6 in the code)
  DrainAttempts, \* max_attempts of a drain job (3 in the code)
  Trouble        \* what may interfere with the outbox, see Troubles

\* "down": Nova refuses events or its answers are lost; "slow": a drain takes
\* longer than DELIVERING_STALE_MS; "off": the integration flag or its secrets
\* are withdrawn; "requeue": the admin route retries rows by hand.
Troubles == {"down", "slow", "off", "requeue"}

RowIds  == 1..MaxRows
Tenants == JobTypes

ASSUME NovaAssumption ==
  /\ MaxRows \in Nat /\ TenantOf \in [RowIds -> Tenants]
  /\ MaxAttempts \in Nat \ {0} /\ DrainAttempts \in Nat
  /\ Trouble \subseteq Troubles

VARIABLES
  outbox,    \* nova_outbox, by seq
  drain,     \* local variables of the promoter and the handler, by tick
  accepted,  \* history: rows whose event Nova has accepted at least once
  failures   \* history: failed deliveries recorded since the row was (re)queued

nova == <<outbox, drain, accepted, failures>>
all  == <<vars, nova>>

-----------------------------------------------------------------------------
OutboxRow == [status : {"absent", "queued", "delivering", "delivered", "dead"},
              attempts : Nat, due : BOOLEAN, stale : BOOLEAN]

Claimed == [row : RowIds, attempts : Nat]    \* a row as _claimDueRows RETURNED it

\* scanned: the promoter has run in this tick; scan: tenants it will enqueue;
\* step: where the handler is; rows: claimed rows still to send; sent: the row
\* whose outcome is still to be recorded (at most one).
DrainState == [scanned : BOOLEAN, scan : SUBSET Tenants,
               step : {"start", "loop", "delivered", "failed"},
               rows : SUBSET Claimed, sent : SUBSET Claimed]

NoDrain == [scanned |-> FALSE, scan |-> {}, step |-> "start", rows |-> {}, sent |-> {}]

NovaInit ==
  /\ Init
  /\ outbox = [r \in RowIds |->
       [status |-> "absent", attempts |-> 0, due |-> FALSE, stale |-> FALSE]]
  /\ drain = [t \in Ticks |-> NoDrain]
  /\ accepted = {}
  /\ failures = [r \in RowIds |-> 0]

\* A live tick is about to send the row, or to record what became of it.
Sending(t, r) == \E c \in drain[t].rows \cup drain[t].sent : c.row = r

-----------------------------------------------------------------------------
(* Rows *)

\* insertOutboxEvent / enqueueNovaEvent: the row appears when the state change
\* it describes commits.
Produce(r) ==
  /\ outbox[r].status = "absent"
  /\ \A q \in RowIds : q < r => outbox[q].status # "absent"
  /\ outbox' = [outbox EXCEPT ![r].status = "queued", ![r].due = TRUE]
  /\ UNCHANGED <<vars, drain, accepted, failures>>

\* next_attempt_at passes.
RowFallsDue(r) ==
  /\ outbox[r].status = "queued" /\ ~outbox[r].due
  /\ outbox' = [outbox EXCEPT ![r].due = TRUE]
  /\ UNCHANGED <<vars, drain, accepted, failures>>

\* updated_at falls DELIVERING_STALE_MS behind.  A drain in good order is done
\* with its batch long before that.
RowGoesStale(r) ==
  /\ outbox[r].status = "delivering" /\ ~outbox[r].stale
  /\ "slow" \in Trouble \/ \A t \in Ticks : ~Sending(t, r)
  /\ outbox' = [outbox EXCEPT ![r].stale = TRUE]
  /\ UNCHANGED <<vars, drain, accepted, failures>>

\* Bound: every row can still go through a whole ladder of drains.
LadderRoom == inserted + MaxRows * MaxAttempts + Cardinality(Tenants) <= MaxJobs

\* The rows the retry route starts over.
Retriable(r) ==
  \/ outbox[r].status = "dead"
  \/ outbox[r].status \in {"queued", "delivering"} /\ outbox[r].attempts > 0

\* POST /projects/:projectId/nova-integration/retry, for a tenant with one
\* linked project: one UPDATE of all its retriable rows.
Requeue(tenant) ==
  /\ "requeue" \in Trouble /\ LadderRoom
  /\ LET again == {r \in RowIds : TenantOf[r] = tenant /\ Retriable(r)}
     IN  /\ outbox' = [r \in RowIds |->
              IF r \in again
              THEN [status |-> "queued", attempts |-> 0, due |-> TRUE, stale |-> FALSE]
              ELSE outbox[r]]
         /\ failures' = [r \in RowIds |-> IF r \in again THEN 0 ELSE failures[r]]
  /\ UNCHANGED <<vars, drain, accepted>>

-----------------------------------------------------------------------------
(* The promoter, at the start of a tick *)

\* Bug: drain jobs that still wait in the queue are overlooked.
HasRunningDrain(tenant) ==
  \E j \in JobIds : jobs[j].type = tenant /\ jobs[j].status = "running"

\* Bug: the status filter is missing, a drain of long ago counts.
HadDrainJob(tenant) ==
  \E j \in JobIds : jobs[j].type = tenant /\ jobs[j].status # "absent"

HasDrainJob(tenant) ==
  \E j \in JobIds : jobs[j].type = tenant /\ jobs[j].status \in {"queued", "running"}

HasDueRow(tenant) ==
  \E r \in RowIds : TenantOf[r] = tenant /\ outbox[r].status = "queued" /\ outbox[r].due

\* Bound: every tick can still insert a job for every tenant.
Room == inserted + Cardinality(Ticks) * Cardinality(Tenants) <= MaxJobs

\* One SELECT finds the tenants to enqueue; each INSERT comes later.
ScanOutbox(t) ==
  /\ tick[t].pc = "select" /\ ~drain[t].scanned
  /\ Room
  /\ drain' = [drain EXCEPT ![t].scanned = TRUE,
       ![t].scan = {tenant \in Tenants : HasDueRow(tenant) /\ ~HasDrainJob(tenant)}]
  /\ UNCHANGED <<vars, outbox, accepted, failures>>

\* The flag is off, the process has scanned less than SCAN_MIN_INTERVAL_MS ago,
\* or the SELECT or an INSERT throws (_tick logs it and goes on).
SkipScan(t) ==
  /\ tick[t].pc = "select"
  /\ ~drain[t].scanned \/ "db" \in Env
  /\ drain' = [drain EXCEPT ![t].scanned = TRUE, ![t].scan = {}]
  /\ UNCHANGED <<vars, outbox, accepted, failures>>

EnqueueDrain(t) ==
  /\ \E tenant \in drain[t].scan :
       /\ Insert(tenant, DrainAttempts, TRUE)
       /\ drain' = [drain EXCEPT ![t].scan = @ \ {tenant}]
  /\ UNCHANGED <<defs, tick, fired, clock, outbox, accepted, failures>>

\* The rest of the first half of a tick, once the promoters are through.
PromoteDefinitions(t) ==
  /\ tick[t].pc = "select" => drain[t].scanned /\ drain[t].scan = {}
  /\ Promotion(t)
  /\ drain' = [drain EXCEPT ![t] = NoDrain]
  /\ UNCHANGED <<outbox, accepted, failures>>

-----------------------------------------------------------------------------
(* The handler of a drain job; JobScheduler's HandlerReturns and             *)
(* HandlerThrows are its two ways out                                        *)

Draining(t, step) == tick[t].pc = "handler" /\ drain[t].step = step

\* The handler is through, and with it its local variables.
Forget(t) == drain' = [drain EXCEPT ![t] = NoDrain]

\* Flag, base URL or secret withdrawn after the enqueue: the rows stay queued.
SkipDrain(t) ==
  /\ "off" \in Trouble
  /\ Draining(t, "start")
  /\ HandlerReturns(t)
  /\ Forget(t)
  /\ UNCHANGED <<outbox, accepted, failures>>

\* Bug: delivering rows are claimed however recently they were updated.
DueAtOnce(r) ==
  \/ outbox[r].status = "queued" /\ outbox[r].due
  \/ outbox[r].status = "delivering"

DueForDrain(r) ==
  \/ outbox[r].status = "queued" /\ outbox[r].due
  \/ outbox[r].status = "delivering" /\ outbox[r].stale

\* _claimDueRows, for no more rows than DRAIN_BATCH.
ClaimDueRows(t) ==
  /\ Draining(t, "start")
  /\ LET claimed == {r \in RowIds : TenantOf[r] = jobs[tick[t].job].type /\ DueForDrain(r)}
     IN  /\ outbox' = [r \in RowIds |->
              IF r \in claimed
              THEN [outbox[r] EXCEPT !.status = "delivering", !.stale = FALSE]
              ELSE outbox[r]]
         /\ drain' = [drain EXCEPT ![t].step = "loop",
              ![t].rows = {[row |-> r, attempts |-> outbox[r].attempts] : r \in claimed}]
  /\ UNCHANGED <<vars, accepted, failures>>

\* Bug: res.ok is not looked at, a refusal counts as delivered.
DeliverUnchecked(t) ==
  /\ Draining(t, "loop")
  /\ \E c \in drain[t].rows, step \in {"delivered", "failed"}, takes \in BOOLEAN :
       /\ "down" \notin Trouble => step = "delivered" /\ takes
       /\ drain' = [drain EXCEPT ![t].step = step, ![t].rows = @ \ {c}, ![t].sent = {c}]
       /\ accepted' = IF takes THEN accepted \cup {c.row} ELSE accepted
  /\ UNCHANGED <<vars, outbox, failures>>

\* _deliver: Nova takes the event or not, and its 2xx answer comes in time or
\* the fetch throws.
Deliver(t) ==
  /\ Draining(t, "loop")
  /\ \E c \in drain[t].rows, step \in {"delivered", "failed"}, takes \in BOOLEAN :
       /\ step = "delivered" => takes
       /\ "down" \notin Trouble => step = "delivered"
       /\ drain' = [drain EXCEPT ![t].step = step, ![t].rows = @ \ {c}, ![t].sent = {c}]
       /\ accepted' = IF takes THEN accepted \cup {c.row} ELSE accepted
  /\ UNCHANGED <<vars, outbox, failures>>

\* UPDATE ... SET status = 'delivered' WHERE id = $1.
MarkDelivered(t) ==
  /\ Draining(t, "delivered")
  /\ \E c \in drain[t].sent :
       outbox' = [outbox EXCEPT ![c.row].status = "delivered", ![c.row].stale = FALSE]
  /\ drain' = [drain EXCEPT ![t].step = "loop", ![t].sent = {}]
  /\ UNCHANGED <<vars, accepted, failures>>

\* That UPDATE throws inside the try: the catch clause counts a failure.
MarkDeliveredFails(t) ==
  /\ "db" \in Env
  /\ Draining(t, "delivered")
  /\ drain' = [drain EXCEPT ![t].step = "failed"]
  /\ UNCHANGED <<vars, outbox, accepted, failures>>

\* Bug: the comparison of a ladder that starts at zero.
DispositionLate(made) == IF made > MaxAttempts THEN "dead" ELSE "queued"

\* Bug: one attempt short of the ladder.
DispositionEarly(made) == IF made + 1 >= MaxAttempts THEN "dead" ELSE "queued"

\* Bug: a status that neither the promoter nor the claim knows.
DispositionFailed(made) == IF made >= MaxAttempts THEN "dead" ELSE "failed"

failureDisposition(made) == IF made >= MaxAttempts THEN "dead" ELSE "queued"

\* The catch clause: attempts comes from the claim's snapshot of the row, and a
\* row that is not dead waits for the next step of the ladder.
MarkFailed(t) ==
  /\ Draining(t, "failed")
  /\ \E c \in drain[t].sent :
       /\ outbox' = [outbox EXCEPT ![c.row] =
            [status   |-> failureDisposition(c.attempts + 1),
             attempts |-> c.attempts + 1, due |-> FALSE, stale |-> FALSE]]
       /\ failures' = [failures EXCEPT ![c.row] = @ + 1]
  /\ drain' = [drain EXCEPT ![t].step = "loop", ![t].sent = {}]
  /\ UNCHANGED <<vars, accepted>>

\* The claim, or the UPDATE of the catch clause, throws out of the handler: the
\* rows still in the batch stay delivering.
DrainThrows(t) ==
  /\ "db" \in Env
  /\ Draining(t, "start") \/ Draining(t, "failed")
  /\ HandlerThrows(t)
  /\ Forget(t)
  /\ UNCHANGED <<outbox, accepted, failures>>

DrainReturns(t) ==
  /\ Draining(t, "loop") /\ drain[t].rows = {}
  /\ HandlerReturns(t)
  /\ Forget(t)
  /\ UNCHANGED <<outbox, accepted, failures>>

\* The rest of the second half of a tick.
Settle(t) ==
  /\ \/ Claim(t) \/ ClaimNone(t) \/ Complete(t) \/ CompleteFails(t)
     \/ Fail(t) \/ FailFails(t)
  /\ UNCHANGED nova

CrashWorker(p) ==
  /\ Crash(p)
  /\ drain' = [t \in Ticks |-> IF ProcOf[t] = p THEN NoDrain ELSE drain[t]]
  /\ UNCHANGED <<outbox, accepted, failures>>

-----------------------------------------------------------------------------
Promoter(t) ==
  \/ ScanOutbox(t) \/ SkipScan(t) \/ EnqueueDrain(t) \/ PromoteDefinitions(t)

Drain(t) ==
  \/ SkipDrain(t) \/ ClaimDueRows(t) \/ Deliver(t)
  \/ MarkDelivered(t) \/ MarkDeliveredFails(t) \/ MarkFailed(t)
  \/ DrainThrows(t) \/ DrainReturns(t)

Rows == \E r \in RowIds : Produce(r) \/ RowFallsDue(r) \/ RowGoesStale(r)

JobsBehind ==
  /\ \E j \in JobIds : JobFallsDue(j) \/ Retry(j)
  /\ UNCHANGED nova

NovaNext ==
  \/ \E t \in Ticks : Promoter(t) \/ Drain(t) \/ Settle(t)
  \/ Rows
  \/ JobsBehind
  \/ \E tenant \in Tenants : Requeue(tenant)
  \/ \E p \in Procs : CrashWorker(p)

NovaSpec == NovaInit /\ [][NovaNext]_all

\* As in JobScheduler; a process scans again once SCAN_MIN_INTERVAL_MS is over.
NovaFairness ==
  /\ \A t \in Ticks : WF_all(Promoter(t) \/ Drain(t) \/ Settle(t))
  /\ \A p \in Procs : SF_all(\E t \in Ticks : ProcOf[t] = p /\ ScanOutbox(t))
  /\ \A r \in RowIds : WF_all(RowFallsDue(r)) /\ WF_all(RowGoesStale(r))
  /\ WF_all(JobsBehind /\ \E j \in JobIds : ~jobs[j].due /\ jobs'[j].due)

NovaFairSpec == NovaSpec /\ NovaFairness

-----------------------------------------------------------------------------
(* Correctness *)

\* Every variable keeps its type; a handler that is through leaves nothing behind.
NovaTypeOK ==
  /\ outbox \in [RowIds -> OutboxRow]
  /\ drain \in [Ticks -> DrainState]
  /\ accepted \in SUBSET RowIds
  /\ failures \in [RowIds -> Nat]
  /\ \A t \in Ticks :
       /\ drain[t].step # "start" => tick[t].pc = "handler"
       /\ drain[t].step \in {"delivered", "failed"} <=> drain[t].sent # {}

\* _claimDueRows takes a delivering row only when it is stale, by which time the
\* drain that had it is over: no two drains ever send or record the same row,
\* though the UPDATEs that record its fate go by id alone.
OneDrainPerRow ==
  \A t, u \in Ticks, r \in RowIds : Sending(t, r) /\ Sending(u, r) => t = u

\* Whatever goes wrong, even when two drains have the same row: a row is marked
\* delivered only when Nova has accepted its event.
DeliveredWasAccepted == \A r \in RowIds : outbox[r].status = "delivered" => r \in accepted

\* A lost answer, a crash or a failed UPDATE costs no attempt that was not made:
\* a row is dead only after MAX_ATTEMPTS recorded failures.
DeadSpentLadder == \A r \in RowIds : outbox[r].status = "dead" => failures[r] >= MaxAttempts

\* Every event is delivered or dead in the end, whether Nova answers or not.
EveryEventSettles ==
  \A r \in RowIds :
    (outbox[r].status = "queued") ~> outbox[r].status \in {"delivered", "dead"}

ActiveDrains(tenant) ==
  {j \in JobIds : jobs[j].type = tenant /\ jobs[j].status \in {"queued", "running"}}

\* The comment in _promoteDueOutbox, "skip tenants that already have a
\* queued/running drain job so the queue never piles up": the SELECT and the
\* INSERTs are separate statements, so a tick may insert what another has inserted
\* in between, but what piles up for a tenant is at most one active drain job per
\* tick, hence one when ticks do not overlap.  (A settled drain job that an admin
\* retries comes on top.)
DrainsBounded ==
  \A tenant \in Tenants : Cardinality(ActiveDrains(tenant)) <= Cardinality(Ticks)

\* The comment on DELIVERING_STALE_MS, "Reclaim rows stuck 'delivering' (worker
\* crash mid-delivery) after 10 min".  The crash leaves the drain job running,
\* _claimJob only looks at queued ones (though LOCK_TIMEOUT_MS is there to
\* "reclaim stalled jobs"), and the promoter enqueues no other for that tenant.
DeliveringIsReclaimed ==
  \A r \in RowIds :
    (outbox[r].status = "delivering" /\ outbox[r].stale)
      ~> ~(outbox[r].status = "delivering" /\ outbox[r].stale)

-----------------------------------------------------------------------------
(* The outbox implements EventDelivery *)

Delivery == INSTANCE EventDelivery
  WITH Events <- RowIds, Limit <- MaxAttempts, received <- accepted,
       tries <- [r \in RowIds |-> outbox[r].attempts],
       state <- [r \in RowIds |->
         CASE outbox[r].status = "absent" -> "unborn"
           [] outbox[r].status \in {"queued", "delivering"} -> "pending"
           [] OTHER -> outbox[r].status]

\* Seen by its producers the outbox delivers at least once: events are received
\* while pending, confirmed only once received, delivered for good, and dead
\* only after MAX_ATTEMPTS misses, through crashes and failing statements.
ImplementsDelivery == Delivery!Spec
=============================================================================
