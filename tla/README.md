# Formal models of Denver Engineering (jarvis-epc)

TLA+ models of the parts of this repository whose correctness depends on the order
in which things happen: the job scheduler, the outboxes that carry facts to other
systems, the offline work of field devices, and a set of services with queues,
ledgers and transactions of their own. The models are translated from the source; TLC
checks them on small instances, and TLAPS proves the main safety results for instances
of every size. Paths below are relative to the root of the repository.

1. Inventory: the components, what they keep, how they interact
2. What is modelled: modules and how they correspond to the code
3. Runs: what each one checks, its bounds and what it shows
4. Fairness
5. Proofs
6. Disagreements between code and text
7. Limits of the models, and what is not modelled
8. Plan

## 1. Inventory

The system is an Express API (`api/server.ts`) and a worker process (`api/worker.ts`)
over one PostgreSQL database, with a React client (`src/`). Nearly all coordination
goes through the database: a row is claimed with `FOR UPDATE SKIP LOCKED`, inserted
with `ON CONFLICT DO NOTHING`, or updated with a guard on a column. Whatever is
between two statements can interleave with every other request, tick and process, and
a process may die there. The API server and the worker run the same poll loop with the
same handlers; several copies of each may run.

| Component | State | Operations | Hard behaviour | What makes it correct |
| --- | --- | --- | --- | --- |
| Job scheduler, `api/services/scheduler.ts`, `api/routes/automation.ts` | `background_jobs`, `scheduled_jobs`, locals of each tick | enqueue; tick: promoters, promotion of due definitions, claim, handler, complete or fail; admin edits and retry | overlapping ticks, two processes, crash between statements, a statement that throws in every position | one owner per job, settled by it alone; bounded attempts; nothing stuck in the queue; no firing of a definition lost, and none repeated but by overlapping ticks |
| Nova outbox, `api/services/integration/novaOutbox.ts`, `api/routes/novaIntegrationStatus.ts` | `nova_outbox`, drain jobs | insert with the state change; promote a drain job per tenant; claim rows, send, record; retry by hand | rows and drain jobs have separate lives, lost answers, stale claims, crash in mid-batch | delivered only if accepted; dead only after the whole ladder; one drain per row; drain jobs do not pile up; every event settles |
| Accounting boundary, `api/services/integration/accounting/`, `connectorFramework.ts` | `integration_jobs`, documents of Denver | emit under an idempotency key; drain pass: claim a batch, send, settle | the document changes while it is emitted; long batches; crash between claim, call and record | one pass per job; no call that is not counted; at-least-once delivery |
| Offline field sync, `src/modules/offlineQueue/`, `api/services/fieldSync.ts` | IndexedDB store, flush per tab, `field_sync_operations`, `updated_at` of rows | enqueue, flush in chunks, mark, requeue, remove; per operation: look up the ledger, mutate and record in one transaction | several tabs send the same operation, lost answers, a server that dies in mid-batch, concurrent edits | applied once; one of two edits of a version wins; the device settles only what is on record |
| Pack worker, `api/services/packWorker.ts`, `api/routes/commissioning.ts` | `generation_jobs`, `billing_credits`, ticks | queue, claim, check the balance, draft and charge, finalize, fail | balance read long before it is charged, lost commits, overlapping ticks | overdraft bounded by the overlap; charged once per pack |
| Agent tasks, `api/services/agents/` | `agent_tasks`, executions and counters of each worker | enqueue, poll, claim, run, complete, fail, cancel, stale sweep | unguarded updates by late workers; sweep against a live worker; overlapping polls | bounded executions and concurrency; one worker at a time; settled stays settled; every task settles |
| Snapshot diff, `api/services/integration/novaSnapshotDiff.ts` | hashes in `nova_project_links` | project, compare, emit into the outbox | read in pieces outside the transaction that emits | no event without a change; the last event describes the last state |
| Nova commands, `api/routes/novaCommands.ts` | `nova_inbound_commands`, projects, links | claim a key and execute, in one transaction | duplicates in parallel, lost answers, races under three unique indexes, projects created and deleted by people | what Nova was answered stays true as long as the project it is about exists |
| Notifications, `api/services/notifications/` | `notification_jobs` | enqueue with a deduplication key, claim, deliver | rows stranded by a crash keep their key | every notification settles |
| Authentication, `api/auth.ts`, `api/tokenStore.ts` | users, refresh tokens, Redis or memory | login with lockout, refresh with rotation, logout | two refreshes of one token, lost increments, divergence of the two stores | a refresh token is used once |
| Idempotency middleware, `api/middleware/idempotency.ts` | responses in memory | replay | check, then act | one execution per key |
| Leases and breaker, `api/services/resilience/` | `worker_leases`; counters in memory | acquire, renew, release; execute | expiry judged by different clocks and ttls; late results | one holder; half-open admits a bounded number |
| Mobile sync, `api/services/mobile/` | `offline_mutations`, `offline_conflicts` | record, apply, mark; resolve a conflict | statements without a transaction, repeated uploads, rows deleted meanwhile | an edit takes effect at most once, and is called applied only if it did or its row is gone |
| Timesheets and cost entries, `api/services/timesheets/`, `costEntry/` | documents, `evm_actuals` | edit, submit, reject, approve, post, void | approval against edits and other approvals | a cost is posted once, as approved |
| Integration pull, webhooks, commissioning mirror | rows of their domain | promoter and handler on the scheduler | claim before enqueue | as the scheduler |
| Action engine, change orders, pay applications, subcontracts, proposals, turnover | a status column each | transitions guarded by capability and status | status read, then written | only legal transitions |
| Critical path, `api/services/cpm.ts`, `api/routes/schedule.ts` | tasks and dependencies | edit the network; forward and backward pass | cycles, leads and lags, milestones, dependencies between projects | cycles and missing tasks found; finish and float are the best that any schedule can do |
| Client state: `src/modules/biz`, `persistence`, `gateway` | reducer, undo stack, rate limit | dispatch, undo, redo | long sequences of legal calls | undo restores |
| Analytics, AI services, exports, single sign-on, authorization tables, user interface | none of their own, or static | scoring, prompts, reads | none that a state machine would show | tested as functions |

How they interact: services call `enqueue` and register promoters and handlers with
the scheduler, which calls them back from a tick. A state change of a project inserts
its Nova event in the same transaction. The accounting boundary reads commercial
records of Denver and puts an envelope into `integration_jobs`. A device never talks to
the tables: it posts to `/api/v1/field-sync/batch`.

PROJECT.json lists every component with its status, and the hazards of the code, each
at its line, with the properties that would notice it going wrong.

## 2. What is modelled

One SQL statement, or one transaction where the code opens one, is one action; between
two of them anything may interleave. Local variables that live across an `await` are
part of the state, since what was read there may be stale when it is used. A crash
drops the locals of a process and nothing else. A statement that throws is an action of
its own that takes the `catch` clause the code has for it. Definitions marked `Bug:`
in a module are mutations of the definition below them; they are used by no
specification, and exist to show that a property notices the change.

**WorkQueue** (abstract). What a queue in a database promises: an item is held by at
most one worker, only its holder settles it, it is taken at most `limit` times, a lost
worker leaves it held by nobody.

**EventDelivery** (abstract). What an outbox promises to a producer: delivery at least
once, a refusal, or a dead letter after `Limit` recorded failures; delivered means
received; outcomes are final.

**JobScheduler** (`scheduler.ts`, `automation.ts`, migration `009_scheduler.sql`).
`jobs` is `background_jobs`, `defs` is `scheduled_jobs`, `tick` holds where each running
tick is and what it has read; a process may have several ticks, because `setInterval`
does not wait for the last one. `fired` is history, the jobs inserted for a
definition since it last came due, until an administrator edits it; `clock` is a bound. The actions of
a tick in the order of the code: `StartTick`, `SelectDue`, for each definition
`PromoteInsert` and `PromoteAdvance`, `PromoteDone`, `Claim` or `ClaimNone`,
`HandlerReturns` or `HandlerThrows`, `Complete` or `Fail`; each with its failing
variant. `Enqueue` is any service, `Retry`, `EditDef`, `DeleteDef` the admin routes,
`Crash` the end of a process. Time is abstract: a row is due or not, a lock is fresh or
expired, a definition some units from `next_run_at`. It implements WorkQueue:
`ImplementsWorkQueue`, where the holder of a job is the tick between claim and settle.

**NovaOutbox** (extends JobScheduler; `novaOutbox.ts`, `novaIntegrationStatus.ts`). The
promoter runs inside a tick that stands at `select` (`ScanOutbox`, `EnqueueDrain`), the
drain handler inside a tick that holds a drain job (`ClaimDueRows`, `Deliver`,
`MarkDelivered`, `MarkFailed`, `DrainReturns`, `DrainThrows`), and the tick's own actions
are the ones of JobScheduler. A job type stands for the drain job of one tenant. Nova is
external: it accepts or not, and its answer arrives or not. `RowGoesStale` is the ten
minutes of `DELIVERING_STALE_MS`; a batch is at most 20 rows of 10 s each, less than
that, so a row that a live drain still has goes stale only under the trouble "slow".
It implements EventDelivery.

**AccountingOutbox** (`accountingEmission.ts`, `accountingOutboxDrainer.ts`,
`connectorFramework.ts`). A request builds an envelope and enqueues it later; a drain
pass claims a batch, takes one job after another, calls the provider and records the
result. The revision of a document stands for all the facts the envelope carries. A job
whose result could not be recorded, or whose pass died, stays running and no action takes
it up again, as in the code (`Stranded`). It implements EventDelivery, with a rejection as
refusal; that is a promise about the outcomes on record, not that there will be one.

**FieldSync** (`src/modules/offlineQueue/index.ts`, `api/services/fieldSync.ts`,
`api/routes/fieldSync.ts`, migration `013_field_sync.sql`). Tabs share `queue` and
flush it each on its own; `request` is a batch the server works on, which may outlive
the tab that sent it; `record` is the ledger. `Execute` is the transaction of
`_processOne`, which writes the mutation and its ledger row together; `ExecuteFails` is
a rollback, or a commit whose acknowledgement was lost. The row a device edits has an
`updated_at` in microseconds of which the device knows milliseconds, so an update from
the current version may succeed or conflict. Requeue, remove and enqueue have no caller
in the user interface yet and are modelled as they stand.

**AgentTasks** (`agentTaskQueue.ts`, `agentWorker.ts`, `agentExecutionLedger.ts`).
`task` is `agent_tasks`; `live` the executions in flight, each with the number of its
claim and the statement it is at; `active` and `claiming` the counter of a worker and
its polls that await a claim. `Poll`, `ClaimTask`, `ClaimNoTask` are `_pollAndExecute`;
`OpenExecution`, `MarkTaskRunning`, `CompleteTask`, `WorkThrows`, `FailTask`,
`CloseExecution`, `CloseThrows` the statements of `_executeTask`, each of which names
the task by id alone; `ReclaimStaleTasks` the sweep; `Die` the death of a process,
which a rejected statement outside the `try` block is too. A claim grows stale under an
execution still at work only if "slow" is among the mishaps.

**NovaCommands** (`novaCommands.ts`). A request is at one of the steps of its
transaction; what it has inserted under a unique index makes others wait (`HasKey`,
`HasNumber`, `HasNova`), and is seen by them only after `Committed`. `answers` is all
Nova was ever told. Meanwhile people create projects (`CreateByHand`, for which the
INSERT of `projects.ts` waits under the same unique index) and delete them
(`DeleteProject`): the link goes with the project by `ON DELETE CASCADE`, the ledger row
stays, and `deleted` remembers what there was.

**SnapshotDiff** (`novaSnapshotDiff.ts`, `novaProgressProjection.ts`). A diff job reads
the link, the project row, its counts and its packages at four moments, and emits in
two transactions. A hash is what it is a hash of; `project.create` seeds it with a
summary no projection ever shows. `outbox` is `nova_outbox`, for each thing the events
about it in the order of `seq`; their further life is NovaOutbox. The order of events
about different things is left out: the diff does not look at it.

**PackWorker** (`packWorker.ts`, `commissioning.ts`). `packJob` is `generation_jobs`,
`credits` the sum of `billing_credits`, `tick` the ticks in progress of all processes.
`Drafted` is the transaction of pack, charge and completion, with or without an answer
to its COMMIT.

**MobileSync** (`syncEngine.ts`, `conflictResolver.ts`). One action per statement of
`applyMutation` and of `resolveConflict`, which share no transaction; `effects` counts
how often an edit changed or made its entity. The handlers of `_dispatchMutation` are an
action each: `DispatchCreate` (the two INSERTs), `DispatchComplete` (an UPDATE whose row
count nobody reads), `DispatchUpdate` and `UpdateFound` (a SELECT, then such an UPDATE),
`DispatchThrows`. `gone` holds the edits whose entity is not there, because it never was
or because `DeleteEntity` took it at any moment; an UPDATE then changes nothing and
succeeds. The type of an edit is left open, and so is which columns the database has:
with the migrations of this repository alone `create_punch_item` (no `punch_list_id`),
`complete_inspection` (no columns `completed_by`, `completed_at`) and the notes of a daily
log (no such column) always throw.

**CostPosting** (`timesheetService.ts`, `costEntryService.ts`). An approval holds the
row it read `FOR UPDATE` until it commits or rolls back; other writers wait (`Locked`).

**CriticalPath** (`cpm.ts`, `schedule.ts`). `duration` and `lag` are the tables the
routes edit, `elsewhere` the tasks of other projects, to and from which `AddDependency`
may link, since the route asks for the project of neither task. A dependency is read for
the project its predecessor is in (`LeadOut`): one from elsewhere is ignored, one that
leads elsewhere is a `CpmMissingTaskError` and a 409 (`MissingTask`). The tasks and the
dependencies are read by two queries at once, so a dependency of a task made in between
is missing its task as well. The other variables are the locals of `computeCpm`, one turn of a loop at a
time: `Compute` reads the network, `TakeReady` is a turn of Kahn's loop (any task of the
queue, whose order is that of the rows), `Sorted` accepts or rejects what it took,
`PassForward` and `PassBackward` are the two passes along `topo`, `SendResult` the
answer. The function is synchronous and works on the rows it was given, so the edits
wait for its end and nothing is lost by it.

No step of one of these seven reads or writes what another one does. **MCServices**
lets one of them move in each behaviour, so that one run checks them all, and each keeps
its own specification (`AgentSpec`, `CommandsSpec`, ...) for the theorems.

The other modules `MC...` hold model values, small instances and symmetry for TLC; the
modules `..._proofs` the theorems.

## 3. Runs

| Run | Instance and bounds | What it shows |
| --- | --- | --- |
| `scheduler_jobs` | overlapping ticks of two processes, one definition, two rows of which one ad hoc, limits 0 and 2, crashes, failing statements, retries and edits (70 thousand states) | types; a held job is running with the attempts its claim returned; one owner; a queued job can be claimed; no firing is lost wherever a promotion breaks off; only the owner settles; the queue implements WorkQueue |
| `scheduler_promotion` | two overlapping ticks, a definition (recurring or one-shot), seven rows, three units of time, fair (90 thousand states) | each time a definition comes due it fires, and at most once for each tick; a recurring one is never further away than one interval for each tick; every job that can be claimed settles |
| `scheduler_one_shot` | two ticks, a one-shot, nothing fails | violation: it fires twice |
| `nova_delivery` | overlapping ticks of two processes, a row of a tenant, four drain jobs, ladder of two, crashes, failing statements, Nova down, flag off, symmetry (350 thousand states) | types; one drain per row; dead means the ladder was spent; no more active drain jobs than ticks; the outbox implements EventDelivery |
| `nova_settles` | one process, two tenants, Nova down, slow drains, retries by hand, fair (22 thousand states) | delivered means accepted; every event is delivered or dead in the end |
| `nova_stuck` | one process that may crash, fair | violation: a row left delivering is never reclaimed |
| `accounting_delivery` | two passes, two documents, one request, crashes and failing statements, symmetry (590 thousand states) | types; one pass per job; calls of the provider are counted; the boundary implements EventDelivery |
| `accounting_corrected` | one of each, nothing fails | violation: a corrected document is turned away |
| `accounting_stranded` | two passes, one document, failing statements, fair | violation: a job whose result was not recorded stays running for ever |
| `field_sync` | two operations, two tabs, two requests, one row, chunk of two, two versions by others; failing transactions, crashes, closed tabs, symmetry (1.3 million states) | types; applied once; one of two edits of a version wins; the device settles only what is on record |
| `services` | the seven services of MCServices one at a time: two tasks, one worker with two polls, a retry, one death; two requests, keys and bodies, a project made and one deleted by people; one package, two values, two changes, a failing statement; two jobs and ticks with a credit each; one edit, two uploads; a timesheet, a cost entry, two approvals; three activities, of this project or of another (370 thousand states) | types; the properties listed below, safety and liveness, of each |
| `field_refusal` | one tab, chunk of one, lost connections | violation: a refused operation is called synced |

What `services` shows, service by service. Agent tasks: `ExecutionsBounded` (at most
`max_retries + 1` executions, whoever requeues), `ConcurrencyBounded` (overlapping polls
overshoot by less than their number), `OneAtWork` (no two workers on a task that none of
them outlived), `AtRestStays` (settled is settled), `EveryTaskSettles` (liveness).
Commands: `AnswersAgree` (whatever Nova was told stays true until the project it is about
is deleted, and what was deleted never comes back under its key). Snapshot diff: `NoRepeats`
(an event means a change), `EveryChangeTold` (once a project rests, the last event says
how it is). Packs: `OverdraftBounded`, `PackedOnce`. Mobile sync: `EditedOnce` (at most one effect; an edit
called applied without a conflict had it, or had nothing to apply to). Costs:
`PostedOnce`. Schedule: `CriticalPathIsTrue` (a project with a dependency
that leads out of it is never computed; any other is rejected if and only if it has
a cycle; its finish is the first day by which any schedule that keeps the dependencies
is done; the float of a task is exactly how much longer it may take without moving that
day, leads longer than the task they lead excepted, see section 6). The property
quantifies over schedules, not over the paths of the algorithm.

Why the bounds are enough to be interesting: two of everything that can compete (ticks,
processes, passes, tabs, requests) and two of what they compete for; a limit of attempts
of two, so that a row is retried, and retried once too often; a limit of zero, which the
admin routes accept. A lost connection differs from a closed tab only in what the tab
does next, so `field_sync` has the second and `field_refusal` the first; a request that
dies covers an answer that is lost as far as the server goes. `FiringsBounded`,
`CadenceKept` and `DrainsBounded` say one for each tick: with ticks that do not overlap
that is one firing, one interval, one drain job, and with two that do, TLC reaches two of
each, so the bound is the best there is. `NoLostFiring` and `FiringsBounded` count a
definition until it is edited: an administrator who moves a definition away from its due
time and back while it is being promoted loses that firing, and nothing says he should
not. `scheduler_promotion` has no crashes and no failing statements, so that its liveness
is not that of a system that stopped; the theorems about its safety properties have
both. `nova_delivery` has no slow drains and no retries by hand, because with
either two drains may have the same row: attempts may then be recorded from a stale
snapshot, and the claims about the ladder fail (this is among the hazards). That even
then delivered means accepted is proved, for any instance (`DeliveredOnlyIfAccepted`);
`nova_settles` checks it on its own small one. `nova_delivery` has no retries of settled
drain jobs by an administrator, each of which makes one more of them active. `services`
has one diff
job, since with two of a tenant, which overlapping promoters can make, `NoRepeats`
fails; a task has one retry, which is enough to be requeued by one side while the other
still works on it; durations 0 and 2 with lags -1 and 1 give milestones, leads shorter
than a task and longer than a milestone, and three activities all shapes up to a
triangle and a cycle, within a project or out of it. Safety runs state no fairness. Deadlock is checked everywhere but
in the two runs of FieldSync, where all operations may be settled or removed, and in
`services`, where some services come to rest: every edit uploaded, every document
closed.

In all runs the bounds are guards: `MaxJobs`, `MaxAdHoc`, `MaxClock` (JobScheduler),
`MaxRows`, `Room` and `LadderRoom` (NovaOutbox), `MaxRevision` (AccountingOutbox),
`MaxVersion` (FieldSync), `MaxPolls` and `MaxCrashes` (AgentTasks), `MaxAnswers`
and `MaxByPeople` (NovaCommands), `MaxChanges` and `MaxFailures` (SnapshotDiff), `MaxDelta` and
`MaxGrants` (PackWorker). No run uses a state constraint.

## 4. Fairness

`FairSpec` and `NovaFairSpec` assume that a tick that can take a step takes it in the
end: `setInterval` keeps starting ticks, and statements, handlers and calls of Nova
(which have a timeout) return or throw. They assume that time passes, so delays run
out. `NovaFairSpec` is strongly fair towards the scan of a process, since
`SCAN_MIN_INTERVAL_MS` withholds it from many ticks though never for ever. Nothing is
assumed of an enqueue, an administrator, a crash, the way a handler settles, or Nova.
`FairSpec` of AccountingOutbox, which only `accounting_stranded` uses, supposes that
passes are started again and again and that backoffs run out, although nothing in
production calls the drainer yet: even then the job stays where it is. FieldSync states
no fairness: a flush starts only on an event of the browser, and a `fetch` without an
answer holds up its tab until the page is closed.

`AgentFairness` assumes that both intervals of a worker keep firing, that a statement or
an agent answers one way or the other, and that `scheduled_at` and the stale age pass;
nothing of an enqueue, a cancellation, an expiry or a death. `DiffFairness` assumes that
the promoter, which runs with every tick of the scheduler, and the handler go on; that a
process dies in mid-handler is a matter of JobScheduler. `ServicesFairness` is these two,
each conditional on the service that moves. The others claim no liveness.

## 5. Proofs

All theorems are of the specifications the runs check, for any number of ticks,
processes, jobs, definitions, documents, passes, tabs, requests, operations and rows,
and for every set of mishaps. They rest on the named assumptions on constants in the
modules (types, `Nobody` is not a tick, bounds are natural numbers, the tasks of a
schedule are finitely many) and, where it says so below, on the hypotheses a theorem
states.

**JobScheduler_proofs.** `Typing`: TypeOK is inductive. `HeldRunning` and
`MutualExclusion`: neither property is inductive alone, since a claim makes a job held
by a new tick: the invariant is their conjunction, for a held job is running, a claim takes
only queued jobs, and all that moves a job out of running is the tick that holds it.
`NothingStuckInQueue` adds that the attempts of a queued job are below its limit and
its lock is clear, which `Fail` keeps by deciding with the attempts of the claim; here
`HeldIsRunning` is needed. `OwnerSettles` is the action property from the same
invariant. `Implementation`: the refinement mapping sends a job to its row and the tick
that holds it (`CHOOSE`, made unique by `SingleOwner`); each action maps to an action
of WorkQueue or a stutter, by lemmas for inserts, claims, settlements, crashes and retries.

`LosesNoFiring`, `FiresPerTick` and `KeepsCadence` have no hypotheses: ticks may overlap
in any number, die, and see their statements fail. Their invariant `Kept` says of what
ticks have in hand (`Promoting`) that it is as the definitions read, as long as nobody
edits these, and one entry for each; and of each definition (`Tally`) that the ticks that
still have to insert a job for it, those that have inserted one and still have to record
it, and what has fired and been added to its next run, never come to more than there are
ticks. A failed UPDATE leaves the definition due for all to see, so that it is counted
again from the ticks still at work.

**NovaOutbox_proofs.** `SchedulerStep`: every step of the outbox is a step of the
scheduler, a stutter, or the insert of a drain job, so the scheduler's types carry over
(`NovaTyping`). `DeliveredOnlyIfAccepted` needs only that a drain about to mark a row was
told so by Nova (`Told`), and holds for every trouble. `OneDrain` assumes no slow drains
and no retries by hand: a row is claimed again only when it is stale, and it does not go
stale while a drain has it (`Exclusive`). `DeadOnlyAfterLadder` assumes no retries by
hand: the attempts a row holds, and those a drain has read, were all made (`Ladder`).
`DeliversAtLeastOnce` maps a row to an event under both assumptions, and uses all of
these.

The queue's own promises hold under the outbox too: `QueueStaysSound`,
`OnlyDrainOwnerSettles`, and `DrainQueueImplements`, the refinement of WorkQueue for
drain jobs (it assumes that the limit of a drain job, `DrainAttempts`, is one of the
limits the abstract queue may give an item, `AttemptLimits`). The lemmas of JobScheduler
carry over by `SchedulerStep`; what is new is the insert of a drain job, which uses a
row nobody has seen. `DrainsNeverPileUp` assumes that nobody retries a settled drain job
(`POST /background/:id/retry`; the retry of outbox rows does no harm). A promoter looks
for active drains and enqueues later, so the invariant `PileRoom` counts with the active
drain jobs of a tenant the ticks whose look found none (`Scanners`): together they are
never more than there are ticks, since a tick looks before each insert and finds nothing
while a job is active. `Quiet` says that no definition inserts a drain job meanwhile.

**AccountingOutbox_proofs.** `OnePass` needs that a pass never has a job both in hand
and still to come (`Apart`), or settling one would leave a settled job in the batch.
`SendsAreCounted` needs that a pass about to call the provider has an attempt in hand
that is not used up: sends are below attempts while the call is still to come.
`DeliversAtLeastOnce` adds what a pass has learnt from the provider (`Informed`); it is
safety only, and a stranded job is pending in it for ever.

**FieldSync_proofs.** `Once`: the ledger changes in one way only, from no row to a row,
with the mutation in the same transaction. `Settled`: what a tab marks is what it was
told, so the invariant is about answers on their way as well, in requests and in tabs;
it is stable because a ledger row never changes. `OneWins`: an applied update has moved
its row past the version it was made from, and rows only grow, so a second update from
that version finds no match; calls never change once queued.

**Workers_proofs.** Agent tasks and packs. `BoundedExecutions` is about numbers no
statement compares: the invariant `Paid` says that every return to the queue has been
paid for with a retry, so that a task has at most one claim more than retries, and none
more while it is queued. `BoundedConcurrency`: a worker's counter counts its executions,
and polls that passed the check are few (`Counted`). `WorkedOnOnce` and `RestIsFinal`:
until it has written its outcome, an execution that is not late keeps its task out of
the queue and out of the reach of the sweep (`Guarded`).

`DraftsAreCharged`: a tick has its job to itself, and until it has
failed this attempt has not drafted (`Held`). `OverdraftIsBounded`: the drafts that
passed the check of the balance have been promised their cost, and one of them at least
was promised what was there (`Covered`), by the cardinality of the ticks at that step.

**NovaLink_proofs.** `AnswersStayTrue`: an open transaction is the only one to have
inserted its key, number and Nova project, and none of them was there before it
(`Reserved`); ledger rows, once committed, are for good, and so is a project among those
there are and those that were deleted, which is all an answer refers to.
`OnlyChangesAreTold` assumes one diff job at a time. The link row remembers what the last
event about each thing said (`Remembered`), and what a job has read of the link is still
what the link says, the packages to its end, the summary until it is emitted
(`UpToDate`); so what is emitted differs from the last event. `DiffTyping` needs no such
assumption.

**FieldRecords_proofs.** `EditsTakeEffectOnce`: who inserted the row of an edit is alone
with it until it lets go, and nobody comes after it (`Owned`); between the handler and the
mark it has its effect, or its entity is gone, and stays gone. `CostsPostedOnce`: a
document that is locked is as its transaction read it (`HeldAsRead`).

**Services_proofs.** `CriticalPathHolds`: since a turn of a loop is a step, what the
loops compute needs no induction over data but a loop invariant, `NetworkInv`.
The route looks first for links out of the project, and none is added while it computes
(`Contained`). `SortInv`: no task is taken twice, before a predecessor, or from any set whose members
all wait for one another; the queue holds exactly what can be taken next, so that what
is left when it is empty is such a set. `PassInv`: which of the locals a pass has
filled. `EarlyInv`: the early starts keep the dependencies, and no schedule with tasks
at least as long starts any of them earlier. `LateInv`: the late finishes keep the
dependencies, are within the project if the leads fit, and no schedule that is in time,
with tasks at least as long, finishes any later. The theorem follows with two schedules:
the early starts show that the finish can be met; the early starts up to the longer task
in the order of `topo`, with the late starts behind it, that the float can be used;
minimality and maximality show that neither can be bettered. Maxima and minima of finite
sets of days come from the finite-set theorems (`MaxIsLargest`, `MinIsSmallest`).

`EachServiceAsSpecified`: MCServices moves one service in a behaviour and leaves the
variables of the others alone, so that a behaviour of it is one of each service. From this
`ServicesTyping`, and `ServicesKeepPromises` for the nine safety properties without an
assumption on overlaps, follow from the theorems about the parts. `NoRepeats` is not
among the nine: it holds of one diff job, as `OnlyChangesAreTold` states.

Only model-checked: everything about liveness (`EveryJobSettles`, `OwedIsPromoted`,
the settling of outbox rows and tasks, `EveryChangeTold`), which the proof system does
not handle. Every safety property of a run that passes is stated by a theorem. What
lies outside a theorem's hypotheses is not claimed by any run either; section 6, the
bounds in section 3 and the hazards in PROJECT.json name the cases that fail there.

## 6. Disagreements between code and text

Each of the runs that end in a violation shows one:

* `scheduler_one_shot`: `_promoteDueScheduled` selects due definitions without a lock
  and updates them one by one afterwards, so ticks that overlap both promote a
  one-shot, which the migration says "is auto-disabled after it fires".
* `nova_stuck`: the comment on `DELIVERING_STALE_MS` promises to reclaim rows stuck by
  a crash. The crash also leaves the drain job running, `_claimJob` never looks at a
  running job (its clause on `LOCK_TIMEOUT_MS` is under `status = 'queued'`), and the
  promoter skips a tenant that has one.
* `accounting_corrected`: the drainer tells a human to fix a rejected document and emit
  it again; the key does not depend on its facts, so that is answered `already_emitted`.
* `accounting_stranded`: a job whose result could not be recorded "stays 'running' and is
  reclaimed by the stale sweep" (`accountingOutboxDrainer.ts:348`). There is no sweep of
  `integration_jobs`; both claims take pending jobs only. The job sits in running for
  ever, "the one outcome an outbox must not have" (line 251), and its key keeps the
  document from being emitted again.
* `field_refusal`: a replayed result loses its own status on the server, and the
  device counts every replay as synced, refusals included.

Others came up along the way; no run is set aside for them:

* `JobScheduler`: the comment on `GREATEST` (`scheduler.ts:174`) has a definition advance
  to one interval from now. Two ticks that overlap, which `setInterval` allows in one
  process, each add the interval: the definition fires twice now and then only after two
  intervals. `FiringsBounded` and `CadenceKept` state the bound that is left.
* `NovaOutbox`: the promoter means to "skip tenants that already have a queued/running
  drain job so the queue never piles up" (`novaOutbox.ts:300`); two ticks that look at
  once both enqueue. `DrainsBounded` states how far it piles up.
* `NovaCommands`: after `DELETE /api/v1/projects/:id` a repeated command is answered
  `already_exists` (`novaCommands.ts:341`) with a project that is gone, and a new key is
  free to make it again.
* `MobileSync`: an edit is marked applied although its UPDATE changed no row, if the row is
  deleted after the SELECT (`syncEngine.ts:198`) or the inspection is not there (line 213).
* `CriticalPath`: `POST /:projectId/dependencies` links tasks of any projects
  (`schedule.ts:142`). A link out of the project makes its critical path a 409
  `missing_task` from then on; a link into it is ignored.

* `CriticalPath`: `014_schedule_cpm.sql:51` lets `lag_days` be negative, and
  `computeCpm` takes the late finish of a task from its successors alone (`cpm.ts:140`).
  With a lead longer than the successor (10 days, then 2 days with a lag of -5) the
  predecessor ends the project, yet its late finish comes after the end, its float is
  positive and it is not called critical. `CriticalPathIsTrue` excepts such networks by
  `LeadsFit`; without that conjunct TLC shows two tasks. A comment (`cpm.ts:103`)
  promises to isolate one offending cycle for the error; every task that was not taken
  is named, those behind the cycle included.
* `AgentTasks`: `docs/AGENT_TASK_QUEUE_AND_LEDGER.md:51` has the sweep reclaim stale
  tasks; it spares those without retries left and those that a late `markTaskRunning`
  marks after they lost their `claimed_at` (`Abandoned`). A task that is completed and
  whose closing event fails is executed again.
* `SnapshotDiff`: the hash `project.create` stores (`novaCommands.ts:390`) is of a
  summary without counts, so the first diff always emits, which the comment says it
  avoids.
* `PackWorker`: the comment on `_claimJob` (`packWorker.ts:91`) says it reclaims jobs
  with an old lock, its WHERE does not, so a job whose process died stays running; the
  check the route calls authoritative (`commissioning.ts:185`) does not keep the balance
  from going negative.
* `MobileSync`: `client_wins` (`conflictResolver.ts:7`) writes nothing to the entity;
  the edit is called applied all the same.
* `changeOrderService.ts:75` mentions an advisory lock that does not exist, and the
  INSERT below it adds a number to a VARCHAR. `upsertTimesheet` on a week that is no
  longer a draft returns no row and throws on it (`timesheetService.ts:119`).

## 7. Limits of the models

A failing statement has no effect, except in FieldSync, PackWorker, NovaCommands and
MobileSync, where it may have gone through and its answer been lost. Lengths of delays,
priorities, the batch limits of a SELECT (50 definitions, 20 rows) and audit rows are
left out; the order of `created_at` decides a claim, the order within a batch is
arbitrary. Handlers of the scheduler other than the drain of Nova are a return or a
throw. In NovaOutbox the lock of a job does not age, because `QueuedIsClaimable` shows
that it decides nothing. Connector health counters, metrics and signatures are left out.
In FieldSync the tables are rows with a version, and an operation fits or does not;
authorization of a request is not modelled. In AgentTasks approval and handoff are left
out, since `pendApproval` has no caller (nor has `startWorker` in production).
SnapshotDiff does not let a process die in the handler. MobileSync leaves `pullDelta`
out: a device that pages by `published_at` may skip events that share the timestamp of a
page's last one. In PackWorker two finalizing jobs of a pack may mix their files, which
the model does not show, as it knows no contents. SnapshotDiff has the link there
throughout: with its project deleted in mid-job the UPDATE of the link changes nothing and
the last event stands. In CriticalPath the two queries of one request differ at most by
tasks made in between. What is not modelled at all is listed in PROJECT.json with the
reason: pending work of the plan, or computations and tables without behaviour over
time.

## 8. Plan

Done: WorkQueue, EventDelivery, JobScheduler, NovaOutbox, AccountingOutbox, FieldSync,
AgentTasks, NovaCommands, SnapshotDiff, PackWorker, MobileSync, CostPosting,
CriticalPath, with the proofs above. Next, in order of importance:

1. `NotificationQueue`: claim, delivery and the deduplication key of a stranded row;
   of the shape of AgentTasks, to be checked as one more part of MCServices.
2. The middleware for idempotent requests as a third implementation, beside FieldSync
   and NovaCommands, of an abstract ledger with one effect per key, and the refinements.
3. `SnapshotDiff` with the events of NovaOutbox in place of sequences, two diff jobs, and
   the stale guard on the side of Nova.
4. `Lease` and `CircuitBreaker`, and the promoter of the integration pull, whose claim
   comes before its enqueue.
5. Pay applications and change orders, with their lines and the status read before.
6. Proofs: which promises of the outbox survive slow drains and retries by hand.
