----------------------------- MODULE AgentTasks -----------------------------
(***************************************************************************)
(* The agent task queue (api/services/agents/agentTaskQueue.ts) and the    *)
(* worker that drains it (agentWorker.ts).                                 *)
(*                                                                         *)
(* Every SQL statement is one action.  A worker is a process: it polls by  *)
(* setInterval without waiting for the last poll, and starts the execution *)
(* of a claimed task without awaiting it, so that polls, executions and    *)
(* the sweep for stale tasks interleave, inside a process and between two. *)
(***************************************************************************)
EXTENDS Integers, FiniteSets

CONSTANTS
  Tasks,          \* rows agent_tasks may hold
  Workers,        \* processes that run startWorker
  MaxRetries,     \* max_retries of every task
  MaxConcurrent,  \* maxConcurrentTasks of the worker's configuration
  MaxPolls,       \* bound: polls of one worker that await a claim at a time
  MaxCrashes,     \* bound: process deaths
  Mishaps         \* what may go wrong, see Troubles

\* "crash": a process dies; "db": a statement inside the try block fails;
\* "slow": an execution outlives staleTaskAgeMinutes; "cancel": cancelTask.
Troubles == {"crash", "db", "slow", "cancel"}

ASSUME AgentBounds ==
  /\ MaxRetries \in Nat /\ MaxConcurrent \in Nat \ {0}
  /\ MaxPolls \in Nat \ {0} /\ MaxCrashes \in Nat
ASSUME MishapsAssumption == Mishaps \subseteq Troubles

VARIABLES
  task,      \* agent_tasks
  live,      \* executions in flight: which task, its how-manieth claim, whose, where
  active,    \* activeTaskCount of each worker
  claiming,  \* polls of each worker suspended in claimNextTask
  claims,    \* history: how often each task was claimed
  late,      \* history: tasks of which an execution outlived the stale age
  crashes    \* process deaths so far

agentVars == <<task, live, active, claiming, claims, late, crashes>>

-----------------------------------------------------------------------------
(* Rows and executions *)

Settled      == {"completed", "failed", "cancelled"}
TaskStatuses == {"absent", "queued", "assigned", "running"} \cup Settled

\* window: scheduled_at ahead, between scheduled_at and expires_at, or past it;
\* claimed: claimed_at null, recent, or older than the stale age.
TaskRow == [status : TaskStatuses, retries : Nat,
            window : {"ahead", "open", "past"}, claimed : {"null", "recent", "stale"}]

NoTask == [status |-> "absent", retries |-> 0, window |-> "ahead", claimed |-> "null"]

AtWork == {"open", "mark", "work"}
Steps  == AtWork \cup {"close", "fail", "closeFailed"}

Execution == [task : Tasks, n : Nat \ {0}, by : Workers, step : Steps]

AgentInit ==
  /\ task = [k \in Tasks |-> NoTask]
  /\ live = {}
  /\ active = [w \in Workers |-> 0]
  /\ claiming = [w \in Workers |-> 0]
  /\ claims = [k \in Tasks |-> 0]
  /\ late = {}
  /\ crashes = 0

At(x, step)      == [x EXCEPT !.step = step]
Advance(x, step) == live' = (live \ {x}) \cup {At(x, step)}

\* The finally block of _pollAndExecute: the execution is over.
End(x) == /\ live' = live \ {x}
          /\ active' = [active EXCEPT ![x.by] = @ - 1]

-----------------------------------------------------------------------------
(* enqueueTask, cancelTask, the passing of time *)

\* INSERT ... ON CONFLICT (idempotency_key) DO NOTHING: a repeat adds no row.
EnqueueTask(k) ==
  /\ task[k].status = "absent"
  /\ \E window \in {"ahead", "open"} :
       task' = [task EXCEPT ![k].status = "queued", ![k].window = window]
  /\ UNCHANGED <<live, active, claiming, claims, late, crashes>>

\* scheduled_at passes.
TaskFallsDue(k) ==
  /\ task[k].status # "absent" /\ task[k].window = "ahead"
  /\ task' = [task EXCEPT ![k].window = "open"]
  /\ UNCHANGED <<live, active, claiming, claims, late, crashes>>

\* expires_at passes, if the task has one.
TaskExpires(k) ==
  /\ task[k].status # "absent" /\ task[k].window = "open"
  /\ task' = [task EXCEPT ![k].window = "past"]
  /\ UNCHANGED <<live, active, claiming, claims, late, crashes>>

\* claimed_at falls staleTaskAgeMinutes behind.
ClaimGrowsStale(k) ==
  LET working == \E x \in live : x.task = k /\ x.step # "closeFailed"
  IN  /\ task[k].claimed = "recent"
      /\ working => "slow" \in Mishaps
      /\ task' = [task EXCEPT ![k].claimed = "stale"]
      /\ late' = IF working THEN late \cup {k} ELSE late
      /\ UNCHANGED <<live, active, claiming, claims, crashes>>

CancelTask(k) ==
  /\ "cancel" \in Mishaps
  /\ task[k].status \in {"queued", "assigned"}
  /\ task' = [task EXCEPT ![k].status = "cancelled"]
  /\ UNCHANGED <<live, active, claiming, claims, late, crashes>>

-----------------------------------------------------------------------------
(* startWorker and _pollAndExecute *)

\* Bug: the poll starts without looking at activeTaskCount.
PollUnchecked(w) ==
  /\ claiming[w] < MaxPolls
  /\ claiming' = [claiming EXCEPT ![w] = @ + 1]
  /\ UNCHANGED <<task, live, active, claims, late, crashes>>

\* A tick of the interval: passes the check and awaits claimNextTask.
Poll(w) ==
  /\ claiming[w] < MaxPolls /\ active[w] < MaxConcurrent
  /\ claiming' = [claiming EXCEPT ![w] = @ + 1]
  /\ UNCHANGED <<task, live, active, claims, late, crashes>>

Eligible(k) == task[k].status = "queued" /\ task[k].window = "open"

\* The loop goes on claiming while the batch and activeTaskCount allow.
NextIteration(w) ==
  \/ claiming' = [claiming EXCEPT ![w] = @ - 1]
  \/ active'[w] < MaxConcurrent /\ UNCHANGED claiming

\* UPDATE ... FOR UPDATE SKIP LOCKED, then _executeTask without await.  Which
\* eligible row comes first is a matter of priority and scheduled_at: any.
ClaimTask(w) ==
  /\ claiming[w] > 0
  /\ \E k \in Tasks :
       /\ Eligible(k)
       /\ task' = [task EXCEPT ![k].status = "assigned", ![k].claimed = "recent"]
       /\ claims' = [claims EXCEPT ![k] = @ + 1]
       /\ live' = live \cup {[task |-> k, n |-> claims[k] + 1, by |-> w, step |-> "open"]}
  /\ active' = [active EXCEPT ![w] = @ + 1]
  /\ NextIteration(w)
  /\ UNCHANGED <<late, crashes>>

ClaimNoTask(w) ==
  /\ claiming[w] > 0
  /\ \A k \in Tasks : ~Eligible(k)
  /\ claiming' = [claiming EXCEPT ![w] = @ - 1]
  /\ UNCHANGED <<task, live, active, claims, late, crashes>>

-----------------------------------------------------------------------------
(* _executeTask: every statement names the task by id alone *)

OpenExecution(x) ==
  /\ x.step = "open"
  /\ Advance(x, "mark")
  /\ UNCHANGED <<task, active, claiming, claims, late, crashes>>

\* markTaskRunning leaves claimed_at alone, be it null by now.
MarkTaskRunning(x) ==
  /\ x.step = "mark"
  /\ task' = [task EXCEPT ![x.task].status = "running"]
  /\ Advance(x, "work")
  /\ UNCHANGED <<active, claiming, claims, late, crashes>>

\* Governance allows it, the agent answers: completeTask.
CompleteTask(x) ==
  /\ x.step = "work"
  /\ task' = [task EXCEPT ![x.task].status = "completed"]
  /\ Advance(x, "close")
  /\ UNCHANGED <<active, claiming, claims, late, crashes>>

\* Governance blocks it, or the agent or a statement of the try block throws.
WorkThrows(x) ==
  /\ x.step = "work"
  /\ Advance(x, "fail")
  /\ UNCHANGED <<task, active, claiming, claims, late, crashes>>

\* closeExecution inserts the closing event; .finally ends the execution.
CloseExecution(x) ==
  /\ x.step \in {"close", "closeFailed"}
  /\ End(x)
  /\ UNCHANGED <<task, claiming, claims, late, crashes>>

\* closeExecution throws after completeTask: the catch fails a completed task.
CloseThrows(x) ==
  /\ "db" \in Mishaps
  /\ x.step = "close"
  /\ Advance(x, "fail")
  /\ UNCHANGED <<task, active, claiming, claims, late, crashes>>

\* Bug: one retry too many.
FailedOnceMore(row) ==
  [row EXCEPT !.status = IF row.retries <= MaxRetries THEN "queued" ELSE "failed",
              !.retries = @ + 1, !.claimed = "null"]

FailedRow(row) ==
  [row EXCEPT !.status = IF row.retries < MaxRetries THEN "queued" ELSE "failed",
              !.retries = @ + 1, !.claimed = "null"]

FailTask(x) ==
  /\ x.step = "fail"
  /\ task' = [task EXCEPT ![x.task] = FailedRow(@)]
  /\ Advance(x, "closeFailed")
  /\ UNCHANGED <<active, claiming, claims, late, crashes>>

-----------------------------------------------------------------------------
(* reclaimStaleTasks, and the death of a process *)

\* Bug: looks at the age of the claim alone.
StaleByAge(k) == task[k].claimed = "stale" /\ task[k].retries < MaxRetries

\* Bug: takes any claim for a stale one.
StaleAtOnce(k) ==
  /\ task[k].status \in {"assigned", "running"}
  /\ task[k].claimed # "null"
  /\ task[k].retries < MaxRetries

\* Bug: the sweep forgets the tasks whose worker died before it marked them running.
StaleRunning(k) ==
  /\ task[k].status = "running"
  /\ task[k].claimed = "stale"
  /\ task[k].retries < MaxRetries

Stale(k) ==
  /\ task[k].status \in {"assigned", "running"}
  /\ task[k].claimed = "stale"
  /\ task[k].retries < MaxRetries

\* One UPDATE over all stale rows, whoever works on them.
ReclaimStaleTasks ==
  /\ \E k \in Tasks : Stale(k)
  /\ task' = [k \in Tasks |->
       IF Stale(k) THEN [task[k] EXCEPT !.status = "queued", !.retries = @ + 1,
                                        !.claimed = "null"]
                   ELSE task[k]]
  /\ UNCHANGED <<live, active, claiming, claims, late, crashes>>

\* A process dies and restarts.  A rejected claim, openExecution,
\* markTaskRunning, failTask, last closeExecution or sweep is awaited by nobody
\* who catches it, and kills the process as a signal would.
Die(w) ==
  /\ "crash" \in Mishaps /\ crashes < MaxCrashes
  /\ crashes' = crashes + 1
  /\ live' = {x \in live : x.by # w}
  /\ active' = [active EXCEPT ![w] = 0]
  /\ claiming' = [claiming EXCEPT ![w] = 0]
  /\ UNCHANGED <<task, claims, late>>

-----------------------------------------------------------------------------
Polling(w) == Poll(w) \/ ClaimTask(w) \/ ClaimNoTask(w)

Executing(x) ==
  \/ OpenExecution(x) \/ MarkTaskRunning(x) \/ CompleteTask(x) \/ WorkThrows(x)
  \/ CloseExecution(x) \/ CloseThrows(x) \/ FailTask(x)

AgentNext ==
  \/ \E k \in Tasks : \/ EnqueueTask(k) \/ CancelTask(k)
                      \/ TaskFallsDue(k) \/ TaskExpires(k) \/ ClaimGrowsStale(k)
  \/ \E w \in Workers : Polling(w) \/ Die(w)
  \/ \E x \in live : Executing(x)
  \/ ReclaimStaleTasks

AgentSpec == AgentInit /\ [][AgentNext]_agentVars

\* The two intervals keep firing, statements and agents answer one way or the
\* other, and time passes; for the executions in flight, and for the tasks, it is
\* enough that one after the other does.  Nobody promises a task, a cancellation,
\* an expiry, or a death.
AgentFairness ==
  /\ \A w \in Workers : WF_agentVars(Poll(w)) /\ WF_agentVars(ClaimTask(w) \/ ClaimNoTask(w))
  /\ WF_agentVars(\E x \in live : Executing(x))
  /\ WF_agentVars(\E k \in Tasks : TaskFallsDue(k))
  /\ WF_agentVars(\E k \in Tasks : ClaimGrowsStale(k))
  /\ WF_agentVars(ReclaimStaleTasks)

AgentFairSpec == AgentSpec /\ AgentFairness

-----------------------------------------------------------------------------
(* Correctness *)

\* Rows, executions and counters keep their types.
AgentTypeOK ==
  /\ task \in [Tasks -> TaskRow]
  /\ live \in SUBSET Execution
  /\ active \in [Workers -> Nat]
  /\ claiming \in [Workers -> 0..MaxPolls]
  /\ claims \in [Tasks -> Nat]
  /\ late \in SUBSET Tasks
  /\ crashes \in Nat

\* However a worker that is given up for dead, the sweep, a cancellation and a
\* closing event that fails take turns in putting a task back, it is executed
\* at most max_retries + 1 times: failTask and reclaimStaleTasks both count
\* whatever they requeue, and neither requeues beyond the limit.
ExecutionsBounded == \A k \in Tasks : claims[k] <= MaxRetries + 1

\* activeTaskCount is checked before an await and counted after it, so polls
\* that overlap overshoot maxConcurrentTasks; by no more than their number.
ConcurrencyBounded ==
  \A w \in Workers :
    Cardinality({x \in live : x.by = w}) <= MaxConcurrent + MaxPolls - 1

\* A task none of whose executions outlived the stale age is never worked on
\* twice at a time, though no statement of _executeTask checks who owns the row.
OneAtWork ==
  \A x, y \in live :
    /\ x.task = y.task /\ x.task \notin late
    /\ x.step \in AtWork /\ y.step \in AtWork
    => x = y

\* A task that is settled and of which no execution is left is left alone: no
\* claim, sweep or worker of another task brings it back.
AtRestStays ==
  [][\A k \in Tasks :
       task[k].status \in Settled /\ (\A x \in live : x.task # k)
         => task'[k].status = task[k].status]_agentVars

\* The sweep spares a task without retries, and one that a late worker marked
\* running after it lost its claimed_at: nobody will ever touch it again.
Abandoned(k) ==
  /\ task[k].status \in {"assigned", "running"}
  /\ \A x \in live : x.task # k
  /\ task[k].retries >= MaxRetries \/ task[k].claimed = "null"

\* A task that may be claimed is in the end completed, failed or cancelled,
\* unless it expires first or is abandoned.
EveryTaskSettles ==
  \A k \in Tasks :
    Eligible(k) ~> \/ task[k].status \in Settled
                   \/ task[k].window = "past"
                   \/ Abandoned(k)
=============================================================================
