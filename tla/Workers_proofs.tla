--------------------------- MODULE Workers_proofs ---------------------------
(***************************************************************************)
(* Theorems about the workers that poll a table: AgentTasks, for any       *)
(* number of tasks, workers, retries and overlapping polls, and any        *)
(* mishap, and PackWorker, for any jobs, costs, grants and attempts, and   *)
(* any number of ticks that overlap.                                       *)
(***************************************************************************)
EXTENDS AgentTasks, PackWorker, FiniteSetTheorems, TLAPS

-----------------------------------------------------------------------------
(* AgentTasks *)

Of(w) == {x \in live : x.by = w}

Rows ==
  /\ task \in [Tasks -> TaskRow]
  /\ claims \in [Tasks -> Nat]
  /\ late \in SUBSET Tasks
  /\ crashes \in Nat

\* An execution is known by its task and its claim.
Numbered ==
  /\ live \in SUBSET Execution /\ IsFiniteSet(live)
  /\ \A x \in live : x.n <= claims[x.task]
  /\ \A x, y \in live : x.task = y.task /\ x.n = y.n => x = y

\* The counters count, and what they admit is bounded.
Counted ==
  /\ active \in [Workers -> Nat] /\ claiming \in [Workers -> 0..MaxPolls]
  /\ \A w \in Workers :
       /\ active[w] = Cardinality(Of(w))
       /\ active[w] + claiming[w] <= MaxConcurrent + MaxPolls - 1

\* Every return to the queue has been paid for with a retry.
Paid ==
  \A k \in Tasks :
    /\ claims[k] <= MaxRetries + 1 /\ claims[k] <= task[k].retries + 1
    /\ task[k].status = "queued" => claims[k] <= MaxRetries /\ claims[k] <= task[k].retries
    /\ task[k].status = "absent" => claims[k] = 0

\* Until it has written its outcome, an execution keeps its task out of the
\* queue and, unless it is late, out of the sweep's reach.
Pending(x) == x.step # "closeFailed"

Guarded ==
  /\ \A x \in live :
       x.task \notin late /\ Pending(x) =>
         /\ task[x.task].status \notin {"queued", "absent"}
         /\ task[x.task].claimed # "stale"
  /\ \A x, y \in live :
       x.task = y.task /\ x.task \notin late /\ Pending(x) /\ Pending(y) => x = y

AgentInv == Rows /\ Numbered /\ Counted /\ Paid /\ Guarded

LEMMA AgentConstants ==
  /\ MaxRetries \in Nat /\ MaxConcurrent \in Nat /\ MaxConcurrent > 0
  /\ MaxPolls \in Nat /\ MaxPolls > 0 /\ MaxCrashes \in Nat
BY AgentBounds

-----------------------------------------------------------------------------
(* What the three ways of changing the set of executions do to it *)

\* An execution that moves on changes its step and nothing else.
LEMMA AdvanceKeeps ==
  ASSUME Numbered, Counted, NEW x \in live, NEW step \in Steps, Advance(x, step),
         claims' = claims, UNCHANGED <<active, claiming>>
  PROVE  /\ Numbered' /\ Counted'
         /\ At(x, step) \in live'
         /\ \A y \in live' : y \in live \/ y = At(x, step)
         /\ At(x, step).task = x.task /\ At(x, step).step = step
         /\ x # At(x, step) => x \notin live'
<1> DEFINE y == At(x, step)
<1>1. /\ x \in Execution /\ y \in Execution
      /\ y.task = x.task /\ y.n = x.n /\ y.by = x.by /\ y.step = step
  BY DEF At, Execution, Numbered
<1>2. live' = (live \ {x}) \cup {y}
  BY DEF Advance
<1> HIDE DEF y
<1>3. y \notin live \ {x}
  BY <1>1 DEF Numbered
<1>4. IsFiniteSet(live \ {x}) /\ IsFiniteSet(live')
  BY <1>2, FS_RemoveElement, FS_AddElement DEF Numbered
<1>5. live' \in SUBSET Execution
  BY <1>1, <1>2 DEF Numbered
<1>6. \A z \in live' : z.n <= claims'[z.task]
  BY <1>1, <1>2 DEF Numbered
<1>7. \A z, v \in live' : z.task = v.task /\ z.n = v.n => z = v
  BY <1>1, <1>2 DEF Numbered
<1>8. Numbered'
  BY <1>4, <1>5, <1>6, <1>7 DEF Numbered
<1>9. ASSUME NEW w \in Workers PROVE Cardinality(Of(w)') = Cardinality(Of(w))
  <2>1. CASE w # x.by
    <3>1. Of(w)' = Of(w)
      BY <1>1, <1>2, <2>1 DEF Of
    <3> QED BY <3>1
  <2>2. CASE w = x.by
    <3>1. Of(w)' = (Of(w) \ {x}) \cup {y} /\ x \in Of(w) /\ y \notin Of(w) \ {x}
      BY <1>1, <1>2, <1>3, <2>2 DEF Of
    <3>2. IsFiniteSet(Of(w))
      BY FS_Subset DEF Of, Numbered
    <3>3. /\ IsFiniteSet(Of(w) \ {x})
          /\ Cardinality(Of(w) \ {x}) = Cardinality(Of(w)) - 1
      BY <3>1, <3>2, FS_RemoveElement
    <3>4. Cardinality(Of(w)') = Cardinality(Of(w) \ {x}) + 1
      BY <3>1, <3>3, FS_AddElement
    <3>5. Cardinality(Of(w)) \in Nat
      BY <3>2, FS_CardinalityType
    <3> QED BY <3>3, <3>4, <3>5
  <2> QED BY <2>1, <2>2
<1>10. Counted'
  BY <1>9 DEF Counted
<1> QED BY <1>1, <1>2, <1>8, <1>10 DEF y

\* An execution that ends leaves, and its worker counts it out.
LEMMA EndKeeps ==
  ASSUME Numbered, Counted, NEW x \in live, End(x), UNCHANGED <<claims, claiming>>
  PROVE  Numbered' /\ Counted' /\ live' \subseteq live
<1>1. x \in Execution /\ x.by \in Workers
  BY DEF Execution, Numbered
<1>2. live' = live \ {x}
  BY DEF End
<1>3. Numbered'
  BY <1>2, FS_RemoveElement DEF Numbered
<1>4. ASSUME NEW w \in Workers
      PROVE  /\ active'[w] \in Nat /\ active'[w] <= active[w]
             /\ active'[w] = Cardinality(Of(w)')
  <2>1. CASE w # x.by
    <3>1. Of(w)' = Of(w)
      BY <1>2, <2>1 DEF Of
    <3> QED BY <1>1, <2>1, <3>1 DEF End, Counted
  <2>2. CASE w = x.by
    <3>1. Of(w)' = Of(w) \ {x} /\ x \in Of(w)
      BY <1>2, <2>2 DEF Of
    <3>2. IsFiniteSet(Of(w))
      BY FS_Subset DEF Of, Numbered
    <3>3. Cardinality(Of(w)') = Cardinality(Of(w)) - 1 /\ IsFiniteSet(Of(w)')
      BY <3>1, <3>2, FS_RemoveElement
    <3>4. Cardinality(Of(w)') \in Nat
      BY <3>3, FS_CardinalityType
    <3>5. active'[w] = active[w] - 1
      BY <2>2 DEF End, Counted
    <3> QED BY <3>3, <3>4, <3>5 DEF Counted
  <2> QED BY <2>1, <2>2
<1>5. active' \in [Workers -> Nat]
  <2>1. active' = [w \in Workers |-> active'[w]]
    BY DEF End, Counted
  <2> QED BY <1>4, <2>1
<1>6. Counted'
  BY <1>4, <1>5, AgentConstants DEF Counted
<1> QED BY <1>2, <1>3, <1>6

\* A process that dies takes its executions and its polls along.
LEMMA DieKeeps ==
  ASSUME Numbered, Counted, NEW w \in Workers, Die(w)
  PROVE  Numbered' /\ Counted' /\ live' \subseteq live
<1>1. /\ live' = {x \in live : x.by # w} /\ claims' = claims
      /\ active' = [active EXCEPT ![w] = 0] /\ claiming' = [claiming EXCEPT ![w] = 0]
  BY DEF Die
<1>2. IsFiniteSet(live')
  BY <1>1, FS_Subset DEF Numbered
<1>3. Numbered'
  BY <1>1, <1>2 DEF Numbered
<1>4. ASSUME NEW v \in Workers
      PROVE  /\ active'[v] = Cardinality(Of(v)')
             /\ active'[v] + claiming'[v] <= MaxConcurrent + MaxPolls - 1
  <2>1. CASE v = w
    <3>1. Of(v)' = {}
      BY <1>1, <2>1 DEF Of
    <3>2. active'[v] = 0 /\ claiming'[v] = 0
      BY <1>1, <2>1 DEF Counted
    <3> QED BY <3>1, <3>2, FS_EmptySet, AgentConstants
  <2>2. CASE v # w
    <3>1. Of(v)' = Of(v)
      BY <1>1, <2>2 DEF Of
    <3>2. active'[v] = active[v] /\ claiming'[v] = claiming[v]
      BY <1>1, <2>2 DEF Counted
    <3> QED BY <3>1, <3>2 DEF Counted
  <2> QED BY <2>1, <2>2
<1>5. active' \in [Workers -> Nat] /\ claiming' \in [Workers -> 0..MaxPolls]
  BY <1>1, AgentConstants DEF Counted
<1> QED BY <1>1, <1>3, <1>4, <1>5 DEF Counted

\* A claim adds one execution, whose number no other execution of the task has.
LEMMA ClaimKeeps ==
  ASSUME Rows, Numbered, Counted, NEW w \in Workers, NEW k \in Tasks, claiming[w] > 0,
         claims' = [claims EXCEPT ![k] = @ + 1],
         live' = live \cup {[task |-> k, n |-> claims[k] + 1, by |-> w, step |-> "open"]},
         active' = [active EXCEPT ![w] = @ + 1],
         NextIteration(w)
  PROVE  Numbered' /\ Counted'
<1> DEFINE x == [task |-> k, n |-> claims[k] + 1, by |-> w, step |-> "open"]
<1>1. /\ x \in Execution /\ x.task = k /\ x.n = claims[k] + 1 /\ x.by = w
      /\ claims[k] \in Nat
  BY DEF Execution, Steps, AtWork, Rows
<1>2. live' = live \cup {x}
  OBVIOUS
<1> HIDE DEF x
<1>3. \A y \in live : y.n \in Nat /\ (y.task = k => y.n <= claims[k])
  BY DEF Numbered, Execution
<1>4. x \notin live
  BY <1>1, <1>3
<1>5. IsFiniteSet(live')
  BY <1>2, FS_AddElement DEF Numbered
<1>6. \A j \in Tasks : claims[j] \in Nat /\ claims'[j] \in Nat /\ claims[j] <= claims'[j]
  BY DEF Rows
<1>7. claims'[k] = claims[k] + 1
  BY DEF Rows
<1>8. ASSUME NEW y \in live' PROVE y.n <= claims'[y.task]
  <2>1. CASE y = x
    BY <1>1, <1>7, <2>1
  <2>2. CASE y \in live
    <3>1. y.task \in Tasks /\ y.n \in Nat /\ y.n <= claims[y.task]
      BY <2>2 DEF Numbered, Execution
    <3> QED BY <1>6, <3>1
  <2> QED BY <1>2, <2>1, <2>2
<1>9. ASSUME NEW y \in live', NEW z \in live', y.task = z.task, y.n = z.n PROVE y = z
  BY <1>1, <1>2, <1>3, <1>9 DEF Numbered
<1>10. Numbered'
  BY <1>1, <1>2, <1>5, <1>8, <1>9 DEF Numbered
<1>11. ASSUME NEW v \in Workers PROVE active'[v] = Cardinality(Of(v)')
  <2>1. IsFiniteSet(Of(v))
    BY FS_Subset DEF Of, Numbered
  <2>2. CASE v = w
    <3>1. Of(v)' = Of(v) \cup {x} /\ x \notin Of(v)
      BY <1>1, <1>2, <1>4, <2>2 DEF Of
    <3>2. Cardinality(Of(v)') = Cardinality(Of(v)) + 1
      BY <2>1, <3>1, FS_AddElement
    <3> QED BY <2>2, <3>2 DEF Counted
  <2>3. CASE v # w
    <3>1. Of(v)' = Of(v)
      BY <1>1, <1>2, <2>3 DEF Of
    <3> QED BY <2>3, <3>1 DEF Counted
  <2> QED BY <2>2, <2>3
<1>12. /\ active' \in [Workers -> Nat] /\ claiming' \in [Workers -> 0..MaxPolls]
       /\ \A v \in Workers : active'[v] + claiming'[v] <= MaxConcurrent + MaxPolls - 1
  <2>1. active' \in [Workers -> Nat] /\ active'[w] = active[w] + 1
    BY DEF Counted
  <2>2. CASE claiming' = [claiming EXCEPT ![w] = @ - 1]
    BY <2>1, <2>2, AgentConstants DEF Counted
  <2>3. CASE active'[w] < MaxConcurrent /\ UNCHANGED claiming
    BY <2>1, <2>3, AgentConstants DEF Counted
  <2> QED BY <2>1, <2>2, <2>3 DEF NextIteration
<1> QED BY <1>10, <1>11, <1>12 DEF Counted

-----------------------------------------------------------------------------
(* The invariant is inductive *)

LEMMA AgentInvInit == AgentInit => AgentInv
<1> SUFFICES ASSUME AgentInit PROVE AgentInv
  OBVIOUS
<1>1. Rows
  BY DEF AgentInit, Rows, TaskRow, NoTask, TaskStatuses
<1>2. Numbered
  BY FS_EmptySet DEF AgentInit, Numbered
<1>3. \A w \in Workers : Of(w) = {}
  BY DEF AgentInit, Of
<1>4. Counted
  BY <1>3, FS_EmptySet, AgentConstants DEF AgentInit, Counted
<1>5. Paid /\ Guarded
  BY AgentConstants DEF AgentInit, Paid, Guarded, NoTask
<1> QED BY <1>1, <1>2, <1>4, <1>5 DEF AgentInv

\* Executions and counters that stay as they are keep their part.
LEMMA CountsStay ==
  ASSUME Numbered, Counted, UNCHANGED <<live, active, claiming, claims>>
  PROVE  Numbered' /\ Counted'
BY DEF Numbered, Counted, Of

\* What happens to a row besides its execution.
LEMMA RowStep ==
  ASSUME AgentInv, NEW k \in Tasks,
         EnqueueTask(k) \/ TaskFallsDue(k) \/ TaskExpires(k) \/ CancelTask(k)
  PROVE  AgentInv'
<1>1. UNCHANGED <<live, active, claiming, claims, late, crashes>>
  BY DEF EnqueueTask, TaskFallsDue, TaskExpires, CancelTask
<1>2. Numbered' /\ Counted'
  BY <1>1, CountsStay DEF AgentInv
<1>3. task[k] \in TaskRow /\ DOMAIN task = Tasks
  BY DEF AgentInv, Rows
<1>4. PICK row \in TaskRow : task' = [task EXCEPT ![k] = row]
                            /\ row.retries = task[k].retries /\ row.claimed = task[k].claimed
                            /\ \/ row.status = task[k].status
                               \/ task[k].status = "absent" /\ row.status = "queued"
                               \/ row.status = "cancelled"
  <2>1. CASE EnqueueTask(k)
    <3>1. PICK window \in {"ahead", "open"} :
            task' = [task EXCEPT ![k].status = "queued", ![k].window = window]
      BY <2>1 DEF EnqueueTask
    <3> DEFINE row == [task[k] EXCEPT !.status = "queued", !.window = window]
    <3>2. task' = [task EXCEPT ![k] = row] /\ task[k].status = "absent"
      BY <2>1, <3>1 DEF EnqueueTask
    <3>3. /\ row \in TaskRow /\ row.retries = task[k].retries
          /\ row.claimed = task[k].claimed /\ row.status = "queued"
      BY <1>3, <3>1 DEF TaskRow, TaskStatuses
    <3> HIDE DEF row
    <3> QED BY <3>2, <3>3
  <2>2. CASE TaskFallsDue(k) \/ TaskExpires(k)
    <3>1. PICK window \in {"open", "past"} : task' = [task EXCEPT ![k].window = window]
      BY <2>2 DEF TaskFallsDue, TaskExpires
    <3> DEFINE row == [task[k] EXCEPT !.window = window]
    <3>2. task' = [task EXCEPT ![k] = row]
      BY <3>1
    <3>3. /\ row \in TaskRow /\ row.retries = task[k].retries
          /\ row.claimed = task[k].claimed /\ row.status = task[k].status
      BY <1>3, <3>1 DEF TaskRow
    <3> HIDE DEF row
    <3> QED BY <3>2, <3>3
  <2>3. CASE CancelTask(k)
    <3> DEFINE row == [task[k] EXCEPT !.status = "cancelled"]
    <3>1. task' = [task EXCEPT ![k] = row]
      BY <2>3 DEF CancelTask
    <3>2. /\ row \in TaskRow /\ row.retries = task[k].retries
          /\ row.claimed = task[k].claimed /\ row.status = "cancelled"
      BY <1>3 DEF TaskRow, TaskStatuses, Settled
    <3> HIDE DEF row
    <3> QED BY <3>1, <3>2
  <2> QED BY <2>1, <2>2, <2>3
<1>5. task'[k] = row /\ \A j \in Tasks : j # k => task'[j] = task[j]
  BY <1>3, <1>4
<1>6. Rows'
  BY <1>1, <1>3, <1>4 DEF AgentInv, Rows
<1>7. ASSUME NEW j \in Tasks
      PROVE  /\ claims'[j] <= MaxRetries + 1 /\ claims'[j] <= task'[j].retries + 1
             /\ task'[j].status = "queued"
                  => claims'[j] <= MaxRetries /\ claims'[j] <= task'[j].retries
             /\ task'[j].status = "absent" => claims'[j] = 0
  <2>1. CASE j # k
    BY <1>1, <1>5, <2>1 DEF AgentInv, Paid
  <2>2. CASE j = k
    BY <1>1, <1>3, <1>4, <1>5, <2>2, AgentConstants DEF AgentInv, Paid, TaskRow
  <2> QED BY <2>1, <2>2
<1>8. \A x \in live : x.task \in Tasks /\ task[x.task].status # "absent"
  BY DEF AgentInv, Numbered, Execution, Paid, Guarded
<1>9. Guarded'
  BY <1>1, <1>4, <1>5, <1>8 DEF AgentInv, Guarded, Pending
<1> QED BY <1>2, <1>6, <1>7, <1>9 DEF AgentInv, Paid

\* Time passes for the claim: an execution that has not written its outcome is late.
LEMMA StaleStep ==
  ASSUME AgentInv, NEW k \in Tasks, ClaimGrowsStale(k)
  PROVE  AgentInv'
<1>1. /\ task' = [task EXCEPT ![k].claimed = "stale"]
      /\ UNCHANGED <<live, active, claiming, claims, crashes>>
  BY DEF ClaimGrowsStale
<1>2. /\ late' \in SUBSET Tasks /\ late \subseteq late'
      /\ \A x \in live : x.task = k /\ Pending(x) => k \in late'
  BY DEF ClaimGrowsStale, AgentInv, Rows, Pending
<1>3. Numbered' /\ Counted'
  BY <1>1, CountsStay DEF AgentInv
<1>4. task \in [Tasks -> TaskRow]
  BY DEF AgentInv, Rows
<1>5. /\ task'[k].status = task[k].status /\ task'[k].retries = task[k].retries
      /\ \A j \in Tasks : j # k => task'[j] = task[j]
  BY <1>1, <1>4 DEF TaskRow
<1>6. Rows'
  BY <1>1, <1>2, <1>4 DEF AgentInv, Rows, TaskRow
<1>7. Paid'
  BY <1>1, <1>5 DEF AgentInv, Paid
<1>8. \A x \in live : x.task \in Tasks
  BY DEF AgentInv, Numbered, Execution
<1>9. Guarded'
  BY <1>1, <1>2, <1>5, <1>8 DEF AgentInv, Guarded, Pending
<1> QED BY <1>3, <1>6, <1>7, <1>9 DEF AgentInv

\* Polls that take up or give up waiting for a claim.
LEMMA PollStep ==
  ASSUME AgentInv, NEW w \in Workers, Poll(w) \/ ClaimNoTask(w)
  PROVE  AgentInv'
<1>1. UNCHANGED <<task, live, active, claims, late, crashes>>
  BY DEF Poll, ClaimNoTask
<1>2. Rows' /\ Numbered' /\ Paid' /\ Guarded'
  BY <1>1 DEF AgentInv, Rows, Numbered, Paid, Guarded
<1>3. \A v \in Workers : active'[v] = Cardinality(Of(v)')
  BY <1>1 DEF AgentInv, Counted, Of
<1>4. /\ claiming' \in [Workers -> 0..MaxPolls]
      /\ \A v \in Workers : active[v] + claiming'[v] <= MaxConcurrent + MaxPolls - 1
  <2>1. CASE Poll(w)
    BY <2>1, AgentConstants DEF Poll, AgentInv, Counted
  <2>2. CASE ClaimNoTask(w)
    BY <2>2, AgentConstants DEF ClaimNoTask, AgentInv, Counted
  <2> QED BY <2>1, <2>2
<1> QED BY <1>1, <1>2, <1>3, <1>4 DEF AgentInv, Counted

\* A queued task has no execution pending, and a claim left to spend.
LEMMA AgentClaimStep ==
  ASSUME AgentInv, NEW w \in Workers, ClaimTask(w)
  PROVE  AgentInv'
<1>1. PICK k \in Tasks :
        /\ Eligible(k)
        /\ task' = [task EXCEPT ![k].status = "assigned", ![k].claimed = "recent"]
        /\ claims' = [claims EXCEPT ![k] = @ + 1]
        /\ live' = live \cup {[task |-> k, n |-> claims[k] + 1, by |-> w, step |-> "open"]}
  BY DEF ClaimTask
<1>2. Numbered' /\ Counted'
  BY <1>1, ClaimKeeps DEF ClaimTask, AgentInv
<1>3. task[k] \in TaskRow /\ task \in [Tasks -> TaskRow] /\ claims \in [Tasks -> Nat]
  BY DEF AgentInv, Rows
<1>4. /\ task'[k] = [task[k] EXCEPT !.status = "assigned", !.claimed = "recent"]
      /\ \A j \in Tasks : j # k => task'[j] = task[j]
  BY <1>1, <1>3
<1>5. /\ task'[k] \in TaskRow /\ task'[k].status = "assigned"
      /\ task'[k].claimed = "recent" /\ task'[k].retries = task[k].retries
  BY <1>3, <1>4 DEF TaskRow, TaskStatuses
<1>6. task' \in [Tasks -> TaskRow]
  <2>1. DOMAIN task' = Tasks /\ task' = [j \in Tasks |-> task'[j]]
    BY <1>1, <1>3
  <2>2. \A j \in Tasks : task'[j] \in TaskRow
    BY <1>3, <1>4, <1>5
  <2> QED BY <2>1, <2>2
<1>7. Rows'
  BY <1>1, <1>3, <1>6 DEF Rows, AgentInv, ClaimTask
<1>8. Paid'
  <2> SUFFICES ASSUME NEW j \in Tasks
      PROVE  /\ claims'[j] <= MaxRetries + 1 /\ claims'[j] <= task'[j].retries + 1
             /\ task'[j].status = "queued"
                  => claims'[j] <= MaxRetries /\ claims'[j] <= task'[j].retries
             /\ task'[j].status = "absent" => claims'[j] = 0
    BY DEF Paid
  <2>1. CASE j # k
    BY <1>1, <1>3, <1>4, <2>1 DEF AgentInv, Paid
  <2>2. CASE j = k
    BY <1>1, <1>3, <1>5, <2>2, AgentConstants DEF AgentInv, Paid, TaskRow, Eligible
  <2> QED BY <2>1, <2>2
<1>9. Guarded'
  <2> DEFINE x == [task |-> k, n |-> claims[k] + 1, by |-> w, step |-> "open"]
  <2>1. live' = live \cup {x} /\ x.task = k /\ late' = late
    BY <1>1 DEF ClaimTask
  <2> HIDE DEF x
  <2>2. \A y \in live : y.task = k /\ k \notin late => ~Pending(y)
    BY <1>1 DEF AgentInv, Guarded, Eligible
  <2>3. \A y \in live : y.task \in Tasks
    BY DEF AgentInv, Numbered, Execution
  <2>4. ASSUME NEW y \in live', y.task \notin late', Pending(y)
        PROVE  task'[y.task].status \notin {"queued", "absent"} /\ task'[y.task].claimed # "stale"
    <3>1. CASE y.task = k
      BY <1>5, <3>1
    <3>2. CASE y.task # k
      BY <1>4, <2>1, <2>3, <2>4, <3>2 DEF AgentInv, Guarded
    <3> QED BY <3>1, <3>2
  <2>5. ASSUME NEW y \in live', NEW z \in live', y.task = z.task, y.task \notin late',
               Pending(y), Pending(z)
        PROVE  y = z
    BY <2>1, <2>2, <2>5 DEF AgentInv, Guarded
  <2> QED BY <2>4, <2>5 DEF Guarded, Pending
<1> QED BY <1>2, <1>7, <1>8, <1>9 DEF AgentInv

\* An execution that writes its task's row, or only moves on.
LEMMA WriteStep ==
  ASSUME AgentInv, NEW x \in live, NEW step \in Steps, Advance(x, step), Pending(x),
         UNCHANGED <<active, claiming, claims, late, crashes>>,
         NEW row \in TaskRow, task' = [task EXCEPT ![x.task] = row],
         row.claimed = task[x.task].claimed \/ row.claimed = "null",
         \/ /\ row.status = task[x.task].status \/ row.status \in {"running", "completed"}
            /\ row.retries = task[x.task].retries
         \/ /\ row = FailedRow(task[x.task]) /\ step = "closeFailed"
  PROVE  AgentInv'
<1>1. x.task \in Tasks /\ task[x.task] \in TaskRow /\ task \in [Tasks -> TaskRow]
  BY DEF AgentInv, Numbered, Execution, Rows
<1>2. task'[x.task] = row /\ \A j \in Tasks : j # x.task => task'[j] = task[j]
  BY <1>1
<1>3. Rows'
  BY <1>1 DEF AgentInv, Rows
<1>4. /\ Numbered' /\ Counted' /\ At(x, step) \in live'
      /\ \A y \in live' : y \in live \/ y = At(x, step)
      /\ At(x, step).task = x.task /\ At(x, step).step = step
      /\ x # At(x, step) => x \notin live'
  BY AdvanceKeeps DEF AgentInv
<1>5. claims[x.task] \in Nat /\ claims[x.task] > 0
  BY <1>1 DEF AgentInv, Rows, Numbered, Execution
<1>6. task[x.task].status # "absent"
  BY <1>1, <1>5 DEF AgentInv, Paid
<1>7. row = FailedRow(task[x.task]) =>
        /\ row.retries = task[x.task].retries + 1
        /\ row.status = IF task[x.task].retries < MaxRetries THEN "queued" ELSE "failed"
  BY <1>1 DEF FailedRow, TaskRow
<1>8. task[x.task].retries \in Nat /\ row.retries \in Nat
  BY <1>1 DEF TaskRow
<1>9. ASSUME NEW j \in Tasks
      PROVE  /\ claims'[j] <= MaxRetries + 1 /\ claims'[j] <= task'[j].retries + 1
             /\ task'[j].status = "queued"
                  => claims'[j] <= MaxRetries /\ claims'[j] <= task'[j].retries
             /\ task'[j].status = "absent" => claims'[j] = 0
  <2>1. CASE j # x.task
    BY <1>2, <2>1 DEF AgentInv, Paid
  <2>2. CASE j = x.task
    <3>1. /\ claims'[j] = claims[x.task] /\ task'[j] = row
          /\ claims[x.task] <= MaxRetries + 1 /\ claims[x.task] <= task[x.task].retries + 1
          /\ task[x.task].status = "queued"
               => claims[x.task] <= MaxRetries /\ claims[x.task] <= task[x.task].retries
      BY <1>1, <1>2, <2>2 DEF AgentInv, Paid
    <3>2. CASE row = FailedRow(task[x.task])
      BY <1>5, <1>7, <1>8, <3>1, <3>2, AgentConstants
    <3>3. CASE row # FailedRow(task[x.task])
      BY <1>5, <1>6, <1>8, <3>1, <3>3, AgentConstants
    <3> QED BY <3>2, <3>3
  <2> QED BY <2>1, <2>2
<1>10. Paid'
  BY <1>9 DEF Paid
<1>11. \A y \in live : y.task \in Tasks
  BY DEF AgentInv, Numbered, Execution
<1>12. ASSUME x.task \notin late, NEW y \in live', y.task = x.task, Pending(y)
       PROVE  y = At(x, step)
  BY <1>4, <1>12 DEF AgentInv, Guarded
<1>13. ASSUME NEW y \in live', y.task \notin late', Pending(y)
       PROVE  task'[y.task].status \notin {"queued", "absent"} /\ task'[y.task].claimed # "stale"
  <2>1. CASE y.task # x.task
    <3>1. y \in live /\ task'[y.task] = task[y.task]
      BY <1>2, <1>4, <1>11, <2>1
    <3> QED BY <1>13, <3>1 DEF AgentInv, Guarded
  <2>2. CASE y.task = x.task
    <3>1. step # "closeFailed"
      BY <1>4, <1>12, <1>13, <2>2 DEF Pending
    <3>2. task[x.task].status \notin {"queued", "absent"} /\ task[x.task].claimed # "stale"
      BY <1>13, <2>2 DEF AgentInv, Guarded
    <3> QED BY <1>2, <2>2, <3>1, <3>2
  <2> QED BY <2>1, <2>2
<1>14. ASSUME NEW y \in live', NEW z \in live', y.task = z.task, y.task \notin late',
              Pending(y), Pending(z)
       PROVE  y = z
  <2>1. CASE y.task = x.task
    BY <1>12, <1>14, <2>1
  <2>2. CASE y.task # x.task
    <3>1. y \in live /\ z \in live
      BY <1>4, <1>14, <2>2
    <3> QED BY <1>14, <3>1 DEF AgentInv, Guarded
  <2> QED BY <2>1, <2>2
<1>15. Guarded'
  BY <1>13, <1>14 DEF Guarded, Pending
<1> QED BY <1>3, <1>4, <1>10, <1>15 DEF AgentInv

\* A row that is charged a retry is a row.
ChargedWith(row, status) == [row EXCEPT !.status = status, !.retries = @ + 1, !.claimed = "null"]

LEMMA ChargedRow ==
  ASSUME NEW row \in TaskRow, NEW status \in TaskStatuses
  PROVE  /\ ChargedWith(row, status) \in TaskRow
         /\ ChargedWith(row, status).status = status
         /\ ChargedWith(row, status).retries = row.retries + 1
         /\ ChargedWith(row, status).claimed = "null"
<1>1. row.retries \in Nat /\ row.window \in {"ahead", "open", "past"}
  BY DEF TaskRow
<1>2. PICK n \in Nat : n = row.retries + 1
  BY <1>1
<1>3. ChargedWith(row, status) = [row EXCEPT !.status = status, !.retries = n, !.claimed = "null"]
  BY <1>2 DEF ChargedWith
<1>4. [row EXCEPT !.status = status, !.retries = n, !.claimed = "null"] \in TaskRow
  BY DEF TaskRow
<1> QED BY <1>2, <1>3, <1>4 DEF TaskRow

\* Every statement of _executeTask.
LEMMA ExecutingStep ==
  ASSUME AgentInv, NEW x \in live, Executing(x)
  PROVE  AgentInv'
<1>1. x.task \in Tasks /\ task[x.task] \in TaskRow /\ task \in [Tasks -> TaskRow]
  BY DEF AgentInv, Numbered, Execution, Rows
<1>2. CASE OpenExecution(x) \/ WorkThrows(x) \/ CloseThrows(x)
  <2>1. PICK step \in {"mark", "fail"} : Advance(x, step)
    BY <1>2 DEF OpenExecution, WorkThrows, CloseThrows
  <2>2. /\ UNCHANGED <<task, active, claiming, claims, late, crashes>> /\ Pending(x)
    BY <1>2 DEF OpenExecution, WorkThrows, CloseThrows, Pending
  <2>3. step \in Steps /\ task' = [task EXCEPT ![x.task] = task[x.task]]
    BY <1>1, <2>2 DEF Steps, AtWork
  <2> QED BY <1>1, <2>1, <2>2, <2>3, WriteStep
<1>3. CASE MarkTaskRunning(x) \/ CompleteTask(x)
  <2>1. PICK status \in {"running", "completed"}, step \in {"work", "close"} :
          task' = [task EXCEPT ![x.task].status = status] /\ Advance(x, step)
    BY <1>3 DEF MarkTaskRunning, CompleteTask
  <2>2. UNCHANGED <<active, claiming, claims, late, crashes>> /\ Pending(x) /\ step \in Steps
    BY <1>3 DEF MarkTaskRunning, CompleteTask, Pending, Steps, AtWork
  <2> DEFINE row == [task[x.task] EXCEPT !.status = status]
  <2>3. /\ row \in TaskRow /\ row.claimed = task[x.task].claimed
        /\ row.status = status /\ row.retries = task[x.task].retries
    BY <1>1 DEF TaskRow, TaskStatuses, Settled
  <2>4. task' = [task EXCEPT ![x.task] = row]
    BY <2>1
  <2> HIDE DEF row
  <2> QED BY <2>1, <2>2, <2>3, <2>4, WriteStep
<1>4. CASE FailTask(x)
  <2> DEFINE row == FailedRow(task[x.task])
  <2>1. row \in TaskRow /\ row.claimed = "null"
    <3>1. CASE task[x.task].retries < MaxRetries
      <4>1. row = ChargedWith(task[x.task], "queued")
        BY <3>1 DEF FailedRow, ChargedWith
      <4>2. "queued" \in TaskStatuses
        BY DEF TaskStatuses
      <4> QED BY <1>1, <4>1, <4>2, ChargedRow
    <3>2. CASE ~(task[x.task].retries < MaxRetries)
      <4>1. row = ChargedWith(task[x.task], "failed")
        BY <3>2 DEF FailedRow, ChargedWith
      <4>2. "failed" \in TaskStatuses
        BY DEF TaskStatuses, Settled
      <4> QED BY <1>1, <4>1, <4>2, ChargedRow
    <3> QED BY <3>1, <3>2
  <2>2. /\ task' = [task EXCEPT ![x.task] = row] /\ Advance(x, "closeFailed")
        /\ UNCHANGED <<active, claiming, claims, late, crashes>> /\ Pending(x)
        /\ "closeFailed" \in Steps
    BY <1>4 DEF FailTask, Pending, Steps
  <2> QED BY <2>1, <2>2, WriteStep
<1>5. CASE CloseExecution(x)
  <2>1. UNCHANGED <<task, claiming, claims, late, crashes>> /\ End(x)
    BY <1>5 DEF CloseExecution
  <2>2. Numbered' /\ Counted' /\ live' \subseteq live
    BY <2>1, EndKeeps DEF AgentInv
  <2>3. Rows' /\ Paid' /\ Guarded'
    BY <2>1, <2>2 DEF AgentInv, Rows, Paid, Guarded
  <2> QED BY <2>2, <2>3 DEF AgentInv
<1> QED BY <1>2, <1>3, <1>4, <1>5 DEF Executing

\* The sweep spares whatever is pending and not late, and spends a retry on the rest.
LEMMA SweepStep ==
  ASSUME AgentInv, ReclaimStaleTasks
  PROVE  AgentInv'
<1>1. UNCHANGED <<live, active, claiming, claims, late, crashes>>
  BY DEF ReclaimStaleTasks
<1>2. Numbered' /\ Counted'
  BY <1>1, CountsStay DEF AgentInv
<1>3. \A k \in Tasks : task[k] \in TaskRow /\ task[k].retries \in Nat /\ claims[k] \in Nat
  BY DEF AgentInv, Rows, TaskRow
<1>4. \A k \in Tasks : ~Stale(k) => task'[k] = task[k]
  BY DEF ReclaimStaleTasks
<1>5. ASSUME NEW k \in Tasks, Stale(k)
      PROVE  /\ task'[k] \in TaskRow
             /\ task'[k].status = "queued" /\ task'[k].retries = task[k].retries + 1
             /\ task[k].retries < MaxRetries /\ task[k].claimed = "stale"
             /\ task[k].status # "absent"
  <2>1. task'[k] = ChargedWith(task[k], "queued")
    BY <1>5 DEF ReclaimStaleTasks, ChargedWith
  <2>2. /\ task[k].retries < MaxRetries /\ task[k].claimed = "stale"
        /\ task[k].status # "absent"
    BY <1>5 DEF Stale
  <2>3. task[k] \in TaskRow /\ task[k].retries \in Nat
    BY <1>3
  <2>4. /\ task'[k] \in TaskRow /\ task'[k].status = "queued"
        /\ task'[k].retries = task[k].retries + 1
    <3>1. "queued" \in TaskStatuses
      BY DEF TaskStatuses
    <3> QED BY <2>1, <2>3, <3>1, ChargedRow
  <2> QED BY <2>2, <2>4
<1>6. Rows'
  <2>1. task' = [k \in Tasks |-> task'[k]]
    BY DEF ReclaimStaleTasks
  <2>2. \A k \in Tasks : task'[k] \in TaskRow
    BY <1>3, <1>4, <1>5
  <2> QED BY <1>1, <2>1, <2>2 DEF AgentInv, Rows
<1>7. ASSUME NEW j \in Tasks
      PROVE  /\ claims'[j] <= MaxRetries + 1 /\ claims'[j] <= task'[j].retries + 1
             /\ task'[j].status = "queued"
                  => claims'[j] <= MaxRetries /\ claims'[j] <= task'[j].retries
             /\ task'[j].status = "absent" => claims'[j] = 0
  <2>1. CASE Stale(j)
    BY <1>1, <1>3, <1>5, <2>1, AgentConstants DEF AgentInv, Paid
  <2>2. CASE ~Stale(j)
    BY <1>1, <1>4, <2>2 DEF AgentInv, Paid
  <2> QED BY <2>1, <2>2
<1>8. \A x \in live : x.task \in Tasks
  BY DEF AgentInv, Numbered, Execution
<1>9. \A x \in live : x.task \notin late /\ Pending(x) => task'[x.task] = task[x.task]
  BY <1>4, <1>5, <1>8 DEF AgentInv, Guarded
<1>10. Guarded'
  BY <1>1, <1>9 DEF AgentInv, Guarded, Pending
<1> QED BY <1>2, <1>6, <1>7, <1>10 DEF AgentInv, Paid

LEMMA AgentInvNext == AgentInv /\ [AgentNext]_agentVars => AgentInv'
<1> SUFFICES ASSUME AgentInv, [AgentNext]_agentVars PROVE AgentInv'
  OBVIOUS
<1>1. ASSUME NEW w \in Workers, Die(w) PROVE AgentInv'
  <2>1. UNCHANGED <<task, claims, late>> /\ crashes' = crashes + 1
    BY <1>1 DEF Die
  <2>2. Numbered' /\ Counted' /\ live' \subseteq live
    BY <1>1, DieKeeps DEF AgentInv
  <2>3. Rows' /\ Paid' /\ Guarded'
    BY <2>1, <2>2 DEF AgentInv, Rows, Paid, Guarded
  <2> QED BY <2>2, <2>3 DEF AgentInv
<1>2. CASE UNCHANGED agentVars
  <2>1. UNCHANGED <<task, live, active, claiming, claims, late, crashes>>
    BY <1>2 DEF agentVars
  <2>2. Numbered' /\ Counted'
    BY <2>1, CountsStay DEF AgentInv
  <2> QED BY <2>1, <2>2 DEF AgentInv, Rows, Paid, Guarded
<1> QED BY <1>1, <1>2, RowStep, StaleStep, PollStep, AgentClaimStep, ExecutingStep, SweepStep
        DEF AgentNext, Polling

-----------------------------------------------------------------------------
(* The theorems *)

LEMMA AgentInvariant == AgentSpec => []AgentInv
BY AgentInvInit, AgentInvNext, PTL DEF AgentSpec

\* Rows, executions and counters keep their types; in particular activeTaskCount
\* never goes below zero, whatever dies and whatever fails.
THEOREM AgentTyping == AgentSpec => []AgentTypeOK
<1>1. AgentInv => AgentTypeOK
  BY DEF AgentInv, Rows, Numbered, Counted, AgentTypeOK
<1> QED BY <1>1, AgentInvariant, PTL

\* A task is executed at most max_retries + 1 times: every way back into the
\* queue costs a retry and is closed once they are spent.
THEOREM BoundedExecutions == AgentSpec => []ExecutionsBounded
<1>1. AgentInv => ExecutionsBounded
  BY DEF AgentInv, Paid, ExecutionsBounded
<1> QED BY <1>1, AgentInvariant, PTL

\* Overlapping polls overshoot maxConcurrentTasks by no more than their number
\* less one: activeTaskCount is the number of executions, and every poll that
\* awaits a claim has seen it below the limit.
THEOREM BoundedConcurrency == AgentSpec => []ConcurrencyBounded
<1>1. AgentInv => ConcurrencyBounded
  <2> SUFFICES ASSUME AgentInv, NEW w \in Workers
               PROVE  Cardinality(Of(w)) <= MaxConcurrent + MaxPolls - 1
    BY DEF ConcurrencyBounded, Of
  <2>1. /\ active[w] = Cardinality(Of(w)) /\ active[w] \in Nat /\ claiming[w] \in Nat
        /\ active[w] + claiming[w] <= MaxConcurrent + MaxPolls - 1
    BY DEF AgentInv, Counted
  <2> QED BY <2>1, AgentConstants
<1> QED BY <1>1, AgentInvariant, PTL

\* A task is worked on twice at a time only once an execution of it was late:
\* until its outcome is written it keeps the row out of the queue and its claim
\* from growing stale.
THEOREM WorkedOnOnce == AgentSpec => []OneAtWork
<1>1. AgentInv => OneAtWork
  BY DEF AgentInv, Guarded, Pending, OneAtWork, AtWork
<1> QED BY <1>1, AgentInvariant, PTL

\* A settled task without executions is left alone: only its own executions
\* write it unguarded.
THEOREM RestIsFinal == AgentSpec => AtRestStays
<1>1. AgentInv /\ [AgentNext]_agentVars
        => [\A k \in Tasks :
              task[k].status \in Settled /\ (\A x \in live : x.task # k)
                => task'[k].status = task[k].status]_agentVars
  <2> SUFFICES ASSUME AgentInv, [AgentNext]_agentVars, NEW k \in Tasks,
                      task[k].status \in Settled, \A x \in live : x.task # k
               PROVE  task'[k].status = task[k].status
    OBVIOUS
  <2>1. task \in [Tasks -> TaskRow] /\ task[k] \in TaskRow
    BY DEF AgentInv, Rows
  <2>2. CASE UNCHANGED agentVars
    BY <2>2 DEF agentVars
  <2>3. ASSUME NEW j \in Tasks, EnqueueTask(j) \/ CancelTask(j) \/ TaskFallsDue(j)
                              \/ TaskExpires(j) \/ ClaimGrowsStale(j)
        PROVE  task'[k].status = task[k].status
    <3>1. CASE EnqueueTask(j) \/ CancelTask(j)
      BY <2>1, <3>1 DEF EnqueueTask, CancelTask, Settled, TaskRow
    <3>2. CASE TaskFallsDue(j) \/ TaskExpires(j) \/ ClaimGrowsStale(j)
      BY <2>1, <3>2 DEF TaskFallsDue, TaskExpires, ClaimGrowsStale, TaskRow
    <3> QED BY <2>3, <3>1, <3>2
  <2>4. ASSUME NEW w \in Workers, Polling(w) \/ Die(w)
        PROVE  task'[k].status = task[k].status
    <3>1. CASE ClaimTask(w)
      BY <2>1, <3>1 DEF ClaimTask, Eligible, Settled
    <3>2. CASE Poll(w) \/ ClaimNoTask(w) \/ Die(w)
      BY <3>2 DEF Poll, ClaimNoTask, Die
    <3> QED BY <2>4, <3>1, <3>2 DEF Polling
  <2>5. ASSUME NEW x \in live, Executing(x) PROVE task'[k].status = task[k].status
    BY <2>1, <2>5 DEF Executing, OpenExecution, MarkTaskRunning, CompleteTask, WorkThrows,
       CloseExecution, CloseThrows, FailTask
  <2>6. CASE ReclaimStaleTasks
    BY <2>6 DEF ReclaimStaleTasks, Stale, Settled
  <2> QED BY <2>2, <2>3, <2>4, <2>5, <2>6 DEF AgentNext
<1> QED BY <1>1, AgentInvariant, PTL DEF AgentSpec, AtRestStays

-----------------------------------------------------------------------------
(* PackWorker *)

Busy(t) == tick[t].step # "idle"

\* A tick has its job to itself.  Until it has failed or come to an end the job
\* is running, and this attempt has not drafted yet.
Held ==
  \A t \in Ticks : Busy(t) =>
    /\ packJob[tick[t].job].status \in {"running", "complete"}
    /\ tick[t].step # "fail" =>
         /\ packJob[tick[t].job].status = "running"
         /\ packs[tick[t].job] < packJob[tick[t].job].attempts
    /\ packs[tick[t].job] <= unanswered[tick[t].job]
    /\ \A u \in Ticks : Busy(u) /\ tick[u].job = tick[t].job => u = t

Charged ==
  \A j \in PackJobs :
    /\ packs[j] <= 1 + unanswered[j]
    /\ packJob[j].status # "complete" => packs[j] <= unanswered[j]
    /\ packs[j] <= packJob[j].attempts /\ packJob[j].attempts <= MaxAttempts
    /\ packJob[j].status = "absent" => packJob[j].attempts = 0

\* Each draft in progress has been promised its cost, and one of them at least
\* was promised what was there.
Drafting == {t \in Ticks : tick[t].step = "draft"}
Covered ==
  credits + removed >= Cost * (Cardinality(Drafting) + 1 - Cardinality(Ticks))

PackInv == PackTypeOK /\ Held /\ Charged /\ Covered

LEMMA PackConstants ==
  /\ IsFiniteSet(Ticks) /\ Ticks # {}
  /\ Cost \in Nat /\ MaxAttempts \in Nat /\ MaxDelta \in Nat /\ MaxGrants \in Nat
BY PackBounds

LEMMA DraftingCounted ==
  /\ IsFiniteSet(Drafting) /\ Cardinality(Drafting) \in Nat /\ Cardinality(Ticks) \in Nat
  /\ Cardinality(Drafting) <= Cardinality(Ticks) /\ Cardinality(Ticks) >= 1
<1>1. Drafting \in SUBSET Ticks
  BY DEF Drafting
<1>2. IsFiniteSet(Drafting) /\ Cardinality(Drafting) <= Cardinality(Ticks)
  BY <1>1, PackConstants, FS_Subset
<1>3. Cardinality(Ticks) \in Nat /\ Cardinality(Drafting) \in Nat
  BY <1>2, PackConstants, FS_CardinalityType
<1>4. Cardinality(Ticks) # 0
  BY PackConstants, FS_EmptySet
<1> QED BY <1>2, <1>3, <1>4

LEMMA TimesMonotone ==
  ASSUME NEW c \in Nat, NEW m \in Int, NEW n \in Int, m <= n
  PROVE  c * m <= c * n
<1>1. PICK k \in Nat : n = m + k
  <2>1. n - m \in Nat /\ n = m + (n - m)
    OBVIOUS
  <2> QED BY <2>1
<1>2. c * n = c * m + c * k /\ c * k >= 0 /\ c * m \in Int /\ c * k \in Int
  BY <1>1
<1> QED BY <1>2

LEMMA PackInitially == PackInit => PackInv
<1> SUFFICES ASSUME PackInit PROVE PackInv
  OBVIOUS
<1>1. PackTypeOK /\ Held /\ Charged
  BY PackConstants
     DEF PackInit, PackTypeOK, Held, Charged, Busy, PackRow, NoPackJob, PackStatuses, Kinds, IdleTick
<1>2. Drafting = {}
  BY DEF PackInit, Drafting, IdleTick
<1>3. Cardinality(Drafting) = 0
  BY <1>2, FS_EmptySet
<1>4. Cost * (0 + 1 - Cardinality(Ticks)) <= Cost * 0
  BY TimesMonotone, DraftingCounted, PackConstants
<1>5. Covered
  BY <1>3, <1>4, PackConstants DEF Covered, PackInit
<1> QED BY <1>1, <1>5 DEF PackInv

-----------------------------------------------------------------------------
(* What the actions have in common *)

LEMMA BusyTicks ==
  ASSUME PackTypeOK, NEW t \in Ticks, Busy(t)
  PROVE  tick[t] \in BusyTick /\ tick[t].job \in PackJobs /\ tick[t].attempts \in Nat
BY DEF PackTypeOK, Busy, BusyTick, IdleTick

LEMMA ProceedKeeps ==
  ASSUME PackTypeOK, NEW t \in Ticks, Busy(t), NEW step \in PackSteps, Proceed(t, step)
  PROVE  /\ tick' \in [Ticks -> BusyTick \cup {IdleTick}]
         /\ tick'[t].step = step /\ tick'[t].job = tick[t].job
         /\ \A u \in Ticks \ {t} : tick'[u] = tick[u]
<1> DEFINE moved == [tick[t] EXCEPT !.step = step]
<1>1. moved \in BusyTick /\ moved.step = step /\ moved.job = tick[t].job
  BY BusyTicks DEF BusyTick
<1>2. tick' = [tick EXCEPT ![t] = moved]
  BY DEF Proceed, PackTypeOK
<1> HIDE DEF moved
<1> QED BY <1>1, <1>2 DEF PackTypeOK

LEMMA RestKeeps ==
  ASSUME PackTypeOK, NEW t \in Ticks, Rest(t)
  PROVE  /\ tick' \in [Ticks -> BusyTick \cup {IdleTick}]
         /\ tick'[t].step = "idle"
         /\ \A u \in Ticks \ {t} : tick'[u] = tick[u]
BY DEF Rest, PackTypeOK, IdleTick

LEMMA StillCovered ==
  ASSUME PackInv, Drafting' \subseteq Drafting, PackTypeOK',
         credits' + removed' >= credits + removed
  PROVE  Covered'
<1>1. IsFiniteSet(Drafting) /\ Drafting' \in SUBSET Drafting
  BY DraftingCounted
<1>2. Cardinality(Drafting') <= Cardinality(Drafting) /\ Cardinality(Drafting') \in Nat
  BY <1>1, FS_Subset, FS_CardinalityType
<1> DEFINE n == Cardinality(Drafting') + 1 - Cardinality(Ticks)
           m == Cardinality(Drafting) + 1 - Cardinality(Ticks)
<1>3. n \in Int /\ m \in Int /\ n <= m
  BY <1>2, DraftingCounted
<1> HIDE DEF n, m
<1>4. Cost * n <= Cost * m /\ Cost * n \in Int /\ Cost * m \in Int
  BY <1>3, TimesMonotone, PackConstants
<1>5. credits + removed >= Cost * m
  BY DEF PackInv, Covered, m
<1>6. credits \in Int /\ removed \in Int /\ credits' \in Int /\ removed' \in Int
  BY DEF PackInv, PackTypeOK
<1>7. credits' + removed' >= Cost * n
  <2>1. PICK c \in Int : c = credits'
    BY <1>6
  <2>2. PICK r \in Int : r = removed'
    BY <1>6
  <2>3. c + r >= credits + removed
    BY <2>1, <2>2
  <2>4. c + r >= Cost * n
    BY <1>4, <1>5, <1>6, <2>3
  <2> QED BY <2>1, <2>2, <2>4
<1> QED BY <1>7 DEF Covered, n

\* The tick that has a job goes on with it or lets go; what it changes of the
\* jobs and the packs is its own job's.
LEMMA HolderStep ==
  ASSUME PackInv, NEW t \in Ticks, Busy(t), NEW j \in PackJobs, j = tick[t].job,
         NEW step \in PackSteps, Rest(t) \/ Proceed(t, step),
         packJob' \in [PackJobs -> PackRow],
         packs' \in [PackJobs -> Nat], unanswered' \in [PackJobs -> Nat],
         \A i \in PackJobs \ {j} :
           packJob'[i] = packJob[i] /\ packs'[i] = packs[i] /\ unanswered'[i] = unanswered[i],
         packs'[j] <= 1 + unanswered'[j],
         packJob'[j].status # "complete" => packs'[j] <= unanswered'[j],
         packs'[j] <= packJob'[j].attempts, packJob'[j].attempts <= MaxAttempts,
         packJob'[j].status # "absent",
         Proceed(t, step) =>
           /\ packJob'[j].status \in {"running", "complete"}
           /\ step # "fail" => packJob'[j].status = "running" /\ packs'[j] < packJob'[j].attempts
           /\ packs'[j] <= unanswered'[j],
         credits' \in Int, UNCHANGED <<removed, grants>>
  PROVE  PackTypeOK' /\ Held' /\ Charged'
<1>1. /\ tick' \in [Ticks -> BusyTick \cup {IdleTick}]
      /\ \A u \in Ticks \ {t} : tick'[u] = tick[u]
      /\ \/ tick'[t].step = "idle"
         \/ Proceed(t, step) /\ tick'[t].step = step /\ tick'[t].job = j
  BY ProceedKeeps, RestKeeps DEF PackInv
<1>2. PackTypeOK'
  BY <1>1 DEF PackInv, PackTypeOK
<1>3. Charged'
  BY DEF PackInv, Charged
<1>4. \A u \in Ticks : Busy(u)' =>
        \/ u = t /\ tick'[u].step = step /\ tick'[u].job = j /\ Proceed(t, step)
        \/ u # t /\ tick'[u] = tick[u] /\ Busy(u) /\ tick[u].job \in PackJobs \ {j}
  BY <1>1, BusyTicks DEF PackInv, Held, Busy
<1>5. Held'
  <2> SUFFICES ASSUME NEW u \in Ticks, Busy(u)'
               PROVE  /\ packJob'[tick'[u].job].status \in {"running", "complete"}
                      /\ tick'[u].step # "fail" =>
                           /\ packJob'[tick'[u].job].status = "running"
                           /\ packs'[tick'[u].job] < packJob'[tick'[u].job].attempts
                      /\ packs'[tick'[u].job] <= unanswered'[tick'[u].job]
                      /\ \A v \in Ticks : Busy(v)' /\ tick'[v].job = tick'[u].job => v = u
    BY DEF Held
  <2>1. CASE u = t
    BY <1>4, <2>1
  <2>2. CASE u # t
    <3>1. tick'[u] = tick[u] /\ Busy(u) /\ tick[u].job \in PackJobs \ {j}
      BY <1>4, <2>2
    <3>2. \A v \in Ticks : Busy(v)' /\ tick'[v].job = tick'[u].job => v = u
      BY <1>4, <3>1 DEF PackInv, Held
    <3> QED BY <3>1, <3>2 DEF PackInv, Held
  <2> QED BY <2>1, <2>2
<1> QED BY <1>2, <1>3, <1>5

\* So do the others: no tick that drafts has anything to do with them.
LEMMA DraftingShrinks ==
  ASSUME PackTypeOK, NEW t \in Ticks,
         Rest(t) \/ (Busy(t) /\ \E step \in PackSteps \ {"draft"} : Proceed(t, step))
  PROVE  Drafting' = Drafting \ {t}
<1>1. /\ \A u \in Ticks \ {t} : tick'[u] = tick[u]
      /\ tick'[t].step # "draft"
  BY ProceedKeeps, RestKeeps
<1> QED BY <1>1 DEF Drafting

-----------------------------------------------------------------------------
LEMMA ChangeCreditsStep ==
  ASSUME PackInv, ChangeCredits PROVE PackInv'
<1>1. PICK n \in 1..MaxDelta :
        \/ credits' = credits + n /\ UNCHANGED removed
        \/ credits' = credits - n /\ removed' = removed + n
  BY DEF ChangeCredits
<1>2. PackTypeOK' /\ credits' + removed' >= credits + removed
  BY <1>1, PackConstants DEF ChangeCredits, PackInv, PackTypeOK
<1>3. Drafting' = Drafting
  BY DEF ChangeCredits, Drafting
<1> QED BY <1>2, <1>3, StillCovered DEF ChangeCredits, PackInv, Held, Charged, Busy

LEMMA RouteStep ==
  ASSUME PackInv, NEW j \in PackJobs, QueuePackJob(j) \/ PackFallsDue(j)
  PROVE  PackInv'
<1>1. \E row \in PackRow :
        /\ packJob' = [packJob EXCEPT ![j] = row]
        /\ row.status = "queued" /\ row.attempts = packJob[j].attempts
  <2>1. CASE QueuePackJob(j)
    <3>1. PICK kind \in Kinds : packJob' = [packJob EXCEPT ![j] =
            [status |-> "queued", kind |-> kind, attempts |-> 0, due |-> TRUE]]
      BY <2>1 DEF QueuePackJob
    <3>2. packJob[j].attempts = 0
      BY <2>1 DEF QueuePackJob, PackInv, Charged
    <3>3. [status |-> "queued", kind |-> kind, attempts |-> 0, due |-> TRUE] \in PackRow
      BY DEF PackRow, PackStatuses
    <3> QED BY <3>1, <3>2, <3>3
  <2>2. CASE PackFallsDue(j)
    <3> DEFINE row == [packJob[j] EXCEPT !.due = TRUE]
    <3>1. row \in PackRow /\ row.status = "queued" /\ row.attempts = packJob[j].attempts
      BY <2>2 DEF PackFallsDue, PackInv, PackTypeOK, PackRow
    <3>2. packJob' = [packJob EXCEPT ![j] = row]
      BY <2>2 DEF PackFallsDue, PackInv, PackTypeOK
    <3> HIDE DEF row
    <3> QED BY <3>1, <3>2
  <2> QED BY <2>1, <2>2
<1>2. PICK row \in PackRow :
        /\ packJob' = [packJob EXCEPT ![j] = row]
        /\ row.status = "queued" /\ row.attempts = packJob[j].attempts
  BY <1>1
<1>3. packJob[j].status \in {"absent", "queued"}
      /\ UNCHANGED <<credits, packs, unanswered, tick, removed, grants>>
  BY DEF QueuePackJob, PackFallsDue
<1>4. \A i \in PackJobs : packJob'[i] = IF i = j THEN row ELSE packJob[i]
  BY <1>2 DEF PackInv, PackTypeOK
<1>5. PackTypeOK'
  BY <1>2, <1>3 DEF PackInv, PackTypeOK
<1>6. Held'
  <2>1. \A t \in Ticks : Busy(t) => tick[t].job \in PackJobs \ {j}
    BY <1>3, BusyTicks DEF PackInv, Held
  <2> QED BY <1>3, <1>4, <2>1 DEF PackInv, Held, Busy
<1>7. Charged'
  BY <1>2, <1>3, <1>4 DEF PackInv, Charged
<1>8. Covered'
  BY <1>3 DEF PackInv, Covered, Drafting
<1> QED BY <1>5, <1>6, <1>7, <1>8 DEF PackInv

LEMMA PackClaimStep ==
  ASSUME PackInv, NEW t \in Ticks, NEW j \in PackJobs, ClaimPackJob(t, j)
  PROVE  PackInv'
<1> DEFINE row == [packJob[j] EXCEPT !.status = "running", !.attempts = @ + 1]
           begun == [step |-> IF packJob[j].kind = "generate_draft" THEN "balance" ELSE "finalize",
                     job |-> j, attempts |-> packJob[j].attempts + 1]
<1>1. packJob[j] \in PackRow /\ \E n \in Nat : n = packJob[j].attempts
  BY DEF PackInv, PackTypeOK, PackRow
<1> PICK n \in Nat : n = packJob[j].attempts
  BY <1>1
<1>2. row \in PackRow /\ row.status = "running" /\ row.attempts = n + 1
  <2>1. row = [packJob[j] EXCEPT !.status = "running", !.attempts = n + 1]
    BY <1>1 DEF PackRow
  <2>2. n + 1 \in Nat /\ "running" \in PackStatuses
    BY DEF PackStatuses
  <2> QED BY <1>1, <2>1, <2>2 DEF PackRow
<1>3. /\ begun \in BusyTick /\ begun.job = j
      /\ begun.step \in PackSteps \ {"fail", "draft"} /\ begun.step # "idle"
  BY <1>1 DEF BusyTick, PackSteps
<1>4. /\ packJob' = [packJob EXCEPT ![j] = row] /\ tick' = [tick EXCEPT ![t] = begun]
      /\ UNCHANGED <<credits, packs, unanswered, removed, grants>>
  BY DEF ClaimPackJob, PackInv, PackTypeOK
<1>5. packJob[j].status = "queued" /\ n < MaxAttempts
  BY <1>1 DEF ClaimPackJob, PackClaimable
<1> HIDE DEF row, begun
<1>6. /\ \A i \in PackJobs : packJob'[i] = IF i = j THEN row ELSE packJob[i]
      /\ \A u \in Ticks : tick'[u] = IF u = t THEN begun ELSE tick[u]
  BY <1>4 DEF PackInv, PackTypeOK
<1>7. PackTypeOK'
  BY <1>2, <1>3, <1>4 DEF PackInv, PackTypeOK
<1>8. packs[j] <= unanswered[j] /\ packs[j] <= n /\ packs[j] \in Nat
  BY <1>1, <1>5 DEF PackInv, Charged, PackTypeOK
<1>9. \A u \in Ticks \ {t} : Busy(u)' =>
        Busy(u) /\ tick'[u] = tick[u] /\ tick[u].job \in PackJobs \ {j}
  BY <1>5, <1>6, BusyTicks DEF PackInv, Held, Busy
<1>10. Held'
  <2> SUFFICES ASSUME NEW u \in Ticks, Busy(u)'
               PROVE  /\ packJob'[tick'[u].job].status \in {"running", "complete"}
                      /\ tick'[u].step # "fail" =>
                           /\ packJob'[tick'[u].job].status = "running"
                           /\ packs'[tick'[u].job] < packJob'[tick'[u].job].attempts
                      /\ packs'[tick'[u].job] <= unanswered'[tick'[u].job]
                      /\ \A v \in Ticks : Busy(v)' /\ tick'[v].job = tick'[u].job => v = u
    BY DEF Held
  <2>1. CASE u = t
    <3>1. tick'[u].job = j /\ packJob'[j] = row
      BY <1>3, <1>6, <2>1
    <3>2. packs[j] < n + 1
      BY <1>8
    <3>3. \A v \in Ticks : Busy(v)' /\ tick'[v].job = j => v = u
      BY <1>9, <2>1
    <3> QED BY <1>2, <1>4, <1>8, <3>1, <3>2, <3>3
  <2>2. CASE u # t
    <3>1. Busy(u) /\ tick'[u] = tick[u] /\ tick[u].job \in PackJobs \ {j}
      BY <1>9, <2>2
    <3>2. \A v \in Ticks : Busy(v)' /\ tick'[v].job = tick'[u].job => v = u
      BY <1>3, <1>6, <1>9, <3>1 DEF PackInv, Held
    <3> QED BY <1>4, <1>6, <3>1, <3>2 DEF PackInv, Held
  <2> QED BY <2>1, <2>2
<1>11. Charged'
  BY <1>1, <1>2, <1>4, <1>5, <1>6, <1>8, PackConstants DEF PackInv, Charged
<1>12. Drafting' \subseteq Drafting
  BY <1>3, <1>6 DEF Drafting
<1>13. Covered'
  BY <1>4, <1>7, <1>12, StillCovered DEF PackInv, PackTypeOK
<1> QED BY <1>7, <1>10, <1>11, <1>13 DEF PackInv

LEMMA CheckBalanceStep ==
  ASSUME PackInv, NEW t \in Ticks, CheckBalance(t) PROVE PackInv'
<1> DEFINE j == tick[t].job
<1>1. Busy(t) /\ j \in PackJobs
  BY BusyTicks DEF CheckBalance, Busy, PackInv
<1>2. PICK step \in {"draft", "fail"} :
        Proceed(t, step) /\ (step = "draft" => credits >= Cost)
  BY DEF CheckBalance, HasCredit
<1>3. UNCHANGED <<packJob, credits, packs, unanswered, removed, grants>>
  BY DEF CheckBalance
<1>4. /\ packJob[j].status = "running" /\ packs[j] < packJob[j].attempts
      /\ packs[j] <= unanswered[j]
  BY <1>1 DEF CheckBalance, PackInv, Held
<1>5. PackTypeOK' /\ Held' /\ Charged'
  <2>1. step \in PackSteps
    BY DEF PackSteps
  <2>2. /\ packJob \in [PackJobs -> PackRow] /\ credits \in Int
        /\ packs \in [PackJobs -> Nat] /\ unanswered \in [PackJobs -> Nat]
    BY DEF PackInv, PackTypeOK
  <2>3. packs[j] <= packJob[j].attempts /\ packJob[j].attempts <= MaxAttempts
        /\ packs[j] <= 1 + unanswered[j]
    BY <1>1 DEF PackInv, Charged
  <2> HIDE DEF j
  <2> QED BY <1>1, <1>2, <1>3, <1>4, <2>1, <2>2, <2>3, HolderStep DEF j
<1>6. CASE step = "fail"
  <2>1. Drafting' = Drafting \ {t}
    BY <1>1, <1>2, <1>6, DraftingShrinks DEF PackInv, PackSteps
  <2> QED BY <1>3, <1>5, <2>1, StillCovered DEF PackInv, PackTypeOK
<1>7. CASE step = "draft"
  <2>1. Cost * (Cardinality(Drafting') + 1 - Cardinality(Ticks)) <= Cost * 1
    <3>1. Drafting' \in SUBSET Ticks
      BY DEF Drafting
    <3>2. Cardinality(Drafting') <= Cardinality(Ticks) /\ Cardinality(Drafting') \in Nat
      BY <3>1, PackConstants, FS_Subset, FS_CardinalityType
    <3> QED BY <3>2, DraftingCounted, TimesMonotone, PackConstants
  <2>2. Cost * (Cardinality(Drafting') + 1 - Cardinality(Ticks)) \in Int
    <3>1. Drafting' \in SUBSET Ticks
      BY DEF Drafting
    <3>2. Cardinality(Drafting') \in Nat
      BY <3>1, PackConstants, FS_Subset, FS_CardinalityType
    <3> QED BY <3>2, DraftingCounted, PackConstants
  <2>3. credits >= Cost /\ credits \in Int /\ removed \in Nat
    BY <1>2, <1>7 DEF PackInv, PackTypeOK
  <2>4. Covered'
    BY <1>3, <2>1, <2>2, <2>3, PackConstants DEF Covered
  <2> QED BY <1>5, <2>4 DEF PackInv
<1> QED BY <1>2, <1>6, <1>7

LEMMA DraftStep ==
  ASSUME PackInv, NEW t \in Ticks, DraftPack(t) \/ DraftUnanswered(t) PROVE PackInv'
<1> DEFINE j == tick[t].job
           row == [packJob[j] EXCEPT !.status = "complete"]
<1>1. Busy(t) /\ j \in PackJobs
  BY BusyTicks DEF DraftPack, DraftUnanswered, Drafted, Busy, PackInv
<1>2. /\ tick[t].step = "draft" /\ credits' = credits - Cost
      /\ packs' = [packs EXCEPT ![j] = @ + 1]
      /\ packJob' = [packJob EXCEPT ![j] = row] /\ UNCHANGED <<removed, grants>>
  BY DEF DraftPack, DraftUnanswered, Drafted, PackInv, PackTypeOK
<1>3. row \in PackRow /\ row.status = "complete" /\ row.attempts = packJob[j].attempts
  BY <1>1 DEF PackInv, PackTypeOK, PackRow, PackStatuses
<1>4. /\ packJob[j].status = "running" /\ packs[j] < packJob[j].attempts
      /\ packs[j] <= unanswered[j] /\ packJob[j].attempts <= MaxAttempts
  BY <1>1, <1>2 DEF PackInv, Held, Charged
<1>5. packs[j] \in Nat /\ unanswered[j] \in Nat /\ packJob[j].attempts \in Nat
  BY <1>1 DEF PackInv, PackTypeOK, PackRow
<1>6. /\ packs' \in [PackJobs -> Nat] /\ packJob' \in [PackJobs -> PackRow]
      /\ packs'[j] = packs[j] + 1 /\ packJob'[j] = row
      /\ \A i \in PackJobs \ {j} : packs'[i] = packs[i] /\ packJob'[i] = packJob[i]
  BY <1>1, <1>2, <1>3 DEF PackInv, PackTypeOK
<1>7. /\ unanswered' \in [PackJobs -> Nat]
      /\ \A i \in PackJobs \ {j} : unanswered'[i] = unanswered[i]
      /\ \/ Rest(t) /\ unanswered'[j] = unanswered[j]
         \/ Proceed(t, "fail") /\ unanswered'[j] = unanswered[j] + 1
  BY <1>1 DEF DraftPack, DraftUnanswered, PackInv, PackTypeOK
<1> HIDE DEF row
<1>8. PackTypeOK' /\ Held' /\ Charged'
  <2>1. credits' \in Int /\ "fail" \in PackSteps
    BY <1>2, PackConstants DEF PackInv, PackTypeOK, PackSteps
  <2>2. Proceed(t, "fail") => unanswered'[j] = unanswered[j] + 1
    BY <1>1, <1>7, ProceedKeeps, RestKeeps DEF PackInv, PackSteps
  <2>3. packs'[j] <= 1 + unanswered'[j] /\ packs'[j] <= packJob'[j].attempts
    BY <1>3, <1>4, <1>5, <1>6, <1>7
  <2>4. Proceed(t, "fail") => packs'[j] <= unanswered'[j]
    BY <1>4, <1>5, <1>6, <2>2
  <2>5. packJob'[j].status = "complete" /\ packJob'[j].attempts <= MaxAttempts
    BY <1>3, <1>4, <1>6
  <2> QED BY <1>1, <1>2, <1>6, <1>7, <2>1, <2>3, <2>4, <2>5, HolderStep
<1>9. Drafting' = Drafting \ {t} /\ t \in Drafting
  BY <1>1, <1>2, <1>7, DraftingShrinks DEF PackInv, PackSteps, Drafting
<1>10. Cardinality(Drafting') = Cardinality(Drafting) - 1
  BY <1>9, DraftingCounted, FS_RemoveElement
<1>11. Covered'
  <2> DEFINE n == Cardinality(Drafting) + 1 - Cardinality(Ticks)
  <2>1. n \in Int /\ Cardinality(Drafting') + 1 - Cardinality(Ticks) = n - 1
    BY <1>10, DraftingCounted
  <2>2. credits + removed >= Cost * n /\ credits \in Int /\ removed \in Int
    BY DEF PackInv, Covered, PackTypeOK
  <2> HIDE DEF n
  <2>3. Cost * (n - 1) = Cost * n - Cost /\ Cost * n \in Int
    BY <2>1, PackConstants
  <2>4. credits' + removed' >= Cost * (n - 1)
    BY <1>2, <2>2, <2>3, PackConstants
  <2> QED BY <2>1, <2>4 DEF Covered
<1> QED BY <1>8, <1>11 DEF PackInv

\* The rest of what a tick does: the job's status may change, nothing is
\* drafted or charged.
LEMMA EndingStep ==
  ASSUME PackInv, NEW t \in Ticks,
         FinalizePack(t) \/ PackThrows(t) \/ FailPackJob(t) \/ LeavePackJob(t)
  PROVE  PackInv'
<1> DEFINE j == tick[t].job
<1>1. Busy(t) /\ j \in PackJobs
  <2>1. Busy(t)
    BY DEF FinalizePack, PackThrows, FailPackJob, LeavePackJob, Busy, PackInv, PackTypeOK,
           BusyTick, IdleTick, PackSteps
  <2> QED BY <2>1, BusyTicks DEF PackInv
<1>2. /\ UNCHANGED <<credits, packs, unanswered, removed, grants>>
      /\ Rest(t) \/ Proceed(t, "fail")
  BY DEF FinalizePack, PackThrows, FailPackJob, LeavePackJob
<1>3. /\ packs[j] <= unanswered[j] /\ packJob[j].status \in {"running", "complete"}
      /\ tick[t].step # "fail" => packJob[j].status = "running"
      /\ packJob[j].attempts <= MaxAttempts /\ packs[j] <= packJob[j].attempts
      /\ packs[j] \in Nat /\ unanswered[j] \in Nat
  BY <1>1 DEF PackInv, Held, Charged, PackTypeOK
<1>4. \E row \in PackRow :
        /\ packJob' = [packJob EXCEPT ![j] = row]
        /\ row.attempts = packJob[j].attempts /\ row.status # "absent"
        /\ Proceed(t, "fail") => row.status \in {"running", "complete"}
  <2>1. CASE PackThrows(t) \/ LeavePackJob(t)
    <3>1. packJob' = [packJob EXCEPT ![j] = packJob[j]] /\ packJob[j] \in PackRow
      BY <1>1, <2>1 DEF PackThrows, LeavePackJob, PackInv, PackTypeOK
    <3> QED BY <1>3, <3>1
  <2>2. CASE FinalizePack(t)
    <3> DEFINE row == [packJob[j] EXCEPT !.status = "complete"]
    <3>1. row \in PackRow /\ row.status = "complete" /\ row.attempts = packJob[j].attempts
      BY <1>1 DEF PackInv, PackTypeOK, PackRow, PackStatuses
    <3>2. packJob' = [packJob EXCEPT ![j] = row]
      BY <2>2 DEF FinalizePack, PackInv, PackTypeOK
    <3> HIDE DEF row
    <3> QED BY <3>1, <3>2
  <2>3. CASE FailPackJob(t)
    <3> DEFINE status == IF tick[t].attempts >= MaxAttempts THEN "failed" ELSE "queued"
               row == [packJob[j] EXCEPT !.status = status, !.due = FALSE]
    <3>1. status \in {"failed", "queued"}
      OBVIOUS
    <3>2. packJob' = [packJob EXCEPT ![j] = row]
      BY <1>1, <2>3 DEF FailPackJob, PackInv, PackTypeOK
    <3> HIDE DEF status
    <3>3. row \in PackRow /\ row.status = status /\ row.attempts = packJob[j].attempts
      <4>1. packJob[j] \in PackRow
        BY <1>1 DEF PackInv, PackTypeOK
      <4>2. status \in PackStatuses
        BY <3>1 DEF PackStatuses
      <4> QED BY <4>1, <4>2 DEF PackRow
    <3>4. ~Proceed(t, "fail")
      <4>1. Rest(t)
        BY <2>3 DEF FailPackJob
      <4> QED BY <1>1, <4>1, ProceedKeeps, RestKeeps DEF PackInv, PackSteps
    <3> HIDE DEF row
    <3> QED BY <3>1, <3>2, <3>3, <3>4
  <2> QED BY <2>1, <2>2, <2>3
<1>5. PICK row \in PackRow :
        /\ packJob' = [packJob EXCEPT ![j] = row]
        /\ row.attempts = packJob[j].attempts /\ row.status # "absent"
        /\ Proceed(t, "fail") => row.status \in {"running", "complete"}
  BY <1>4
<1>6. /\ packJob' \in [PackJobs -> PackRow] /\ packJob'[j] = row
      /\ \A i \in PackJobs \ {j} : packJob'[i] = packJob[i]
  BY <1>1, <1>5 DEF PackInv, PackTypeOK
<1>7. PackTypeOK' /\ Held' /\ Charged'
  <2>1. /\ credits' \in Int /\ packs' \in [PackJobs -> Nat] /\ unanswered' \in [PackJobs -> Nat]
        /\ packs' = packs /\ unanswered' = unanswered /\ "fail" \in PackSteps
    BY <1>2 DEF PackInv, PackTypeOK, PackSteps
  <2> QED BY <1>1, <1>2, <1>3, <1>5, <1>6, <2>1, HolderStep
<1>8. Drafting' \subseteq Drafting
  BY <1>1, <1>2, DraftingShrinks DEF PackInv, PackSteps
<1>9. Covered'
  BY <1>2, <1>7, <1>8, StillCovered DEF PackInv, PackTypeOK
<1> QED BY <1>7, <1>9 DEF PackInv

LEMMA PackInvariant == PackSpec => []PackInv
<1>1. PackInv /\ [PackNext]_packVars => PackInv'
  <2> SUFFICES ASSUME PackInv, [PackNext]_packVars PROVE PackInv'
    OBVIOUS
  <2>1. CASE UNCHANGED packVars
    BY <2>1 DEF packVars, PackInv, PackTypeOK, Held, Charged, Covered, Busy, Drafting
  <2>2. CASE PackNext
    BY <2>2, ChangeCreditsStep, RouteStep, PackClaimStep, CheckBalanceStep, DraftStep, EndingStep
       DEF PackNext
  <2> QED BY <2>1, <2>2
<1> QED BY <1>1, PackInitially, PTL DEF PackSpec

-----------------------------------------------------------------------------
\* The credits of a tenant are overdrawn by what the drafts of all ticks but
\* one cost and no more, for the balance check and the charge of _tick.
THEOREM OverdraftIsBounded == PackSpec => []OverdraftBounded
<1>1. PackInv => OverdraftBounded
  <2> SUFFICES ASSUME PackInv PROVE OverdraftBounded
    OBVIOUS
  <2> DEFINE n == Cardinality(Ticks)
  <2>1. Cost * (1 - n) <= Cost * (Cardinality(Drafting) + 1 - n)
    BY TimesMonotone, DraftingCounted, PackConstants
  <2>2. n \in Int /\ Cardinality(Drafting) + 1 - n \in Int
    BY DraftingCounted
  <2>3. credits + removed >= Cost * (Cardinality(Drafting) + 1 - n)
        /\ credits \in Int /\ removed \in Int
    BY DEF PackInv, Covered, PackTypeOK
  <2> HIDE DEF n
  <2>4. Cost * (1 - n) = -(Cost * (n - 1)) /\ Cost * (1 - n) \in Int
        /\ Cost * (Cardinality(Drafting) + 1 - n) \in Int
    BY <2>2, PackConstants
  <2>5. credits + removed >= -(Cost * (n - 1))
    BY <2>1, <2>3, <2>4
  <2> QED BY <2>5 DEF OverdraftBounded, n
<1> QED BY <1>1, PackInvariant, PTL

\* A job is drafted and charged once for every COMMIT that was answered, and
\* never more often than it was claimed, however many processes poll.
THEOREM DraftsAreCharged == PackSpec => []PackedOnce
<1>1. PackInv => PackedOnce
  BY DEF PackInv, Charged, PackedOnce
<1> QED BY <1>1, PackInvariant, PTL

\* The job rows, ticks and counters are always of the form the code gives them.
THEOREM PackTyping == PackSpec => []PackTypeOK
BY PackInvariant, PTL DEF PackInv
=============================================================================
