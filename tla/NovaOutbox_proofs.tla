-------------------------- MODULE NovaOutbox_proofs --------------------------
(* Proofs about NovaOutbox, for every value of its constants.               *)
EXTENDS NovaOutbox, JobScheduler_proofs

\* Seen by the scheduler alone, the outbox takes the scheduler's own steps, but
\* for the drain jobs its promoter inserts.
LEMMA SchedulerStep ==
  ASSUME [NovaNext]_all
  PROVE  [Next]_vars \/ \E t \in Ticks : EnqueueDrain(t)
<1>1. ASSUME NEW t \in Ticks, Promoter(t), ~EnqueueDrain(t) PROVE [Next]_vars
  BY <1>1 DEF Promoter, ScanOutbox, SkipScan, PromoteDefinitions, Next
<1>2. ASSUME NEW t \in Ticks, Drain(t) PROVE [Next]_vars
  BY <1>2 DEF Drain, SkipDrain, ClaimDueRows, Deliver, MarkDelivered,
       MarkDeliveredFails, MarkFailed, DrainThrows, DrainReturns, Next, Execution
<1>3. ASSUME NEW t \in Ticks, Settle(t) PROVE [Next]_vars
  BY <1>3 DEF Settle, Next, Execution
<1>4. ASSUME Rows PROVE UNCHANGED vars
  BY <1>4 DEF Rows, Produce, RowFallsDue, RowGoesStale
<1>5. ASSUME JobsBehind PROVE [Next]_vars
  BY <1>5 DEF JobsBehind, Next, Passing, Administration
<1>6. ASSUME NEW tenant \in Tenants, Requeue(tenant) PROVE UNCHANGED vars
  BY <1>6 DEF Requeue
<1>7. ASSUME NEW p \in Procs, CrashWorker(p) PROVE [Next]_vars
  BY <1>7 DEF CrashWorker, Next
<1> QED BY <1>1, <1>2, <1>3, <1>4, <1>5, <1>6, <1>7 DEF NovaNext, all

\* The scheduler's own types survive every step of the outbox.
LEMMA SchedulerTypes == TypeOK /\ NovaTypeOK /\ [NovaNext]_all => TypeOK'
<1> SUFFICES ASSUME TypeOK, NovaTypeOK, [NovaNext]_all PROVE TypeOK'
  OBVIOUS
<1>1. ASSUME NEW t \in Ticks, EnqueueDrain(t) PROVE TypeOK'
  <2>1. PICK tenant \in drain[t].scan : Insert(tenant, DrainAttempts, TRUE)
    BY <1>1 DEF EnqueueDrain
  <2>2. tenant \in JobTypes
    BY <2>1 DEF NovaTypeOK, DrainState, Tenants
  <2>3. QueuedRow(tenant, DrainAttempts, TRUE) \in JobRow
    <3>1. DrainAttempts \in Int /\ TRUE \in BOOLEAN
      BY NovaAssumption
    <3> QED BY <2>2, <3>1, Constants
  <2>4. jobs' \in [JobIds -> JobRow] /\ inserted' \in 0..MaxJobs
    <3> DEFINE row == QueuedRow(tenant, DrainAttempts, TRUE)
    <3>1. row \in JobRow
      BY <2>3
    <3>2. inserted < MaxJobs /\ inserted' = inserted + 1
          /\ jobs' = [jobs EXCEPT ![inserted + 1] = row]
      BY <2>1 DEF Insert
    <3> HIDE DEF row
    <3> QED BY <3>1, <3>2, BoundsAssumption DEF JobIds, TypeOK
  <2> QED BY <1>1, <2>4 DEF EnqueueDrain, TypeOK
<1> QED BY <1>1, SchedulerStep, TypeNext

\* A tick that promotes or settles changes its own state only.
LEMMA OwnTickOnly ==
  ASSUME TypeOK, NEW t \in Ticks,
         Promotion(t) \/ Execution(t)
  PROVE  \A u \in Ticks \ {t} : tick'[u] = tick[u]
<1>1. ASSUME PromoteInsert(t) PROVE \A u \in Ticks \ {t} : tick'[u] = tick[u]
  BY <1>1 DEF PromoteInsert, TypeOK
<1>2. ASSUME Promotion(t), ~PromoteInsert(t)
      PROVE  \A u \in Ticks \ {t} : tick'[u] = tick[u]
  BY <1>2, PromotionHoldsNothing
<1>3. ASSUME Claim(t) PROVE \A u \in Ticks \ {t} : tick'[u] = tick[u]
  BY <1>3 DEF Claim, TypeOK
<1>4. ASSUME Execution(t), ~Claim(t) PROVE \A u \in Ticks \ {t} : tick'[u] = tick[u]
  BY <1>4 DEF Execution, ClaimNone, HandlerReturns, HandlerThrows, Complete,
       CompleteFails, Fail, FailFails, Goto, Finish, TypeOK
<1> QED BY <1>1, <1>2, <1>3, <1>4

-----------------------------------------------------------------------------
(* Types *)

\* The part of NovaTypeOK about the handlers: what a step changes of one tick
\* keeps it, if that tick is in its handler or forgets its drain.
HandlerState ==
  \A t \in Ticks :
    /\ drain[t].step # "start" => tick[t].pc = "handler"
    /\ drain[t].step \in {"delivered", "failed"} <=> drain[t].sent # {}

LEMMA Blank == NoDrain \in DrainState /\ NoDrain.step = "start" /\ NoDrain.sent = {}
               /\ NoDrain.rows = {} /\ NoDrain.scan = {}
  BY DEF NoDrain, DrainState

\* The UPDATEs of a row that leave its other columns alone.
LEMMA RowUpdates ==
  ASSUME NEW row \in OutboxRow
  PROVE  /\ [row EXCEPT !.status = "queued", !.due = TRUE] \in OutboxRow
         /\ [row EXCEPT !.due = TRUE] \in OutboxRow
         /\ [row EXCEPT !.stale = TRUE] \in OutboxRow
         /\ [row EXCEPT !.status = "delivering", !.stale = FALSE] \in OutboxRow
         /\ [row EXCEPT !.status = "delivered", !.stale = FALSE] \in OutboxRow
<1>1. PICK st \in {"absent", "queued", "delivering", "delivered", "dead"}, n \in Nat,
           d \in BOOLEAN, s \in BOOLEAN :
        row = [status |-> st, attempts |-> n, due |-> d, stale |-> s]
  BY DEF OutboxRow
<1> QED BY <1>1 DEF OutboxRow

LEMMA NovaTypeInit == NovaInit => TypeOK /\ NovaTypeOK
<1> SUFFICES ASSUME NovaInit PROVE TypeOK /\ NovaTypeOK
  OBVIOUS
<1>1. TypeOK
  BY TypeInit DEF NovaInit
<1>2. drain \in [Ticks -> DrainState] /\ HandlerState
  BY Blank DEF NovaInit, HandlerState
<1>3. outbox \in [RowIds -> OutboxRow]
  BY DEF NovaInit, OutboxRow
<1> QED BY <1>1, <1>2, <1>3 DEF NovaInit, NovaTypeOK, HandlerState

LEMMA NovaTypeNext == TypeOK /\ NovaTypeOK /\ [NovaNext]_all => NovaTypeOK'
<1> SUFFICES ASSUME TypeOK, NovaTypeOK, [NovaNext]_all PROVE NovaTypeOK'
  OBVIOUS
<1> USE DEF NovaTypeOK
<1>1. ASSUME Rows PROVE NovaTypeOK'
  <2>1. PICK r \in RowIds : Produce(r) \/ RowFallsDue(r) \/ RowGoesStale(r)
    BY <1>1 DEF Rows
  <2>2. outbox' \in [RowIds -> OutboxRow]
    <3>1. outbox[r] \in OutboxRow
      OBVIOUS
    <3>2. outbox' = [outbox EXCEPT ![r] = outbox'[r]] /\ outbox'[r] \in OutboxRow
      BY <2>1, <3>1, RowUpdates DEF Produce, RowFallsDue, RowGoesStale
    <3> QED BY <3>2
  <2>3. UNCHANGED <<tick, drain, accepted, failures>>
    BY <2>1 DEF Produce, RowFallsDue, RowGoesStale, vars
  <2> QED BY <2>2, <2>3
<1>2. ASSUME NEW tenant \in Tenants, Requeue(tenant) PROVE NovaTypeOK'
  BY <1>2 DEF Requeue, OutboxRow, vars
<1>3. ASSUME JobsBehind PROVE NovaTypeOK'
  BY <1>3 DEF JobsBehind, JobFallsDue, Retry, nova
<1>4. ASSUME NEW p \in Procs, CrashWorker(p) PROVE NovaTypeOK'
  <2>1. \A u \in Ticks : drain'[u] = NoDrain \/ (drain'[u] = drain[u] /\ tick'[u] = tick[u])
    BY <1>4 DEF CrashWorker, Crash
  <2>2. drain' \in [Ticks -> DrainState]
    BY <1>4, Blank DEF CrashWorker
  <2> QED BY <1>4, <2>1, <2>2, Blank DEF CrashWorker
<1>5. ASSUME NEW t \in Ticks, ScanOutbox(t) \/ SkipScan(t) PROVE NovaTypeOK'
  <2>1. PICK due \in SUBSET Tenants :
          drain' = [drain EXCEPT ![t].scanned = TRUE, ![t].scan = due]
    <3> DEFINE wanted == {tenant \in Tenants : HasDueRow(tenant) /\ ~HasDrainJob(tenant)}
    <3>1. wanted \in SUBSET Tenants /\ {} \in SUBSET Tenants
      OBVIOUS
    <3>2. \/ drain' = [drain EXCEPT ![t].scanned = TRUE, ![t].scan = wanted]
          \/ drain' = [drain EXCEPT ![t].scanned = TRUE, ![t].scan = {}]
      BY <1>5 DEF ScanOutbox, SkipScan
    <3> HIDE DEF wanted
    <3> QED BY <3>1, <3>2
  <2>2. UNCHANGED <<tick, outbox, accepted, failures>>
    BY <1>5 DEF ScanOutbox, SkipScan, vars
  <2> DEFINE row == [drain[t] EXCEPT !.scanned = TRUE, !.scan = due]
  <2>3. row \in DrainState /\ row.step = drain[t].step /\ row.sent = drain[t].sent
    BY DEF DrainState
  <2>4. drain' = [drain EXCEPT ![t] = row]
    BY <2>1
  <2> HIDE DEF row
  <2>5. drain' \in [Ticks -> DrainState]
        /\ \A u \in Ticks : drain'[u].step = drain[u].step /\ drain'[u].sent = drain[u].sent
    BY <2>3, <2>4
  <2> QED BY <2>2, <2>5
<1>6. ASSUME NEW t \in Ticks, EnqueueDrain(t) PROVE NovaTypeOK'
  BY <1>6 DEF EnqueueDrain, DrainState
<1>7. ASSUME NEW t \in Ticks, PromoteDefinitions(t) PROVE NovaTypeOK'
  <2>1. Promotion(t) /\ drain' = [drain EXCEPT ![t] = NoDrain]
        /\ UNCHANGED <<outbox, accepted, failures>>
    BY <1>7 DEF PromoteDefinitions
  <2>2. \A u \in Ticks \ {t} : tick'[u] = tick[u]
    BY <2>1, OwnTickOnly
  <2>3. drain' \in [Ticks -> DrainState]
    BY <2>1, Blank
  <2> QED BY <2>1, <2>2, <2>3, Blank
<1>8. ASSUME NEW t \in Ticks, Settle(t) PROVE NovaTypeOK'
  <2>1. tick[t].pc # "handler" /\ UNCHANGED nova
    BY <1>8 DEF Settle, Claim, ClaimNone, Complete, CompleteFails, Fail, FailFails
  <2>2. \A u \in Ticks \ {t} : tick'[u] = tick[u]
    BY <1>8, OwnTickOnly DEF Settle, Execution
  <2> QED BY <2>1, <2>2 DEF nova
<1>9. ASSUME NEW t \in Ticks, SkipDrain(t) \/ DrainThrows(t) \/ DrainReturns(t)
      PROVE  NovaTypeOK'
  <2>1. \A u \in Ticks \ {t} : tick'[u] = tick[u]
    BY <1>9, OwnTickOnly DEF SkipDrain, DrainThrows, DrainReturns, Execution
  <2> QED BY <1>9, <2>1, Blank DEF SkipDrain, DrainThrows, DrainReturns, Forget
<1>10. ASSUME NEW t \in Ticks, ClaimDueRows(t) PROVE NovaTypeOK'
  <2> DEFINE claimed == {r \in RowIds :
                           TenantOf[r] = jobs[tick[t].job].type /\ DueForDrain(r)}
             batch == {[row |-> r, attempts |-> outbox[r].attempts] : r \in claimed}
  <2>1. /\ tick[t].pc = "handler" /\ drain[t].step = "start"
        /\ outbox' = [r \in RowIds |->
             IF r \in claimed
             THEN [outbox[r] EXCEPT !.status = "delivering", !.stale = FALSE]
             ELSE outbox[r]]
        /\ drain' = [drain EXCEPT ![t].step = "loop", ![t].rows = batch]
        /\ UNCHANGED <<tick, accepted, failures>>
    BY <1>10 DEF ClaimDueRows, Draining, vars
  <2>2. batch \in SUBSET Claimed
    BY DEF OutboxRow, Claimed
  <2>3. outbox' \in [RowIds -> OutboxRow]
    <3>1. ASSUME NEW r \in RowIds
          PROVE  [outbox[r] EXCEPT !.status = "delivering", !.stale = FALSE] \in OutboxRow
      BY RowUpdates
    <3> HIDE DEF claimed
    <3> QED BY <2>1, <3>1
  <2> HIDE DEF claimed, batch
  <2>4. PICK b \in SUBSET Claimed :
          drain' = [drain EXCEPT ![t].step = "loop", ![t].rows = b]
    BY <2>1, <2>2
  <2>5. drain' \in [Ticks -> DrainState]
    <3>1. drain[t] \in DrainState
      OBVIOUS
    <3>2. [drain[t] EXCEPT !.step = "loop", !.rows = b] \in DrainState
      BY <3>1 DEF DrainState
    <3> QED BY <2>4, <3>2
  <2>6. /\ drain'[t].step = "loop" /\ drain'[t].sent = drain[t].sent
        /\ \A u \in Ticks \ {t} : drain'[u] = drain[u]
    BY <2>4 DEF DrainState
  <2> QED BY <2>1, <2>3, <2>5, <2>6
<1>11. ASSUME NEW t \in Ticks, Deliver(t) PROVE NovaTypeOK'
  <2>1. PICK c \in drain[t].rows, step \in {"delivered", "failed"}, takes \in BOOLEAN :
          /\ drain' = [drain EXCEPT ![t].step = step, ![t].rows = @ \ {c}, ![t].sent = {c}]
          /\ accepted' = IF takes THEN accepted \cup {c.row} ELSE accepted
    BY <1>11 DEF Deliver
  <2>2. c \in Claimed /\ c.row \in RowIds
    BY <2>1 DEF DrainState, Claimed
  <2> QED BY <1>11, <2>1, <2>2 DEF Deliver, Draining, DrainState, vars
<1>12. ASSUME NEW t \in Ticks, MarkDelivered(t) PROVE NovaTypeOK'
  BY <1>12 DEF MarkDelivered, Draining, DrainState, OutboxRow, Claimed, vars
<1>13. ASSUME NEW t \in Ticks, MarkDeliveredFails(t) PROVE NovaTypeOK'
  BY <1>13 DEF MarkDeliveredFails, Draining, DrainState, vars
<1>14. ASSUME NEW t \in Ticks, MarkFailed(t) PROVE NovaTypeOK'
  <2>1. PICK c \in drain[t].sent :
       /\ outbox' = [outbox EXCEPT ![c.row] =
            [status   |-> failureDisposition(c.attempts + 1),
             attempts |-> c.attempts + 1, due |-> FALSE, stale |-> FALSE]]
       /\ failures' = [failures EXCEPT ![c.row] = @ + 1]
    BY <1>14 DEF MarkFailed
  <2>2. c.row \in RowIds /\ c.attempts \in Nat
    BY <2>1 DEF DrainState, Claimed
  <2>3. failureDisposition(c.attempts + 1) \in {"queued", "dead"}
    BY DEF failureDisposition
  <2>4. outbox' \in [RowIds -> OutboxRow] /\ failures' \in [RowIds -> Nat]
    BY <2>1, <2>2, <2>3 DEF OutboxRow
  <2>5. drain' \in [Ticks -> DrainState] /\ HandlerState'
    BY <1>14 DEF MarkFailed, Draining, DrainState, HandlerState, vars
  <2> QED BY <1>14, <2>4, <2>5 DEF MarkFailed, HandlerState
<1>15. ASSUME UNCHANGED all PROVE NovaTypeOK'
  BY <1>15 DEF all, vars, nova
<1> QED
  BY <1>1, <1>2, <1>3, <1>4, <1>5, <1>6, <1>7, <1>8, <1>9, <1>10, <1>11, <1>12,
     <1>13, <1>14, <1>15
  DEF NovaNext, Promoter, Drain

\* Every reachable state of the outbox and of the scheduler under it is well typed.
THEOREM NovaTyping == NovaSpec => [](TypeOK /\ NovaTypeOK)
  BY NovaTypeInit, NovaTypeNext, SchedulerTypes, PTL DEF NovaSpec

-----------------------------------------------------------------------------
(* What the steps do to the rows and to the drains                           *)

\* Nothing happens to a row, and every drain goes on as it was or is forgotten.
Still ==
  /\ UNCHANGED <<outbox, accepted, failures>>
  /\ \A u \in Ticks :
       \/ drain'[u].step = "start" /\ drain'[u].rows = {} /\ drain'[u].sent = {}
       \/ /\ drain'[u].step = drain[u].step
          /\ drain'[u].rows = drain[u].rows /\ drain'[u].sent = drain[u].sent

\* The steps of one row, and the steps of a drain that touch rows.
RowStep(r) == Produce(r) \/ RowFallsDue(r) \/ RowGoesStale(r)

DrainStep(t) ==
  \/ ClaimDueRows(t) \/ Deliver(t) \/ MarkDelivered(t)
  \/ MarkDeliveredFails(t) \/ MarkFailed(t)

LEMMA NovaSteps ==
  ASSUME NovaTypeOK, [NovaNext]_all
  PROVE  \/ Still
         \/ \E r \in RowIds : RowStep(r)
         \/ \E tenant \in Tenants : Requeue(tenant)
         \/ \E t \in Ticks : DrainStep(t)
<1> USE DEF NovaTypeOK
<1>1. ASSUME NEW t \in Ticks, NEW d, d.step = "start", d.rows = {}, d.sent = {},
             drain' = [drain EXCEPT ![t] = d], UNCHANGED <<outbox, accepted, failures>>
      PROVE  Still
  BY <1>1 DEF Still
<1>2. ASSUME NEW t \in Ticks, PromoteDefinitions(t) PROVE Still
  BY <1>1, <1>2, Blank DEF PromoteDefinitions
<1>3. ASSUME NEW t \in Ticks, SkipDrain(t) \/ DrainThrows(t) \/ DrainReturns(t) PROVE Still
  BY <1>1, <1>3, Blank DEF SkipDrain, DrainThrows, DrainReturns, Forget
<1>4. ASSUME NEW t \in Ticks, ScanOutbox(t) \/ SkipScan(t) PROVE Still
  <2>1. PICK due : drain' = [drain EXCEPT ![t].scanned = TRUE, ![t].scan = due]
    BY <1>4 DEF ScanOutbox, SkipScan
  <2> QED BY <1>4, <2>1 DEF ScanOutbox, SkipScan, Still, DrainState
<1>5. ASSUME NEW t \in Ticks, EnqueueDrain(t) PROVE Still
  <2>1. PICK tenant : drain' = [drain EXCEPT ![t].scan = @ \ {tenant}]
    BY <1>5 DEF EnqueueDrain
  <2> QED BY <1>5, <2>1 DEF EnqueueDrain, Still, DrainState
<1>6. ASSUME NEW t \in Ticks, Settle(t) PROVE Still
  BY <1>6 DEF Settle, nova, Still
<1>7. ASSUME JobsBehind \/ UNCHANGED all PROVE Still
  BY <1>7 DEF JobsBehind, all, nova, Still
<1>8. ASSUME NEW p \in Procs, CrashWorker(p) PROVE Still
  <2>1. \A u \in Ticks : drain'[u] = NoDrain \/ drain'[u] = drain[u]
    BY <1>8 DEF CrashWorker
  <2> QED BY <1>8, <2>1, Blank DEF CrashWorker, Still
<1> QED
  BY <1>2, <1>3, <1>4, <1>5, <1>6, <1>7, <1>8
  DEF NovaNext, Promoter, Drain, Rows, RowStep, DrainStep

\* What a claim takes, row by row.
LEMMA ClaimTakes ==
  ASSUME NovaTypeOK, NEW t \in Ticks, ClaimDueRows(t)
  PROVE  \E claimed \in SUBSET RowIds :
           /\ \A r \in claimed :
                /\ DueForDrain(r)
                /\ outbox'[r].status = "delivering" /\ ~outbox'[r].stale
                /\ outbox'[r].attempts = outbox[r].attempts
           /\ \A r \in RowIds \ claimed : outbox'[r] = outbox[r]
           /\ drain'[t].rows = {[row |-> r, attempts |-> outbox[r].attempts] : r \in claimed}
           /\ drain[t].step = "start" /\ drain'[t].step = "loop" /\ drain'[t].sent = {}
           /\ \A u \in Ticks \ {t} : drain'[u] = drain[u]
           /\ UNCHANGED <<accepted, failures>>
<1> DEFINE claimed == {r \in RowIds :
                         TenantOf[r] = jobs[tick[t].job].type /\ DueForDrain(r)}
           batch == {[row |-> r, attempts |-> outbox[r].attempts] : r \in claimed}
<1>1. /\ drain[t].step = "start"
      /\ outbox' = [r \in RowIds |->
           IF r \in claimed
           THEN [outbox[r] EXCEPT !.status = "delivering", !.stale = FALSE]
           ELSE outbox[r]]
      /\ drain' = [drain EXCEPT ![t].step = "loop", ![t].rows = batch]
      /\ UNCHANGED <<accepted, failures>>
  BY DEF ClaimDueRows, Draining
<1>2. claimed \in SUBSET RowIds /\ \A r \in claimed : DueForDrain(r)
  OBVIOUS
<1> HIDE DEF claimed
<1>3. \A r \in RowIds \ claimed : outbox'[r] = outbox[r]
  BY <1>1
<1>4. ASSUME NEW r \in claimed
      PROVE  /\ outbox'[r].status = "delivering" /\ ~outbox'[r].stale
             /\ outbox'[r].attempts = outbox[r].attempts
  <2>1. outbox[r] \in OutboxRow
    BY <1>2 DEF NovaTypeOK
  <2>2. outbox'[r] = [outbox[r] EXCEPT !.status = "delivering", !.stale = FALSE]
    BY <1>1, <1>2
  <2> QED BY <2>1, <2>2 DEF OutboxRow
<1>5. drain[t] \in DrainState /\ drain[t].sent = {}
  BY <1>1 DEF NovaTypeOK
<1> HIDE DEF batch
<1>6. /\ drain'[t] = [drain[t] EXCEPT !.step = "loop", !.rows = batch]
      /\ \A u \in Ticks \ {t} : drain'[u] = drain[u]
  BY <1>1 DEF NovaTypeOK
<1>7. drain'[t].rows = batch /\ drain'[t].step = "loop" /\ drain'[t].sent = {}
  BY <1>5, <1>6 DEF DrainState
<1> USE DEF batch
<1> QED BY <1>1, <1>2, <1>3, <1>4, <1>6, <1>7

-----------------------------------------------------------------------------
(* A row is delivered only when Nova has accepted its event                  *)

\* Nova's answer is known to a drain before the row says so.
Told ==
  \A t \in Ticks : drain[t].step = "delivered" => \A c \in drain[t].sent : c.row \in accepted

LEMMA ToldNext ==
  NovaTypeOK /\ Told /\ DeliveredWasAccepted /\ [NovaNext]_all
    => Told' /\ DeliveredWasAccepted'
<1> SUFFICES ASSUME NovaTypeOK, Told, DeliveredWasAccepted, [NovaNext]_all
             PROVE  Told' /\ DeliveredWasAccepted'
  OBVIOUS
<1> USE DEF Told, DeliveredWasAccepted
<1>1. ASSUME Still PROVE Told' /\ DeliveredWasAccepted'
  BY <1>1 DEF Still
<1>2. ASSUME NEW r \in RowIds, RowStep(r) PROVE Told' /\ DeliveredWasAccepted'
  <2>1. \A q \in RowIds : outbox'[q].status = "delivered" => outbox[q].status = "delivered"
    BY <1>2 DEF RowStep, Produce, RowFallsDue, RowGoesStale, NovaTypeOK, OutboxRow
  <2>2. UNCHANGED <<drain, accepted>>
    BY <1>2 DEF RowStep, Produce, RowFallsDue, RowGoesStale
  <2> QED BY <2>1, <2>2
<1>3. ASSUME NEW tenant \in Tenants, Requeue(tenant) PROVE Told' /\ DeliveredWasAccepted'
  BY <1>3 DEF Requeue
<1>4. ASSUME NEW t \in Ticks, ClaimDueRows(t) PROVE Told' /\ DeliveredWasAccepted'
  <2>1. \A q \in RowIds : outbox'[q].status = "delivered" => outbox[q].status = "delivered"
    BY <1>4, ClaimTakes
  <2>2. /\ drain'[t].step = "loop" /\ UNCHANGED accepted
        /\ \A u \in Ticks \ {t} : drain'[u] = drain[u]
    BY <1>4, ClaimTakes
  <2> QED BY <2>1, <2>2
<1>5. ASSUME NEW t \in Ticks, Deliver(t) PROVE Told' /\ DeliveredWasAccepted'
  <2>1. PICK c \in drain[t].rows, step \in {"delivered", "failed"}, takes \in BOOLEAN :
          /\ step = "delivered" => takes
          /\ drain' = [drain EXCEPT ![t].step = step, ![t].rows = @ \ {c}, ![t].sent = {c}]
          /\ accepted' = IF takes THEN accepted \cup {c.row} ELSE accepted
    BY <1>5 DEF Deliver
  <2>2. /\ drain'[t].step = step /\ drain'[t].sent = {c}
        /\ \A u \in Ticks \ {t} : drain'[u] = drain[u]
    BY <2>1 DEF NovaTypeOK, DrainState
  <2>3. accepted \subseteq accepted' /\ (step = "delivered" => c.row \in accepted')
    BY <2>1
  <2> QED BY <1>5, <2>2, <2>3 DEF Deliver
<1>6. ASSUME NEW t \in Ticks, MarkDelivered(t) PROVE Told' /\ DeliveredWasAccepted'
  <2>1. PICK c \in drain[t].sent :
          outbox' = [outbox EXCEPT ![c.row].status = "delivered", ![c.row].stale = FALSE]
    BY <1>6 DEF MarkDelivered
  <2>2. c.row \in accepted
    BY <1>6, <2>1 DEF MarkDelivered, Draining
  <2>3. \A q \in RowIds : outbox'[q].status = "delivered"
          => outbox[q].status = "delivered" \/ q = c.row
    BY <2>1 DEF NovaTypeOK, OutboxRow
  <2>4. /\ drain'[t].step = "loop" /\ UNCHANGED accepted
        /\ \A u \in Ticks \ {t} : drain'[u] = drain[u]
    BY <1>6 DEF MarkDelivered, NovaTypeOK, DrainState
  <2> QED BY <2>2, <2>3, <2>4
<1>7. ASSUME NEW t \in Ticks, MarkDeliveredFails(t) PROVE Told' /\ DeliveredWasAccepted'
  BY <1>7 DEF MarkDeliveredFails, NovaTypeOK, DrainState
<1>8. ASSUME NEW t \in Ticks, MarkFailed(t) PROVE Told' /\ DeliveredWasAccepted'
  <2>1. PICK c \in drain[t].sent : outbox' = [outbox EXCEPT ![c.row] =
            [status   |-> failureDisposition(c.attempts + 1),
             attempts |-> c.attempts + 1, due |-> FALSE, stale |-> FALSE]]
    BY <1>8 DEF MarkFailed
  <2>2. \A q \in RowIds : outbox'[q].status = "delivered" => outbox[q].status = "delivered"
    BY <2>1 DEF NovaTypeOK, OutboxRow, failureDisposition
  <2>3. /\ drain'[t].step = "loop" /\ UNCHANGED accepted
        /\ \A u \in Ticks \ {t} : drain'[u] = drain[u]
    BY <1>8 DEF MarkFailed, NovaTypeOK, DrainState
  <2> QED BY <2>2, <2>3
<1> QED
  BY <1>1, <1>2, <1>3, <1>4, <1>5, <1>6, <1>7, <1>8, NovaSteps DEF DrainStep

\* Whatever interferes, and even when two drains have the same row: a row is
\* marked delivered only when Nova has accepted its event.
THEOREM DeliveredOnlyIfAccepted == NovaSpec => []DeliveredWasAccepted
<1>1. NovaInit => Told /\ DeliveredWasAccepted
  BY Blank DEF NovaInit, Told, DeliveredWasAccepted
<1> QED BY <1>1, ToldNext, NovaTyping, PTL DEF NovaSpec

-----------------------------------------------------------------------------
(* One drain per row, unless a drain outlives DELIVERING_STALE_MS or the     *)
(* retry route interferes                                                    *)

Claims(t) == drain[t].rows \cup drain[t].sent

\* A row in the hands of a drain is delivering, too fresh to be claimed, and
\* holds the attempts the drain has read; no other claim is on it.
Exclusive ==
  /\ \A t \in Ticks : \A c \in Claims(t) :
       /\ outbox[c.row].status = "delivering" /\ ~outbox[c.row].stale
       /\ outbox[c.row].attempts = c.attempts
  /\ \A t, u \in Ticks : \A c \in Claims(t), d \in Claims(u) :
       c.row = d.row => t = u /\ c = d
  /\ \A t \in Ticks : drain[t].rows \cap drain[t].sent = {}

\* A step after which a tick has no new claims and the claimed rows are as before.
LEMMA ExclusiveStays ==
  ASSUME Exclusive,
         \A t \in Ticks : /\ drain'[t].rows \subseteq drain[t].rows
                          /\ \/ drain'[t].sent \subseteq drain[t].sent
                             \/ drain'[t].sent \subseteq drain[t].rows \ drain'[t].rows,
         \A t \in Ticks : \A c \in drain'[t].rows \cup drain'[t].sent :
           outbox'[c.row] = outbox[c.row]
  PROVE  Exclusive'
<1>1. \A t \in Ticks : Claims(t)' \subseteq Claims(t)
  BY DEF Claims
<1>2. \A t \in Ticks : \A c \in Claims(t)' : outbox'[c.row] = outbox[c.row]
  BY DEF Claims
<1>3. \A t \in Ticks : drain'[t].rows \cap drain'[t].sent = {}
  BY DEF Exclusive
<1> QED BY <1>1, <1>2, <1>3 DEF Exclusive

LEMMA ExclusiveNext ==
  ASSUME "slow" \notin Trouble, "requeue" \notin Trouble,
         NovaTypeOK, Exclusive, [NovaNext]_all
  PROVE  Exclusive'
<1>1. CASE Still
  BY <1>1, ExclusiveStays DEF Still
<1>2. ASSUME NEW r \in RowIds, RowStep(r) PROVE Exclusive'
  <2>1. drain' = drain /\ \A q \in RowIds \ {r} : outbox'[q] = outbox[q]
    BY <1>2 DEF RowStep, Produce, RowFallsDue, RowGoesStale, NovaTypeOK
  <2>2. \A t \in Ticks : \A c \in Claims(t) : c.row # r
    BY <1>2 DEF RowStep, Produce, RowFallsDue, RowGoesStale, Exclusive, Sending, Claims
  <2>3. \A t \in Ticks : \A c \in Claims(t) : c.row \in RowIds
    BY DEF NovaTypeOK, DrainState, Claimed, Claims
  <2>4. \A t \in Ticks : \A c \in drain'[t].rows \cup drain'[t].sent :
           outbox'[c.row] = outbox[c.row]
    BY <2>1, <2>2, <2>3 DEF Claims
  <2> QED BY <2>1, <2>4, ExclusiveStays
<1>3. ASSUME NEW t \in Ticks, ClaimDueRows(t) PROVE Exclusive'
  <2>1. PICK claimed \in SUBSET RowIds :
          /\ \A r \in claimed :
                /\ DueForDrain(r)
                /\ outbox'[r].status = "delivering" /\ ~outbox'[r].stale
                /\ outbox'[r].attempts = outbox[r].attempts
          /\ \A r \in RowIds \ claimed : outbox'[r] = outbox[r]
          /\ drain'[t].rows = {[row |-> r, attempts |-> outbox[r].attempts] : r \in claimed}
          /\ drain'[t].sent = {}
          /\ \A u \in Ticks \ {t} : drain'[u] = drain[u]
    BY <1>3, ClaimTakes
  <2>2. \A u \in Ticks \ {t} : Claims(u)' = Claims(u)
    BY <2>1 DEF Claims
  <2>3. Claims(t)' = {[row |-> r, attempts |-> outbox[r].attempts] : r \in claimed}
    BY <2>1 DEF Claims
  <2>4. \A u \in Ticks \ {t} : \A c \in Claims(u) :
          c.row \notin claimed /\ outbox'[c.row] = outbox[c.row]
    <3>1. \A u \in Ticks : \A c \in Claims(u) : c.row \in RowIds
      BY DEF NovaTypeOK, DrainState, Claimed, Claims
    <3>2. \A u \in Ticks : \A c \in Claims(u) : ~DueForDrain(c.row)
      BY DEF Exclusive, DueForDrain
    <3> QED BY <2>1, <3>1, <3>2
  <2>5. \A c \in Claims(t)' : /\ c.row \in claimed
                              /\ c = [row |-> c.row, attempts |-> outbox[c.row].attempts]
    BY <2>3
  <2>6. \A u \in Ticks : \A c \in Claims(u)' :
          /\ outbox'[c.row].status = "delivering" /\ ~outbox'[c.row].stale
          /\ outbox'[c.row].attempts = c.attempts
    <3>1. \A c \in Claims(t)' : outbox'[c.row].attempts = c.attempts
      BY <2>1, <2>5
    <3>2. \A c \in Claims(t)' : outbox'[c.row].status = "delivering" /\ ~outbox'[c.row].stale
      BY <2>1, <2>5
    <3>3. \A u \in Ticks \ {t} : \A c \in Claims(u)' :
            /\ outbox'[c.row].status = "delivering" /\ ~outbox'[c.row].stale
            /\ outbox'[c.row].attempts = c.attempts
      BY <2>2, <2>4 DEF Exclusive
    <3> QED BY <3>1, <3>2, <3>3
  <2>7. ASSUME NEW u \in Ticks, NEW v \in Ticks,
               NEW c \in Claims(u)', NEW d \in Claims(v)', c.row = d.row
        PROVE  u = v /\ c = d
    <3>1. CASE u = t /\ v = t
      BY <3>1, <2>5, <2>7
    <3>2. CASE u = t /\ v # t
      BY <3>2, <2>2, <2>4, <2>5, <2>7
    <3>3. CASE u # t /\ v = t
      BY <3>3, <2>2, <2>4, <2>5, <2>7
    <3>4. CASE u # t /\ v # t
      BY <3>4, <2>2, <2>7 DEF Exclusive
    <3> QED BY <3>1, <3>2, <3>3, <3>4
  <2>8. \A u \in Ticks : drain'[u].rows \cap drain'[u].sent = {}
    BY <2>1 DEF Exclusive
  <2> QED BY <2>6, <2>7, <2>8 DEF Exclusive
<1>4. ASSUME NEW t \in Ticks, Deliver(t) PROVE Exclusive'
  <2>1. PICK c \in drain[t].rows, step \in {"delivered", "failed"} :
          drain' = [drain EXCEPT ![t].step = step, ![t].rows = @ \ {c}, ![t].sent = {c}]
    BY <1>4 DEF Deliver
  <2>2. /\ drain'[t].rows = drain[t].rows \ {c} /\ drain'[t].sent = {c}
        /\ \A u \in Ticks \ {t} : drain'[u] = drain[u]
    BY <2>1 DEF NovaTypeOK, DrainState
  <2>3. outbox' = outbox
    BY <1>4 DEF Deliver
  <2> QED BY <2>2, <2>3, ExclusiveStays
<1>5. ASSUME NEW t \in Ticks, NEW c \in drain[t].sent, NEW row,
             outbox' = [outbox EXCEPT ![c.row] = row],
             drain' = [drain EXCEPT ![t].step = "loop", ![t].sent = {}]
      PROVE  Exclusive'
  <2>1. /\ drain'[t].rows = drain[t].rows /\ drain'[t].sent = {}
        /\ \A u \in Ticks \ {t} : drain'[u] = drain[u]
    BY <1>5 DEF NovaTypeOK, DrainState
  <2>2. \A u \in Ticks : \A d \in drain'[u].rows \cup drain'[u].sent :
          d.row # c.row /\ d \in Claims(u)
    <3>1. c \in Claims(t)
      BY DEF Claims
    <3>2. \A d \in drain'[t].rows \cup drain'[t].sent : d \in Claims(t) /\ d # c
      BY <2>1 DEF Exclusive, Claims
    <3>3. \A u \in Ticks \ {t} : drain'[u].rows \cup drain'[u].sent = Claims(u)
      BY <2>1 DEF Claims
    <3> QED BY <3>1, <3>2, <3>3 DEF Exclusive
  <2>3. \A q \in RowIds : q # c.row => outbox'[q] = outbox[q]
    BY <1>5 DEF NovaTypeOK
  <2>4. \A u \in Ticks : \A d \in Claims(u) : d.row \in RowIds
    BY DEF NovaTypeOK, DrainState, Claimed, Claims
  <2> QED BY <2>1, <2>2, <2>3, <2>4, ExclusiveStays
<1>6. ASSUME NEW t \in Ticks, MarkDelivered(t) \/ MarkFailed(t) PROVE Exclusive'
  <2>1. PICK c \in drain[t].sent : \E row : outbox' = [outbox EXCEPT ![c.row] = row]
    BY <1>6 DEF MarkDelivered, MarkFailed
  <2>2. PICK row : outbox' = [outbox EXCEPT ![c.row] = row]
    BY <2>1
  <2>3. drain' = [drain EXCEPT ![t].step = "loop", ![t].sent = {}]
    BY <1>6 DEF MarkDelivered, MarkFailed
  <2> QED BY <1>5, <2>2, <2>3
<1>7. ASSUME NEW t \in Ticks, MarkDeliveredFails(t) PROVE Exclusive'
  <2>1. \A u \in Ticks : drain'[u].rows = drain[u].rows /\ drain'[u].sent = drain[u].sent
    BY <1>7 DEF MarkDeliveredFails, NovaTypeOK, DrainState
  <2>2. outbox' = outbox
    BY <1>7 DEF MarkDeliveredFails
  <2> QED BY <2>1, <2>2, ExclusiveStays
<1> QED
  BY <1>1, <1>2, <1>3, <1>4, <1>6, <1>7, NovaSteps DEF DrainStep, Requeue

\* As long as no drain outlives DELIVERING_STALE_MS and nobody uses the retry
\* route, no two drains send or record the same row, through crashes and failing
\* statements: a delivering row is only claimed once its drain is over.
THEOREM OneDrain ==
  ASSUME "slow" \notin Trouble, "requeue" \notin Trouble
  PROVE  NovaSpec => []OneDrainPerRow
<1>1. NovaInit => Exclusive
  BY Blank DEF NovaInit, Exclusive, Claims
<1>2. NovaTypeOK /\ Exclusive /\ [NovaNext]_all => Exclusive'
  BY ExclusiveNext
<1>3. Exclusive => OneDrainPerRow
  BY DEF Exclusive, OneDrainPerRow, Sending, Claims
<1> QED BY <1>1, <1>2, <1>3, NovaTyping, PTL DEF NovaSpec

-----------------------------------------------------------------------------
(* A row is dead only after MAX_ATTEMPTS recorded failures, however late a   *)
(* drain records them                                                        *)

\* The attempts a row holds, and those a drain has read, were all made.
Ladder ==
  /\ \A r \in RowIds : failures[r] >= outbox[r].attempts
  /\ \A t \in Ticks : \A c \in Claims(t) : failures[c.row] >= c.attempts

LEMMA LadderNext ==
  ASSUME "requeue" \notin Trouble,
         NovaTypeOK, Ladder, DeadSpentLadder, [NovaNext]_all
  PROVE  Ladder' /\ DeadSpentLadder'
<1> USE DEF Ladder, DeadSpentLadder
<1>1. \A t \in Ticks : \A c \in Claims(t) : c.row \in RowIds /\ c.attempts \in Nat
  BY DEF NovaTypeOK, DrainState, Claimed, Claims
<1>2. \A r \in RowIds : outbox[r].attempts \in Nat /\ failures[r] \in Nat
  BY DEF NovaTypeOK, OutboxRow
<1>3. CASE Still
  BY <1>3 DEF Still, Claims
<1>4. ASSUME NEW r \in RowIds, RowStep(r) PROVE Ladder' /\ DeadSpentLadder'
  <2>1. \A q \in RowIds : /\ outbox'[q].attempts = outbox[q].attempts
                          /\ outbox'[q].status = "dead" => outbox[q].status = "dead"
    BY <1>4 DEF RowStep, Produce, RowFallsDue, RowGoesStale, NovaTypeOK, OutboxRow
  <2>2. UNCHANGED <<drain, failures>>
    BY <1>4 DEF RowStep, Produce, RowFallsDue, RowGoesStale
  <2> QED BY <2>1, <2>2 DEF Claims
<1>5. ASSUME NEW t \in Ticks, ClaimDueRows(t) PROVE Ladder' /\ DeadSpentLadder'
  <2>1. PICK claimed \in SUBSET RowIds :
          /\ \A r \in claimed : /\ outbox'[r].status = "delivering"
                                /\ outbox'[r].attempts = outbox[r].attempts
          /\ \A r \in RowIds \ claimed : outbox'[r] = outbox[r]
          /\ drain'[t].rows = {[row |-> r, attempts |-> outbox[r].attempts] : r \in claimed}
          /\ drain'[t].sent = {}
          /\ \A u \in Ticks \ {t} : drain'[u] = drain[u]
          /\ UNCHANGED failures
    BY <1>5, ClaimTakes
  <2>2. \A r \in RowIds : /\ outbox'[r].attempts = outbox[r].attempts
                          /\ outbox'[r].status = "dead" => outbox[r].status = "dead"
    BY <2>1
  <2>3. \A c \in Claims(t)' : c.row \in RowIds /\ c.attempts = outbox[c.row].attempts
    BY <2>1 DEF Claims
  <2>4. \A u \in Ticks \ {t} : Claims(u)' = Claims(u)
    BY <2>1 DEF Claims
  <2> QED BY <2>1, <2>2, <2>3, <2>4
<1>6. ASSUME NEW t \in Ticks, Deliver(t) PROVE Ladder' /\ DeadSpentLadder'
  <2>1. PICK c \in drain[t].rows, step \in {"delivered", "failed"} :
          drain' = [drain EXCEPT ![t].step = step, ![t].rows = @ \ {c}, ![t].sent = {c}]
    BY <1>6 DEF Deliver
  <2>2. /\ drain'[t].rows = drain[t].rows \ {c} /\ drain'[t].sent = {c}
        /\ \A u \in Ticks \ {t} : drain'[u] = drain[u]
    BY <2>1 DEF NovaTypeOK, DrainState
  <2>3. \A u \in Ticks : Claims(u)' \subseteq Claims(u)
    BY <2>2 DEF Claims
  <2> QED BY <1>6, <2>3 DEF Deliver
<1>7. ASSUME NEW t \in Ticks, MarkDelivered(t) PROVE Ladder' /\ DeadSpentLadder'
  <2>1. PICK c \in drain[t].sent :
          outbox' = [outbox EXCEPT ![c.row].status = "delivered", ![c.row].stale = FALSE]
    BY <1>7 DEF MarkDelivered
  <2>2. \A q \in RowIds : /\ outbox'[q].attempts = outbox[q].attempts
                          /\ outbox'[q].status = "dead" => outbox[q].status = "dead"
    BY <2>1 DEF NovaTypeOK, OutboxRow
  <2>3. \A u \in Ticks : Claims(u)' \subseteq Claims(u)
    BY <1>7 DEF MarkDelivered, NovaTypeOK, DrainState, Claims
  <2> QED BY <1>7, <2>2, <2>3 DEF MarkDelivered
<1>8. ASSUME NEW t \in Ticks, MarkDeliveredFails(t) PROVE Ladder' /\ DeadSpentLadder'
  <2>1. \A u \in Ticks : Claims(u)' = Claims(u)
    BY <1>8 DEF MarkDeliveredFails, NovaTypeOK, DrainState, Claims
  <2> QED BY <1>8, <2>1 DEF MarkDeliveredFails
<1>9. ASSUME NEW t \in Ticks, MarkFailed(t) PROVE Ladder' /\ DeadSpentLadder'
  <2>1. PICK c \in drain[t].sent :
          /\ outbox' = [outbox EXCEPT ![c.row] =
               [status   |-> failureDisposition(c.attempts + 1),
                attempts |-> c.attempts + 1, due |-> FALSE, stale |-> FALSE]]
          /\ failures' = [failures EXCEPT ![c.row] = @ + 1]
    BY <1>9 DEF MarkFailed
  <2>2. c.row \in RowIds /\ c.attempts \in Nat /\ failures[c.row] >= c.attempts
    BY <1>1 DEF Claims
  <2>3. \A q \in RowIds : failures'[q] >= failures[q] /\ failures'[q] \in Nat
    BY <1>2, <2>1, <2>2 DEF NovaTypeOK
  <2>4. failures'[c.row] >= c.attempts + 1
    BY <1>2, <2>1, <2>2 DEF NovaTypeOK
  <2>5. \A q \in RowIds : q # c.row => outbox'[q] = outbox[q]
    BY <2>1 DEF NovaTypeOK
  <2>6. /\ outbox'[c.row].attempts = c.attempts + 1
        /\ outbox'[c.row].status = "dead" => c.attempts + 1 >= MaxAttempts
    BY <2>1, <2>2 DEF NovaTypeOK, failureDisposition
  <2>7. \A u \in Ticks : Claims(u)' \subseteq Claims(u)
    BY <1>9 DEF MarkFailed, NovaTypeOK, DrainState, Claims
  <2>8. \A r \in RowIds : failures'[r] >= outbox'[r].attempts
    BY <1>2, <2>2, <2>3, <2>4, <2>5, <2>6
  <2>9. \A u \in Ticks : \A d \in Claims(u)' : failures'[d.row] >= d.attempts
    BY <1>1, <1>2, <2>3, <2>7
  <2>10. \A r \in RowIds : outbox'[r].status = "dead" => failures'[r] >= MaxAttempts
    BY <1>2, <2>2, <2>3, <2>4, <2>5, <2>6, NovaAssumption
  <2> QED BY <2>8, <2>9, <2>10
<1> QED
  BY <1>3, <1>4, <1>5, <1>6, <1>7, <1>8, <1>9, NovaSteps DEF DrainStep, Requeue

\* Without the retry route a row is dead only after MAX_ATTEMPTS recorded
\* failures, even when two drains have it and record them in any order.
THEOREM DeadOnlyAfterLadder ==
  ASSUME "requeue" \notin Trouble
  PROVE  NovaSpec => []DeadSpentLadder
<1>1. NovaInit => Ladder /\ DeadSpentLadder
  BY Blank DEF NovaInit, Ladder, DeadSpentLadder, Claims
<1>2. NovaTypeOK /\ Ladder /\ DeadSpentLadder /\ [NovaNext]_all
        => Ladder' /\ DeadSpentLadder'
  BY LadderNext
<1> QED BY <1>1, <1>2, NovaTyping, PTL DEF NovaSpec

-----------------------------------------------------------------------------
(* The outbox implements EventDelivery                                       *)

\* What EventDelivery sees of a row.
Tries == [r \in RowIds |-> outbox[r].attempts]

State == [r \in RowIds |->
  CASE outbox[r].status = "absent" -> "unborn"
    [] outbox[r].status \in {"queued", "delivering"} -> "pending"
    [] OTHER -> outbox[r].status]

\* A row whose status changes between queued and delivering at most, and which
\* keeps its attempts, looks the same.
LEMMA RowsLookSame ==
  ASSUME \A r \in RowIds :
           /\ outbox'[r].attempts = outbox[r].attempts
           /\ \/ outbox'[r].status = outbox[r].status
              \/ /\ outbox[r].status \in {"queued", "delivering"}
                 /\ outbox'[r].status \in {"queued", "delivering"}
  PROVE  Tries' = Tries /\ State' = State
  BY DEF Tries, State

\* When one row changes, the map changes at that row.
LEMMA OneRowLooksNew ==
  ASSUME NEW r \in RowIds, \A q \in RowIds : q # r => outbox'[q] = outbox[q]
  PROVE  /\ Tries' = [Tries EXCEPT ![r] = outbox'[r].attempts]
         /\ State' = [State EXCEPT ![r] = State'[r]]
  BY DEF Tries, State

LEMMA StepDelivers ==
  ASSUME "requeue" \notin Trouble,
         NovaTypeOK, Exclusive, Told, [NovaNext]_all
  PROVE  [Delivery!Next]_(Delivery!event)
<1>1. ASSUME Tries' = Tries, State' = State, accepted' = accepted
      PROVE  UNCHANGED Delivery!event
  BY <1>1 DEF Delivery!event, Tries, State
<1>2. CASE Still
  BY <1>1, <1>2, RowsLookSame DEF Still
<1>3. ASSUME NEW r \in RowIds, RowFallsDue(r) \/ RowGoesStale(r)
      PROVE  UNCHANGED Delivery!event
  <2>1. \A q \in RowIds : /\ outbox'[q].attempts = outbox[q].attempts
                          /\ outbox'[q].status = outbox[q].status
    <3>1. CASE RowFallsDue(r)
      BY <3>1 DEF RowFallsDue, NovaTypeOK, OutboxRow
    <3>2. CASE RowGoesStale(r)
      BY <3>2 DEF RowGoesStale, NovaTypeOK, OutboxRow
    <3> QED BY <1>3, <3>1, <3>2
  <2>2. accepted' = accepted
    BY <1>3 DEF RowFallsDue, RowGoesStale
  <2> QED BY <1>1, <2>1, <2>2, RowsLookSame
<1>4. ASSUME NEW r \in RowIds, Produce(r) PROVE Delivery!Next
  <2>1. /\ \A q \in RowIds : q # r => outbox'[q] = outbox[q]
        /\ outbox'[r].status = "queued" /\ outbox'[r].attempts = outbox[r].attempts
        /\ outbox[r].status = "absent"
    BY <1>4 DEF Produce, NovaTypeOK, OutboxRow
  <2>2. State'[r] = "pending" /\ State[r] = "unborn"
    BY <2>1 DEF State
  <2>3. State' = [State EXCEPT ![r] = "pending"] /\ Tries' = Tries
    BY <2>1, <2>2, OneRowLooksNew DEF Tries
  <2>4. Delivery!Publish(r)
    BY <1>4, <2>2, <2>3 DEF Delivery!Publish, State, Tries, Produce
  <2> QED BY <2>4 DEF Delivery!Next
<1>5. ASSUME NEW t \in Ticks, ClaimDueRows(t) PROVE UNCHANGED Delivery!event
  <2>1. /\ UNCHANGED accepted
        /\ \A r \in RowIds :
           /\ outbox'[r].attempts = outbox[r].attempts
           /\ \/ outbox'[r].status = outbox[r].status
              \/ /\ outbox[r].status \in {"queued", "delivering"}
                 /\ outbox'[r].status \in {"queued", "delivering"}
    BY <1>5, ClaimTakes DEF DueForDrain
  <2> QED BY <1>1, <2>1, RowsLookSame
<1>6. ASSUME NEW t \in Ticks, Deliver(t) PROVE Delivery!Next \/ UNCHANGED Delivery!event
  <2>1. PICK c \in drain[t].rows, takes \in BOOLEAN :
          accepted' = IF takes THEN accepted \cup {c.row} ELSE accepted
    BY <1>6 DEF Deliver
  <2>2. outbox' = outbox /\ State' = State /\ Tries' = Tries
    BY <1>6 DEF Deliver, State, Tries
  <2>3. c.row \in RowIds /\ State[c.row] = "pending"
    BY <2>1 DEF Exclusive, Claims, NovaTypeOK, DrainState, Claimed, State
  <2>4. CASE takes
    <3>1. Delivery!Receive(c.row)
      BY <2>1, <2>2, <2>3, <2>4 DEF Delivery!Receive, State, Tries
    <3> QED BY <2>3, <3>1 DEF Delivery!Next
  <2>5. CASE ~takes
    BY <1>1, <2>1, <2>2, <2>5
  <2> QED BY <2>4, <2>5
<1>7. ASSUME NEW t \in Ticks, MarkDelivered(t) PROVE Delivery!Next
  <2>1. PICK c \in drain[t].sent :
          outbox' = [outbox EXCEPT ![c.row].status = "delivered", ![c.row].stale = FALSE]
    BY <1>7 DEF MarkDelivered
  <2>2. c.row \in RowIds /\ State[c.row] = "pending"
    BY <2>1 DEF Exclusive, Claims, NovaTypeOK, DrainState, Claimed, State
  <2>3. c.row \in accepted
    BY <1>7, <2>1 DEF Told, MarkDelivered, Draining
  <2>4. /\ \A q \in RowIds : q # c.row => outbox'[q] = outbox[q]
        /\ outbox'[c.row].status = "delivered"
        /\ outbox'[c.row].attempts = outbox[c.row].attempts
    BY <2>1, <2>2 DEF NovaTypeOK, OutboxRow
  <2>5. State'[c.row] = "delivered"
    BY <2>2, <2>4 DEF State
  <2>6. State' = [State EXCEPT ![c.row] = "delivered"] /\ Tries' = Tries
    BY <2>2, <2>4, <2>5, OneRowLooksNew DEF Tries
  <2>7. Delivery!Confirm(c.row)
    BY <1>7, <2>2, <2>3, <2>6 DEF Delivery!Confirm, State, Tries, MarkDelivered
  <2> QED BY <2>2, <2>7 DEF Delivery!Next
<1>8. ASSUME NEW t \in Ticks, MarkDeliveredFails(t) PROVE UNCHANGED Delivery!event
  BY <1>1, <1>8, RowsLookSame DEF MarkDeliveredFails
<1>9. ASSUME NEW t \in Ticks, MarkFailed(t) PROVE Delivery!Next
  <2>1. PICK c \in drain[t].sent : outbox' = [outbox EXCEPT ![c.row] =
            [status   |-> failureDisposition(c.attempts + 1),
             attempts |-> c.attempts + 1, due |-> FALSE, stale |-> FALSE]]
    BY <1>9 DEF MarkFailed
  <2>2. c.row \in RowIds /\ State[c.row] = "pending" /\ Tries[c.row] = c.attempts
    BY <2>1 DEF Exclusive, Claims, NovaTypeOK, DrainState, Claimed, State, Tries
  <2>3. /\ \A q \in RowIds : q # c.row => outbox'[q] = outbox[q]
        /\ outbox'[c.row].status = failureDisposition(c.attempts + 1)
        /\ outbox'[c.row].attempts = c.attempts + 1
    BY <2>1, <2>2 DEF NovaTypeOK
  <2>4. State'[c.row] = IF c.attempts + 1 >= MaxAttempts THEN "dead" ELSE State[c.row]
    BY <2>2, <2>3 DEF State, failureDisposition
  <2>5. /\ State' = [State EXCEPT ![c.row] =
               IF Tries[c.row] + 1 >= MaxAttempts THEN "dead" ELSE @]
        /\ Tries' = [Tries EXCEPT ![c.row] = @ + 1]
    <3>1. State' = [State EXCEPT ![c.row] = State'[c.row]]
          /\ Tries' = [Tries EXCEPT ![c.row] = outbox'[c.row].attempts]
      BY <2>2, <2>3, OneRowLooksNew
    <3> QED BY <2>2, <2>3, <2>4, <3>1 DEF State, Tries
  <2>6. Delivery!Miss(c.row)
    BY <1>9, <2>2, <2>5 DEF Delivery!Miss, State, Tries, MarkFailed
  <2> QED BY <2>2, <2>6 DEF Delivery!Next
<1> QED
  BY <1>2, <1>3, <1>4, <1>5, <1>6, <1>7, <1>8, <1>9, NovaSteps
  DEF RowStep, DrainStep, Requeue

\* Under the assumptions of OneDrain the outbox delivers at least once: events
\* are received while pending, confirmed only once received, delivered for good,
\* and dead only after MAX_ATTEMPTS misses, through crashes and failing statements.
THEOREM DeliversAtLeastOnce ==
  ASSUME "slow" \notin Trouble, "requeue" \notin Trouble
  PROVE  NovaSpec => ImplementsDelivery
<1>1. NovaInit => Delivery!Init /\ Exclusive /\ Told /\ DeliveredWasAccepted
  <2> SUFFICES ASSUME NovaInit
               PROVE  Delivery!Init /\ Exclusive /\ Told /\ DeliveredWasAccepted
    OBVIOUS
  <2>1. Exclusive /\ Told /\ DeliveredWasAccepted
    BY Blank DEF NovaInit, Exclusive, Told, DeliveredWasAccepted, Claims
  <2>2. Delivery!Init
    BY DEF NovaInit, Delivery!Init
  <2> QED BY <2>1, <2>2
<1>2. NovaTypeOK /\ Exclusive /\ [NovaNext]_all => Exclusive'
  BY ExclusiveNext
<1>3. NovaTypeOK /\ Exclusive /\ Told /\ [NovaNext]_all => [Delivery!Next]_(Delivery!event)
  BY StepDelivers
<1> QED
  BY <1>1, <1>2, <1>3, ToldNext, NovaTyping, PTL DEF NovaSpec, ImplementsDelivery, Delivery!Spec
-----------------------------------------------------------------------------
(* What the scheduler promises survives the outbox: its promoter inserts     *)
(* drain jobs between the scheduler's own steps, and that is all             *)

LEMMA DrainInsert ==
  ASSUME TypeOK, NovaTypeOK, NEW t \in Ticks, EnqueueDrain(t)
  PROVE  \E tenant \in drain[t].scan :
           /\ tenant \in JobTypes
           /\ Insert(tenant, DrainAttempts, TRUE)
           /\ drain' = [drain EXCEPT ![t].scan = @ \ {tenant}]
           /\ UNCHANGED <<defs, tick, fired, clock>>
  BY DEF EnqueueDrain, NovaTypeOK, DrainState, Tenants

\* An INSERT gives a new id, whose row nobody holds.
LEMMA InsertedRow ==
  ASSUME TypeOK, IdsAheadAbsent, NEW type, NEW max, NEW due, Insert(type, max, due)
  PROVE  /\ inserted + 1 \in JobIds /\ jobs[inserted + 1].status = "absent"
         /\ jobs'[inserted + 1] = QueuedRow(type, max, due)
         /\ \A j \in JobIds : j # inserted + 1 => jobs'[j] = jobs[j]
         /\ inserted' = inserted + 1
  BY BoundsAssumption DEF Insert, TypeOK, IdsAheadAbsent, JobIds

LEMMA OwnershipInNova == Sound /\ NovaTypeOK /\ [NovaNext]_all => Ownership'
<1> SUFFICES ASSUME Sound, NovaTypeOK, [NovaNext]_all PROVE Ownership'
  OBVIOUS
<1>1. ASSUME NEW t \in Ticks, EnqueueDrain(t) PROVE Ownership'
  <2>1. PICK tenant \in drain[t].scan :
          Insert(tenant, DrainAttempts, TRUE) /\ tick' = tick
    BY <1>1, DrainInsert DEF Sound
  <2>2. /\ jobs[inserted + 1].status = "absent"
        /\ \A j \in JobIds : j # inserted + 1 => jobs'[j] = jobs[j]
        /\ inserted' = inserted + 1
    BY <2>1, InsertedRow DEF Sound, Ownership
  <2>3. IdsAheadAbsent'
    BY <2>2 DEF Sound, TypeOK, Ownership, IdsAheadAbsent, JobIds
  <2>4. \A j \in JobIds : jobs[j].status = "running" => jobs'[j] = jobs[j]
    BY <2>2
  <2> QED BY <2>1, <2>3, <2>4, NoNewHolder DEF Sound, Holds
<1> QED BY <1>1, SchedulerStep, OwnershipNext DEF Sound

LEMMA SoundInNova == NovaSpec => [](Sound /\ NovaTypeOK)
<1>1. NovaInit => Sound /\ NovaTypeOK
  BY NovaTypeInit, OwnershipInit DEF NovaInit, Sound
<1>2. Sound /\ NovaTypeOK /\ [NovaNext]_all => Sound' /\ NovaTypeOK'
  BY NovaTypeNext, SchedulerTypes, OwnershipInNova DEF Sound
<1> QED BY <1>1, <1>2, PTL DEF NovaSpec

LEMMA ClaimableInNova ==
  Sound /\ NovaTypeOK /\ QueuedIsClaimable /\ [NovaNext]_all => QueuedIsClaimable'
<1> SUFFICES ASSUME Sound, NovaTypeOK, QueuedIsClaimable, [NovaNext]_all
             PROVE  QueuedIsClaimable'
  OBVIOUS
<1>1. ASSUME NEW t \in Ticks, EnqueueDrain(t) PROVE QueuedIsClaimable'
  <2>1. PICK tenant \in drain[t].scan : Insert(tenant, DrainAttempts, TRUE)
    BY <1>1, DrainInsert DEF Sound
  <2>2. /\ jobs'[inserted + 1] = QueuedRow(tenant, DrainAttempts, TRUE)
        /\ \A j \in JobIds : j # inserted + 1 => jobs'[j] = jobs[j]
    BY <2>1, InsertedRow DEF Sound, Ownership
  <2> QED BY <2>2 DEF QueuedIsClaimable, QueuedRow
<1> QED BY <1>1, SchedulerStep, ClaimableNext DEF Sound

\* The drain jobs of the outbox share the queue's guarantees: whatever crashes or
\* fails, the job a tick holds is running as claimed, no two ticks hold it, and a
\* queued drain job can always be claimed.
THEOREM QueueStaysSound == NovaSpec => [](HeldIsRunning /\ SingleOwner /\ QueuedIsClaimable)
<1>1. NovaInit => QueuedIsClaimable
  BY DEF NovaInit, Init, QueuedIsClaimable, NoRow, QueuedRow
<1>2. NovaSpec => []QueuedIsClaimable
  BY <1>1, ClaimableInNova, SoundInNova, PTL DEF NovaSpec
<1>3. Sound => HeldIsRunning /\ SingleOwner
  BY DEF Sound, Ownership
<1> QED BY <1>2, <1>3, SoundInNova, PTL

\* Under the outbox, too, only the tick that claimed a drain job moves it out of
\* running, so an active drain never comes to look finished to the promoter.
THEOREM OnlyDrainOwnerSettles == NovaSpec => OnlyOwnerSettles
<1>1. ASSUME Sound, NovaTypeOK, [NovaNext]_all
      PROVE  \A j \in JobIds : SettledByOwner(j)
  <2>1. ASSUME NEW t \in Ticks, EnqueueDrain(t) PROVE \A j \in JobIds : SettledByOwner(j)
    <3>1. PICK tenant \in drain[t].scan : Insert(tenant, DrainAttempts, TRUE)
      BY <1>1, <2>1, DrainInsert DEF Sound
    <3>2. /\ jobs[inserted + 1].status = "absent"
          /\ \A j \in JobIds : j # inserted + 1 => jobs'[j] = jobs[j]
      BY <1>1, <3>1, InsertedRow DEF Sound, Ownership
    <3> QED BY <3>2 DEF SettledByOwner
  <2> QED BY <1>1, <2>1, SchedulerStep, SettlingStep DEF Sound
<1>2. Sound /\ NovaTypeOK /\ [NovaNext]_all
        => [\A j \in JobIds :
              jobs[j].status = "running" /\ jobs'[j].status # "running"
                => \E t \in Ticks : Holds(t, j) /\ ~Holds(t, j)']_vars
  BY <1>1 DEF SettledByOwner
<1> QED BY <1>2, SoundInNova, PTL DEF NovaSpec, OnlyOwnerSettles

\* The queue the drains run on still implements the abstract work queue: the
\* promoter's INSERT is a Put.
THEOREM DrainQueueImplements ==
  ASSUME DrainAttempts \in AttemptLimits
  PROVE  NovaSpec => ImplementsWorkQueue
<1>1. ASSUME Sound, Sound', NovaTypeOK, [NovaNext]_all PROVE [Queue!Next]_Items
  <2>1. ASSUME NEW t \in Ticks, EnqueueDrain(t) PROVE Queue!Next
    <3>1. PICK tenant \in JobTypes : Insert(tenant, DrainAttempts, TRUE) /\ tick' = tick
      BY <1>1, <2>1, DrainInsert DEF Sound
    <3>2. \A u \in Ticks, j \in JobIds : Holds(u, j)' <=> Holds(u, j)
      BY <3>1 DEF Holds
    <3> QED BY <1>1, <3>1, <3>2, InsertImplements
  <2> QED BY <1>1, <2>1, SchedulerStep, StepImplements
<1>2. NovaInit => Queue!Init
  BY InitImplements DEF NovaInit
<1> QED BY <1>1, <1>2, SoundInNova, PTL DEF NovaSpec, ImplementsWorkQueue, Queue!Spec

-----------------------------------------------------------------------------
(* Drain jobs never pile up                                                  *)

\* Nothing but the outbox inserts jobs: no definition is or falls due.
Quiet ==
  /\ \A d \in Defs : ~IsDue(d)
  /\ \A t \in Ticks : tick[t].batch = {} /\ tick[t].current = {}

\* The ticks whose SELECT has found the tenant without a drain job.
Scanners(tenant) == {t \in Ticks : tenant \in drain[t].scan}

\* A tick inserts at most once for what it found, and finds nothing while a drain
\* job is active: each active job is one tick fewer that may still insert.
PileRoom ==
  \A tenant \in Tenants :
    Cardinality(ActiveDrains(tenant)) + Cardinality(Scanners(tenant)) <= Cardinality(Ticks)

\* Both sets are finite, whatever the state; in fewer jobs and fewer ticks they
\* have fewer members.
LEMMA PileCounted ==
  ASSUME NEW tenant
  PROVE  /\ IsFiniteSet(ActiveDrains(tenant)) /\ Cardinality(ActiveDrains(tenant)) \in Nat
         /\ IsFiniteSet(Scanners(tenant)) /\ Cardinality(Scanners(tenant)) \in Nat
         /\ Cardinality(Scanners(tenant)) <= Cardinality(Ticks)
         /\ Cardinality(Ticks) \in Nat
<1>1. IsFiniteSet(JobIds)
  BY BoundsAssumption, FS_Interval DEF JobIds
<1>2. ActiveDrains(tenant) \subseteq JobIds
  BY DEF ActiveDrains
<1>3. IsFiniteSet(ActiveDrains(tenant))
  BY <1>1, <1>2, FS_Subset
<1>4. Scanners(tenant) \in SUBSET Ticks
  BY DEF Scanners
<1> QED BY <1>3, <1>4, FS_CardinalityType, TicksCounted

LEMMA PileCountedNext ==
  ASSUME NEW tenant
  PROVE  /\ IsFiniteSet(ActiveDrains(tenant)') /\ Cardinality(ActiveDrains(tenant)') \in Nat
         /\ IsFiniteSet(Scanners(tenant)') /\ Cardinality(Scanners(tenant)') \in Nat
         /\ Cardinality(Scanners(tenant)') <= Cardinality(Ticks)
<1>1. IsFiniteSet(JobIds)
  BY BoundsAssumption, FS_Interval DEF JobIds
<1>2. ActiveDrains(tenant)' \subseteq JobIds
  BY DEF ActiveDrains
<1>3. IsFiniteSet(ActiveDrains(tenant)')
  BY <1>1, <1>2, FS_Subset
<1>4. Scanners(tenant)' \in SUBSET Ticks
  BY DEF Scanners
<1> QED BY <1>3, <1>4, FS_CardinalityType, TicksCounted

LEMMA RoomInit == NovaInit => Quiet /\ PileRoom
<1> SUFFICES ASSUME NovaInit PROVE Quiet /\ PileRoom
  OBVIOUS
<1>1. Quiet
  BY DEF NovaInit, Init, IdleTick, NoDef, ReadyDefs, IsDue, Quiet
<1>2. ASSUME NEW tenant \in Tenants
      PROVE  Cardinality(ActiveDrains(tenant)) + Cardinality(Scanners(tenant))
               <= Cardinality(Ticks)
  <2>1. ActiveDrains(tenant) = {}
    BY DEF NovaInit, Init, NoRow, QueuedRow, ActiveDrains
  <2>2. Cardinality(ActiveDrains(tenant)) = 0
    BY <2>1, FS_EmptySet
  <2> QED BY <2>2, PileCounted
<1> QED BY <1>1, <1>2 DEF PileRoom

\* While nothing is due a tick that promotes only moves on.
LEMMA QuietPromotion ==
  ASSUME TypeOK, Quiet, NEW t \in Ticks, Promotion(t)
  PROVE  /\ UNCHANGED <<jobs, defs>>
         /\ \A u \in Ticks : tick'[u].batch = {} /\ tick'[u].current = {}
<1>1. CASE SelectDue(t)
  <2>1. {[def |-> d, spec |-> defs[d].spec] : d \in {d \in Defs : IsDue(d)}} = {}
    BY DEF Quiet
  <2>2. tick' = [tick EXCEPT ![t].pc = "promote", ![t].batch = {}]
    BY <1>1, <2>1 DEF SelectDue
  <2>3. tick'[t].batch = {} /\ tick'[t].current = tick[t].current
    BY <2>2 DEF TypeOK, TickState
  <2>4. \A u \in Ticks \ {t} : tick'[u] = tick[u]
    BY <2>2 DEF TypeOK
  <2> QED BY <1>1, <2>3, <2>4 DEF SelectDue, Quiet
<1>2. CASE StartTick(t) \/ PromoteDone(t) \/ PromoteAdvanceFails(t)
  <2>1. tick'[t].batch = tick[t].batch
        /\ (tick'[t].current = tick[t].current \/ tick'[t].current = {})
    BY <1>2 DEF StartTick, PromoteDone, PromoteAdvanceFails, Goto, TypeOK, TickState
  <2>2. \A u \in Ticks \ {t} : tick'[u] = tick[u]
    BY <1>2 DEF StartTick, PromoteDone, PromoteAdvanceFails, Goto, TypeOK
  <2> QED BY <1>2, <2>1, <2>2 DEF StartTick, PromoteDone, PromoteAdvanceFails, Quiet
<1>3. CASE SelectFails(t)
  <2>1. tick'[t] = IdleTick /\ UNCHANGED <<jobs, defs>>
        /\ \A u \in Ticks \ {t} : tick'[u] = tick[u]
    BY <1>3 DEF SelectFails, Finish, TypeOK
  <2> QED BY <2>1 DEF IdleTick, Quiet
<1>4. ~PromoteInsert(t) /\ ~PromoteSkip(t) /\ ~PromoteAdvance(t)
  BY DEF Quiet, PromoteInsert, PromoteSkip, PromoteAdvance
<1> QED BY <1>1, <1>2, <1>3, <1>4 DEF Promotion

\* A tick that claims, runs and settles a job has no definitions in hand.
LEMMA QuietExecution ==
  ASSUME TypeOK, Quiet, NEW t \in Ticks, Execution(t)
  PROVE  /\ UNCHANGED defs
         /\ \A u \in Ticks : tick'[u].batch = {} /\ tick'[u].current = {}
<1>1. CASE Claim(t)
  <2>1. PICK j \in JobIds : tick' = [tick EXCEPT
          ![t].job = j, ![t].attempts = jobs[j].attempts + 1,
          ![t].pc = IF jobs[j].type \in Handlers THEN "handler" ELSE "fail"]
    BY <1>1 DEF Claim
  <2> QED BY <1>1, <2>1 DEF Claim, Quiet, TypeOK, TickState
<1>2. CASE HandlerReturns(t) \/ HandlerThrows(t) \/ CompleteFails(t)
  BY <1>2 DEF HandlerReturns, HandlerThrows, CompleteFails, Goto, Quiet, TypeOK, TickState
<1>3. CASE ClaimNone(t) \/ Complete(t) \/ Fail(t) \/ FailFails(t)
  <2>1. tick'[t] = IdleTick /\ UNCHANGED defs
        /\ \A u \in Ticks \ {t} : tick'[u] = tick[u]
    BY <1>3 DEF ClaimNone, Complete, Fail, FailFails, Finish, TypeOK
  <2> QED BY <2>1 DEF IdleTick, Quiet
<1> QED BY <1>1, <1>2, <1>3 DEF Execution

\* Without the admin retry a job that is not active never becomes so.
Active(j) == jobs[j].status \in {"queued", "running"}

NoneRevived ==
  \A j \in JobIds : Active(j)' => Active(j) /\ jobs'[j].type = jobs[j].type

LEMMA ExecutionRevivesNone ==
  ASSUME Sound, NEW t \in Ticks, Execution(t)
  PROVE  NoneRevived
<1>1. CASE Claim(t)
  <2>1. PICK j \in JobIds :
          /\ Claimable(j)
          /\ jobs' = [jobs EXCEPT ![j].status = "running", ![j].lock = "held",
                                  ![j].attempts = @ + 1]
    BY <1>1 DEF Claim
  <2>2. \A k \in JobIds \ {j} : jobs'[k] = jobs[k]
    BY <2>1 DEF Sound, TypeOK
  <2>3. Active(j) /\ jobs'[j].type = jobs[j].type
    BY <2>1 DEF Sound, TypeOK, JobRow, Claimable, Active
  <2> QED BY <2>2, <2>3 DEF NoneRevived, Active
<1>2. CASE Complete(t) \/ Fail(t)
  <2>1. PICK j \in JobIds : tick[t].job = j /\ Holds(t, j)
    BY <1>2 DEF Sound, TypeOK, Complete, Fail, Holding, Holds
  <2>2. Active(j)
    BY <2>1 DEF Sound, Ownership, HeldIsRunning, Active
  <2>3. jobs'[j].type = jobs[j].type
    <3>1. CASE Complete(t)
      BY <2>1, <3>1 DEF Complete, Sound, TypeOK, JobRow
    <3>2. CASE Fail(t)
      BY <2>1, <3>2 DEF Fail, Sound, TypeOK, JobRow
    <3> QED BY <1>2, <3>1, <3>2
  <2>4. \A k \in JobIds \ {j} : jobs'[k] = jobs[k]
    BY <1>2, <2>1 DEF Complete, Fail, Sound, TypeOK
  <2> QED BY <2>2, <2>3, <2>4 DEF NoneRevived, Active
<1>3. CASE ClaimNone(t) \/ HandlerReturns(t) \/ HandlerThrows(t)
           \/ CompleteFails(t) \/ FailFails(t)
  BY <1>3 DEF ClaimNone, HandlerReturns, HandlerThrows, CompleteFails, FailFails,
       NoneRevived, Active
<1> QED BY <1>1, <1>2, <1>3 DEF Execution

\* Steps that revive no job and find no new tenant leave the room there is.
LEMMA RoomStays ==
  ASSUME PileRoom, NoneRevived,
         \A t \in Ticks : drain'[t].scan \subseteq drain[t].scan
  PROVE  PileRoom'
<1> SUFFICES ASSUME NEW tenant \in Tenants
             PROVE  Cardinality(ActiveDrains(tenant)') + Cardinality(Scanners(tenant)')
                      <= Cardinality(Ticks)
  BY DEF PileRoom
<1>1. ActiveDrains(tenant)' \subseteq ActiveDrains(tenant)
  BY DEF ActiveDrains, NoneRevived, Active
<1>2. Scanners(tenant)' \subseteq Scanners(tenant)
  BY DEF Scanners
<1>3. Cardinality(ActiveDrains(tenant)') <= Cardinality(ActiveDrains(tenant))
  BY <1>1, PileCounted, FS_Subset
<1>4. Cardinality(Scanners(tenant)') <= Cardinality(Scanners(tenant))
  BY <1>2, PileCounted, FS_Subset
<1>5. Cardinality(ActiveDrains(tenant)) + Cardinality(Scanners(tenant)) <= Cardinality(Ticks)
  BY DEF PileRoom
<1> QED BY <1>3, <1>4, <1>5, PileCounted, PileCountedNext

\* A tick finds a tenant only while it has no active drain job.
LEMMA RoomScanned ==
  ASSUME NovaTypeOK, PileRoom, NEW t \in Ticks, ScanOutbox(t)
  PROVE  PileRoom'
<1>1. drain' = [drain EXCEPT ![t].scanned = TRUE,
         ![t].scan = {tenant \in Tenants : HasDueRow(tenant) /\ ~HasDrainJob(tenant)}]
      /\ jobs' = jobs
  BY DEF ScanOutbox, vars
<1> SUFFICES ASSUME NEW tenant \in Tenants
             PROVE  Cardinality(ActiveDrains(tenant)') + Cardinality(Scanners(tenant)')
                      <= Cardinality(Ticks)
  BY DEF PileRoom
<1>2. ActiveDrains(tenant)' = ActiveDrains(tenant)
  BY <1>1 DEF ActiveDrains
<1>3. CASE HasDrainJob(tenant)
  <2>1. Scanners(tenant)' \subseteq Scanners(tenant)
    BY <1>1, <1>3 DEF Scanners, NovaTypeOK, DrainState
  <2>2. Cardinality(Scanners(tenant)') <= Cardinality(Scanners(tenant))
    BY <2>1, PileCounted, FS_Subset
  <2>3. Cardinality(ActiveDrains(tenant)) + Cardinality(Scanners(tenant)) <= Cardinality(Ticks)
    BY DEF PileRoom
  <2> QED BY <1>2, <2>2, <2>3, PileCounted, PileCountedNext
<1>4. CASE ~HasDrainJob(tenant)
  <2>1. ActiveDrains(tenant) = {}
    BY <1>4 DEF ActiveDrains, HasDrainJob
  <2>2. Cardinality(ActiveDrains(tenant)) = 0
    BY <2>1, FS_EmptySet
  <2> QED BY <1>2, <2>2, PileCounted, PileCountedNext
<1> QED BY <1>3, <1>4

\* An INSERT makes an active drain job of a tick that could still insert.
LEMMA RoomEnqueued ==
  ASSUME Sound, NovaTypeOK, PileRoom, NEW t \in Ticks, EnqueueDrain(t)
  PROVE  PileRoom'
<1>1. PICK served \in drain[t].scan :
        /\ Insert(served, DrainAttempts, TRUE)
        /\ drain' = [drain EXCEPT ![t].scan = @ \ {served}]
  BY DrainInsert DEF Sound
<1> DEFINE new == inserted + 1
<1>2. /\ jobs'[new] = QueuedRow(served, DrainAttempts, TRUE)
      /\ \A j \in JobIds : j # new => jobs'[j] = jobs[j]
  BY <1>1, InsertedRow DEF Sound, Ownership
<1>3. jobs'[new].type = served
  BY <1>2 DEF QueuedRow
<1> HIDE DEF new
<1>4. drain'[t].scan = drain[t].scan \ {served}
      /\ \A u \in Ticks \ {t} : drain'[u].scan = drain[u].scan
  BY <1>1 DEF NovaTypeOK, DrainState
<1> SUFFICES ASSUME NEW tenant \in Tenants
             PROVE  Cardinality(ActiveDrains(tenant)') + Cardinality(Scanners(tenant)')
                      <= Cardinality(Ticks)
  BY DEF PileRoom
<1>5. Cardinality(ActiveDrains(tenant)) + Cardinality(Scanners(tenant)) <= Cardinality(Ticks)
  BY DEF PileRoom
<1>6. CASE tenant = served
  <2>1. ActiveDrains(tenant)' \subseteq ActiveDrains(tenant) \cup {new}
    BY <1>2 DEF ActiveDrains
  <2>2. Cardinality(ActiveDrains(tenant)') <= Cardinality(ActiveDrains(tenant)) + 1
    <3>1. /\ IsFiniteSet(ActiveDrains(tenant) \cup {new})
          /\ \/ Cardinality(ActiveDrains(tenant) \cup {new}) = Cardinality(ActiveDrains(tenant))
             \/ Cardinality(ActiveDrains(tenant) \cup {new})
                  = Cardinality(ActiveDrains(tenant)) + 1
      BY PileCounted, FS_AddElement
    <3>2. Cardinality(ActiveDrains(tenant)') <= Cardinality(ActiveDrains(tenant) \cup {new})
      BY <2>1, <3>1, FS_Subset
    <3> QED BY <3>1, <3>2, PileCounted, PileCountedNext
  <2>3. Scanners(tenant)' = Scanners(tenant) \ {t} /\ t \in Scanners(tenant)
    BY <1>4, <1>6 DEF Scanners
  <2>4. Cardinality(Scanners(tenant)') = Cardinality(Scanners(tenant)) - 1
    BY <2>3, PileCounted, FS_RemoveElement
  <2> QED BY <1>5, <2>2, <2>4, PileCounted, PileCountedNext
<1>7. CASE tenant # served
  <2>1. ActiveDrains(tenant)' \subseteq ActiveDrains(tenant)
    BY <1>2, <1>3, <1>7 DEF ActiveDrains
  <2>2. Scanners(tenant)' \subseteq Scanners(tenant)
    BY <1>4 DEF Scanners
  <2>3. Cardinality(ActiveDrains(tenant)') <= Cardinality(ActiveDrains(tenant))
    BY <2>1, PileCounted, FS_Subset
  <2>4. Cardinality(Scanners(tenant)') <= Cardinality(Scanners(tenant))
    BY <2>2, PileCounted, FS_Subset
  <2> QED BY <1>5, <2>3, <2>4, PileCounted, PileCountedNext
<1> QED BY <1>6, <1>7

LEMMA RoomNext ==
  ASSUME "retry" \notin Env, Sound, NovaTypeOK, Quiet, PileRoom, [NovaNext]_all
  PROVE  Quiet' /\ PileRoom'
<1> USE DEF Sound
<1>1. ASSUME UNCHANGED <<defs, tick>> PROVE Quiet'
  BY <1>1 DEF Quiet, IsDue
<1>2. ASSUME UNCHANGED <<defs, tick, jobs>>,
             \A t \in Ticks : drain'[t].scan \subseteq drain[t].scan
      PROVE  Quiet' /\ PileRoom'
  BY <1>1, <1>2, RoomStays DEF NoneRevived, Active
<1>3. ASSUME NEW t \in Ticks, ScanOutbox(t) PROVE Quiet' /\ PileRoom'
  <2>1. UNCHANGED <<defs, tick>>
    BY <1>3 DEF ScanOutbox, vars
  <2> QED BY <1>1, <1>3, <2>1, RoomScanned
<1>4. ASSUME NEW t \in Ticks, SkipScan(t) PROVE Quiet' /\ PileRoom'
  <2>1. \A u \in Ticks : drain'[u].scan \subseteq drain[u].scan
    BY <1>4 DEF SkipScan, NovaTypeOK, DrainState
  <2>2. UNCHANGED <<defs, tick, jobs>>
    BY <1>4 DEF SkipScan, vars
  <2> QED BY <1>2, <2>1, <2>2
<1>5. ASSUME NEW t \in Ticks, EnqueueDrain(t) PROVE Quiet' /\ PileRoom'
  <2>1. UNCHANGED <<defs, tick>>
    BY <1>5 DEF EnqueueDrain
  <2> QED BY <1>1, <1>5, <2>1, RoomEnqueued
<1>6. ASSUME NEW t \in Ticks, PromoteDefinitions(t) PROVE Quiet' /\ PileRoom'
  <2>1. Promotion(t) /\ drain' = [drain EXCEPT ![t] = NoDrain]
    BY <1>6 DEF PromoteDefinitions
  <2>2. /\ UNCHANGED <<jobs, defs>>
        /\ \A u \in Ticks : tick'[u].batch = {} /\ tick'[u].current = {}
    BY <2>1, QuietPromotion
  <2>3. \A u \in Ticks : drain'[u].scan \subseteq drain[u].scan
    BY <2>1, Blank DEF NovaTypeOK
  <2>4. Quiet'
    BY <2>2 DEF Quiet, IsDue
  <2> QED BY <2>2, <2>3, <2>4, RoomStays DEF NoneRevived, Active
<1>7. ASSUME NEW t \in Ticks, Execution(t),
             \A u \in Ticks : drain'[u].scan \subseteq drain[u].scan
      PROVE  Quiet' /\ PileRoom'
  <2>1. Quiet'
    BY <1>7, QuietExecution DEF Quiet, IsDue
  <2>2. NoneRevived
    BY <1>7, ExecutionRevivesNone
  <2> QED BY <1>7, <2>1, <2>2, RoomStays
<1>8. ASSUME NEW t \in Ticks, SkipDrain(t) \/ DrainThrows(t) \/ DrainReturns(t)
      PROVE  Quiet' /\ PileRoom'
  <2>1. Execution(t) /\ drain' = [drain EXCEPT ![t] = NoDrain]
    BY <1>8 DEF SkipDrain, DrainThrows, DrainReturns, Forget, Execution
  <2>2. \A u \in Ticks : drain'[u].scan \subseteq drain[u].scan
    BY <2>1, Blank DEF NovaTypeOK
  <2> QED BY <1>7, <2>1, <2>2
<1>9. ASSUME NEW t \in Ticks, DrainStep(t) PROVE Quiet' /\ PileRoom'
  <2>1. \A u \in Ticks : drain'[u].scan = drain[u].scan
    <3>1. CASE ClaimDueRows(t)
      <4>1. PICK b : drain' = [drain EXCEPT ![t].step = "loop", ![t].rows = b]
        BY <3>1 DEF ClaimDueRows
      <4> QED BY <4>1 DEF NovaTypeOK, DrainState
    <3>2. CASE Deliver(t)
      <4>1. PICK c, step :
              drain' = [drain EXCEPT ![t].step = step, ![t].rows = @ \ {c}, ![t].sent = {c}]
        BY <3>2 DEF Deliver
      <4> QED BY <4>1 DEF NovaTypeOK, DrainState
    <3>3. CASE MarkDelivered(t) \/ MarkDeliveredFails(t) \/ MarkFailed(t)
      BY <3>3 DEF MarkDelivered, MarkDeliveredFails, MarkFailed, NovaTypeOK, DrainState
    <3> QED BY <1>9, <3>1, <3>2, <3>3 DEF DrainStep
  <2>2. UNCHANGED vars
    BY <1>9 DEF DrainStep, ClaimDueRows, Deliver, MarkDelivered, MarkDeliveredFails, MarkFailed
  <2> QED BY <1>2, <2>1, <2>2 DEF vars
<1>10. ASSUME NEW t \in Ticks, Settle(t) PROVE Quiet' /\ PileRoom'
  <2>1. Execution(t) /\ drain' = drain
    BY <1>10 DEF Settle, Execution, nova
  <2> QED BY <1>7, <2>1
<1>11. ASSUME Rows \/ \E tenant \in Tenants : Requeue(tenant) PROVE Quiet' /\ PileRoom'
  <2>1. UNCHANGED <<vars, drain>>
    BY <1>11 DEF Rows, Produce, RowFallsDue, RowGoesStale, Requeue
  <2> QED BY <1>2, <2>1 DEF vars
<1>12. ASSUME JobsBehind PROVE Quiet' /\ PileRoom'
  <2>1. PICK j \in JobIds : JobFallsDue(j)
    BY <1>12 DEF JobsBehind, Retry
  <2>2. NoneRevived
    BY <2>1 DEF JobFallsDue, NoneRevived, Active, TypeOK, JobRow
  <2>3. UNCHANGED <<defs, tick, drain>>
    BY <1>12, <2>1 DEF JobFallsDue, JobsBehind, nova
  <2> QED BY <1>1, <2>2, <2>3, RoomStays
<1>13. ASSUME NEW p \in Procs, CrashWorker(p) PROVE Quiet' /\ PileRoom'
  <2>1. \A t \in Ticks : \/ drain'[t] = NoDrain /\ tick'[t] = IdleTick
                         \/ drain'[t] = drain[t] /\ tick'[t] = tick[t]
    BY <1>13 DEF CrashWorker, Crash
  <2>2. UNCHANGED <<jobs, defs>>
    BY <1>13 DEF CrashWorker, Crash
  <2>3. Quiet'
    BY <2>1, <2>2 DEF Quiet, IdleTick, IsDue
  <2>4. \A t \in Ticks : drain'[t].scan \subseteq drain[t].scan
    BY <2>1, Blank
  <2> QED BY <2>2, <2>3, <2>4, RoomStays DEF NoneRevived, Active
<1>14. CASE UNCHANGED all
  BY <1>2, <1>14 DEF all, vars, nova
<1> QED
  BY <1>3, <1>4, <1>5, <1>6, <1>8, <1>9, <1>10, <1>11, <1>12, <1>13, <1>14
  DEF NovaNext, Promoter, Drain, DrainStep

\* However many ticks overlap, of one process or of several, and whatever crashes
\* or fails: as long as nobody retries a settled drain job by hand, no tenant has
\* more active drain jobs than there are ticks.
THEOREM DrainsNeverPileUp ==
  ASSUME "retry" \notin Env
  PROVE  NovaSpec => []DrainsBounded
<1>1. Sound /\ NovaTypeOK /\ Quiet /\ PileRoom /\ [NovaNext]_all => Quiet' /\ PileRoom'
  BY RoomNext
<1>2. PileRoom => DrainsBounded
  <2> SUFFICES ASSUME PileRoom, NEW tenant \in Tenants
               PROVE  Cardinality(ActiveDrains(tenant)) <= Cardinality(Ticks)
    BY DEF DrainsBounded
  <2>1. Cardinality(ActiveDrains(tenant)) + Cardinality(Scanners(tenant)) <= Cardinality(Ticks)
    BY DEF PileRoom
  <2> QED BY <2>1, PileCounted
<1> QED BY <1>1, <1>2, RoomInit, SoundInNova, PTL DEF NovaSpec
=============================================================================
