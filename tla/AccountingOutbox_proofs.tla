----------------------- MODULE AccountingOutbox_proofs -----------------------
(***************************************************************************)
(* Proofs about AccountingOutbox, for any documents, requests and drain    *)
(* passes and whatever fails: type correctness, one pass per claimed job,  *)
(* no call of the provider that is not counted as an attempt, and delivery *)
(* as EventDelivery promises it.                                           *)
(***************************************************************************)
EXTENDS AccountingOutbox, TLAPS

LEMMA Constants ==
  /\ MaxAttempts \in Nat /\ MaxAttempts > 0
  /\ NoJob \in JobRow /\ NoEmission \in EmissionState /\ IdleWorker \in WorkerState
  BY AccountingAssumption
  DEF NoJob, JobRow, NoEmission, EmissionState, IdleWorker, WorkerState

\* What ClaimBatch does with the rows it locked.
ClaimedAs(w, batch) ==
  /\ batch # {}
  /\ job' = [d \in Docs |->
       IF d \in batch
       THEN [job[d] EXCEPT !.status = "running", !.attempts = @ + 1] ELSE job[d]]
  /\ worker' = [worker EXCEPT ![w] = [step |-> "take", batch |-> batch, current |-> {}]]

LEMMA TypeInit == Init => TypeOK
  BY Constants DEF Init, TypeOK, DocRow, IdleWorker

\* The types are preserved by every step.
LEMMA TypeNext == TypeOK /\ [Next]_vars => TypeOK'
<1> SUFFICES ASSUME TypeOK, [Next]_vars PROVE TypeOK'
  OBVIOUS
<1> USE DEF TypeOK
<1>1. ASSUME NEW d \in Docs, SetApproval(d) PROVE TypeOK'
  <2>1. [doc[d] EXCEPT !.approved = ~@] \in DocRow
    BY DEF DocRow
  <2> QED
    BY <1>1, <2>1 DEF SetApproval
<1>2. ASSUME NEW d \in Docs, Correct(d) PROVE TypeOK'
  <2>1. [doc[d] EXCEPT !.revision = @ + 1] \in DocRow
    BY DEF DocRow
  <2> QED
    BY <1>2, <2>1 DEF Correct
<1>3. ASSUME NEW d \in Docs, JobFallsDue(d) PROVE TypeOK'
  BY <1>3 DEF JobFallsDue, JobRow
<1>4. ASSUME NEW q \in Requests, NEW d \in Docs, BuildDocument(q, d) PROVE TypeOK'
  <2>1. doc[d].revision \in Nat
    BY DEF DocRow
  <2>2. [NoEmission EXCEPT !.envelope = {[doc |-> d, revision |-> doc[d].revision]}]
          \in EmissionState
    <3> DEFINE E == {[doc |-> d, revision |-> doc[d].revision]}
    <3>1. E \in SUBSET [doc : Docs, revision : Nat]
      BY <2>1
    <3> HIDE DEF E
    <3>2. [NoEmission EXCEPT !.envelope = E] \in EmissionState
      BY <3>1, Constants DEF EmissionState
    <3> QED
      BY <3>2 DEF E
  <2> QED
    BY <1>4, <2>2 DEF BuildDocument
<1>5. ASSUME NEW q \in Requests, RefuseEmission(q) PROVE TypeOK'
  BY <1>5, Constants DEF RefuseEmission
<1>6. ASSUME NEW q \in Requests, Enqueue(q) PROVE TypeOK'
  <2>1. PICK e \in emission[q].envelope :
          /\ job' = [job EXCEPT ![e.doc] = [NoJob EXCEPT
                       !.status = "pending", !.due = TRUE, !.revision = e.revision]]
          /\ emission' = [emission EXCEPT ![q] = NoEmission]
    BY <1>6 DEF Enqueue
  <2>2. e.revision \in Nat
    BY DEF EmissionState
  <2>3. [NoJob EXCEPT !.status = "pending", !.due = TRUE, !.revision = e.revision] \in JobRow
    BY <2>2 DEF NoJob, JobRow
  <2> QED
    BY <1>6, <2>1, <2>3, Constants DEF Enqueue
<1>7. ASSUME NEW q \in Requests, EnqueueNothing(q) PROVE TypeOK'
  BY <1>7 DEF EnqueueNothing, NoEmission, EmissionState
<1>8. ASSUME NEW w \in Workers, ClaimBatch(w) PROVE TypeOK'
  <2>1. PICK batch \in SUBSET {d \in Docs : Claimable(d)} : ClaimedAs(w, batch)
    BY <1>8 DEF ClaimBatch, ClaimedAs
  <2>2. ASSUME NEW d \in Docs
        PROVE  [job[d] EXCEPT !.status = "running", !.attempts = @ + 1] \in JobRow
    <3>1. job[d] \in JobRow /\ job[d].attempts + 1 \in Nat
      BY DEF JobRow
    <3> QED
      BY <3>1 DEF JobRow
  <2>3. job' \in [Docs -> JobRow]
    BY <2>1, <2>2 DEF ClaimedAs
  <2>4. [step |-> "take", batch |-> batch, current |-> {}] \in WorkerState
    BY DEF WorkerState
  <2> QED
    BY <1>8, <2>1, <2>3, <2>4 DEF ClaimBatch, ClaimedAs
<1>9. ASSUME NEW w \in Workers, TakeJob(w) PROVE TypeOK'
  <2>1. PICK d \in worker[w].batch, step \in {"rejected", "failed", "send"} :
          worker' = [worker EXCEPT ![w] =
            [step |-> step, batch |-> worker[w].batch \ {d}, current |-> {d}]]
    BY <1>9 DEF TakeJob
  <2>2. [step |-> step, batch |-> worker[w].batch \ {d}, current |-> {d}] \in WorkerState
    BY DEF WorkerState
  <2> QED
    BY <1>9, <2>1, <2>2 DEF TakeJob
<1>10. ASSUME NEW w \in Workers, Send(w) PROVE TypeOK'
  BY <1>10 DEF Send, WorkerState
<1>11. ASSUME NEW w \in Workers, Complete(w) PROVE TypeOK'
  <2>1. job' \in [Docs -> JobRow]
    <3>1. PICK d \in worker[w].current :
            job' = [job EXCEPT ![d].status = "completed", ![d].verdict = worker[w].step]
      BY <1>11 DEF Complete
    <3>2. d \in Docs /\ worker[w].step \in {"accepted", "rejected"}
      BY <1>11 DEF Complete, WorkerState
    <3>3. \A r \in JobRow, v \in {"accepted", "rejected"} :
            [r EXCEPT !.status = "completed", !.verdict = v] \in JobRow
      <4> HIDE DEF TypeOK
      <4> QED BY DEF JobRow
    <3> QED BY <3>1, <3>2, <3>3
  <2>2. worker' \in [Workers -> WorkerState]
        /\ \A v \in Workers :
             worker'[v].current # {} <=> worker'[v].step \notin {"idle", "take"}
    BY <1>11 DEF Complete, MoveOn, WorkerState
  <2> QED BY <1>11, <2>1, <2>2 DEF Complete
<1>12. ASSUME NEW w \in Workers, Fail(w) PROVE TypeOK'
  BY <1>12 DEF Fail, MoveOn, JobRow, WorkerState
<1>13. ASSUME NEW w \in Workers, RecordingFails(w) PROVE TypeOK'
  BY <1>13 DEF RecordingFails, MoveOn, WorkerState
<1>14. ASSUME NEW w \in Workers, PassEnds(w) \/ Crash(w) PROVE TypeOK'
  <2>1. worker' = [worker EXCEPT ![w] = IdleWorker]
    BY <1>14 DEF PassEnds, Crash
  <2>2. UNCHANGED <<doc, job, emission, received, sends>>
    BY <1>14 DEF PassEnds, Crash
  <2> QED
    BY <2>1, <2>2, Constants DEF IdleWorker
<1>15. CASE UNCHANGED vars
  BY <1>15 DEF vars
<1> QED
  BY <1>1, <1>2, <1>4, <1>5, <1>6, <1>7, <1>8, <1>9, <1>10, <1>11, <1>12, <1>13,
     <1>14, <1>15, <1>3
  DEF Next, Denver, Emission, DrainPass, Pass

\* Every reachable state is well typed.
THEOREM Typing == Spec => []TypeOK
  BY TypeInit, TypeNext, PTL DEF Spec

-----------------------------------------------------------------------------
(* One pass per claimed job *)

\* OnePassPerJob is inductive once a pass has nothing both in hand and to come:
\* else a job in hand, when settled, would be settled and still in the batch.
Apart == \A w \in Workers : worker[w].batch \cap worker[w].current = {}

Exclusive == OnePassPerJob /\ Apart

\* A step that hands no job to anyone, and leaves every job still held running.
LEMMA NothingGained ==
  ASSUME OnePassPerJob,
         \A w \in Workers, d \in Docs : Has(w, d)' => Has(w, d),
         \A w \in Workers, d \in Docs : Has(w, d)' => job'[d].status = job[d].status
  PROVE  OnePassPerJob'
  BY Zenon DEF OnePassPerJob

\* Settling the job in hand: the pass lets go of it and nobody else has it.
LEMMA Settled ==
  ASSUME TypeOK, Exclusive, NEW w \in Workers, NEW d \in worker[w].current,
         \A x \in Docs : x # d => job'[x] = job[x],
         MoveOn(w)
  PROVE  Exclusive'
<1>1. worker' = [worker EXCEPT ![w].step = "take", ![w].current = {}]
  BY DEF MoveOn
<1>2. \A v \in Workers, x \in Docs : Has(v, x)' => Has(v, x)
  BY <1>1 DEF Has, TypeOK, WorkerState
<1>3. d \in Docs /\ Has(w, d)
  BY DEF TypeOK, WorkerState, Has
<1>4. \A v \in Workers : ~Has(v, d)'
  <2> SUFFICES ASSUME NEW v \in Workers, Has(v, d)' PROVE FALSE
    OBVIOUS
  <2>1. v = w
    BY <1>2, <1>3 DEF Exclusive, OnePassPerJob
  <2>2. d \notin worker[w].batch
    BY DEF Exclusive, Apart
  <2> QED
    BY <1>1, <2>1, <2>2 DEF Has, TypeOK, WorkerState
<1>5. OnePassPerJob'
  BY <1>2, <1>4, NothingGained DEF Exclusive
<1>6. Apart'
  BY <1>1 DEF Exclusive, Apart, TypeOK, WorkerState
<1> QED
  BY <1>5, <1>6 DEF Exclusive

LEMMA ExclusiveNext == TypeOK /\ Exclusive /\ [Next]_vars => Exclusive'
<1> SUFFICES ASSUME TypeOK, Exclusive, [Next]_vars PROVE Exclusive'
  OBVIOUS
<1>1. ASSUME UNCHANGED worker, \A d \in Docs : job[d].status = "running" => job'[d] = job[d]
      PROVE  Exclusive'
  BY <1>1 DEF Exclusive, OnePassPerJob, Apart, Has
<1>2. ASSUME NEW d \in Docs, SetApproval(d) \/ Correct(d) PROVE Exclusive'
  BY <1>1, <1>2 DEF SetApproval, Correct
<1>3. ASSUME NEW d \in Docs, JobFallsDue(d) PROVE Exclusive'
  <2>1. \A x \in Docs : job[x].status = "running" => job'[x] = job[x]
    BY <1>3 DEF JobFallsDue, TypeOK
  <2> QED
    BY <1>1, <1>3, <2>1 DEF JobFallsDue
<1>4. ASSUME NEW q \in Requests, NEW d \in Docs, BuildDocument(q, d) PROVE Exclusive'
  BY <1>1, <1>4 DEF BuildDocument
<1>5. ASSUME NEW q \in Requests, RefuseEmission(q) \/ EnqueueNothing(q) PROVE Exclusive'
  BY <1>1, <1>5 DEF RefuseEmission, EnqueueNothing
<1>6. ASSUME NEW q \in Requests, Enqueue(q) PROVE Exclusive'
  <2>1. \A x \in Docs : job[x].status = "running" => job'[x] = job[x]
    BY <1>6 DEF Enqueue, TypeOK
  <2> QED
    BY <1>1, <1>6, <2>1 DEF Enqueue
<1>7. ASSUME NEW w \in Workers, ClaimBatch(w) PROVE Exclusive'
  <2>1. PICK batch \in SUBSET {d \in Docs : Claimable(d)} : ClaimedAs(w, batch)
    BY <1>7 DEF ClaimBatch, ClaimedAs
  <2>2. worker'[w].batch = batch /\ worker'[w].current = {}
    BY <2>1 DEF ClaimedAs, TypeOK
  <2>3. \A v \in Workers : v # w => worker'[v] = worker[v]
    BY <2>1 DEF ClaimedAs, TypeOK
  <2>4. \A v \in Workers, d \in batch : ~Has(v, d)
    BY DEF Exclusive, OnePassPerJob, Claimable
  <2>5. \A d \in Docs : job'[d].status = IF d \in batch THEN "running" ELSE job[d].status
    BY <2>1 DEF ClaimedAs, TypeOK, JobRow
  <2>6. OnePassPerJob'
    BY <2>2, <2>3, <2>4, <2>5 DEF Exclusive, OnePassPerJob, Has
  <2>7. Apart'
    BY <2>2, <2>3 DEF Exclusive, Apart
  <2> QED
    BY <2>6, <2>7 DEF Exclusive
<1>8. ASSUME NEW w \in Workers, TakeJob(w) PROVE Exclusive'
  <2>1. PICK d \in worker[w].batch, step \in {"rejected", "failed", "send"} :
          worker' = [worker EXCEPT ![w] =
            [step |-> step, batch |-> worker[w].batch \ {d}, current |-> {d}]]
    BY <1>8 DEF TakeJob
  <2>2. worker'[w].batch = worker[w].batch \ {d} /\ worker'[w].current = {d}
    BY <2>1 DEF TypeOK
  <2>3. \A v \in Workers : v # w => worker'[v] = worker[v]
    BY <2>1 DEF TypeOK
  <2>4. \A v \in Workers, x \in Docs : Has(v, x)' => Has(v, x)
    BY <2>2, <2>3 DEF Has
  <2>5. OnePassPerJob'
    BY <1>8, <2>4, NothingGained DEF Exclusive, TakeJob
  <2>6. Apart'
    BY <2>2, <2>3 DEF Exclusive, Apart
  <2> QED
    BY <2>5, <2>6 DEF Exclusive
<1>9. ASSUME NEW w \in Workers, Send(w) PROVE Exclusive'
  <2>1. \A v \in Workers : worker'[v].batch = worker[v].batch
                          /\ worker'[v].current = worker[v].current
    BY <1>9 DEF Send, TypeOK, WorkerState
  <2> QED
    BY <1>9, <2>1 DEF Send, Exclusive, OnePassPerJob, Apart, Has
<1>10. ASSUME NEW w \in Workers, Complete(w) PROVE Exclusive'
  <2>1. PICK d \in worker[w].current :
          job' = [job EXCEPT ![d].status = "completed", ![d].verdict = worker[w].step]
    BY <1>10 DEF Complete
  <2>2. \A x \in Docs : x # d => job'[x] = job[x]
    BY <2>1 DEF TypeOK
  <2> QED
    BY <1>10, <2>2, Settled DEF Complete
<1>11. ASSUME NEW w \in Workers, Fail(w) PROVE Exclusive'
  <2>1. PICK d \in worker[w].current :
          job' = [job EXCEPT
            ![d].status = IF job[d].attempts >= MaxAttempts THEN "dead_letter" ELSE "pending",
            ![d].due    = FALSE]
    BY <1>11 DEF Fail
  <2>2. \A x \in Docs : x # d => job'[x] = job[x]
    BY <2>1 DEF TypeOK
  <2> QED
    BY <1>11, <2>2, Settled DEF Fail
<1>12. ASSUME NEW w \in Workers, RecordingFails(w) PROVE Exclusive'
  <2>1. worker[w].current # {}
    BY <1>12 DEF RecordingFails, TypeOK
  <2>2. PICK d \in worker[w].current : TRUE
    BY <2>1
  <2> QED
    BY <1>12, <2>2, Settled DEF RecordingFails
<1>13. ASSUME NEW w \in Workers, PassEnds(w) \/ Crash(w) PROVE Exclusive'
  <2>1. worker' = [worker EXCEPT ![w] = IdleWorker]
    BY <1>13 DEF PassEnds, Crash
  <2>2. UNCHANGED job
    BY <1>13 DEF PassEnds, Crash
  <2>3. \A v \in Workers, x \in Docs : Has(v, x)' => Has(v, x)
    BY <2>1 DEF Has, IdleWorker, TypeOK
  <2>4. OnePassPerJob'
    BY <2>2, <2>3, NothingGained DEF Exclusive
  <2>5. Apart'
    BY <2>1 DEF Exclusive, Apart, IdleWorker, TypeOK
  <2> QED
    BY <2>4, <2>5 DEF Exclusive
<1>14. CASE UNCHANGED vars
  BY <1>1, <1>14 DEF vars
<1> QED
  BY <1>2, <1>3, <1>4, <1>5, <1>6, <1>7, <1>8, <1>9, <1>10, <1>11, <1>12, <1>13, <1>14
  DEF Next, Denver, Emission, DrainPass, Pass

LEMMA ExclusiveInit == Init => Exclusive
  BY DEF Init, Exclusive, OnePassPerJob, Apart, Has, IdleWorker

\* A claimed job stays running and in the hands of one pass, so settling it by id
\* alone settles what that pass did.
THEOREM OnePass == Spec => []OnePassPerJob
<1>1. Spec => []Exclusive
  BY Typing, ExclusiveInit, ExclusiveNext, PTL DEF Spec
<1>2. Exclusive => OnePassPerJob
  BY DEF Exclusive
<1> QED
  BY <1>1, <1>2, PTL

-----------------------------------------------------------------------------
(* No call of the provider that is not counted *)

\* The call for d is still to come in the pass of w.
Unsent(w, d) == d \in worker[w].batch \/ (worker[w].step = "send" /\ d \in worker[w].current)

\* SendsCounted is inductive with this: a pass that is still to call the provider
\* has an attempt counted and not yet used, and a row not yet inserted has none.
Counted ==
  /\ SendsCounted
  /\ \A d \in Docs : job[d].status = "absent" => job[d].attempts = 0
  /\ \A w \in Workers, d \in Docs : Unsent(w, d) => sends[d] < job[d].attempts

LEMMA CountedInit == Init => Counted
  BY Constants DEF Init, Counted, SendsCounted, Unsent, NoJob, IdleWorker

\* A step that counts and calls nothing.
LEMMA CountsKept ==
  ASSUME TypeOK, Counted, UNCHANGED sends,
         \A d \in Docs : job'[d].attempts = job[d].attempts,
         \A d \in Docs : job'[d].status = "absent" => job[d].status = "absent",
         \A w \in Workers, d \in Docs : Unsent(w, d)' => Unsent(w, d)
  PROVE  Counted'
  <1>1. SendsCounted'
    BY DEF Counted, SendsCounted
  <1>2. \A w \in Workers, d \in Docs : Unsent(w, d)' => sends'[d] < job'[d].attempts
    <2> HIDE DEF Unsent
    <2> QED
      BY DEF Counted
  <1> QED
    BY <1>1, <1>2 DEF Counted

\* Settling: only the status, verdict and due time of the job in hand change.
LEMMA SettledCounts ==
  ASSUME TypeOK, Counted, NEW w \in Workers, MoveOn(w), UNCHANGED sends,
         \A d \in Docs : job'[d].attempts = job[d].attempts,
         \A d \in Docs : job'[d].status = "absent" => job[d].status = "absent"
  PROVE  Counted'
<1>1. worker' = [worker EXCEPT ![w].step = "take", ![w].current = {}]
  BY DEF MoveOn
<1>2. \A v \in Workers, d \in Docs : Unsent(v, d)' => Unsent(v, d)
  BY <1>1 DEF Unsent, TypeOK, WorkerState
<1> QED
  BY <1>2, CountsKept

LEMMA CountedNext == TypeOK /\ Exclusive /\ Counted /\ [Next]_vars => Counted'
<1> SUFFICES ASSUME TypeOK, Exclusive, Counted, [Next]_vars PROVE Counted'
  OBVIOUS
<1>1. ASSUME UNCHANGED <<worker, sends>>,
             \A d \in Docs : job'[d].attempts = job[d].attempts,
             \A d \in Docs : job'[d].status = "absent" => job[d].status = "absent"
      PROVE  Counted'
  <2>1. \A v \in Workers, d \in Docs : Unsent(v, d)' => Unsent(v, d)
    BY <1>1 DEF Unsent
  <2> QED
    BY <1>1, <2>1, CountsKept
<1>2. ASSUME NEW d \in Docs, SetApproval(d) \/ Correct(d) PROVE Counted'
  BY <1>1, <1>2 DEF SetApproval, Correct
<1>3. ASSUME NEW d \in Docs, JobFallsDue(d) PROVE Counted'
  <2>1. \A x \in Docs : job'[x].attempts = job[x].attempts /\ job'[x].status = job[x].status
    BY <1>3 DEF JobFallsDue, TypeOK, JobRow
  <2> QED
    BY <1>1, <1>3, <2>1 DEF JobFallsDue
<1>4. ASSUME NEW q \in Requests, NEW d \in Docs, BuildDocument(q, d) PROVE Counted'
  BY <1>1, <1>4 DEF BuildDocument
<1>5. ASSUME NEW q \in Requests, RefuseEmission(q) \/ EnqueueNothing(q) PROVE Counted'
  BY <1>1, <1>5 DEF RefuseEmission, EnqueueNothing
<1>6. ASSUME NEW q \in Requests, Enqueue(q) PROVE Counted'
  <2>1. PICK e \in emission[q].envelope :
          /\ job[e.doc].status = "absent"
          /\ job' = [job EXCEPT ![e.doc] = [NoJob EXCEPT
                       !.status = "pending", !.due = TRUE, !.revision = e.revision]]
    BY <1>6 DEF Enqueue
  <2>2. e.doc \in Docs
    BY DEF TypeOK, EmissionState
  <2>3. job'[e.doc].attempts = 0 /\ job'[e.doc].status = "pending"
    BY <2>1, <2>2 DEF TypeOK, NoJob
  <2>4. \A x \in Docs : x # e.doc => job'[x] = job[x]
    BY <2>1 DEF TypeOK
  <2>5. job[e.doc].attempts = 0
    BY <2>1, <2>2 DEF Counted
  <2>6. \A x \in Docs : job'[x].attempts = job[x].attempts
    BY <2>3, <2>4, <2>5
  <2>7. \A x \in Docs : job'[x].status = "absent" => job[x].status = "absent"
    BY <2>1, <2>4
  <2> QED
    BY <1>1, <1>6, <2>6, <2>7 DEF Enqueue
<1>7. ASSUME NEW w \in Workers, ClaimBatch(w) PROVE Counted'
  <2>1. PICK batch \in SUBSET {d \in Docs : Claimable(d)} : ClaimedAs(w, batch)
    BY <1>7 DEF ClaimBatch, ClaimedAs
  <2>2. UNCHANGED sends
    BY <1>7 DEF ClaimBatch
  <2>3. ASSUME NEW d \in batch
        PROVE  /\ job'[d].status = "running" /\ job'[d].attempts = job[d].attempts + 1
               /\ job[d].attempts < MaxAttempts
               /\ job[d].attempts \in Nat
    BY <2>1 DEF ClaimedAs, TypeOK, JobRow, Claimable
  <2>4. \A d \in Docs \ batch : job'[d] = job[d]
    BY <2>1 DEF ClaimedAs
  <2>5. \A d \in Docs : sends[d] \in Nat /\ job[d].attempts \in Nat
    BY DEF TypeOK, JobRow
  <2>6. SendsCounted'
    BY <2>2, <2>3, <2>4, <2>5, Constants DEF Counted, SendsCounted
  <2>7. \A d \in Docs : job'[d].status = "absent" => job'[d].attempts = 0
    BY <2>3, <2>4 DEF Counted
  <2>8. ASSUME NEW v \in Workers, NEW d \in Docs, Unsent(v, d)'
        PROVE  sends'[d] < job'[d].attempts
    <3>1. CASE d \in batch
      BY <2>2, <2>3, <2>5, <3>1 DEF Counted, SendsCounted
    <3>2. CASE d \notin batch
      <4>1. Unsent(v, d)
        BY <2>1, <2>8, <3>2 DEF ClaimedAs, Unsent, TypeOK
      <4> QED
        BY <2>2, <2>4, <3>2, <4>1 DEF Counted
    <3> QED
      BY <3>1, <3>2
  <2> QED
    BY <2>6, <2>7, <2>8 DEF Counted
<1>8. ASSUME NEW w \in Workers, TakeJob(w) PROVE Counted'
  <2>1. PICK d \in worker[w].batch, step \in {"rejected", "failed", "send"} :
          worker' = [worker EXCEPT ![w] =
            [step |-> step, batch |-> worker[w].batch \ {d}, current |-> {d}]]
    BY <1>8 DEF TakeJob
  <2>2. \A v \in Workers, x \in Docs : Unsent(v, x)' => Unsent(v, x)
    BY <2>1 DEF Unsent, TypeOK
  <2> QED
    BY <1>8, <2>2, CountsKept DEF TakeJob
<1>9. ASSUME NEW w \in Workers, Send(w) PROVE Counted'
  <2>1. PICK d \in worker[w].current, step \in {"accepted", "rejected", "failed"} :
          /\ worker' = [worker EXCEPT ![w].step = step]
          /\ sends' = [sends EXCEPT ![d] = @ + 1]
    BY <1>9 DEF Send
  <2>2. d \in Docs /\ Unsent(w, d) /\ Has(w, d)
    BY <1>9, <2>1 DEF Send, TypeOK, WorkerState, Unsent, Has
  <2>3. \A x \in Docs : sends[x] \in Nat /\ job[x].attempts \in Nat
    BY DEF TypeOK, JobRow
  <2>4. sends'[d] = sends[d] + 1 /\ \A x \in Docs : x # d => sends'[x] = sends[x]
    BY <2>1, <2>2 DEF TypeOK
  <2>5. UNCHANGED job
    BY <1>9 DEF Send
  <2>6. SendsCounted'
    BY <2>2, <2>3, <2>4, <2>5 DEF Counted, SendsCounted
  <2>7. \A v \in Workers, x \in Docs : Unsent(v, x)' => Unsent(v, x) /\ x # d
    <3> SUFFICES ASSUME NEW v \in Workers, NEW x \in Docs, Unsent(v, x)'
                 PROVE  Unsent(v, x) /\ x # d
      OBVIOUS
    <3>1. CASE v = w
      <4>1. x \in worker[w].batch
        BY <2>1, <3>1 DEF Unsent, TypeOK, WorkerState
      <4> QED
        BY <2>1, <3>1, <4>1 DEF Exclusive, Apart, Unsent
    <3>2. CASE v # w
      <4>1. Unsent(v, x)
        BY <2>1, <3>2 DEF Unsent, TypeOK, WorkerState
      <4>2. Has(v, x)
        BY <4>1 DEF Unsent, Has
      <4> QED
        BY <2>2, <3>2, <4>1, <4>2 DEF Exclusive, OnePassPerJob
    <3> QED
      BY <3>1, <3>2
  <2>8. \A v \in Workers, x \in Docs : Unsent(v, x)' => sends'[x] < job'[x].attempts
    <3> HIDE DEF Unsent
    <3> QED
      BY <2>4, <2>5, <2>7 DEF Counted
  <2> QED
    BY <2>5, <2>6, <2>8 DEF Counted
<1>10. ASSUME NEW w \in Workers, Complete(w) PROVE Counted'
  <2>1. \A x \in Docs : job'[x].attempts = job[x].attempts
    BY <1>10 DEF Complete, TypeOK, JobRow
  <2>2. \A x \in Docs : job'[x].status = "absent" => job[x].status = "absent"
    BY <1>10 DEF Complete, TypeOK, JobRow
  <2> QED
    BY <1>10, <2>1, <2>2, SettledCounts DEF Complete
<1>11. ASSUME NEW w \in Workers, Fail(w) PROVE Counted'
  <2>1. \A x \in Docs : job'[x].attempts = job[x].attempts
    BY <1>11 DEF Fail, TypeOK, JobRow
  <2>2. \A x \in Docs : job'[x].status = "absent" => job[x].status = "absent"
    BY <1>11 DEF Fail, TypeOK, JobRow
  <2> QED
    BY <1>11, <2>1, <2>2, SettledCounts DEF Fail
<1>12. ASSUME NEW w \in Workers, RecordingFails(w) PROVE Counted'
  BY <1>12, SettledCounts DEF RecordingFails
<1>13. ASSUME NEW w \in Workers, PassEnds(w) \/ Crash(w) PROVE Counted'
  <2>1. worker' = [worker EXCEPT ![w] = IdleWorker]
    BY <1>13 DEF PassEnds, Crash
  <2>2. UNCHANGED <<job, sends>>
    BY <1>13 DEF PassEnds, Crash
  <2>3. \A v \in Workers, x \in Docs : Unsent(v, x)' => Unsent(v, x)
    BY <2>1 DEF Unsent, IdleWorker, TypeOK
  <2> QED
    BY <2>2, <2>3, CountsKept
<1>14. CASE UNCHANGED vars
  BY <1>1, <1>14 DEF vars
<1> QED
  BY <1>2, <1>3, <1>4, <1>5, <1>6, <1>7, <1>8, <1>9, <1>10, <1>11, <1>12, <1>13, <1>14
  DEF Next, Denver, Emission, DrainPass, Pass

\* The provider is called at most once per counted attempt and the attempts are at
\* most max_attempts, whatever dies or fails in between.
THEOREM SendsAreCounted == Spec => []SendsCounted
<1>1. Spec => [](TypeOK /\ Exclusive /\ Counted)
  BY TypeInit, TypeNext, ExclusiveInit, ExclusiveNext, CountedInit, CountedNext, PTL DEF Spec
<1>2. Counted => SendsCounted
  BY DEF Counted
<1> QED
  BY <1>1, <1>2, PTL

-----------------------------------------------------------------------------
(* The boundary implements EventDelivery *)

\* What the refinement needs beyond OnePassPerJob: a pass has one job in hand,
\* knows of an acceptance only when there was one, and a claim has counted.
Informed ==
  /\ \A w \in Workers : \A c, d \in worker[w].current : c = d
  /\ \A w \in Workers : worker[w].step = "accepted" => worker[w].current \subseteq received
  /\ \A d \in Docs : job[d].status = "running" => job[d].attempts > 0
  /\ \A d \in Docs : job[d].status = "absent" => job[d].attempts = 0

LEMMA InformedInit == Init => Informed
  BY DEF Init, Informed, IdleWorker, NoJob

\* What one pass does to itself, the others as before.
LEMMA InformedWorker ==
  ASSUME Informed, NEW w \in Workers, received \subseteq received',
         \A v \in Workers \ {w} : worker'[v] = worker[v],
         \A c, d \in worker'[w].current : c = d,
         worker'[w].step = "accepted" => worker'[w].current \subseteq received',
         \A d \in Docs : job'[d].status = "running" => job'[d].attempts > 0,
         \A d \in Docs : job'[d].status = "absent" => job'[d].attempts = 0
  PROVE  Informed'
<1>1. \A v \in Workers : \A c, d \in worker'[v].current : c = d
  BY DEF Informed
<1>2. \A v \in Workers : worker'[v].step = "accepted" => worker'[v].current \subseteq received'
  BY DEF Informed
<1> QED BY <1>1, <1>2, Zenon DEF Informed

LEMMA InformedNext == TypeOK /\ Informed /\ [Next]_vars => Informed'
<1> SUFFICES ASSUME TypeOK, Informed, [Next]_vars PROVE Informed'
  OBVIOUS
<1>1. ASSUME UNCHANGED <<worker, received>>,
             \A d \in Docs : /\ job'[d].attempts = job[d].attempts
                            /\ \/ job'[d].status = job[d].status
                               \/ job'[d].status \notin {"running", "absent"}
      PROVE  Informed'
  BY <1>1 DEF Informed
<1>2. ASSUME NEW d \in Docs, SetApproval(d) \/ Correct(d) PROVE Informed'
  BY <1>1, <1>2 DEF SetApproval, Correct
<1>3. ASSUME NEW d \in Docs, JobFallsDue(d) PROVE Informed'
  <2>1. \A x \in Docs : /\ job'[x].attempts = job[x].attempts
                        /\ job'[x].status = job[x].status
    BY <1>3 DEF JobFallsDue, TypeOK, JobRow
  <2> QED BY <1>1, <1>3, <2>1 DEF JobFallsDue
<1>4. ASSUME NEW q \in Requests,
             (\E d \in Docs : BuildDocument(q, d)) \/ RefuseEmission(q) \/ EnqueueNothing(q)
      PROVE  Informed'
  BY <1>1, <1>4 DEF BuildDocument, RefuseEmission, EnqueueNothing
<1>5. ASSUME NEW q \in Requests, Enqueue(q) PROVE Informed'
  <2>1. PICK e \in emission[q].envelope :
          /\ job[e.doc].status = "absent"
          /\ job' = [job EXCEPT ![e.doc] =
               [NoJob EXCEPT !.status = "pending", !.due = TRUE, !.revision = e.revision]]
    BY <1>5 DEF Enqueue
  <2>2. e.doc \in Docs /\ job[e.doc].attempts = 0
    BY <2>1 DEF TypeOK, EmissionState, Informed
  <2>3. job'[e.doc].status = "pending" /\ job'[e.doc].attempts = 0
    BY <2>1, <2>2 DEF TypeOK, NoJob
  <2>4. \A x \in Docs : x # e.doc => job'[x] = job[x]
    BY <2>1 DEF TypeOK
  <2> QED BY <1>1, <1>5, <2>2, <2>3, <2>4 DEF Enqueue
<1>6. ASSUME NEW w \in Workers, ClaimBatch(w) PROVE Informed'
  <2>1. PICK batch \in SUBSET Docs : ClaimedAs(w, batch)
    BY <1>6 DEF ClaimBatch, ClaimedAs
  <2>2. /\ worker'[w].step = "take" /\ worker'[w].current = {}
        /\ \A v \in Workers \ {w} : worker'[v] = worker[v]
    BY <2>1 DEF ClaimedAs, TypeOK
  <2>3. ASSUME NEW d \in Docs
        PROVE  /\ job'[d].status = "running" => job'[d].attempts > 0
               /\ job'[d].status = "absent" => job'[d].attempts = 0
    <3>1. CASE d \in batch
      <4>1. job'[d] = [job[d] EXCEPT !.status = "running", !.attempts = @ + 1]
        BY <2>1, <3>1 DEF ClaimedAs
      <4>2. job[d] \in JobRow
        BY DEF TypeOK
      <4> QED BY <4>1, <4>2 DEF JobRow
    <3>2. CASE d \notin batch
      BY <2>1, <3>2 DEF ClaimedAs, Informed
    <3> QED BY <3>1, <3>2
  <2> QED BY <1>6, <2>2, <2>3, InformedWorker DEF ClaimBatch
<1>7. ASSUME NEW w \in Workers, TakeJob(w) PROVE Informed'
  <2>1. PICK d \in worker[w].batch, step \in {"rejected", "failed", "send"} :
          worker' = [worker EXCEPT ![w] =
            [step |-> step, batch |-> worker[w].batch \ {d}, current |-> {d}]]
    BY <1>7 DEF TakeJob
  <2>2. /\ worker'[w].step # "accepted" /\ worker'[w].current = {d}
        /\ \A v \in Workers \ {w} : worker'[v] = worker[v]
    BY <2>1 DEF TypeOK
  <2> QED BY <1>7, <2>2, InformedWorker DEF TakeJob, Informed
<1>8. ASSUME NEW w \in Workers, Send(w) PROVE Informed'
  <2>1. PICK d \in worker[w].current, step \in {"accepted", "rejected", "failed"} :
          /\ worker' = [worker EXCEPT ![w].step = step]
          /\ received \subseteq received'
          /\ step = "accepted" => d \in received'
    BY <1>8 DEF Send
  <2>2. /\ worker'[w].step = step /\ worker'[w].current = worker[w].current
        /\ \A v \in Workers \ {w} : worker'[v] = worker[v]
    BY <2>1 DEF TypeOK, WorkerState
  <2>3. worker[w].current = {d}
    BY <2>1 DEF Informed
  <2> QED BY <1>8, <2>1, <2>2, <2>3, InformedWorker DEF Send, Informed
<1>9. ASSUME NEW w \in Workers, MoveOn(w) \/ worker' = [worker EXCEPT ![w] = IdleWorker],
             UNCHANGED received,
             \A d \in Docs : /\ job'[d].attempts = job[d].attempts
                            /\ \/ job'[d].status = job[d].status
                               \/ job'[d].status \notin {"running", "absent"}
      PROVE  Informed'
  <2>1. /\ worker'[w].step # "accepted" /\ worker'[w].current = {}
        /\ \A v \in Workers \ {w} : worker'[v] = worker[v]
    BY <1>9 DEF MoveOn, IdleWorker, TypeOK, WorkerState
  <2> QED BY <1>9, <2>1, InformedWorker DEF Informed
<1>10. ASSUME NEW w \in Workers, Complete(w) \/ Fail(w) PROVE Informed'
  <2>1. PICK d \in worker[w].current :
          \/ job' = [job EXCEPT ![d].status = "completed", ![d].verdict = worker[w].step]
          \/ job' = [job EXCEPT
               ![d].status = IF job[d].attempts >= MaxAttempts THEN "dead_letter" ELSE "pending",
               ![d].due    = FALSE]
    BY <1>10 DEF Complete, Fail
  <2>2. \A x \in Docs : /\ job'[x].attempts = job[x].attempts
                        /\ \/ job'[x].status = job[x].status
                           \/ job'[x].status \notin {"running", "absent"}
    BY <2>1 DEF TypeOK, JobRow
  <2> QED BY <1>9, <1>10, <2>2 DEF Complete, Fail
<1>11. ASSUME NEW w \in Workers, RecordingFails(w) \/ PassEnds(w) \/ Crash(w) PROVE Informed'
  BY <1>9, <1>11 DEF RecordingFails, PassEnds, Crash
<1>12. CASE UNCHANGED vars
  BY <1>1, <1>12 DEF vars
<1> QED
  BY <1>2, <1>3, <1>4, <1>5, <1>6, <1>7, <1>8, <1>10, <1>11, <1>12
  DEF Next, Denver, Emission, DrainPass, Pass

\* What EventDelivery sees of a job.
TriesOf(row) ==
  IF row.status = "pending" \/ row.status = "dead_letter"
  THEN row.attempts
  ELSE IF row.attempts = 0 THEN 0 ELSE row.attempts - 1

StateOf(row) ==
  CASE row.status = "absent" -> "unborn"
    [] row.status \in {"pending", "running"} -> "pending"
    [] row.status = "dead_letter" -> "dead"
    [] row.status = "completed" /\ row.verdict = "accepted" -> "delivered"
    [] OTHER -> "refused"

Tries == [d \in Docs |-> TriesOf(job[d])]
State == [d \in Docs |-> StateOf(job[d])]

\* Both, status by status.
LEMMA Looks ==
  ASSUME NEW row
  PROVE  /\ row.status = "absent" => StateOf(row) = "unborn"
         /\ row.status \in {"pending", "running"} => StateOf(row) = "pending"
         /\ row.status = "dead_letter" => StateOf(row) = "dead"
         /\ row.status = "completed" /\ row.verdict = "accepted"
              => StateOf(row) = "delivered"
         /\ row.status = "completed" /\ row.verdict = "rejected"
              => StateOf(row) = "refused"
<1>1. row.status = "absent" => StateOf(row) = "unborn"
  BY DEF StateOf
<1>2. row.status \in {"pending", "running"} => StateOf(row) = "pending"
  BY DEF StateOf
<1>3. row.status = "dead_letter" => StateOf(row) = "dead"
  BY DEF StateOf
<1>4. row.status = "completed" /\ row.verdict = "accepted" => StateOf(row) = "delivered"
  BY DEF StateOf
<1>5. row.status = "completed" /\ row.verdict = "rejected" => StateOf(row) = "refused"
  BY DEF StateOf
<1> QED BY <1>1, <1>2, <1>3, <1>4, <1>5

LEMMA OneJobLooksNew ==
  ASSUME NEW d \in Docs, \A x \in Docs : x # d => job'[x] = job[x]
  PROVE  /\ Tries' = [Tries EXCEPT ![d] = Tries'[d]]
         /\ State' = [State EXCEPT ![d] = State'[d]]
  BY DEF Tries, State

LEMMA StepDelivers ==
  ASSUME TypeOK, OnePassPerJob, Informed, [Next]_vars
  PROVE  [Delivery!Next]_(Delivery!event)
<1>1. ASSUME Tries' = Tries, State' = State, received' = received
      PROVE  UNCHANGED Delivery!event
  BY <1>1 DEF Delivery!event, Tries, State, TriesOf, StateOf
<1>2. ASSUME UNCHANGED <<job, received>> PROVE UNCHANGED Delivery!event
  BY <1>1, <1>2 DEF Tries, State
<1>3. ASSUME NEW d \in Docs, SetApproval(d) \/ Correct(d) PROVE UNCHANGED Delivery!event
  BY <1>2, <1>3 DEF SetApproval, Correct
<1>4. ASSUME NEW d \in Docs, JobFallsDue(d) PROVE UNCHANGED Delivery!event
  <2>1. \A x \in Docs : /\ job'[x].attempts = job[x].attempts
                        /\ job'[x].status = job[x].status
                        /\ job'[x].verdict = job[x].verdict
    BY <1>4 DEF JobFallsDue, TypeOK, JobRow
  <2>2. \A x \in Docs : TriesOf(job'[x]) = TriesOf(job[x]) /\ StateOf(job'[x]) = StateOf(job[x])
    BY <2>1 DEF TriesOf, StateOf
  <2> QED BY <1>1, <1>4, <2>2 DEF Tries, State, JobFallsDue
<1>5. ASSUME NEW q \in Requests,
             (\E d \in Docs : BuildDocument(q, d)) \/ RefuseEmission(q) \/ EnqueueNothing(q)
      PROVE  UNCHANGED Delivery!event
  BY <1>2, <1>5 DEF BuildDocument, RefuseEmission, EnqueueNothing
<1>6. ASSUME NEW w \in Workers,
             TakeJob(w) \/ RecordingFails(w) \/ PassEnds(w) \/ Crash(w)
      PROVE  UNCHANGED Delivery!event
  BY <1>2, <1>6 DEF TakeJob, RecordingFails, PassEnds, Crash
<1>7. ASSUME NEW q \in Requests, Enqueue(q) PROVE Delivery!Next
  <2>1. PICK e \in emission[q].envelope :
          /\ job[e.doc].status = "absent"
          /\ job' = [job EXCEPT ![e.doc] =
               [NoJob EXCEPT !.status = "pending", !.due = TRUE, !.revision = e.revision]]
    BY <1>7 DEF Enqueue
  <2> DEFINE d == e.doc
  <2>2. d \in Docs /\ job[d].attempts = 0
    BY <2>1 DEF TypeOK, EmissionState, Informed
  <2>3. job'[d].status = "pending" /\ job'[d].attempts = 0
    BY <2>1, <2>2 DEF TypeOK, NoJob
  <2>4. \A x \in Docs : x # d => job'[x] = job[x]
    BY <2>1 DEF TypeOK
  <2>5. job[d].status = "absent"
    BY <2>1
  <2> HIDE DEF d
  <2>6. State[d] = "unborn" /\ State'[d] = "pending" /\ Tries'[d] = Tries[d]
    BY <2>2, <2>3, <2>5, Looks DEF State, Tries, TriesOf
  <2>7. State' = [State EXCEPT ![d] = "pending"] /\ Tries' = Tries
    BY <2>2, <2>4, <2>6, OneJobLooksNew DEF Tries
  <2>8. Delivery!Publish(d)
    BY <1>7, <2>6, <2>7 DEF Delivery!Publish, State, Tries, StateOf, TriesOf, Enqueue
  <2> QED BY <2>2, <2>8 DEF Delivery!Next
<1>8. ASSUME NEW w \in Workers, ClaimBatch(w) PROVE UNCHANGED Delivery!event
  <2>1. PICK batch \in SUBSET {d \in Docs : Claimable(d)} : ClaimedAs(w, batch)
    BY <1>8 DEF ClaimBatch, ClaimedAs
  <2>2. ASSUME NEW d \in Docs PROVE Tries'[d] = Tries[d] /\ State'[d] = State[d]
    <3>1. CASE d \in batch
      <4>1. job'[d] = [job[d] EXCEPT !.status = "running", !.attempts = @ + 1]
        BY <2>1, <3>1 DEF ClaimedAs
      <4>2. job[d] \in JobRow /\ job[d].status = "pending"
        BY <2>1, <3>1 DEF TypeOK, Claimable
      <4>3. /\ job'[d].status = "running" /\ job'[d].attempts = job[d].attempts + 1
            /\ job[d].attempts \in Nat
        BY <4>1, <4>2 DEF JobRow
      <4>4. StateOf(job'[d]) = "pending" /\ StateOf(job[d]) = "pending"
        BY <4>2, <4>3, Looks
      <4>5. TriesOf(job'[d]) = TriesOf(job[d])
        BY <4>2, <4>3 DEF TriesOf
      <4> QED BY <4>4, <4>5 DEF Tries, State
    <3>2. CASE d \notin batch
      BY <2>1, <3>2 DEF ClaimedAs, Tries, State
    <3> QED BY <3>1, <3>2
  <2>3. Tries' = Tries /\ State' = State
    BY <2>2 DEF Tries, State
  <2> QED BY <1>1, <1>8, <2>3 DEF ClaimBatch
<1>9. ASSUME NEW w \in Workers, Send(w) PROVE Delivery!Next \/ UNCHANGED Delivery!event
  <2>1. PICK d \in worker[w].current : received' \in {received, received \cup {d}}
    BY <1>9 DEF Send
  <2>2. d \in Docs /\ Has(w, d)
    BY <2>1 DEF TypeOK, WorkerState, Has
  <2>3. State[d] = "pending"
    BY <2>2, Looks DEF OnePassPerJob, State
  <2>4. State' = State /\ Tries' = Tries
    BY <1>9 DEF Send, State, Tries
  <2>5. CASE received' = received \cup {d}
    <3>1. Delivery!Receive(d)
      BY <2>3, <2>4, <2>5 DEF Delivery!Receive, State, Tries, StateOf, TriesOf
    <3> QED BY <2>2, <3>1 DEF Delivery!Next
  <2> QED BY <1>1, <2>1, <2>4, <2>5
<1>10. ASSUME NEW w \in Workers, Complete(w) PROVE Delivery!Next
  <2>1. PICK d \in worker[w].current :
          job' = [job EXCEPT ![d].status = "completed", ![d].verdict = worker[w].step]
    BY <1>10 DEF Complete
  <2>2. d \in Docs /\ Has(w, d)
    BY <2>1 DEF TypeOK, WorkerState, Has
  <2>3. job[d].status = "running" /\ worker[w].step \in {"accepted", "rejected"}
    BY <1>10, <2>2 DEF OnePassPerJob, Complete
  <2>4. /\ \A x \in Docs : x # d => job'[x] = job[x]
        /\ job'[d].status = "completed" /\ job'[d].verdict = worker[w].step
        /\ job'[d].attempts = job[d].attempts
    BY <2>1, <2>2 DEF TypeOK, JobRow
  <2>5. /\ State[d] = "pending" /\ Tries'[d] = Tries[d]
        /\ State'[d] = IF worker[w].step = "accepted" THEN "delivered" ELSE "refused"
    BY <2>2, <2>3, <2>4, Looks DEF State, Tries, TriesOf
  <2>6. /\ State' = [State EXCEPT ![d] = State'[d]]
        /\ Tries' = Tries
    BY <2>2, <2>4, <2>5, OneJobLooksNew DEF Tries
  <2>7. CASE worker[w].step = "accepted"
    <3>1. d \in received
      BY <2>1, <2>7 DEF Informed
    <3>2. State' = [State EXCEPT ![d] = "delivered"]
      BY <2>5, <2>6, <2>7
    <3>3. Delivery!Confirm(d)
      BY <1>10, <2>5, <2>6, <3>1, <3>2 DEF Delivery!Confirm, State, Tries, StateOf, TriesOf, Complete
    <3> QED BY <2>2, <3>3 DEF Delivery!Next
  <2>8. CASE worker[w].step = "rejected"
    <3>1. State' = [State EXCEPT ![d] = "refused"]
      BY <2>5, <2>6, <2>8
    <3>2. Delivery!Refuse(d)
      BY <1>10, <2>5, <2>6, <3>1 DEF Delivery!Refuse, State, Tries, StateOf, TriesOf, Complete
    <3> QED BY <2>2, <3>2 DEF Delivery!Next
  <2> QED BY <2>3, <2>7, <2>8
<1>11. ASSUME NEW w \in Workers, Fail(w) PROVE Delivery!Next
  <2>1. PICK d \in worker[w].current :
          job' = [job EXCEPT
            ![d].status = IF job[d].attempts >= MaxAttempts THEN "dead_letter" ELSE "pending",
            ![d].due    = FALSE]
    BY <1>11 DEF Fail
  <2>2. d \in Docs /\ Has(w, d)
    BY <2>1 DEF TypeOK, WorkerState, Has
  <2>3. job[d].status = "running" /\ job[d].attempts > 0 /\ job[d].attempts \in Nat
    BY <2>2 DEF OnePassPerJob, Informed, TypeOK, JobRow
  <2>4. /\ \A x \in Docs : x # d => job'[x] = job[x]
        /\ job'[d].status = IF job[d].attempts >= MaxAttempts THEN "dead_letter" ELSE "pending"
        /\ job'[d].attempts = job[d].attempts
    BY <2>1, <2>2 DEF TypeOK, JobRow
  <2>5. /\ State[d] = "pending" /\ Tries[d] = job[d].attempts - 1
        /\ State'[d] = IF job[d].attempts >= MaxAttempts THEN "dead" ELSE State[d]
        /\ Tries'[d] = job[d].attempts
    BY <2>2, <2>3, <2>4, Looks DEF State, Tries, TriesOf
  <2>6. /\ State' = [State EXCEPT ![d] = IF Tries[d] + 1 >= MaxAttempts THEN "dead" ELSE @]
        /\ Tries' = [Tries EXCEPT ![d] = @ + 1]
    <3>1. /\ State' = [State EXCEPT ![d] = State'[d]]
          /\ Tries' = [Tries EXCEPT ![d] = Tries'[d]]
      BY <2>2, <2>4, OneJobLooksNew
    <3>2. Tries[d] + 1 = job[d].attempts
      BY <2>3, <2>5
    <3>3. job[d].attempts = Tries[d] + 1
      BY <3>2
    <3> QED BY <2>5, <3>1, <3>2, <3>3
  <2>7. Delivery!Miss(d)
    BY <1>11, <2>5, <2>6 DEF Delivery!Miss, State, Tries, StateOf, TriesOf, Fail
  <2> QED BY <2>2, <2>7 DEF Delivery!Next
<1>12. CASE UNCHANGED vars
  BY <1>2, <1>12 DEF vars
<1> QED
  BY <1>3, <1>4, <1>5, <1>6, <1>7, <1>8, <1>9, <1>10, <1>11, <1>12
  DEF Next, Denver, Emission, DrainPass, Pass

\* What is on record about a document can be relied on, for any number of
\* documents, requests and passes, and whatever dies or fails: an acceptance is the
\* provider's, an outcome is final, a dead letter took MaxAttempts failures.
THEOREM DeliversAtLeastOnce == Spec => ImplementsDelivery
<1>1. Init => Delivery!Init
  BY DEF Init, Delivery!Init, NoJob
<1>2. Spec => [](TypeOK /\ Exclusive /\ Informed)
  BY TypeInit, TypeNext, ExclusiveInit, ExclusiveNext, InformedInit, InformedNext, PTL DEF Spec
<1>3. TypeOK /\ Exclusive /\ Informed /\ [Next]_vars => [Delivery!Next]_(Delivery!event)
  BY StepDelivers DEF Exclusive
<1> QED
  BY <1>1, <1>2, <1>3, PTL DEF Spec, ImplementsDelivery, Delivery!Spec
=============================================================================
