-------------------------- MODULE AccountingOutbox --------------------------
(***************************************************************************)
(* The accounting boundary: emitAccountingDocument of                      *)
(* api/services/integration/accounting/accountingEmission.ts puts an       *)
(* approved document into integration_jobs under its idempotency key, and  *)
(* drainAccountingOutbox of accountingOutboxDrainer.ts claims, sends and   *)
(* settles such jobs through api/services/integration/connectorFramework.ts*)
(*                                                                         *)
(* Only approved documents are emitted and the key is made of type, id and *)
(* state, so a document has one key: a job is known by its document.  The  *)
(* revision of a document stands for all the facts the envelope carries    *)
(* (amounts, currency, party mapping) and Denver may correct.              *)
(*                                                                         *)
(* The provider behind an adapter is external.  A drain pass holds a whole *)
(* batch of claimed jobs; connector health counters are left out.          *)
(***************************************************************************)
EXTENDS Integers, FiniteSets

CONSTANTS
  Docs,        \* documents that may be emitted
  Requests,    \* activities handling POST /emit/:type/:id
  Workers,     \* activities running drainAccountingOutbox, each a process
  MaxAttempts, \* max_attempts of integration_jobs (3 by default)
  MaxRevision, \* bound: corrections of a document
  Mishaps      \* what may go wrong: "crash" a worker dies, "db" a statement fails

ASSUME AccountingAssumption ==
  /\ MaxAttempts \in Nat \ {0} /\ MaxRevision \in Nat
  /\ Mishaps \subseteq {"crash", "db"}

VARIABLES
  doc,      \* Denver's own rows: is the document approved, and its revision
  job,      \* integration_jobs, by idempotency key
  emission, \* what each request has read and not yet enqueued
  worker,   \* where each drain pass is and the jobs it has claimed
  received, \* history: documents the provider has accepted
  sends     \* history: calls of adapter.send, by document

vars == <<doc, job, emission, worker, received, sends>>

-----------------------------------------------------------------------------
DocRow == [approved : BOOLEAN, revision : Nat]

JobRow == [status : {"absent", "pending", "running", "completed", "dead_letter"},
           attempts : Nat, due : BOOLEAN, revision : Nat,
           verdict : {"none", "accepted", "rejected"}]

NoJob == [status |-> "absent", attempts |-> 0, due |-> FALSE, revision |-> 0,
          verdict |-> "none"]

\* envelope: what buildAccountingDocument read, until it is enqueued (at most one);
\* already: the last answer was already_emitted.
EmissionState == [envelope : SUBSET [doc : Docs, revision : Nat], already : BOOLEAN]

NoEmission == [envelope |-> {}, already |-> FALSE]

\* step "take": between two jobs of the batch; otherwise current is in hand.
WorkerState == [step : {"idle", "take", "send", "accepted", "rejected", "failed"},
                batch : SUBSET Docs, current : SUBSET Docs]

IdleWorker == [step |-> "idle", batch |-> {}, current |-> {}]

Init ==
  /\ doc = [d \in Docs |-> [approved |-> FALSE, revision |-> 0]]
  /\ job = [d \in Docs |-> NoJob]
  /\ emission = [q \in Requests |-> NoEmission]
  /\ worker = [w \in Workers |-> IdleWorker]
  /\ received = {}
  /\ sends = [d \in Docs |-> 0]

-----------------------------------------------------------------------------
(* Denver's documents *)

\* PATCH /pay-applications/:id and its like: approval, and reversal to draft.
SetApproval(d) ==
  /\ doc' = [doc EXCEPT ![d].approved = ~@]
  /\ UNCHANGED <<job, emission, worker, received, sends>>

\* A person edits lines, declares another currency or maps another customer.
Correct(d) ==
  /\ doc[d].revision < MaxRevision
  /\ doc' = [doc EXCEPT ![d].revision = @ + 1]
  /\ UNCHANGED <<job, emission, worker, received, sends>>

-----------------------------------------------------------------------------
(* emitAccountingDocument *)

\* buildAccountingDocument and the check of its state and currency.
BuildDocument(q, d) ==
  /\ emission[q].envelope = {}
  /\ doc[d].approved
  /\ emission' = [emission EXCEPT ![q] =
       [NoEmission EXCEPT !.envelope = {[doc |-> d, revision |-> doc[d].revision]}]]
  /\ UNCHANGED <<doc, job, worker, received, sends>>

\* No customer mapping, no active connector, or one of those queries throws.
RefuseEmission(q) ==
  /\ emission[q].envelope # {}
  /\ emission' = [emission EXCEPT ![q] = NoEmission]
  /\ UNCHANGED <<doc, job, worker, received, sends>>

\* Bug: ON CONFLICT DO UPDATE, the row starts over whatever it was doing.
EnqueueAnew(q) ==
  /\ \E e \in emission[q].envelope :
       /\ job' = [job EXCEPT ![e.doc] =
                    [NoJob EXCEPT !.status = "pending", !.due = TRUE, !.revision = e.revision]]
       /\ emission' = [emission EXCEPT ![q] = NoEmission]
  /\ UNCHANGED <<doc, worker, received, sends>>

\* enqueueIntegrationJob: INSERT ... ON CONFLICT DO NOTHING.
Enqueue(q) ==
  /\ \E e \in emission[q].envelope :
       /\ job[e.doc].status = "absent"
       /\ job' = [job EXCEPT ![e.doc] =
                    [NoJob EXCEPT !.status = "pending", !.due = TRUE, !.revision = e.revision]]
       /\ emission' = [emission EXCEPT ![q] = NoEmission]
  /\ UNCHANGED <<doc, worker, received, sends>>

\* No row came back: the key exists, or the INSERT threw and the catch clause
\* of enqueueIntegrationJob returned null as well.  The answer is already_emitted.
EnqueueNothing(q) ==
  /\ \E e \in emission[q].envelope : job[e.doc].status # "absent" \/ "db" \in Mishaps
  /\ emission' = [emission EXCEPT ![q] = [NoEmission EXCEPT !.already = TRUE]]
  /\ UNCHANGED <<doc, job, worker, received, sends>>

-----------------------------------------------------------------------------
(* drainAccountingOutbox *)

\* Bug: running jobs are claimed too, as a stale sweep with no age would.
ClaimableOrRunning(d) ==
  /\ job[d].status \in {"pending", "running"} /\ job[d].due
  /\ job[d].attempts < MaxAttempts

Claimable(d) ==
  /\ job[d].status = "pending" /\ job[d].due
  /\ job[d].attempts < MaxAttempts

\* Bug: the UPDATE of the claim does not count the attempt.
ClaimUncounted(w) ==
  /\ worker[w].step = "idle"
  /\ \E batch \in SUBSET {d \in Docs : Claimable(d)} :
       /\ batch # {}
       /\ job' = [d \in Docs |->
            IF d \in batch THEN [job[d] EXCEPT !.status = "running"] ELSE job[d]]
       /\ worker' = [worker EXCEPT ![w] = [step |-> "take", batch |-> batch, current |-> {}]]
  /\ UNCHANGED <<doc, emission, received, sends>>

\* claimAccountingJobs: one transaction.  SKIP LOCKED and LIMIT may leave out any
\* of the claimable rows.
ClaimBatch(w) ==
  /\ worker[w].step = "idle"
  /\ \E batch \in SUBSET {d \in Docs : Claimable(d)} :
       /\ batch # {}
       /\ job' = [d \in Docs |->
            IF d \in batch
            THEN [job[d] EXCEPT !.status = "running", !.attempts = @ + 1] ELSE job[d]]
       /\ worker' = [worker EXCEPT ![w] = [step |-> "take", batch |-> batch, current |-> {}]]
  /\ UNCHANGED <<doc, emission, received, sends>>

\* drainOne up to the call of the adapter: the payload is unreadable or fails
\* preflight ("rejected"), no adapter is deployed ("failed"), or it can be sent.
TakeJob(w) ==
  /\ worker[w].step = "take"
  /\ \E d \in worker[w].batch, step \in {"rejected", "failed", "send"} :
       worker' = [worker EXCEPT ![w] =
         [step |-> step, batch |-> worker[w].batch \ {d}, current |-> {d}]]
  /\ UNCHANGED <<doc, job, emission, received, sends>>

\* adapter.send: a verdict of the provider, or "failed" when it throws or reports
\* a transport failure, whether or not the document arrived.
Send(w) ==
  /\ worker[w].step = "send"
  /\ \E d \in worker[w].current, step \in {"accepted", "rejected", "failed"} :
       /\ worker' = [worker EXCEPT ![w].step = step]
       /\ sends' = [sends EXCEPT ![d] = @ + 1]
       /\ \/ step = "accepted" /\ received' = received \cup {d}
          \/ step = "failed" /\ received' \in {received, received \cup {d}}
          \/ step = "rejected" /\ UNCHANGED received
  /\ UNCHANGED <<doc, job, emission>>

\* Nothing in hand: on to the rest of the batch.
MoveOn(w) == worker' = [worker EXCEPT ![w].step = "take", ![w].current = {}]

\* Bug: a status the table's CHECK does not know.
CompleteAsDone(w) ==
  /\ worker[w].step \in {"accepted", "rejected"}
  /\ \E d \in worker[w].current :
       job' = [job EXCEPT ![d].status = "done", ![d].verdict = worker[w].step]
  /\ MoveOn(w)
  /\ UNCHANGED <<doc, emission, received, sends>>

\* completeIntegrationJob, for either verdict: UPDATE by id alone.
Complete(w) ==
  /\ worker[w].step \in {"accepted", "rejected"}
  /\ \E d \in worker[w].current :
       job' = [job EXCEPT ![d].status = "completed", ![d].verdict = worker[w].step]
  /\ MoveOn(w)
  /\ UNCHANGED <<doc, emission, received, sends>>

\* failIntegrationJob: reads the row's attempts, then back to pending with a
\* backoff, or dead_letter.
Fail(w) ==
  /\ worker[w].step = "failed"
  /\ \E d \in worker[w].current :
       job' = [job EXCEPT
         ![d].status = IF job[d].attempts >= MaxAttempts THEN "dead_letter" ELSE "pending",
         ![d].due    = FALSE]
  /\ MoveOn(w)
  /\ UNCHANGED <<doc, emission, received, sends>>

\* A statement of either throws: the pass moves on and the job stays running,
\* where no claim looks for it.
RecordingFails(w) ==
  /\ "db" \in Mishaps
  /\ worker[w].step \in {"accepted", "rejected", "failed"}
  /\ MoveOn(w)
  /\ UNCHANGED <<doc, job, emission, received, sends>>

PassEnds(w) ==
  /\ worker[w].step = "take" /\ worker[w].batch = {}
  /\ worker' = [worker EXCEPT ![w] = IdleWorker]
  /\ UNCHANGED <<doc, job, emission, received, sends>>

Crash(w) ==
  /\ "crash" \in Mishaps
  /\ worker[w].step # "idle"
  /\ worker' = [worker EXCEPT ![w] = IdleWorker]
  /\ UNCHANGED <<doc, job, emission, received, sends>>

\* next_attempt_at passes.
JobFallsDue(d) ==
  /\ job[d].status = "pending" /\ ~job[d].due
  /\ job' = [job EXCEPT ![d].due = TRUE]
  /\ UNCHANGED <<doc, emission, worker, received, sends>>

-----------------------------------------------------------------------------
Denver == \E d \in Docs : SetApproval(d) \/ Correct(d) \/ JobFallsDue(d)

Emission(q) ==
  \/ \E d \in Docs : BuildDocument(q, d)
  \/ RefuseEmission(q) \/ Enqueue(q) \/ EnqueueNothing(q)

Pass(w) ==
  \/ ClaimBatch(w) \/ TakeJob(w) \/ Send(w) \/ Complete(w) \/ Fail(w)
  \/ RecordingFails(w) \/ PassEnds(w)

DrainPass(w) == Pass(w) \/ Crash(w)

Next ==
  \/ Denver
  \/ \E q \in Requests : Emission(q)
  \/ \E w \in Workers : DrainPass(w)

Spec == Init /\ [][Next]_vars

\* drainAccountingOutbox is there to be called again and again (nothing in the
\* repository calls it yet), and a pass takes its steps; backoffs run out.
FairSpec ==
  /\ Spec
  /\ \A w \in Workers : WF_vars(Pass(w))
  /\ \A d \in Docs : WF_vars(JobFallsDue(d))

-----------------------------------------------------------------------------
(* Correctness *)

\* Every variable keeps its type; a pass has a job in hand exactly while it works on it.
TypeOK ==
  /\ doc \in [Docs -> DocRow]
  /\ job \in [Docs -> JobRow]
  /\ emission \in [Requests -> EmissionState]
  /\ worker \in [Workers -> WorkerState]
  /\ received \in SUBSET Docs
  /\ sends \in [Docs -> Nat]
  /\ \A w \in Workers : worker[w].current # {} <=> worker[w].step \notin {"idle", "take"}

Has(w, d) == d \in worker[w].batch \cup worker[w].current

\* completeIntegrationJob and failIntegrationJob update by id alone; that is right
\* because a claimed job stays running and in one pass's hands, however long the
\* rest of its batch takes.
OnePassPerJob ==
  \A w \in Workers, d \in Docs :
    Has(w, d) => /\ job[d].status = "running"
                 /\ \A v \in Workers : Has(v, d) => v = w

\* "The crossing is durable and exactly-once": a provider is called at most once
\* per counted attempt, so at most max_attempts times, whatever crashes or fails
\* in between.
SendsCounted == \A d \in Docs : sends[d] <= job[d].attempts /\ job[d].attempts <= MaxAttempts

\* The drainer says of a rejection that "a human must fix the fact in Denver and
\* emit again".  The fixed document is still approved, so its key is the same,
\* and ON CONFLICT DO NOTHING turns it away.
CorrectedIsEmitted ==
  [][\A q \in Requests : \A e \in emission[q].envelope :
       job[e.doc].verdict = "rejected" /\ job[e.doc].revision < e.revision
         => ~emission'[q].already]_vars

\* No pass has the job it is running in: the recording failed, or the pass died.
Stranded(d) == job[d].status = "running" /\ \A w \in Workers : ~Has(w, d)

\* The comment of the pass that catches a failed recording, "The job stays
\* 'running' and is reclaimed by the stale sweep rather than being silently
\* lost".  There is no sweep of integration_jobs: both claims take pending rows
\* only, and no other statement turns a running row back.
StrandedIsReclaimed == \A d \in Docs : Stranded(d) ~> ~Stranded(d)

-----------------------------------------------------------------------------
Delivery == INSTANCE EventDelivery
  WITH Events <- Docs, Limit <- MaxAttempts,
       tries <- [d \in Docs |-> IF job[d].status = "pending" \/ job[d].status = "dead_letter"
                                THEN job[d].attempts
                                ELSE IF job[d].attempts = 0 THEN 0 ELSE job[d].attempts - 1],
       state <- [d \in Docs |->
         CASE job[d].status = "absent" -> "unborn"
           [] job[d].status \in {"pending", "running"} -> "pending"
           [] job[d].status = "dead_letter" -> "dead"
           [] job[d].status = "completed" /\ job[d].verdict = "accepted" -> "delivered"
           [] OTHER -> "refused"]

\* What whoever emits a document may rely on in the outcomes on record: an
\* acceptance is the provider's, a rejection or dead letter is final, and a
\* document is dead only after MaxAttempts failures.  That there is an outcome is
\* not promised here, and StrandedIsReclaimed shows that there may be none.
ImplementsDelivery == Delivery!Spec
=============================================================================
