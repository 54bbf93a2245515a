---------------------------- MODULE NovaCommands ----------------------------
(***************************************************************************)
(* POST /api/nova/commands (api/routes/novaCommands.ts): Nova asks for a   *)
(* project.  One transaction claims the idempotency key by inserting the   *)
(* ledger row, checks for duplicates, inserts the project and its link,    *)
(* stores the response in the ledger and emits the created event.          *)
(*                                                                         *)
(* Every statement another transaction can wait for or race with is one    *)
(* action; an insert under a unique index waits for an open transaction    *)
(* that has inserted the same value.  What a transaction has written is    *)
(* nobody else's to see before it commits.  Meanwhile people create and    *)
(* delete projects (api/routes/projects.ts); with a project goes its link, *)
(* while the ledger row stays.                                             *)
(***************************************************************************)
EXTENDS Integers, FiniteSets

CONSTANTS
  Requests,  \* requests in flight at a time
  Keys,      \* idempotency keys Nova uses
  Bodies,    \* request bodies: [digest, number, nova]
  NoBody,    \* no ledger row
  ByHand,    \* in place of a key: a person created the project
  MaxAnswers, \* bound: different answers, after which no more requests come in
  MaxByPeople \* bound: projects people create, and as many that they delete

ASSUME NoBodyAssumption == NoBody \notin Bodies /\ ByHand \notin Keys
ASSUME CommandsBound == MaxAnswers \in Nat /\ MaxByPeople \in Nat

VARIABLES
  ledger,    \* nova_inbound_commands: the body each key was used with
  projects,  \* projects and their nova_project_links, by the key that made them
  deleted,   \* history: projects that were deleted
  request,   \* requests in flight
  answers    \* history: every answer given to Nova

commandVars == <<ledger, projects, deleted, request, answers>>

-----------------------------------------------------------------------------
\* Of the body of a project made by hand only the number counts.
Project == [key : Keys \cup {ByHand}, body : Bodies]

\* The transaction is open, its ledger row inserted, from "number" on; the
\* project is inserted from "link row" on, the link at "commit".
TxSteps == {"number", "link", "project", "link row", "commit"}
NoRequest == [step |-> "idle"]
BusyRequest == [step : {"claim"} \cup TxSteps, key : Keys, body : Bodies]

\* created, replay: 201 and 200; idempotency_conflict, conflict: the two 409s.
AnswerKinds == {"created", "replay", "idempotency_conflict", "conflict"}
Answer == [kind : AnswerKinds, key : Keys, body : Bodies]

CommandsInit ==
  /\ ledger = [k \in Keys |-> NoBody]
  /\ projects = {}
  /\ deleted = {}
  /\ request = [r \in Requests |-> NoRequest]
  /\ answers = {}

Goto(r, step) == request' = [request EXCEPT ![r].step = step]
Over(r)       == request' = [request EXCEPT ![r] = NoRequest]

\* The end of a request: its transaction is over, and Nova has an answer.
Respond(r, kind) ==
  /\ Over(r)
  /\ answers' = answers \cup {[kind |-> kind, key |-> request[r].key, body |-> request[r].body]}

\* What an open transaction has inserted under a unique index.
HasKey(r, k)    == request[r].step \in TxSteps /\ request[r].key = k
HasNumber(r, n) == request[r].step \in {"link row", "commit"} /\ request[r].body.number = n
HasNova(r, n)   == request[r].step = "commit" /\ request[r].body.nova = n

NumberTaken(b) == \E p \in projects : p.body.number = b.number
NovaTaken(b)   == \E p \in projects : p.key # ByHand /\ p.body.nova = b.nova

-----------------------------------------------------------------------------
\* A request, first or repeated, has been verified and its body validated.
Receive(r) ==
  /\ request[r] = NoRequest
  /\ Cardinality(answers) < MaxAnswers
  /\ \E k \in Keys, b \in Bodies :
       request' = [request EXCEPT ![r] = [step |-> "claim", key |-> k, body |-> b]]
  /\ UNCHANGED <<ledger, projects, deleted, answers>>

\* INSERT ... ON CONFLICT DO NOTHING inserts.
ClaimKey(r) ==
  /\ request[r].step = "claim"
  /\ \A q \in Requests \ {r} : ~HasKey(q, request[r].key)
  /\ ledger[request[r].key] = NoBody
  /\ Goto(r, "number")
  /\ UNCHANGED <<ledger, projects, deleted, answers>>

\* It does not: the stored response, if the body is the one it was stored for.
KeyTaken(r) ==
  /\ request[r].step = "claim"
  /\ \A q \in Requests \ {r} : ~HasKey(q, request[r].key)
  /\ ledger[request[r].key] # NoBody
  /\ Respond(r, IF ledger[request[r].key] = request[r].body THEN "replay"
                ELSE "idempotency_conflict")
  /\ UNCHANGED <<ledger, projects, deleted>>

\* The two pre-checks: a duplicate throws and rolls the ledger row back.
CheckNumber(r) ==
  /\ request[r].step = "number"
  /\ IF NumberTaken(request[r].body) THEN Respond(r, "conflict")
     ELSE Goto(r, "link") /\ UNCHANGED answers
  /\ UNCHANGED <<ledger, projects, deleted>>

CheckLink(r) ==
  /\ request[r].step = "link"
  /\ IF NovaTaken(request[r].body) THEN Respond(r, "conflict")
     ELSE Goto(r, "project") /\ UNCHANGED answers
  /\ UNCHANGED <<ledger, projects, deleted>>

\* UNIQUE (tenant_id, code): a race lost is the same conflict (23505).
InsertProject(r) ==
  /\ request[r].step = "project"
  /\ \A q \in Requests \ {r} : ~HasNumber(q, request[r].body.number)
  /\ IF NumberTaken(request[r].body) THEN Respond(r, "conflict")
     ELSE Goto(r, "link row") /\ UNCHANGED answers
  /\ UNCHANGED <<ledger, projects, deleted>>

\* UNIQUE (tenant_id, nova_project_id).
InsertLink(r) ==
  /\ request[r].step = "link row"
  /\ \A q \in Requests \ {r} : ~HasNova(q, request[r].body.nova)
  /\ IF NovaTaken(request[r].body) THEN Respond(r, "conflict")
     ELSE Goto(r, "commit") /\ UNCHANGED answers
  /\ UNCHANGED <<ledger, projects, deleted>>

\* The response is stored, the audit row and the event are inserted, COMMIT.
Committed(r) ==
  /\ request[r].step = "commit"
  /\ ledger' = [ledger EXCEPT ![request[r].key] = request[r].body]
  /\ projects' = projects \cup {[key |-> request[r].key, body |-> request[r].body]}
  /\ UNCHANGED deleted

CommitCommand(r) == Committed(r) /\ Respond(r, "created")

\* COMMIT is done and its answer or the response is lost.
CommitUnanswered(r) == Committed(r) /\ Over(r) /\ UNCHANGED answers

\* Bug: the ledger row was committed on its own and outlives the failure.
FailAfterClaim(r) ==
  /\ request[r] # NoRequest
  /\ ledger' = [ledger EXCEPT ![request[r].key] =
       IF request[r].step \in TxSteps THEN request[r].body ELSE @]
  /\ Over(r)
  /\ UNCHANGED <<projects, deleted, answers>>

\* A statement fails (500) or the process dies: all of it is rolled back.
FailCommand(r) ==
  /\ request[r] # NoRequest
  /\ Over(r)
  /\ UNCHANGED <<ledger, projects, deleted, answers>>

Command(r) ==
  \/ Receive(r) \/ ClaimKey(r) \/ KeyTaken(r) \/ CheckNumber(r) \/ CheckLink(r)
  \/ InsertProject(r) \/ InsertLink(r)
  \/ CommitCommand(r) \/ CommitUnanswered(r) \/ FailCommand(r)

\* POST /api/v1/projects: the INSERT waits for an open one of that number.
CreateByHand(b) ==
  /\ Cardinality({p \in projects \cup deleted : p.key = ByHand}) < MaxByPeople
  /\ \A r \in Requests : ~HasNumber(r, b.number)
  /\ ~NumberTaken(b)
  /\ projects' = projects \cup {[key |-> ByHand, body |-> b]}
  /\ UNCHANGED <<ledger, deleted, request, answers>>

\* DELETE /api/v1/projects/:id, which cascades to the link.
DeleteProject(p) ==
  /\ Cardinality(deleted) < MaxByPeople
  /\ projects' = projects \ {p}
  /\ deleted' = deleted \cup {p}
  /\ UNCHANGED <<ledger, request, answers>>

CommandsNext ==
  \/ \E r \in Requests : Command(r)
  \/ \E b \in Bodies : CreateByHand(b)
  \/ \E p \in projects : DeleteProject(p)

CommandsSpec == CommandsInit /\ [][CommandsNext]_commandVars

-----------------------------------------------------------------------------
(* Correctness *)

CommandsTypeOK ==
  /\ ledger \in [Keys -> Bodies \cup {NoBody}]
  /\ projects \subseteq Project /\ deleted \subseteq Project
  /\ request \in [Requests -> BusyRequest \cup {NoRequest}]
  /\ answers \subseteq Answer

\* Every key that was ever used up has made its project, and no project is there
\* without; what was deleted never comes back under its key.
LedgerIsTrue ==
  /\ {p \in projects \cup deleted : p.key # ByHand}
       = {[key |-> k, body |-> ledger[k]] : k \in {j \in Keys : ledger[j] # NoBody}}
  /\ \A p \in projects \cap deleted : p.key = ByHand

\* No number and no Nova project is used twice at a time.
NoDuplicates ==
  \A p, q \in projects :
    p.body.number = q.body.number
      \/ (ByHand \notin {p.key, q.key} /\ p.body.nova = q.body.nova) => p = q

\* The project takes the number or the Nova project the body asks for.
InTheWay(p, b) == p.body.number = b.number \/ (p.key # ByHand /\ p.body.nova = b.nova)

\* Whatever Nova was ever told is true, and only the deletion of the project it is
\* about ends that, however requests were repeated, raced or lost: who was
\* answered with a project has, or had until then, that one under that key and
\* body, who was told the key is in use for another body can find that body, and
\* who was told of a conflict has, or had, a project in the way.
AnswersAgree ==
  /\ LedgerIsTrue /\ NoDuplicates
  /\ \A a \in answers :
       CASE a.kind \in {"created", "replay"} ->
              [key |-> a.key, body |-> a.body] \in projects \cup deleted
         [] a.kind = "idempotency_conflict" -> ledger[a.key] \notin {NoBody, a.body}
         [] a.kind = "conflict" -> \E p \in projects \cup deleted : InTheWay(p, a.body)
=============================================================================
