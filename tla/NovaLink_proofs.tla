-------------------------- MODULE NovaLink_proofs --------------------------
(***************************************************************************)
(* Theorems about both ends of a project linked to Nova: NovaCommands, by  *)
(* which Nova creates it, for any keys and bodies and any number of        *)
(* requests in flight, and SnapshotDiff, by which it reports its progress, *)
(* for any values and packages.                                            *)
(***************************************************************************)
EXTENDS NovaCommands, SnapshotDiff, TLAPS

\* An open transaction is the only one to have inserted its key, number and
\* Nova project, and none of them was there before it.
InTx(r)   == request[r].step \in TxSteps
HasRow(r) == request[r].step \in {"link row", "commit"}
HasLink(r) == request[r].step = "commit"

Reserved ==
  /\ \A r \in Requests : InTx(r) =>
       /\ ledger[request[r].key] = NoBody
       /\ \A q \in Requests : InTx(q) /\ request[q].key = request[r].key => q = r
  /\ \A r \in Requests : HasRow(r) =>
       /\ \A p \in projects : p.body.number # request[r].body.number
       /\ \A q \in Requests : HasRow(q) /\ request[q].body.number = request[r].body.number => q = r
  /\ \A r \in Requests : HasLink(r) =>
       /\ \A p \in projects : p.key # ByHand => p.body.nova # request[r].body.nova
       /\ \A q \in Requests : HasLink(q) /\ request[q].body.nova = request[r].body.nova => q = r

\* What was ever committed, whether it is still there or deleted since.
Ever == projects \cup deleted

AnswerHolds(a) ==
  /\ a.kind \in {"created", "replay"} => [key |-> a.key, body |-> a.body] \in Ever
  /\ a.kind = "idempotency_conflict" => ledger[a.key] # NoBody /\ ledger[a.key] # a.body
  /\ a.kind = "conflict" => \E p \in Ever : InTheWay(p, a.body)

CommandsInv ==
  /\ CommandsTypeOK /\ Reserved /\ LedgerIsTrue /\ NoDuplicates
  /\ \A a \in answers : AnswerHolds(a)

LEMMA RequestRow ==
  ASSUME CommandsTypeOK, NEW r \in Requests, request[r] # NoRequest
  PROVE  /\ request[r] \in BusyRequest
         /\ request[r].key \in Keys /\ request[r].body \in Bodies
BY DEF CommandsTypeOK, BusyRequest

LEMMA NoRequestIdle == NoRequest.step = "idle" /\ "idle" \notin TxSteps
BY DEF NoRequest, TxSteps

\* A request that goes on stays the request it is.
LEMMA StepMoves ==
  ASSUME CommandsTypeOK, NEW r \in Requests, request[r] # NoRequest,
         NEW step \in {"claim"} \cup TxSteps, Goto(r, step)
  PROVE  /\ request' \in [Requests -> BusyRequest \cup {NoRequest}]
         /\ request'[r].step = step
         /\ request'[r].key = request[r].key /\ request'[r].body = request[r].body
         /\ \A q \in Requests \ {r} : request'[q] = request[q]
<1> DEFINE moved == [request[r] EXCEPT !.step = step]
<1>1. /\ moved \in BusyRequest /\ moved.step = step
      /\ moved.key = request[r].key /\ moved.body = request[r].body
  BY RequestRow DEF BusyRequest
<1>2. request' = [request EXCEPT ![r] = moved]
  BY DEF Goto, CommandsTypeOK
<1> HIDE DEF moved
<1> QED BY <1>1, <1>2 DEF CommandsTypeOK

LEMMA RequestOver ==
  ASSUME CommandsTypeOK, NEW r \in Requests, Over(r)
  PROVE  /\ request' \in [Requests -> BusyRequest \cup {NoRequest}]
         /\ request'[r].step = "idle"
         /\ \A q \in Requests \ {r} : request'[q] = request[q]
BY DEF Over, CommandsTypeOK, NoRequest

LEMMA CommandsInitially == CommandsInit => CommandsInv
<1> SUFFICES ASSUME CommandsInit PROVE CommandsInv
  OBVIOUS
<1>1. CommandsTypeOK /\ NoDuplicates /\ \A a \in answers : AnswerHolds(a)
  BY DEF CommandsInit, CommandsTypeOK, NoDuplicates
<1>2. \A r \in Requests : ~InTx(r) /\ ~HasRow(r) /\ ~HasLink(r)
  BY DEF CommandsInit, InTx, HasRow, HasLink, NoRequest, TxSteps
<1>3. Reserved
  BY <1>2 DEF Reserved
<1>4. {j \in Keys : ledger[j] # NoBody} = {}
  BY DEF CommandsInit
<1>5. LedgerIsTrue
  BY <1>4 DEF CommandsInit, LedgerIsTrue
<1> QED BY <1>1, <1>3, <1>5 DEF CommandsInv

\* A request that has nothing takes nothing away from the others.
LEMMA OthersKeep ==
  ASSUME CommandsInv, NEW r \in Requests, ~InTx(r)', ~HasRow(r)', ~HasLink(r)',
         \A q \in Requests \ {r} : request'[q] = request[q],
         UNCHANGED <<ledger, projects>>
  PROVE  Reserved'
<1>1. \A q \in Requests : /\ InTx(q)' => InTx(q) /\ request'[q] = request[q]
                          /\ HasRow(q)' => HasRow(q) /\ request'[q] = request[q]
                          /\ HasLink(q)' => HasLink(q) /\ request'[q] = request[q]
  BY DEF InTx, HasRow, HasLink
<1> QED BY <1>1 DEF CommandsInv, Reserved

\* Nothing is committed and the request is over, with or without an answer.
LEMMA OverStep ==
  ASSUME CommandsInv, NEW r \in Requests, Over(r), UNCHANGED <<ledger, projects, deleted>>,
         answers' \subseteq Answer, \A a \in answers' : a \in answers \/ AnswerHolds(a)
  PROVE  CommandsInv'
<1>1. /\ request' \in [Requests -> BusyRequest \cup {NoRequest}]
      /\ request'[r].step = "idle"
      /\ \A q \in Requests \ {r} : request'[q] = request[q]
  BY RequestOver DEF CommandsInv
<1>2. CommandsTypeOK'
  BY <1>1 DEF CommandsInv, CommandsTypeOK
<1>3. Reserved'
  BY <1>1, OthersKeep DEF InTx, HasRow, HasLink, TxSteps
<1>4. (LedgerIsTrue /\ NoDuplicates)'
  BY DEF CommandsInv, LedgerIsTrue, NoDuplicates
<1>5. \A a \in answers' : AnswerHolds(a)'
  BY DEF CommandsInv, AnswerHolds, Ever
<1> QED BY <1>2, <1>3, <1>4, <1>5 DEF CommandsInv

\* Nothing is committed and the request goes on; what it has newly inserted was
\* free.
LEMMA GotoStep ==
  ASSUME CommandsInv, NEW r \in Requests, request[r] # NoRequest,
         NEW step \in {"claim"} \cup TxSteps, Goto(r, step),
         UNCHANGED <<ledger, projects, deleted, answers>>,
         step \in TxSteps =>
           /\ ledger[request[r].key] = NoBody
           /\ \A q \in Requests \ {r} : ~HasKey(q, request[r].key),
         step \in {"link row", "commit"} =>
           /\ ~NumberTaken(request[r].body)
           /\ \A q \in Requests \ {r} : ~HasNumber(q, request[r].body.number),
         step = "commit" =>
           /\ ~NovaTaken(request[r].body)
           /\ \A q \in Requests \ {r} : ~HasNova(q, request[r].body.nova)
  PROVE  CommandsInv'
<1>1. /\ request' \in [Requests -> BusyRequest \cup {NoRequest}]
      /\ request'[r].step = step
      /\ request'[r].key = request[r].key /\ request'[r].body = request[r].body
      /\ \A q \in Requests \ {r} : request'[q] = request[q]
  BY StepMoves DEF CommandsInv
<1>2. CommandsTypeOK'
  BY <1>1 DEF CommandsInv, CommandsTypeOK
<1>3. /\ step \in TxSteps => \A q \in Requests \ {r} : InTx(q) => request[q].key # request[r].key
      /\ step \in {"link row", "commit"} =>
           /\ \A p \in projects : p.body.number # request[r].body.number
           /\ \A q \in Requests \ {r} : HasRow(q) => request[q].body.number # request[r].body.number
      /\ step = "commit" =>
           /\ \A p \in projects : p.key # ByHand => p.body.nova # request[r].body.nova
           /\ \A q \in Requests \ {r} : HasLink(q) => request[q].body.nova # request[r].body.nova
  BY DEF InTx, HasRow, HasLink, HasKey, HasNumber, HasNova, NumberTaken, NovaTaken
<1>4. \A q \in Requests :
        /\ InTx(q)' <=> IF q = r THEN step \in TxSteps ELSE InTx(q)
        /\ HasRow(q)' <=> IF q = r THEN step \in {"link row", "commit"} ELSE HasRow(q)
        /\ HasLink(q)' <=> IF q = r THEN step = "commit" ELSE HasLink(q)
        /\ request'[q].key = request[q].key /\ request'[q].body = request[q].body
  BY <1>1 DEF InTx, HasRow, HasLink
<1>5. /\ step \in TxSteps => ledger[request[r].key] = NoBody
      /\ UNCHANGED <<ledger, projects>>
  OBVIOUS
<1>6. Reserved'
  <2>1. \A q \in Requests : InTx(q)' =>
          /\ ledger[request[q].key] = NoBody
          /\ \A p \in Requests : InTx(p)' /\ request[p].key = request[q].key => p = q
    BY <1>3, <1>4, <1>5 DEF CommandsInv, Reserved
  <2>2. \A q \in Requests : HasRow(q)' =>
          /\ \A p \in projects : p.body.number # request[q].body.number
          /\ \A p \in Requests : HasRow(p)' /\ request[p].body.number = request[q].body.number => p = q
    BY <1>3, <1>4 DEF CommandsInv, Reserved
  <2>3. \A q \in Requests : HasLink(q)' =>
          /\ \A p \in projects : p.key # ByHand => p.body.nova # request[q].body.nova
          /\ \A p \in Requests : HasLink(p)' /\ request[p].body.nova = request[q].body.nova => p = q
    BY <1>3, <1>4 DEF CommandsInv, Reserved
  <2>4. \A q \in Requests : InTx(q)' =>
          /\ ledger'[request'[q].key] = NoBody
          /\ \A p \in Requests : InTx(p)' /\ request'[p].key = request'[q].key => p = q
    BY <1>4, <1>5, <2>1
  <2>5. \A q \in Requests : HasRow(q)' =>
          /\ \A p \in projects' : p.body.number # request'[q].body.number
          /\ \A p \in Requests : HasRow(p)' /\ request'[p].body.number = request'[q].body.number => p = q
    BY <1>4, <1>5, <2>2
  <2>6. \A q \in Requests : HasLink(q)' =>
          /\ \A p \in projects' : p.key # ByHand => p.body.nova # request'[q].body.nova
          /\ \A p \in Requests : HasLink(p)' /\ request'[p].body.nova = request'[q].body.nova => p = q
    BY <1>4, <1>5, <2>3
  <2> QED BY <2>4, <2>5, <2>6 DEF Reserved
<1>7. (LedgerIsTrue /\ NoDuplicates)' /\ \A a \in answers' : AnswerHolds(a)'
  <2>1. (LedgerIsTrue /\ NoDuplicates)'
    BY DEF CommandsInv, LedgerIsTrue, NoDuplicates
  <2> QED BY <2>1 DEF CommandsInv, AnswerHolds, Ever
<1> QED BY <1>2, <1>6, <1>7 DEF CommandsInv

-----------------------------------------------------------------------------
LEMMA ReceiveStep ==
  ASSUME CommandsInv, NEW r \in Requests, Receive(r) PROVE CommandsInv'
<1>1. PICK k \in Keys, b \in Bodies :
        request' = [request EXCEPT ![r] = [step |-> "claim", key |-> k, body |-> b]]
  BY DEF Receive
<1>2. [step |-> "claim", key |-> k, body |-> b] \in BusyRequest
  BY DEF BusyRequest
<1>3. /\ request' \in [Requests -> BusyRequest \cup {NoRequest}]
      /\ request'[r].step = "claim"
      /\ \A q \in Requests \ {r} : request'[q] = request[q]
      /\ UNCHANGED <<ledger, projects, deleted, answers>>
  BY <1>1, <1>2 DEF Receive, CommandsInv, CommandsTypeOK
<1>4. CommandsTypeOK'
  BY <1>3 DEF CommandsInv, CommandsTypeOK
<1>5. Reserved'
  BY <1>3, OthersKeep DEF InTx, HasRow, HasLink, TxSteps
<1>6. (LedgerIsTrue /\ NoDuplicates)' /\ \A a \in answers' : AnswerHolds(a)'
  BY <1>3 DEF CommandsInv, LedgerIsTrue, NoDuplicates, AnswerHolds, Ever
<1> QED BY <1>4, <1>5, <1>6 DEF CommandsInv

\* What Respond adds to the answers.
LEMMA AnswerGiven ==
  ASSUME CommandsInv, NEW r \in Requests, request[r] # NoRequest,
         NEW kind \in AnswerKinds, Respond(r, kind), UNCHANGED <<ledger, projects, deleted>>,
         kind \in {"created", "replay"} =>
           [key |-> request[r].key, body |-> request[r].body] \in Ever,
         kind = "idempotency_conflict" =>
           ledger[request[r].key] # NoBody /\ ledger[request[r].key] # request[r].body,
         kind = "conflict" => \E p \in Ever : InTheWay(p, request[r].body)
  PROVE  CommandsInv'
<1> DEFINE new == [kind |-> kind, key |-> request[r].key, body |-> request[r].body]
<1>1. new \in Answer /\ AnswerHolds(new)
  BY RequestRow DEF Answer, AnswerHolds, CommandsInv
<1>2. Over(r) /\ answers' = answers \cup {new}
  BY DEF Respond
<1> HIDE DEF new
<1>3. answers' \subseteq Answer /\ \A a \in answers' : a \in answers \/ AnswerHolds(a)
  BY <1>1, <1>2 DEF CommandsInv, CommandsTypeOK
<1> QED BY <1>2, <1>3, OverStep

LEMMA CommandClaimStep ==
  ASSUME CommandsInv, NEW r \in Requests, ClaimKey(r) \/ KeyTaken(r) PROVE CommandsInv'
<1>1. request[r] # NoRequest
  BY DEF ClaimKey, KeyTaken, NoRequest
<1>2. CASE ClaimKey(r)
  BY <1>1, <1>2, GotoStep DEF ClaimKey, TxSteps
<1>3. CASE KeyTaken(r)
  <2>1. CASE ledger[request[r].key] = request[r].body
    <3>1. Respond(r, "replay") /\ UNCHANGED <<ledger, projects, deleted>>
      BY <1>3, <2>1 DEF KeyTaken
    <3>2. ledger[request[r].key] # NoBody
      BY <1>3 DEF KeyTaken
    <3>3. [key |-> request[r].key, body |-> request[r].body] \in Ever
      BY <1>1, <2>1, <3>2, RequestRow DEF CommandsInv, LedgerIsTrue, Ever
    <3> QED BY <1>1, <3>1, <3>3, AnswerGiven DEF AnswerKinds
  <2>2. CASE ledger[request[r].key] # request[r].body
    <3>1. Respond(r, "idempotency_conflict") /\ UNCHANGED <<ledger, projects, deleted>>
          /\ ledger[request[r].key] # NoBody
      BY <1>3, <2>2 DEF KeyTaken
    <3> QED BY <1>1, <2>2, <3>1, AnswerGiven DEF AnswerKinds
  <2> QED BY <2>1, <2>2
<1> QED BY <1>2, <1>3

LEMMA CheckStep ==
  ASSUME CommandsInv, NEW r \in Requests,
         CheckNumber(r) \/ CheckLink(r) \/ InsertProject(r) \/ InsertLink(r)
  PROVE  CommandsInv'
<1>1. request[r] # NoRequest /\ request[r].step \in TxSteps
  <2>1. request[r].step \in TxSteps
    BY DEF CheckNumber, CheckLink, InsertProject, InsertLink, TxSteps
  <2> QED BY <2>1, NoRequestIdle
<1>2. /\ ledger[request[r].key] = NoBody
      /\ \A q \in Requests \ {r} : ~HasKey(q, request[r].key)
  BY <1>1 DEF CommandsInv, Reserved, InTx, HasKey
<1>3. UNCHANGED <<ledger, projects, deleted>>
  BY DEF CheckNumber, CheckLink, InsertProject, InsertLink
<1>4. CASE Respond(r, "conflict") /\ (NumberTaken(request[r].body) \/ NovaTaken(request[r].body))
  <2>1. \E p \in Ever : InTheWay(p, request[r].body)
    BY <1>4 DEF NumberTaken, NovaTaken, InTheWay, Ever
  <2> QED BY <1>1, <1>3, <1>4, <2>1, AnswerGiven DEF AnswerKinds
<1>5. CASE \E step \in {"link", "project"} : Goto(r, step) /\ UNCHANGED answers
  BY <1>1, <1>2, <1>3, <1>5, GotoStep DEF TxSteps
<1>6. CASE InsertProject(r) /\ Goto(r, "link row") /\ ~NumberTaken(request[r].body)
           /\ UNCHANGED answers
  <2>1. \A q \in Requests \ {r} : ~HasNumber(q, request[r].body.number)
    BY <1>6 DEF InsertProject
  <2> QED BY <1>1, <1>2, <1>3, <1>6, <2>1, GotoStep DEF TxSteps
<1>7. CASE InsertLink(r) /\ Goto(r, "commit") /\ ~NovaTaken(request[r].body)
           /\ UNCHANGED answers
  <2>1. \A q \in Requests \ {r} : ~HasNova(q, request[r].body.nova)
    BY <1>7 DEF InsertLink
  <2>2. /\ ~NumberTaken(request[r].body)
        /\ \A q \in Requests \ {r} : ~HasNumber(q, request[r].body.number)
    BY <1>7 DEF InsertLink, CommandsInv, Reserved, HasRow, HasNumber, NumberTaken
  <2> QED BY <1>1, <1>2, <1>3, <1>7, <2>1, <2>2, GotoStep DEF TxSteps
<1> QED BY <1>4, <1>5, <1>6, <1>7 DEF CheckNumber, CheckLink, InsertProject, InsertLink

LEMMA CommandCommitStep ==
  ASSUME CommandsInv, NEW r \in Requests, CommitCommand(r) \/ CommitUnanswered(r)
  PROVE  CommandsInv'
<1> DEFINE k == request[r].key
           b == request[r].body
           new == [key |-> k, body |-> b]
<1>1. /\ request[r] # NoRequest /\ request[r].step = "commit" /\ Over(r)
      /\ ledger' = [ledger EXCEPT ![k] = b] /\ projects' = projects \cup {new}
      /\ deleted' = deleted
      /\ \/ answers' = answers
         \/ answers' = answers \cup {[kind |-> "created", key |-> k, body |-> b]}
  BY DEF CommitCommand, CommitUnanswered, Committed, Respond, NoRequest
<1>2. k \in Keys /\ b \in Bodies /\ b # NoBody /\ k # ByHand
  BY <1>1, RequestRow, NoBodyAssumption DEF CommandsInv
<1>3. /\ ledger[k] = NoBody
      /\ \A p \in projects : /\ p.body.number # b.number
                             /\ p.key # ByHand => p.body.nova # b.nova
      /\ \A q \in Requests \ {r} : /\ InTx(q) => request[q].key # k
                                   /\ HasRow(q) => request[q].body.number # b.number
                                   /\ HasLink(q) => request[q].body.nova # b.nova
  <2>1. InTx(r) /\ HasRow(r) /\ HasLink(r)
    BY <1>1 DEF InTx, HasRow, HasLink, TxSteps
  <2> QED BY <2>1 DEF CommandsInv, Reserved
<1>4. /\ request' \in [Requests -> BusyRequest \cup {NoRequest}]
      /\ request'[r].step = "idle"
      /\ \A q \in Requests \ {r} : request'[q] = request[q]
  BY <1>1, RequestOver DEF CommandsInv
<1>5. new \in Project /\ new.key = k /\ new.body = b
  BY <1>2 DEF Project
<1>6. \A j \in Keys : ledger'[j] = IF j = k THEN b ELSE ledger[j]
  BY <1>1, <1>2 DEF CommandsInv, CommandsTypeOK
<1>7. LedgerIsTrue'
  <2>1. {p \in Ever : p.key # ByHand}
          = {[key |-> j, body |-> ledger[j]] : j \in {i \in Keys : ledger[i] # NoBody}}
    BY DEF CommandsInv, LedgerIsTrue, Ever
  <2>2. \A p \in projects' \cup deleted' : p \in Ever \/ p = new
    BY <1>1 DEF Ever
  <2>3. ASSUME NEW p \in projects' \cup deleted', p.key # ByHand
        PROVE  \E j \in Keys : ledger'[j] # NoBody /\ p = [key |-> j, body |-> ledger'[j]]
    <3>1. CASE p \in Ever
      BY <1>3, <1>6, <2>1, <2>3, <3>1
    <3>2. CASE p = new
      BY <1>2, <1>6, <3>2
    <3> QED BY <2>2, <3>1, <3>2
  <2>4. ASSUME NEW j \in Keys, ledger'[j] # NoBody
        PROVE  /\ [key |-> j, body |-> ledger'[j]] \in projects' \cup deleted'
               /\ j # ByHand
    <3>1. CASE j = k
      BY <1>1, <1>2, <1>6, <3>1
    <3>2. CASE j # k
      <4>1. [key |-> j, body |-> ledger'[j]] \in Ever
        BY <1>6, <2>1, <2>4, <3>2
      <4> QED BY <1>1, <4>1, NoBodyAssumption DEF Ever
    <3> QED BY <3>1, <3>2
  <2>5. \A p \in projects' \cap deleted' : p.key = ByHand
    <3> SUFFICES ASSUME NEW p \in projects' \cap deleted', p.key # ByHand PROVE FALSE
      OBVIOUS
    <3>1. p \in deleted /\ p \notin projects
      BY <1>1 DEF CommandsInv, LedgerIsTrue
    <3>2. p = new
      BY <1>1, <3>1
    <3>3. PICK j \in Keys : ledger[j] # NoBody /\ p = [key |-> j, body |-> ledger[j]]
      BY <2>1, <3>1 DEF Ever
    <3> QED BY <1>3, <3>2, <3>3
  <2>6. {p \in projects' \cup deleted' : p.key # ByHand}
          = {[key |-> j, body |-> ledger'[j]] : j \in {i \in Keys : ledger'[i] # NoBody}}
    BY <2>3, <2>4
  <2> QED BY <2>5, <2>6 DEF LedgerIsTrue
<1> HIDE DEF k, b, new
<1>8. NoDuplicates'
  <2>1. \A p \in projects : /\ p.body.number # b.number
                            /\ p.key # ByHand => p.body.nova # b.nova
    BY <1>3
  <2> QED BY <1>1, <1>5, <2>1 DEF CommandsInv, NoDuplicates
<1>9. CommandsTypeOK'
  <2>1. answers' \subseteq Answer
    BY <1>1, <1>2 DEF CommandsInv, CommandsTypeOK, Answer, AnswerKinds
  <2> QED BY <1>1, <1>2, <1>4, <1>5, <2>1 DEF CommandsInv, CommandsTypeOK
<1>10. Reserved'
  <2>1. ~InTx(r)' /\ ~HasRow(r)' /\ ~HasLink(r)'
    BY <1>4 DEF InTx, HasRow, HasLink, TxSteps
  <2>2. \A q \in Requests :
          /\ InTx(q)' => q # r /\ InTx(q) /\ request'[q] = request[q]
          /\ HasRow(q)' => q # r /\ HasRow(q) /\ request'[q] = request[q]
          /\ HasLink(q)' => q # r /\ HasLink(q) /\ request'[q] = request[q]
    BY <1>4, <2>1 DEF InTx, HasRow, HasLink
  <2>3. \A q \in Requests \ {r} : InTx(q) => ledger'[request[q].key] = NoBody
    <3> SUFFICES ASSUME NEW q \in Requests \ {r}, InTx(q) PROVE ledger'[request[q].key] = NoBody
      OBVIOUS
    <3>1. request[q] # NoRequest
      BY NoRequestIdle DEF InTx
    <3>2. request[q].key \in Keys /\ request[q].key # k /\ ledger[request[q].key] = NoBody
      BY <1>3, <3>1, RequestRow DEF CommandsInv, Reserved
    <3> QED BY <1>6, <3>2
  <2>4. \A p \in projects' : p \in projects \/ p.body = b
    BY <1>1, <1>5
  <2>5. \A q \in Requests \ {r} :
          /\ HasRow(q) => \A p \in projects' : p.body.number # request[q].body.number
          /\ HasLink(q) => \A p \in projects' :
                             p.key # ByHand => p.body.nova # request[q].body.nova
    BY <1>3, <2>4 DEF CommandsInv, Reserved
  <2> QED BY <2>2, <2>3, <2>5 DEF CommandsInv, Reserved
<1>11. \A a \in answers' : AnswerHolds(a)'
  <2> SUFFICES ASSUME NEW a \in answers' PROVE AnswerHolds(a)'
    OBVIOUS
  <2>1. CASE a \in answers
    <3>1. a.key \in Keys /\ a.body \in Bodies /\ a.body # NoBody /\ AnswerHolds(a)
      BY <2>1, NoBodyAssumption DEF CommandsInv, CommandsTypeOK, Answer
    <3>2. ledger[a.key] # NoBody => ledger'[a.key] = ledger[a.key]
      BY <1>3, <1>6, <3>1
    <3>3. Ever \subseteq Ever'
      BY <1>1 DEF Ever
    <3> QED BY <3>1, <3>2, <3>3 DEF AnswerHolds, InTheWay
  <2>2. CASE a = [kind |-> "created", key |-> k, body |-> b]
    <3>1. [key |-> a.key, body |-> a.body] = new
      BY <2>2 DEF new
    <3> QED BY <1>1, <2>2, <3>1 DEF AnswerHolds, Ever
  <2> QED BY <1>1, <2>1, <2>2
<1> QED BY <1>7, <1>8, <1>9, <1>10, <1>11 DEF CommandsInv

LEMMA FailStep ==
  ASSUME CommandsInv, NEW r \in Requests, FailCommand(r) PROVE CommandsInv'
BY OverStep DEF FailCommand, CommandsInv, CommandsTypeOK

\* A person may only take a number that no open transaction has inserted.
LEMMA CreateStep ==
  ASSUME CommandsInv, NEW b \in Bodies, CreateByHand(b) PROVE CommandsInv'
<1> DEFINE new == [key |-> ByHand, body |-> b]
<1>1. /\ projects' = projects \cup {new}
      /\ UNCHANGED <<ledger, deleted, request, answers>>
      /\ \A p \in projects : p.body.number # b.number
      /\ \A r \in Requests : HasRow(r) => request[r].body.number # b.number
  BY DEF CreateByHand, NumberTaken, HasNumber, HasRow
<1>2. new \in Project /\ new.key = ByHand /\ new.body = b
  BY DEF Project
<1> HIDE DEF new
<1>3. CommandsTypeOK'
  BY <1>1, <1>2 DEF CommandsInv, CommandsTypeOK
<1>4. Reserved'
  <2>1. \A p \in projects' : p \in projects \/ (p.key = ByHand /\ p.body = b)
    BY <1>1, <1>2
  <2>2. \A r \in Requests : /\ InTx(r)' <=> InTx(r)
                            /\ HasRow(r)' <=> HasRow(r)
                            /\ HasLink(r)' <=> HasLink(r)
    BY <1>1 DEF InTx, HasRow, HasLink
  <2> QED BY <1>1, <2>1, <2>2 DEF CommandsInv, Reserved
<1>5. LedgerIsTrue'
  <2>1. {p \in projects' \cup deleted' : p.key # ByHand}
          = {p \in projects \cup deleted : p.key # ByHand}
    BY <1>1, <1>2
  <2>2. \A p \in projects' \cap deleted' : p.key = ByHand
    BY <1>1, <1>2 DEF CommandsInv, LedgerIsTrue
  <2> QED BY <1>1, <2>1, <2>2 DEF CommandsInv, LedgerIsTrue
<1>6. NoDuplicates'
  BY <1>1, <1>2 DEF CommandsInv, NoDuplicates
<1>7. \A a \in answers' : AnswerHolds(a)'
  BY <1>1 DEF CommandsInv, AnswerHolds, Ever, InTheWay
<1> QED BY <1>3, <1>4, <1>5, <1>6, <1>7 DEF CommandsInv

LEMMA DeleteStep ==
  ASSUME CommandsInv, NEW p \in projects, DeleteProject(p) PROVE CommandsInv'
<1>1. /\ projects' = projects \ {p} /\ deleted' = deleted \cup {p}
      /\ UNCHANGED <<ledger, request, answers>>
  BY DEF DeleteProject
<1>2. CommandsTypeOK'
  BY <1>1 DEF CommandsInv, CommandsTypeOK
<1>3. Reserved'
  <2>1. \A r \in Requests : /\ InTx(r)' <=> InTx(r)
                            /\ HasRow(r)' <=> HasRow(r)
                            /\ HasLink(r)' <=> HasLink(r)
    BY <1>1 DEF InTx, HasRow, HasLink
  <2> QED BY <1>1, <2>1 DEF CommandsInv, Reserved
<1>4. projects' \cup deleted' = projects \cup deleted
  BY <1>1
<1>5. LedgerIsTrue'
  BY <1>1, <1>4 DEF CommandsInv, LedgerIsTrue
<1>6. NoDuplicates'
  BY <1>1 DEF CommandsInv, NoDuplicates
<1>7. \A a \in answers' : AnswerHolds(a)'
  BY <1>1, <1>4 DEF CommandsInv, AnswerHolds, Ever, InTheWay
<1> QED BY <1>2, <1>3, <1>5, <1>6, <1>7 DEF CommandsInv

LEMMA CommandsInvariant == CommandsSpec => []CommandsInv
<1>1. CommandsInv /\ [CommandsNext]_commandVars => CommandsInv'
  <2> SUFFICES ASSUME CommandsInv, [CommandsNext]_commandVars PROVE CommandsInv'
    OBVIOUS
  <2>1. CASE UNCHANGED commandVars
    <3>1. CommandsTypeOK' /\ Reserved'
      BY <2>1 DEF commandVars, CommandsInv, CommandsTypeOK, Reserved, InTx, HasRow, HasLink
    <3>2. (LedgerIsTrue /\ NoDuplicates)'
      BY <2>1 DEF commandVars, CommandsInv, LedgerIsTrue, NoDuplicates
    <3>3. \A a \in answers' : AnswerHolds(a)'
      BY <2>1 DEF commandVars, CommandsInv, AnswerHolds, Ever, InTheWay
    <3> QED BY <3>1, <3>2, <3>3 DEF CommandsInv
  <2>2. CASE CommandsNext
    BY <2>2, ReceiveStep, CommandClaimStep, CheckStep, CommandCommitStep, FailStep,
       CreateStep, DeleteStep
    DEF CommandsNext, Command
  <2> QED BY <2>1, <2>2
<1> QED BY <1>1, CommandsInitially, PTL DEF CommandsSpec

\* Whatever Nova was told by POST /api/nova/commands is true until the project it
\* is about is deleted, however its requests were repeated, raced or lost and
\* whatever people create and delete meanwhile.
THEOREM AnswersStayTrue == CommandsSpec => []AnswersAgree
<1>1. CommandsInv => AnswersAgree
  <2> SUFFICES ASSUME CommandsInv, NEW a \in answers
               PROVE  CASE a.kind \in {"created", "replay"} ->
                             [key |-> a.key, body |-> a.body] \in projects \cup deleted
                        [] a.kind = "idempotency_conflict" -> ledger[a.key] \notin {NoBody, a.body}
                        [] a.kind = "conflict" ->
                             \E p \in projects \cup deleted : InTheWay(p, a.body)
    BY DEF AnswersAgree, CommandsInv
  <2>1. AnswerHolds(a) /\ a.kind \in AnswerKinds
    BY DEF CommandsInv, CommandsTypeOK, Answer
  <2>2. CASE a.kind \in {"created", "replay"}
    BY <2>1, <2>2 DEF AnswerHolds, Ever
  <2>3. CASE a.kind = "idempotency_conflict"
    BY <2>1, <2>3 DEF AnswerHolds
  <2>4. CASE a.kind = "conflict"
    BY <2>1, <2>4 DEF AnswerHolds, Ever
  <2> QED BY <2>1, <2>2, <2>3, <2>4 DEF AnswerKinds
<1> QED BY <1>1, CommandsInvariant, PTL

\* Ledger, projects, requests and answers always have the form the code and
\* the tables give them.
THEOREM CommandsTyping == CommandsSpec => []CommandsTypeOK
BY CommandsInvariant, PTL DEF CommandsInv
-----------------------------------------------------------------------------
(* SnapshotDiff: the diff job tells Nova of changes only                     *)

ReadingSteps == {"row", "counts", "emit", "packages", "emit packages"}

\* What the link row remembers is what the last events said.
Remembered ==
  /\ ~link.linked => \A x \in Subjects : outbox[x] = <<>>
  /\ outbox["progress"] # <<>> => LastSaid("progress") = link.summary
  /\ \A p \in Packages : outbox[p] # <<>> => LastSaid(p) = link.turnover[p]

\* A job that is alone compares with what the link row still says: the packages
\* until its end, the summary until it has emitted one.
UpToDate ==
  \A d \in DiffJobs :
    /\ job[d].step # "none" => link.linked
    /\ job[d].step \in ReadingSteps => job[d].link.turnover = link.turnover
    /\ job[d].step \in {"row", "counts", "emit"} => job[d].link.summary = link.summary

DiffInv == Remembered /\ UpToDate /\ NoRepeats

\* What one more event does to the events about one thing.
LEMMA OneMoreEvent ==
  ASSUME NEW S, NEW said \in Seq(S), NEW value \in S
  PROVE  /\ Append(said, value) \in Seq(S) /\ Append(said, value) # <<>>
         /\ Len(Append(said, value)) = Len(said) + 1
         /\ Append(said, value)[Len(said) + 1] = value
         /\ \A i \in 1..Len(said) : Append(said, value)[i] = said[i]
  OBVIOUS

\* Emitting keeps the events typed.
LEMMA EmitTyped ==
  ASSUME outbox \in [Subjects -> Seq(Said)],
         NEW about \in SUBSET Subjects, NEW says, Emit(about, says),
         \A x \in about : says[x] \in Said
  PROVE  outbox' \in [Subjects -> Seq(Said)]
<1>1. ASSUME NEW x \in about PROVE outbox'[x] \in Seq(Said)
  <2>1. outbox[x] \in Seq(Said) /\ says[x] \in Said /\ outbox'[x] = Append(outbox[x], says[x])
    BY <1>1 DEF Emit
  <2> QED BY <2>1, OneMoreEvent
<1>2. ASSUME NEW x \in Subjects \ about PROVE outbox'[x] \in Seq(Said)
  BY <1>2 DEF Emit
<1>3. outbox' = [x \in Subjects |-> outbox'[x]]
  BY DEF Emit
<1> QED BY <1>1, <1>2, <1>3

\* A thing that is told nothing new keeps what it was told, the others are told
\* something else than the last time.
LEMMA EmitNews ==
  ASSUME outbox \in [Subjects -> Seq(Said)], NoRepeats,
         NEW about \in SUBSET Subjects, NEW says, Emit(about, says),
         \A x \in about : says[x] \in Said,
         \A x \in about : outbox[x] # <<>> => LastSaid(x) # says[x]
  PROVE  /\ \A x \in Subjects \ about : outbox'[x] = outbox[x]
         /\ \A x \in about : outbox'[x] # <<>> /\ LastSaid(x)' = says[x]
         /\ NoRepeats'
<1>1. ASSUME NEW x \in Subjects PROVE outbox[x] \in Seq(Said)
  OBVIOUS
<1>2. ASSUME NEW x \in about PROVE outbox'[x] = Append(outbox[x], says[x])
  BY <1>2 DEF Emit
<1>3. ASSUME NEW x \in Subjects \ about PROVE outbox'[x] = outbox[x]
  BY <1>3 DEF Emit
<1>4. ASSUME NEW x \in about
      PROVE  /\ outbox'[x] # <<>>
             /\ Len(outbox'[x]) = Len(outbox[x]) + 1
             /\ LastSaid(x)' = says[x]
             /\ \A i \in 1..Len(outbox[x]) : outbox'[x][i] = outbox[x][i]
  <2>1. outbox[x] \in Seq(Said) /\ says[x] \in Said
    BY <1>1, <1>4
  <2> DEFINE new == Append(outbox[x], says[x])
  <2>2. /\ new \in Seq(Said) /\ new # <<>>
        /\ Len(new) = Len(outbox[x]) + 1 /\ new[Len(outbox[x]) + 1] = says[x]
        /\ \A i \in 1..Len(outbox[x]) : new[i] = outbox[x][i]
    BY <2>1, OneMoreEvent
  <2>3. outbox'[x] = new
    BY <1>2, <1>4
  <2> HIDE DEF new
  <2> QED BY <2>2, <2>3 DEF LastSaid
<1>5. ASSUME NEW x \in about, NEW i \in 1..(Len(outbox'[x]) - 1)
      PROVE  outbox'[x][i] # outbox'[x][i + 1]
  <2>1. i \in 1..Len(outbox[x]) /\ Len(outbox[x]) \in Nat /\ x \in Subjects
    BY <1>1, <1>4, <1>5
  <2>2. outbox'[x][i] = outbox[x][i]
    BY <1>4, <1>5, <2>1
  <2>3. CASE i = Len(outbox[x])
    <3>1. outbox[x] # <<>> /\ outbox'[x][i] = LastSaid(x)
      BY <1>1, <2>1, <2>2, <2>3 DEF LastSaid
    <3>2. outbox'[x][i + 1] = says[x]
      BY <1>4, <1>5, <2>3 DEF LastSaid
    <3> QED BY <1>5, <3>1, <3>2
  <2>4. CASE i # Len(outbox[x])
    <3>1. i \in 1..(Len(outbox[x]) - 1) /\ i + 1 \in 1..Len(outbox[x])
      BY <2>1, <2>4
    <3>2. outbox'[x][i + 1] = outbox[x][i + 1]
      BY <1>4, <1>5, <3>1
    <3>3. outbox[x][i] # outbox[x][i + 1]
      BY <2>1, <3>1 DEF NoRepeats
    <3> QED BY <2>2, <3>2, <3>3
  <2> QED BY <2>3, <2>4
<1>6. NoRepeats'
  BY <1>3, <1>5 DEF NoRepeats
<1> QED BY <1>3, <1>4, <1>6

LEMMA OneSubject == \A value : [progress |-> value]["progress"] = value
  OBVIOUS

LEMMA NothingRead ==
  /\ NoStates \in States
  /\ NoLink \in LinkRow /\ ~NoLink.linked /\ NoLink.summary = Seed
  /\ NoJob \in JobState /\ NoJob.step = "none"
  BY DEF NoStates, NoLink, NoJob, States, Maybe, LinkRow, Summary, JobState, JobSteps

LEMMA DiffInitially == DiffInit => DiffTypeOK /\ DiffInv
<1> SUFFICES ASSUME DiffInit PROVE DiffTypeOK /\ DiffInv
  OBVIOUS
<1>1. DiffTypeOK
  <2>1. outbox \in [Subjects -> Seq(Said)]
    BY DEF DiffInit
  <2>2. job \in [DiffJobs -> JobState] /\ \A d \in DiffJobs : job[d].step = "none"
    BY NothingRead DEF DiffInit
  <2>3. /\ project \in ProjectState /\ link \in LinkRow
        /\ changes \in 0..MaxChanges /\ failures \in 0..MaxFailures
    BY NothingRead, DiffBounds DEF DiffInit
  <2> QED BY <2>1, <2>2, <2>3 DEF DiffTypeOK
<1>2. \A x \in Subjects : outbox[x] = <<>>
  BY DEF DiffInit
<1>3. Remembered
  BY <1>2 DEF Remembered, Subjects
<1>4. NoRepeats
  BY <1>2 DEF NoRepeats
<1>5. UpToDate
  BY NothingRead DEF DiffInit, UpToDate, ReadingSteps
<1> QED BY <1>1, <1>3, <1>4, <1>5 DEF DiffInv

\* The step of one job.
Moves(d, new) ==
  /\ new \in JobState /\ job'[d] = new
  /\ job' \in [DiffJobs -> JobState]
  /\ \A e \in DiffJobs \ {d} : job'[e] = job[e]

LEMMA Moving ==
  ASSUME job \in [DiffJobs -> JobState], NEW d \in DiffJobs, NEW new \in JobState,
         job' = [job EXCEPT ![d] = new]
  PROVE  Moves(d, new)
  BY DEF Moves

\* What the handler reads becomes part of what it knows.
LEMMA DiffQueued ==
  ASSUME DiffTypeOK, NEW d \in DiffJobs, PromoteDiff(d)
  PROVE  \E new : Moves(d, new) /\ new.step = "queued"
<1> DEFINE new == [job[d] EXCEPT !.step = "queued"]
<1>1. new \in JobState /\ new.step = "queued" /\ Moves(d, new)
  BY Moving DEF PromoteDiff, DiffTypeOK, JobState, JobSteps
<1> HIDE DEF new
<1> QED BY <1>1

LEMMA LinksSelected ==
  ASSUME DiffTypeOK, NEW d \in DiffJobs, SelectLinks(d)
  PROVE  \E new : Moves(d, new) /\ new.step = "row" /\ new.link = link
<1> DEFINE new == [job[d] EXCEPT !.step = "row", !.link = link]
<1>1. job[d] \in JobState /\ link \in LinkRow
  BY DEF DiffTypeOK
<1>2. new \in JobState /\ new.step = "row" /\ new.link = link
  BY <1>1 DEF JobState, JobSteps
<1>3. job' = [job EXCEPT ![d] = new]
  BY DEF SelectLinks, DiffTypeOK
<1> HIDE DEF new
<1> QED BY <1>2, <1>3, Moving DEF DiffTypeOK

LEMMA RowRead ==
  ASSUME DiffTypeOK, NEW d \in DiffJobs, ReadRow(d)
  PROVE  \E new : /\ Moves(d, new) /\ new.step = "counts" /\ new.link = job[d].link
                  /\ new.row \in Values
<1> DEFINE new == [job[d] EXCEPT !.step = "counts", !.row = project.row]
<1>1. job[d] \in JobState /\ project \in ProjectState
  BY DEF DiffTypeOK
<1>2. /\ new.step = "counts" /\ new.link = job[d].link /\ new.row \in Values
  BY <1>1 DEF JobState, Maybe, ProjectState
<1>3. new \in JobState
  BY <1>1 DEF JobState, JobSteps, Maybe, ProjectState
<1>4. job' = [job EXCEPT ![d] = new]
  BY DEF ReadRow, DiffTypeOK
<1> HIDE DEF new
<1> QED BY <1>2, <1>3, <1>4, Moving DEF DiffTypeOK

LEMMA CountsRead ==
  ASSUME DiffTypeOK, NEW d \in DiffJobs, ReadCounts(d)
  PROVE  \E new : /\ Moves(d, new) /\ new.step = "emit" /\ new.link = job[d].link
                  /\ new.row \in Values /\ new.counts \in Values
<1> DEFINE new == [job[d] EXCEPT !.step = "emit", !.counts = project.counts]
<1>1. job[d] \in JobState /\ project \in ProjectState /\ job[d].row \in Values
  BY DEF ReadCounts, DiffTypeOK
<1>2. /\ new.step = "emit" /\ new.link = job[d].link
      /\ new.row = job[d].row /\ new.counts \in Values
  BY <1>1 DEF JobState, Maybe, ProjectState
<1>3. new \in JobState
  BY <1>1 DEF JobState, JobSteps, Maybe, ProjectState
<1>4. job' = [job EXCEPT ![d] = new]
  BY DEF ReadCounts, DiffTypeOK
<1> HIDE DEF new
<1> QED BY <1>1, <1>2, <1>3, <1>4, Moving DEF DiffTypeOK

LEMMA PackagesRead ==
  ASSUME DiffTypeOK, NEW d \in DiffJobs, ReadPackages(d)
  PROVE  \E new : /\ Moves(d, new) /\ new.step = "emit packages" /\ new.link = job[d].link
                  /\ new.packages \in [Packages -> Values]
<1> DEFINE new == [job[d] EXCEPT !.step = "emit packages", !.packages = project.packages]
<1>1. job[d] \in JobState /\ project \in ProjectState
  BY DEF DiffTypeOK
<1>2. /\ new.step = "emit packages" /\ new.link = job[d].link
      /\ new.packages \in [Packages -> Values]
  BY <1>1 DEF JobState, States, Maybe, ProjectState
<1>3. new \in JobState
  BY <1>1 DEF JobState, JobSteps, States, Maybe, ProjectState
<1>4. job' = [job EXCEPT ![d] = new]
  BY DEF ReadPackages, DiffTypeOK
<1> HIDE DEF new
<1> QED BY <1>2, <1>3, <1>4, Moving DEF DiffTypeOK

LEMMA SummaryEmitted ==
  ASSUME DiffTypeOK, NEW d \in DiffJobs, EmitSummary(d)
  PROVE  \E new : Moves(d, new) /\ new.step = "packages" /\ new.link = job[d].link
<1> DEFINE new == [job[d] EXCEPT !.step = "packages"]
<1>1. /\ new \in JobState /\ new.step = "packages" /\ new.link = job[d].link
      /\ Moves(d, new)
  BY Moving DEF EmitSummary, DiffTypeOK, JobState, JobSteps
<1> HIDE DEF new
<1> QED BY <1>1

\* The event about the progress says one value.
LEMMA ProgressSaid ==
  ASSUME NEW value \in Said, Emit({"progress"}, [progress |-> value])
  PROVE  \E says : /\ Emit({"progress"}, says) /\ says["progress"] = value
                   /\ {"progress"} \in SUBSET Subjects
                   /\ \A x \in {"progress"} : says[x] \in Said
  BY OneSubject DEF Subjects

\* Whatever one job does to itself keeps the types.
LEMMA MoveTyped ==
  ASSUME DiffTypeOK, NEW d \in DiffJobs, NEW new, Moves(d, new),
         UNCHANGED <<project, changes>>, link' \in LinkRow,
         outbox' \in [Subjects -> Seq(Said)], failures' \in 0..MaxFailures,
         new.step \in {"counts", "emit"} => new.row \in Values,
         new.step = "emit" => new.counts \in Values,
         new.step = "emit packages" => new.packages \in [Packages -> Values]
  PROVE  DiffTypeOK'
  BY DEF DiffTypeOK, Moves

LEMMA DiffTypeNext == DiffTypeOK /\ [DiffNext]_diffVars => DiffTypeOK'
<1> SUFFICES ASSUME DiffTypeOK, [DiffNext]_diffVars PROVE DiffTypeOK'
  OBVIOUS
<1>1. CASE LinkProject
  <2>1. Seed \in Said /\ link' \in LinkRow
    BY <1>1, NothingRead DEF LinkProject, LinkRow, Said, Summary
  <2>2. outbox' \in [Subjects -> Seq(Said)]
    <3>1. Emit({"progress"}, [progress |-> Seed])
      BY <1>1 DEF LinkProject
    <3> QED BY <2>1, <3>1, ProgressSaid, EmitTyped DEF DiffTypeOK
  <2> QED BY <1>1, <2>1, <2>2 DEF LinkProject, DiffTypeOK
<1>2. CASE ChangeProject
  <2>1. project' \in ProjectState
    BY <1>2 DEF ChangeProject
  <2>2. changes' \in 0..MaxChanges
    <3>1. changes \in 0..MaxChanges
      BY DEF DiffTypeOK
    <3> QED BY <1>2, <3>1, DiffBounds DEF ChangeProject
  <2> QED BY <1>2, <2>1, <2>2 DEF ChangeProject, DiffTypeOK
<1>3. ASSUME NEW d \in DiffJobs, PromoteDiff(d) PROVE DiffTypeOK'
  BY <1>3, DiffQueued, MoveTyped DEF PromoteDiff, DiffTypeOK
<1>4. ASSUME NEW d \in DiffJobs, SelectLinks(d) PROVE DiffTypeOK'
  BY <1>4, LinksSelected, MoveTyped DEF SelectLinks, DiffTypeOK
<1>5. ASSUME NEW d \in DiffJobs, ReadRow(d) PROVE DiffTypeOK'
  BY <1>5, RowRead, MoveTyped DEF ReadRow, DiffTypeOK
<1>6. ASSUME NEW d \in DiffJobs, ReadCounts(d) PROVE DiffTypeOK'
  BY <1>6, CountsRead, MoveTyped DEF ReadCounts, DiffTypeOK
<1>7. ASSUME NEW d \in DiffJobs, EmitSummary(d) PROVE DiffTypeOK'
  <2>1. Read(d) \in Values \X Values
    BY <1>7 DEF EmitSummary, Read, DiffTypeOK
  <2>2. CASE Read(d) = job[d].link.summary
    BY <1>7, <2>2, SummaryEmitted, MoveTyped DEF EmitSummary, DiffTypeOK
  <2>3. CASE Read(d) # job[d].link.summary
    <3>1. /\ Emit({"progress"}, [progress |-> Read(d)])
          /\ link' = [link EXCEPT !.summary = Read(d)]
      BY <1>7, <2>3 DEF EmitSummary
    <3>2. Read(d) \in Said /\ link' \in LinkRow
      BY <2>1, <3>1 DEF Said, Summary, LinkRow, DiffTypeOK
    <3>3. outbox' \in [Subjects -> Seq(Said)]
      BY <3>1, <3>2, ProgressSaid, EmitTyped DEF DiffTypeOK
    <3> QED BY <1>7, <3>2, <3>3, SummaryEmitted, MoveTyped DEF EmitSummary, DiffTypeOK
  <2> QED BY <2>2, <2>3
<1>8. ASSUME NEW d \in DiffJobs, ReadPackages(d) PROVE DiffTypeOK'
  BY <1>8, PackagesRead, MoveTyped DEF ReadPackages, DiffTypeOK
<1>9. ASSUME NEW d \in DiffJobs, EmitPackages(d) PROVE DiffTypeOK'
  <2>1. Moves(d, NoJob) /\ NoJob.step = "none" /\ job[d].packages \in [Packages -> Values]
    BY <1>9, NothingRead, Moving DEF EmitPackages, DiffTypeOK
  <2>2. CASE Changed(d) = {}
    BY <1>9, <2>1, <2>2, MoveTyped DEF EmitPackages, DiffTypeOK
  <2>3. CASE Changed(d) # {}
    <3>1. /\ Emit(Changed(d), job[d].packages)
          /\ link' = [link EXCEPT !.turnover = job[d].packages]
      BY <1>9, <2>3 DEF EmitPackages
    <3>2. /\ Changed(d) \in SUBSET Subjects
          /\ \A p \in Changed(d) : job[d].packages[p] \in Said
      BY <2>1 DEF Said, Subjects, Changed
    <3>3. outbox' \in [Subjects -> Seq(Said)]
      BY <3>1, <3>2, EmitTyped DEF DiffTypeOK
    <3>4. link' \in LinkRow
      BY <2>1, <3>1 DEF LinkRow, States, Maybe, DiffTypeOK
    <3> QED BY <1>9, <2>1, <3>3, <3>4, MoveTyped DEF EmitPackages, DiffTypeOK
  <2> QED BY <2>2, <2>3
<1>10. ASSUME NEW d \in DiffJobs, DiffFails(d) PROVE DiffTypeOK'
  <2>1. failures' \in 0..MaxFailures
    <3>1. failures \in 0..MaxFailures
      BY DEF DiffTypeOK
    <3> QED BY <1>10, <3>1, DiffBounds DEF DiffFails
  <2>2. Moves(d, NoJob)
    BY <1>10, NothingRead, Moving DEF DiffFails, DiffTypeOK
  <2> QED BY <1>10, <2>1, <2>2, NothingRead, MoveTyped DEF DiffFails, DiffTypeOK
<1>11. CASE UNCHANGED diffVars
  BY <1>11 DEF diffVars, DiffTypeOK
<1> QED BY <1>1, <1>2, <1>3, <1>4, <1>5, <1>6, <1>7, <1>8, <1>9, <1>10, <1>11
        DEF DiffNext, Diffing

\* The diff jobs, the link row and the outbox keep their types, however many jobs
\* overlap, and no event tells what its job has not read.
THEOREM DiffTyping == DiffSpec => []DiffTypeOK
<1>1. DiffInit => DiffTypeOK
  BY DiffInitially
<1> QED BY <1>1, DiffTypeNext, PTL DEF DiffSpec

\* A job that only reads: nothing is told.
LEMMA ReadingStep ==
  ASSUME DiffTypeOK, DiffInv, NEW d \in DiffJobs, NEW new, Moves(d, new),
         UNCHANGED <<link, outbox>>,
         new.step # "none" => link.linked,
         new.step \in ReadingSteps => new.link.turnover = link.turnover,
         new.step \in {"row", "counts", "emit"} => new.link.summary = link.summary
  PROVE  DiffInv'
<1>1. UpToDate'
  BY DEF DiffInv, UpToDate, Moves
<1>2. Remembered' /\ NoRepeats'
  BY DEF DiffInv, Remembered, NoRepeats, LastSaid
<1> QED BY <1>1, <1>2 DEF DiffInv

\* A step of the only job there is.
LEMMA EmittingStep ==
  ASSUME \A d, e \in DiffJobs : d = e,
         NEW d \in DiffJobs, NEW new, Moves(d, new),
         link'.linked, Remembered', NoRepeats', new.step \in {"none", "packages"},
         new.step = "packages" => new.link.turnover = link'.turnover
  PROVE  DiffInv'
<1>1. job'[d] = new /\ \A e \in DiffJobs : e = d
  BY DEF Moves
<1>2. UpToDate'
  BY <1>1 DEF UpToDate, ReadingSteps
<1> QED BY <1>2 DEF DiffInv

LEMMA LinkStep ==
  ASSUME DiffTypeOK, DiffInv, LinkProject
  PROVE  DiffInv'
<1>1. /\ \A x \in Subjects : outbox[x] = <<>>
      /\ \A d \in DiffJobs : job[d].step = "none"
  BY DEF LinkProject, DiffInv, Remembered, UpToDate
<1>2. link'.linked /\ link'.summary = Seed
  BY NothingRead DEF LinkProject, LinkRow
<1>3. /\ \A x \in Subjects \ {"progress"} : outbox'[x] = outbox[x]
      /\ outbox'["progress"] # <<>> /\ LastSaid("progress")' = Seed
      /\ NoRepeats'
  <2>1. Seed \in Said /\ Emit({"progress"}, [progress |-> Seed])
    BY DEF LinkProject, Said, Summary
  <2>2. PICK says : /\ Emit({"progress"}, says) /\ says["progress"] = Seed
                    /\ {"progress"} \in SUBSET Subjects
                    /\ \A x \in {"progress"} : says[x] \in Said
    BY <2>1, ProgressSaid
  <2>3. /\ outbox \in [Subjects -> Seq(Said)] /\ NoRepeats
        /\ \A x \in {"progress"} : outbox[x] = <<>>
    BY <1>1, <2>2 DEF DiffTypeOK, DiffInv
  <2>4. /\ \A x \in Subjects \ {"progress"} : outbox'[x] = outbox[x]
        /\ \A x \in {"progress"} : outbox'[x] # <<>> /\ LastSaid(x)' = says[x]
        /\ NoRepeats'
    BY <2>2, <2>3, EmitNews
  <2> QED BY <2>2, <2>4
<1>4. Remembered'
  BY <1>1, <1>2, <1>3, PackagesAssumption DEF Remembered, Subjects
<1>5. UpToDate'
  BY <1>1, <1>2 DEF LinkProject, UpToDate, ReadingSteps
<1> QED BY <1>3, <1>4, <1>5 DEF DiffInv

LEMMA SummaryStep ==
  ASSUME \A d, e \in DiffJobs : d = e, DiffTypeOK, DiffInv, NEW d \in DiffJobs, EmitSummary(d)
  PROVE  DiffInv'
<1>1. /\ job[d].step = "emit" /\ link.linked /\ link \in LinkRow
      /\ job[d].link.summary = link.summary /\ job[d].link.turnover = link.turnover
      /\ Read(d) \in Values \X Values
  BY DEF EmitSummary, DiffTypeOK, DiffInv, UpToDate, ReadingSteps, Read
<1>2. PICK new : Moves(d, new) /\ new.step = "packages" /\ new.link = job[d].link
  BY SummaryEmitted
<1>3. CASE Read(d) = job[d].link.summary
  <2>1. UNCHANGED <<link, outbox>>
    BY <1>3 DEF EmitSummary
  <2>2. Remembered' /\ NoRepeats'
    BY <2>1 DEF DiffInv, Remembered, NoRepeats, LastSaid
  <2> QED BY <1>1, <1>2, <2>1, <2>2, EmittingStep
<1>4. CASE Read(d) # job[d].link.summary
  <2>1. /\ Emit({"progress"}, [progress |-> Read(d)])
        /\ link' = [link EXCEPT !.summary = Read(d)]
    BY <1>4 DEF EmitSummary
  <2>2. link'.linked /\ link'.summary = Read(d) /\ link'.turnover = link.turnover
    BY <1>1, <2>1 DEF LinkRow
  <2>3. Read(d) \in Said /\ (outbox["progress"] # <<>> => LastSaid("progress") # Read(d))
    BY <1>1, <1>4 DEF Said, Summary, DiffInv, Remembered
  <2>4. /\ \A x \in Subjects \ {"progress"} : outbox'[x] = outbox[x]
        /\ outbox'["progress"] # <<>> /\ LastSaid("progress")' = Read(d)
        /\ NoRepeats'
    <3>1. PICK says : /\ Emit({"progress"}, says) /\ says["progress"] = Read(d)
                      /\ {"progress"} \in SUBSET Subjects
                      /\ \A x \in {"progress"} : says[x] \in Said
      BY <2>1, <2>3, ProgressSaid
    <3>2. /\ outbox \in [Subjects -> Seq(Said)] /\ NoRepeats
          /\ \A x \in {"progress"} : outbox[x] # <<>> => LastSaid(x) # says[x]
      BY <2>3, <3>1 DEF DiffTypeOK, DiffInv
    <3>3. /\ \A x \in Subjects \ {"progress"} : outbox'[x] = outbox[x]
          /\ \A x \in {"progress"} : outbox'[x] # <<>> /\ LastSaid(x)' = says[x]
          /\ NoRepeats'
      BY <3>1, <3>2, EmitNews
    <3> QED BY <3>1, <3>3
  <2>5. Remembered'
    <3>1. \A p \in Packages : p \in Subjects \ {"progress"}
      BY PackagesAssumption DEF Subjects
    <3> QED BY <2>2, <2>4, <3>1 DEF DiffInv, Remembered, LastSaid
  <2> QED BY <1>1, <1>2, <2>2, <2>4, <2>5, EmittingStep
<1> QED BY <1>3, <1>4

LEMMA PackagesStep ==
  ASSUME \A d, e \in DiffJobs : d = e, DiffTypeOK, DiffInv, NEW d \in DiffJobs, EmitPackages(d)
  PROVE  DiffInv'
<1>1. /\ job[d].step = "emit packages" /\ link.linked /\ link \in LinkRow
      /\ job[d].link.turnover = link.turnover
      /\ job[d].packages \in [Packages -> Values]
  BY DEF EmitPackages, DiffTypeOK, DiffInv, UpToDate, ReadingSteps
<1>2. Moves(d, NoJob) /\ NoJob.step = "none"
  BY NothingRead, Moving DEF EmitPackages, DiffTypeOK
<1>3. CASE Changed(d) = {}
  <2>1. UNCHANGED <<link, outbox>>
    BY <1>3 DEF EmitPackages
  <2>2. Remembered' /\ NoRepeats'
    BY <2>1 DEF DiffInv, Remembered, NoRepeats, LastSaid
  <2> QED BY <1>1, <1>2, <2>1, <2>2, EmittingStep
<1>4. CASE Changed(d) # {}
  <2>1. /\ Emit(Changed(d), job[d].packages)
        /\ link' = [link EXCEPT !.turnover = job[d].packages]
    BY <1>4 DEF EmitPackages
  <2>2. link'.linked /\ link'.summary = link.summary /\ link'.turnover = job[d].packages
    BY <1>1, <2>1 DEF LinkRow
  <2>3. /\ Changed(d) \in SUBSET Subjects /\ "progress" \in Subjects \ Changed(d)
        /\ \A p \in Changed(d) : /\ job[d].packages[p] \in Said
                                 /\ outbox[p] # <<>> => LastSaid(p) # job[d].packages[p]
    BY <1>1, PackagesAssumption DEF Said, Subjects, Changed, DiffInv, Remembered
  <2>4. /\ \A x \in Subjects \ Changed(d) : outbox'[x] = outbox[x]
        /\ \A x \in Changed(d) : outbox'[x] # <<>> /\ LastSaid(x)' = job[d].packages[x]
        /\ NoRepeats'
    BY <2>1, <2>3, EmitNews DEF DiffTypeOK, DiffInv
  <2>5. Remembered'
    <3>1. ASSUME NEW p \in Packages, outbox'[p] # <<>> PROVE LastSaid(p)' = link'.turnover[p]
      <4>1. CASE p \in Changed(d)
        BY <2>2, <2>4, <4>1
      <4>2. CASE p \notin Changed(d)
        BY <1>1, <2>2, <2>4, <3>1, <4>2 DEF Changed, Subjects, DiffInv, Remembered, LastSaid
      <4> QED BY <4>1, <4>2
    <3>2. outbox'["progress"] # <<>> => LastSaid("progress")' = link'.summary
      BY <2>2, <2>3, <2>4 DEF DiffInv, Remembered, LastSaid
    <3> QED BY <2>2, <3>1, <3>2 DEF Remembered
  <2> QED BY <1>1, <1>2, <2>2, <2>4, <2>5, EmittingStep
<1> QED BY <1>3, <1>4

LEMMA DiffStep ==
  ASSUME \A d, e \in DiffJobs : d = e, DiffTypeOK, DiffInv, [DiffNext]_diffVars
  PROVE  DiffInv'
<1>1. CASE ChangeProject
  BY <1>1 DEF ChangeProject, DiffInv, Remembered, UpToDate, NoRepeats, LastSaid
<1>2. ASSUME NEW d \in DiffJobs, PromoteDiff(d) PROVE DiffInv'
  BY <1>2, DiffQueued, ReadingStep DEF PromoteDiff, ReadingSteps
<1>3. ASSUME NEW d \in DiffJobs, SelectLinks(d) PROVE DiffInv'
  <2>1. link.linked
    BY <1>3 DEF SelectLinks, DiffInv, UpToDate
  <2> QED BY <1>3, <2>1, LinksSelected, ReadingStep DEF SelectLinks
<1>4. ASSUME NEW d \in DiffJobs, job[d].step \in ReadingSteps
      PROVE  /\ link.linked /\ job[d].link.turnover = link.turnover
             /\ job[d].step \in {"row", "counts", "emit"} => job[d].link.summary = link.summary
  BY <1>4 DEF DiffInv, UpToDate, ReadingSteps
<1>5. ASSUME NEW d \in DiffJobs, ReadRow(d) PROVE DiffInv'
  BY <1>4, <1>5, RowRead, ReadingStep DEF ReadRow, ReadingSteps
<1>6. ASSUME NEW d \in DiffJobs, ReadCounts(d) PROVE DiffInv'
  BY <1>4, <1>6, CountsRead, ReadingStep DEF ReadCounts, ReadingSteps
<1>7. ASSUME NEW d \in DiffJobs, ReadPackages(d) PROVE DiffInv'
  BY <1>4, <1>7, PackagesRead, ReadingStep DEF ReadPackages, ReadingSteps
<1>8. ASSUME NEW d \in DiffJobs, DiffFails(d) PROVE DiffInv'
  <2>1. Moves(d, NoJob)
    BY <1>8, NothingRead, Moving DEF DiffFails, DiffTypeOK
  <2> QED BY <1>8, <2>1, NothingRead, ReadingStep DEF DiffFails, ReadingSteps
<1>9. CASE UNCHANGED diffVars
  BY <1>9 DEF diffVars, DiffInv, Remembered, UpToDate, NoRepeats, LastSaid
<1> QED BY <1>1, <1>2, <1>3, <1>5, <1>6, <1>7, <1>8, <1>9, LinkStep, SummaryStep, PackagesStep
        DEF DiffNext, Diffing

LEMMA DiffInvariant ==
  ASSUME \A d, e \in DiffJobs : d = e
  PROVE  DiffSpec => [](DiffTypeOK /\ DiffInv)
<1>1. DiffTypeOK /\ DiffInv /\ [DiffNext]_diffVars => DiffTypeOK' /\ DiffInv'
  BY DiffTypeNext, DiffStep
<1> QED BY <1>1, DiffInitially, PTL DEF DiffSpec

\* As long as a tenant has one diff job at a time, Nova is told of changes only:
\* of each thing the next event says something else than the last one, whatever
\* fails between a reading and its event and however the project changes meanwhile.
THEOREM OnlyChangesAreTold ==
  ASSUME \A d, e \in DiffJobs : d = e
  PROVE  DiffSpec => []NoRepeats
<1>1. DiffTypeOK /\ DiffInv => NoRepeats
  BY DEF DiffInv
<1> QED BY <1>1, DiffInvariant, PTL
=============================================================================
