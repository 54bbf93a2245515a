-------------------------- MODULE FieldSync_proofs --------------------------
(***************************************************************************)
(* Proofs about FieldSync, for any operations, tabs, requests and rows,    *)
(* any size of a batch and whatever fails.                                 *)
(***************************************************************************)
EXTENDS FieldSync, TLAPS

LEMMA Constants ==
  /\ NoAnswers \in Answers /\ NoFlush \in FlushState /\ NoBatch \in BatchState
  BY DEF NoAnswers, Answers, NoFlush, FlushState, NoBatch, BatchState

LEMMA TypeInit == Init => TypeOK
<1> SUFFICES ASSUME Init PROVE TypeOK
  OBVIOUS
<1>1. [status |-> "absent", call |-> {}] \in QueuedOp
  BY DEF QueuedOp
<1> QED
  BY <1>1, Constants DEF Init, TypeOK

\* What the parts of an action do to the types.
LEMMA MovedOn ==
  ASSUME TypeOK, NEW t \in Tabs, MoveOn(t) PROVE tab' \in [Tabs -> FlushState]
<1>1. [NoFlush EXCEPT !.step = "send", !.rest = tab[t].rest] \in FlushState
  BY Constants DEF TypeOK, FlushState
<1> QED
  BY <1>1, Constants DEF MoveOn, TypeOK

LEMMA Forgotten ==
  ASSUME TypeOK, NEW t \in Tabs, Forget(t) PROVE request' \in [Requests -> BatchState]
<1>1. \A r \in Requests : [request[r] EXCEPT !.by = {}, !.answers = NoAnswers] \in BatchState
  <2> TAKE r \in Requests
  <2>1. request[r] \in BatchState
    BY DEF TypeOK
  <2> QED
    BY <2>1, Constants DEF BatchState
<1> QED
  BY <1>1 DEF Forget, TypeOK

LEMMA Answered ==
  ASSUME TypeOK, NEW r \in Requests, NEW o \in Ops,
         NEW answer \in {"success", "conflict", "error", "replay"}, Answer(r, o, answer)
  PROVE  /\ request' \in [Requests -> BatchState]
         /\ \A q \in Requests, p \in Ops :
              request'[q].answers[p] # request[q].answers[p]
              => p = o /\ request'[q].answers[p] = answer
<1>1. request[r] \in BatchState
  BY DEF TypeOK
<1> DEFINE kept == IF request[r].by = {} THEN request[r].answers[o] ELSE answer
<1> DEFINE batch == [request[r] EXCEPT !.todo = @ \ {o}, !.answers[o] = kept]
<1>2. request' = [request EXCEPT ![r] = batch]
  BY DEF Answer, TypeOK, BatchState
<1>3. kept \in {"none", "success", "conflict", "error", "replay"}
  BY <1>1 DEF BatchState, Answers
<1> HIDE DEF kept
<1>4. batch \in BatchState
  BY <1>1, <1>3 DEF BatchState, Answers
<1>5. \A p \in Ops : batch.answers[p] = IF p = o THEN kept ELSE request[r].answers[p]
  BY <1>1 DEF BatchState, Answers
<1> HIDE DEF batch
<1>6. request' \in [Requests -> BatchState]
  BY <1>2, <1>4 DEF TypeOK
<1>7. ASSUME NEW q \in Requests, NEW p \in Ops,
             request'[q].answers[p] # request[q].answers[p]
      PROVE  p = o /\ request'[q].answers[p] = answer
  <2>1. q = r
    BY <1>2, <1>7 DEF TypeOK
  <2>2. request'[q].answers[p] = IF p = o THEN kept ELSE request[r].answers[p]
    BY <1>2, <1>5, <2>1 DEF TypeOK
  <2> QED
    BY <1>7, <2>1, <2>2 DEF kept
<1> QED
  BY <1>6, <1>7

LEMMA Committed ==
  ASSUME TypeOK, NEW o \in Ops, NEW call \in queue[o].call, NEW outcome \in Outcomes(call),
         Commit(o, call, outcome)
  PROVE  /\ call \in Call /\ outcome \in {"success", "conflict", "error"}
         /\ record' \in [Ops -> {"none", "success", "conflict", "error"}]
         /\ row' \in [Rows -> Nat]
         /\ applied' \in [Ops -> Nat]
<1>1. call \in Call
  BY DEF TypeOK, QueuedOp
<1>2. outcome \in {"success", "conflict", "error"}
  BY DEF Outcomes
<1> QED
  BY <1>1, <1>2 DEF Commit, TypeOK, Call

\* The types are preserved by every step.
LEMMA TypeNext == TypeOK /\ [Next]_vars => TypeOK'
<1> SUFFICES ASSUME TypeOK, [Next]_vars PROVE TypeOK'
  OBVIOUS
<1> USE DEF TypeOK
<1>1. ASSUME NEW o \in Ops, Enqueue(o) PROVE TypeOK'
  <2>1. PICK op \in {"create", "update", "unfit"}, x \in Rows : \E base \in 0..row[x] :
          queue' = [queue EXCEPT ![o] =
            [status |-> "pending", call |-> {[op |-> op, row |-> x, base |-> base]}]]
    BY <1>1 DEF Enqueue
  <2>2. PICK base \in 0..row[x] :
          queue' = [queue EXCEPT ![o] =
            [status |-> "pending", call |-> {[op |-> op, row |-> x, base |-> base]}]]
    BY <2>1
  <2>3. [op |-> op, row |-> x, base |-> base] \in Call
    BY DEF Call
  <2>4. [status |-> "pending", call |-> {[op |-> op, row |-> x, base |-> base]}] \in QueuedOp
    BY <2>3 DEF QueuedOp
  <2> QED
    BY <1>1, <2>2, <2>4 DEF Enqueue
<1>2. ASSUME NEW o \in Ops, Requeue(o) \/ Remove(o) PROVE TypeOK'
  <2>1. PICK status \in {"pending", "removed"} :
          queue' = [queue EXCEPT ![o].status = status]
    BY <1>2 DEF Requeue, Remove
  <2>2. [queue[o] EXCEPT !.status = status] \in QueuedOp
    BY DEF QueuedOp
  <2>3. queue' \in [Ops -> QueuedOp]
    BY <2>1, <2>2
  <2> QED BY <1>2, <2>3 DEF Requeue, Remove
<1>3. ASSUME NEW t \in Tabs, Flush(t) PROVE TypeOK'
  <2>1. [NoFlush EXCEPT !.step = "send", !.rest = Pending] \in FlushState
    BY Constants DEF FlushState, Pending
  <2> QED
    BY <1>3, <2>1 DEF Flush
<1>4. ASSUME NEW t \in Tabs, SendChunk(t) PROVE TypeOK'
  <2>1. PICK r \in Requests, chunk \in Chunks(tab[t].rest) :
          /\ request' = [request EXCEPT ![r] = [NoBatch EXCEPT !.by = {t}, !.todo = chunk]]
          /\ tab' = [tab EXCEPT ![t].step = "wait", ![t].rest = @ \ chunk]
    BY <1>4 DEF SendChunk
  <2>2. tab[t] \in FlushState /\ chunk \in SUBSET Ops
    BY DEF Chunks, FlushState
  <2>3. [NoBatch EXCEPT !.by = {t}, !.todo = chunk] \in BatchState
    BY <2>2, Constants DEF BatchState
  <2>4. tab' \in [Tabs -> FlushState]
    BY <2>1, <2>2 DEF FlushState
  <2> QED
    BY <1>4, <2>1, <2>3, <2>4 DEF SendChunk
<1>5. ASSUME NEW t \in Tabs, CallFails(t) PROVE TypeOK'
  BY <1>5, MovedOn, Forgotten DEF CallFails
<1>6. ASSUME NEW t \in Tabs, Mark(t) PROVE TypeOK'
  <2>1. PICK o \in Ops :
          /\ queue' = [queue EXCEPT ![o].status =
                         IF @ = "removed" THEN @ ELSE MarkedAs(tab[t].answers[o])]
          /\ LET left == [tab[t].answers EXCEPT ![o] = "none"] IN
             IF left = NoAnswers THEN MoveOn(t)
             ELSE tab' = [tab EXCEPT ![t].answers = left]
    BY <1>6 DEF Mark
  <2>2. MarkedAs(tab[t].answers[o]) \in {"synced", "conflict", "failed"}
    BY DEF MarkedAs
  <2>3. queue' \in [Ops -> QueuedOp]
    BY <2>1, <2>2 DEF QueuedOp
  <2>4. tab[t] \in FlushState
    OBVIOUS
  <2>5. [tab[t].answers EXCEPT ![o] = "none"] \in Answers
    BY <2>4 DEF FlushState, Answers
  <2>6. tab' \in [Tabs -> FlushState]
    <3> DEFINE left == [tab[t].answers EXCEPT ![o] = "none"]
    <3>1. left \in Answers
      BY <2>5
    <3>2. MoveOn(t) \/ tab' = [tab EXCEPT ![t].answers = left]
      BY <2>1
    <3> HIDE DEF left
    <3>3. [tab[t] EXCEPT !.answers = left] \in FlushState
      BY <2>4, <3>1 DEF FlushState
    <3> QED
      BY <3>2, <3>3, MovedOn
  <2> QED
    BY <1>6, <2>3, <2>6 DEF Mark
<1>7. ASSUME NEW t \in Tabs, TabCloses(t) PROVE TypeOK'
  BY <1>7, Forgotten, Constants DEF TabCloses
<1>8. ASSUME NEW r \in Requests, Replay(r) PROVE TypeOK'
  <2>1. PICK o \in request[r].todo : Answer(r, o, "replay")
    BY <1>8 DEF Replay
  <2>2. o \in Ops
    BY DEF BatchState
  <2> QED
    BY <1>8, <2>1, <2>2, Answered DEF Replay
<1>9. ASSUME NEW r \in Requests, Execute(r) PROVE TypeOK'
  <2>1. PICK o \in request[r].todo : \E call \in queue[o].call : \E outcome \in Outcomes(call) :
          Commit(o, call, outcome) /\ Answer(r, o, outcome)
    BY <1>9 DEF Execute
  <2>2. o \in Ops
    BY DEF BatchState
  <2> QED
    BY <1>9, <2>1, <2>2, Committed, Answered DEF Execute
<1>10. ASSUME NEW r \in Requests, ExecuteFails(r) PROVE TypeOK'
  <2>1. PICK o \in request[r].todo : \E call \in queue[o].call : \E outcome \in Outcomes(call) :
          /\ Commit(o, call, outcome) \/ UNCHANGED <<record, row, applied>>
          /\ Answer(r, o, "error")
    BY <1>10 DEF ExecuteFails
  <2>2. o \in Ops
    BY DEF BatchState
  <2> QED
    BY <1>10, <2>1, <2>2, Committed, Answered DEF ExecuteFails
<1>11. ASSUME NEW r \in Requests, BatchDies(r) PROVE TypeOK'
  BY <1>11, Constants DEF BatchDies
<1>12. ASSUME NEW r \in Requests, Reply(r) PROVE TypeOK'
  <2>1. ASSUME NEW t \in Tabs
        PROVE  [tab[t] EXCEPT !.step = "mark", !.answers = request[r].answers] \in FlushState
    <3>1. tab[t] \in FlushState /\ request[r].answers \in Answers
      BY DEF BatchState
    <3> QED
      BY <3>1 DEF FlushState
  <2> QED
    BY <1>12, <2>1, Constants DEF Reply
<1>13. ASSUME NEW x \in Rows, Edit(x) PROVE TypeOK'
  BY <1>13 DEF Edit
<1>14. CASE UNCHANGED vars
  BY <1>14 DEF vars
<1> QED
  BY <1>1, <1>2, <1>3, <1>4, <1>5, <1>6, <1>7, <1>8, <1>9, <1>10, <1>11, <1>12,
     <1>13, <1>14
  DEF Next, Device, Server

\* Every reachable state is well typed.
THEOREM Typing == Spec => []TypeOK
  BY TypeInit, TypeNext, PTL DEF Spec

-----------------------------------------------------------------------------
(* Once *)

\* A commit of an operation without a ledger row leaves it with one, and touches
\* no other operation.
LEMMA FirstCommit ==
  ASSUME TypeOK, NEW o \in Ops, NEW call \in queue[o].call, NEW outcome \in Outcomes(call),
         Commit(o, call, outcome)
  PROVE  /\ record'[o] = outcome
         /\ applied'[o] = IF outcome = "success" THEN applied[o] + 1 ELSE applied[o]
         /\ \A p \in Ops : p # o => record'[p] = record[p] /\ applied'[p] = applied[p]
  BY DEF Commit, TypeOK

\* Execute and an ambiguous ExecuteFails: the one way the ledger changes.
LEMMA LedgerSteps ==
  ASSUME TypeOK, [Next]_vars
  PROVE  \/ UNCHANGED <<record, applied>>
         \/ \E o \in Ops : \E call \in queue[o].call : \E outcome \in Outcomes(call) :
              record[o] = "none" /\ Commit(o, call, outcome) /\ UNCHANGED queue
<1>1. ASSUME NEW o \in Ops, Enqueue(o) \/ Requeue(o) \/ Remove(o)
      PROVE  UNCHANGED <<record, applied>>
  BY <1>1 DEF Enqueue, Requeue, Remove
<1>2. ASSUME NEW t \in Tabs,
             Flush(t) \/ SendChunk(t) \/ CallFails(t) \/ Mark(t) \/ TabCloses(t)
      PROVE  UNCHANGED <<record, applied>>
  BY <1>2 DEF Flush, SendChunk, CallFails, Mark, TabCloses
<1>3. ASSUME NEW r \in Requests, Replay(r) \/ BatchDies(r) \/ Reply(r)
      PROVE  UNCHANGED <<record, applied>>
  BY <1>3 DEF Replay, BatchDies, Reply
<1>4. ASSUME NEW x \in Rows, Edit(x) PROVE UNCHANGED <<record, applied>>
  BY <1>4 DEF Edit
<1>5. ASSUME NEW r \in Requests PROVE request[r].todo \subseteq Ops
  BY DEF TypeOK, BatchState
<1>6. ASSUME NEW r \in Requests, Execute(r)
      PROVE  \E o \in Ops : \E call \in queue[o].call : \E outcome \in Outcomes(call) :
               record[o] = "none" /\ Commit(o, call, outcome) /\ UNCHANGED queue
  <2> HIDE DEF Commit
  <2> QED
    BY <1>5, <1>6 DEF Execute
<1>7. ASSUME NEW r \in Requests, ExecuteFails(r)
      PROVE  \/ UNCHANGED <<record, applied>>
             \/ \E o \in Ops : \E call \in queue[o].call : \E outcome \in Outcomes(call) :
                  record[o] = "none" /\ Commit(o, call, outcome) /\ UNCHANGED queue
  BY <1>5, <1>7 DEF ExecuteFails
<1>8. CASE UNCHANGED vars
  BY <1>8 DEF vars
<1> QED
  BY <1>1, <1>2, <1>3, <1>4, <1>6, <1>7, <1>8 DEF Next, Device, Server

LEMMA OnceInit == Init => AppliedOnce
  BY DEF Init, AppliedOnce

LEMMA OnceNext == TypeOK /\ AppliedOnce /\ [Next]_vars => AppliedOnce'
<1> SUFFICES ASSUME TypeOK, AppliedOnce, [Next]_vars PROVE AppliedOnce'
  OBVIOUS
<1>1. CASE UNCHANGED <<record, applied>>
  BY <1>1 DEF AppliedOnce
<1>2. ASSUME NEW o \in Ops, NEW call \in queue[o].call, NEW outcome \in Outcomes(call),
             record[o] = "none", Commit(o, call, outcome)
      PROVE  AppliedOnce'
  BY <1>2, FirstCommit DEF AppliedOnce
<1> QED
  BY <1>1, <1>2, LedgerSteps

\* However often an operation is sent, by however many tabs, and whatever fails, it
\* takes effect once if its ledger row says success and never otherwise.
THEOREM Once == Spec => []AppliedOnce
  BY Typing, OnceInit, OnceNext, PTL DEF Spec

-----------------------------------------------------------------------------
(* The device settles what the server has on record *)

\* An answer on its way to the device, or there and not yet noted, says so.
SaysDone(o) ==
  \/ \E r \in Requests : request[r].answers[o] \in {"success", "replay"}
  \/ \E t \in Tabs : tab[t].answers[o] \in {"success", "replay"}

SaysConflict(o) ==
  \/ \E r \in Requests : request[r].answers[o] = "conflict"
  \/ \E t \in Tabs : tab[t].answers[o] = "conflict"

\* SettledIsRecorded is inductive once the answers on their way are true as well.
Truthful ==
  /\ SettledIsRecorded
  /\ \A o \in Ops : /\ SaysDone(o) => record[o] # "none"
                    /\ SaysConflict(o) => record[o] = "conflict"

LEMMA TruthfulInit == Init => Truthful
  BY DEF Init, Truthful, SettledIsRecorded, SaysDone, SaysConflict, NoBatch, NoFlush, NoAnswers

\* A ledger row is never changed once it is written.
LEMMA LedgerKept ==
  ASSUME TypeOK, [Next]_vars, NEW o \in Ops, record[o] # "none"
  PROVE  record'[o] = record[o]
<1>1. ASSUME NEW p \in Ops, NEW call \in queue[p].call, NEW outcome \in Outcomes(call),
             record[p] = "none", Commit(p, call, outcome)
      PROVE  record'[o] = record[o]
  BY <1>1, FirstCommit
<1> QED
  BY <1>1, LedgerSteps

\* What a step adds to the answers must be on record, and what it settles answered.
LEMMA TruthKept ==
  ASSUME TypeOK, Truthful, [Next]_vars,
         \A o \in Ops :
           /\ SaysDone(o)' => SaysDone(o) \/ record'[o] # "none"
           /\ SaysConflict(o)' => SaysConflict(o) \/ record'[o] = "conflict"
           /\ queue'[o].status = "synced" => queue[o].status = "synced" \/ SaysDone(o)
           /\ queue'[o].status = "conflict" => queue[o].status = "conflict" \/ SaysConflict(o)
  PROVE  Truthful'
<1>1. \A o \in Ops : record[o] # "none" => record'[o] = record[o]
  BY LedgerKept
<1>2. ASSUME NEW o \in Ops
      PROVE  /\ queue'[o].status = "synced" => record'[o] # "none"
             /\ queue'[o].status = "conflict" => record'[o] = "conflict"
  BY <1>1 DEF Truthful, SettledIsRecorded
<1>3. ASSUME NEW o \in Ops
      PROVE  /\ SaysDone(o)' => record'[o] # "none"
             /\ SaysConflict(o)' => record'[o] = "conflict"
  BY <1>1 DEF Truthful
<1> QED
  BY <1>2, <1>3 DEF Truthful, SettledIsRecorded

\* An answer is given for one operation, and it is what is on record.
LEMMA TruthTold ==
  ASSUME TypeOK, Truthful, [Next]_vars, UNCHANGED <<queue, tab>>,
         NEW r \in Requests, NEW o \in Ops,
         NEW answer \in {"success", "conflict", "error", "replay"}, Answer(r, o, answer),
         answer \in {"success", "replay"} => record'[o] # "none",
         answer = "conflict" => record'[o] = "conflict"
  PROVE  Truthful'
<1>1. \A q \in Requests, p \in Ops :
        request'[q].answers[p] # request[q].answers[p]
        => p = o /\ request'[q].answers[p] = answer
  BY Answered
<1>2. ASSUME NEW p \in Ops
      PROVE  /\ SaysDone(p)' => SaysDone(p) \/ record'[p] # "none"
             /\ SaysConflict(p)' => SaysConflict(p) \/ record'[p] = "conflict"
  BY <1>1 DEF SaysDone, SaysConflict
<1> QED
  BY <1>2, TruthKept

LEMMA TruthfulNext == TypeOK /\ Truthful /\ [Next]_vars => Truthful'
<1> SUFFICES ASSUME TypeOK, Truthful, [Next]_vars PROVE Truthful'
  OBVIOUS
<1>1. ASSUME NEW o \in Ops, Enqueue(o) \/ Requeue(o) \/ Remove(o) PROVE Truthful'
  <2>1. \A p \in Ops : queue'[p].status \in {"pending", "removed", queue[p].status}
    <3>1. CASE Enqueue(o)
      BY <3>1 DEF Enqueue, TypeOK
    <3>2. CASE Requeue(o) \/ Remove(o)
      BY <3>2 DEF Requeue, Remove, TypeOK, QueuedOp
    <3> QED
      BY <1>1, <3>1, <3>2
  <2>2. UNCHANGED <<tab, request, record>>
    BY <1>1 DEF Enqueue, Requeue, Remove
  <2> QED
    BY <2>1, <2>2, TruthKept DEF SaysDone, SaysConflict
<1>2. ASSUME UNCHANGED <<queue, record>>,
             \A r \in Requests, o \in Ops :
               request'[r].answers[o] \in {"none", request[r].answers[o]},
             \A t \in Tabs, o \in Ops : tab'[t].answers[o] \in {"none", tab[t].answers[o]}
      PROVE  Truthful'
  BY <1>2, TruthKept DEF SaysDone, SaysConflict
<1>3. ASSUME NEW t \in Tabs, Flush(t) PROVE Truthful'
  BY <1>2, <1>3 DEF Flush, NoFlush, NoAnswers, TypeOK
<1>4. ASSUME NEW t \in Tabs, SendChunk(t) PROVE Truthful'
  <2>1. \A r \in Requests, o \in Ops :
          request'[r].answers[o] \in {"none", request[r].answers[o]}
    BY <1>4 DEF SendChunk, NoBatch, NoAnswers, TypeOK
  <2>2. \A u \in Tabs : tab'[u].answers = tab[u].answers
    BY <1>4 DEF SendChunk, TypeOK, FlushState
  <2> QED
    BY <1>2, <1>4, <2>1, <2>2 DEF SendChunk
<1>5. ASSUME NEW t \in Tabs, MoveOn(t)
      PROVE  \A u \in Tabs, o \in Ops : tab'[u].answers[o] \in {"none", tab[u].answers[o]}
  BY <1>5 DEF MoveOn, NoFlush, NoAnswers, TypeOK
<1>6. ASSUME NEW t \in Tabs, Forget(t)
      PROVE  \A r \in Requests, o \in Ops :
               request'[r].answers[o] \in {"none", request[r].answers[o]}
  BY <1>6 DEF Forget, NoAnswers, TypeOK, BatchState
<1>7. ASSUME NEW t \in Tabs, CallFails(t) PROVE Truthful'
  BY <1>2, <1>5, <1>6, <1>7 DEF CallFails
<1>8. ASSUME NEW t \in Tabs, Mark(t) PROVE Truthful'
  <2>1. PICK o \in Ops :
          /\ tab[t].answers[o] # "none"
          /\ queue' = [queue EXCEPT ![o].status =
                         IF @ = "removed" THEN @ ELSE MarkedAs(tab[t].answers[o])]
          /\ LET left == [tab[t].answers EXCEPT ![o] = "none"] IN
             IF left = NoAnswers THEN MoveOn(t)
             ELSE tab' = [tab EXCEPT ![t].answers = left]
    BY <1>8 DEF Mark
  <2>2. ASSUME NEW p \in Ops
        PROVE  /\ queue'[p].status = "synced" => queue[p].status = "synced" \/ SaysDone(p)
               /\ queue'[p].status = "conflict"
                  => queue[p].status = "conflict" \/ SaysConflict(p)
    <3>1. CASE p = o
      <4>1. queue'[p].status \in {"removed", MarkedAs(tab[t].answers[p])}
        BY <2>1, <3>1 DEF TypeOK, QueuedOp
      <4> QED
        BY <4>1 DEF MarkedAs, SaysDone, SaysConflict
    <3>2. CASE p # o
      BY <2>1, <3>2 DEF TypeOK
    <3> QED
      BY <3>1, <3>2
  <2>3. \A u \in Tabs, p \in Ops : tab'[u].answers[p] \in {"none", tab[u].answers[p]}
    <3>1. MoveOn(t) \/ tab' = [tab EXCEPT ![t].answers = [tab[t].answers EXCEPT ![o] = "none"]]
      BY <2>1
    <3>2. ASSUME tab' = [tab EXCEPT ![t].answers = [tab[t].answers EXCEPT ![o] = "none"]]
          PROVE  \A u \in Tabs, p \in Ops : tab'[u].answers[p] \in {"none", tab[u].answers[p]}
      BY <3>2 DEF TypeOK, FlushState, Answers
    <3> QED
      BY <1>5, <3>1, <3>2
  <2>4. UNCHANGED <<request, record>>
    BY <1>8 DEF Mark
  <2>5. ASSUME NEW p \in Ops
        PROVE  (SaysDone(p)' => SaysDone(p)) /\ (SaysConflict(p)' => SaysConflict(p))
    BY <2>3, <2>4 DEF SaysDone, SaysConflict
  <2> QED
    BY <2>2, <2>5, TruthKept
<1>9. ASSUME NEW t \in Tabs, TabCloses(t) PROVE Truthful'
  <2>1. \A u \in Tabs, o \in Ops : tab'[u].answers[o] \in {"none", tab[u].answers[o]}
    BY <1>9 DEF TabCloses, NoFlush, NoAnswers, TypeOK
  <2> QED
    BY <1>2, <1>6, <1>9, <2>1 DEF TabCloses
<1>10. ASSUME NEW r \in Requests, Replay(r) PROVE Truthful'
  <2>1. PICK o \in request[r].todo : record[o] # "none" /\ Answer(r, o, "replay")
    BY <1>10 DEF Replay
  <2>2. o \in Ops
    BY DEF TypeOK, BatchState
  <2> QED
    BY <1>10, <2>1, <2>2, TruthTold DEF Replay
<1>11. ASSUME NEW r \in Requests, Execute(r) PROVE Truthful'
  <2>1. PICK o \in request[r].todo : \E call \in queue[o].call : \E outcome \in Outcomes(call) :
          Commit(o, call, outcome) /\ Answer(r, o, outcome)
    BY <1>11 DEF Execute
  <2>2. o \in Ops
    BY DEF TypeOK, BatchState
  <2>3. PICK call \in queue[o].call : \E outcome \in Outcomes(call) :
          Commit(o, call, outcome) /\ Answer(r, o, outcome)
    BY <2>1
  <2>4. PICK outcome \in Outcomes(call) : Commit(o, call, outcome) /\ Answer(r, o, outcome)
    BY <2>3
  <2>5. outcome \in {"success", "conflict", "error"}
    BY <2>2, <2>4, Committed
  <2>6. record'[o] = outcome
    BY <2>2, <2>4, FirstCommit
  <2> QED
    BY <1>11, <2>2, <2>4, <2>5, <2>6, TruthTold DEF Execute
<1>12. ASSUME NEW r \in Requests, ExecuteFails(r) PROVE Truthful'
  <2>1. PICK o \in request[r].todo : Answer(r, o, "error")
    BY <1>12 DEF ExecuteFails
  <2>2. o \in Ops
    BY DEF TypeOK, BatchState
  <2> QED
    BY <1>12, <2>1, <2>2, TruthTold DEF ExecuteFails
<1>13. ASSUME NEW r \in Requests, BatchDies(r) PROVE Truthful'
  BY <1>2, <1>13 DEF BatchDies, NoBatch, NoAnswers, TypeOK
<1>14. ASSUME NEW r \in Requests, Reply(r) PROVE Truthful'
  <2>1. \A t \in Tabs : tab'[t].answers \in {tab[t].answers, request[r].answers}
    BY <1>14 DEF Reply, TypeOK, FlushState
  <2>2. \A q \in Requests, o \in Ops :
          request'[q].answers[o] \in {"none", request[q].answers[o]}
    BY <1>14 DEF Reply, NoBatch, NoAnswers, TypeOK
  <2>3. ASSUME NEW o \in Ops
        PROVE  (SaysDone(o)' => SaysDone(o)) /\ (SaysConflict(o)' => SaysConflict(o))
    BY <2>1, <2>2 DEF SaysDone, SaysConflict
  <2> QED
    BY <1>14, <2>3, TruthKept DEF Reply
<1>15. ASSUME NEW x \in Rows, Edit(x) PROVE Truthful'
  BY <1>2, <1>15 DEF Edit
<1>16. CASE UNCHANGED vars
  BY <1>2, <1>16 DEF vars
<1> QED
  BY <1>1, <1>3, <1>4, <1>7, <1>8, <1>9, <1>10, <1>11, <1>12, <1>13, <1>14, <1>15, <1>16
  DEF Next, Device, Server

\* The device calls an operation synced only when the server has a result on
\* record, and a conflict only when that result is a conflict, although answers
\* outlive requests and tabs mark by what they were told.
THEOREM Settled == Spec => []SettledIsRecorded
<1>1. Spec => []Truthful
  BY Typing, TruthfulInit, TruthfulNext, PTL DEF Spec
<1>2. Truthful => SettledIsRecorded
  BY DEF Truthful
<1> QED
  BY <1>1, <1>2, PTL

-----------------------------------------------------------------------------
(* One of two edits of a version wins *)

\* OneWinsPerVersion is inductive once an applied edit is known to have moved the
\* row past the version it was made from, and a call never to change.
Outrun ==
  /\ OneWinsPerVersion
  /\ \A o \in Ops : \A c \in queue[o].call :
       applied[o] = 1 /\ c.op = "update" /\ c.base > 0 => row[c.row] > c.base
  /\ \A o \in Ops : \A c, d \in queue[o].call : c = d
  /\ \A o \in Ops : queue[o].call = {} => record[o] = "none"
  /\ \A o \in Ops : queue[o].status = "absent" => queue[o].call = {}

LEMMA OutrunInit == Init => Outrun
  BY DEF Init, Outrun, OneWinsPerVersion

\* Steps that neither commit nor enqueue: calls stay, rows only grow.
LEMMA OutrunKept ==
  ASSUME TypeOK, Outrun, UNCHANGED <<record, applied>>,
         \A x \in Rows : row'[x] >= row[x], row' \in [Rows -> Nat],
         \A o \in Ops : queue'[o].call = queue[o].call,
         \A o \in Ops : queue'[o].status = "absent" => queue[o].status = "absent"
  PROVE  Outrun'
<1>1. OneWinsPerVersion'
  BY DEF Outrun, OneWinsPerVersion
<1>2. ASSUME NEW o \in Ops, NEW c \in queue[o].call,
             applied[o] = 1, c.op = "update", c.base > 0
      PROVE  row'[c.row] > c.base
  <2>1. c.row \in Rows /\ c.base \in Nat
    BY DEF TypeOK, QueuedOp, Call
  <2>2. row[c.row] > c.base
    BY <1>2 DEF Outrun
  <2>3. row'[c.row] >= row[c.row] /\ row'[c.row] \in Nat /\ row[c.row] \in Nat
    BY <2>1 DEF TypeOK
  <2> QED
    BY <2>1, <2>2, <2>3
<1> QED
  BY <1>1, <1>2 DEF Outrun

LEMMA OutrunCommit ==
  ASSUME TypeOK, AppliedOnce, Outrun, UNCHANGED queue,
         NEW o \in Ops, NEW call \in queue[o].call, NEW outcome \in Outcomes(call),
         record[o] = "none", Commit(o, call, outcome)
  PROVE  Outrun'
<1>1. call \in Call /\ call.row \in Rows /\ row[call.row] \in Nat
  BY DEF TypeOK, QueuedOp, Call
<1>2. \A p \in Ops : p # o => record'[p] = record[p] /\ applied'[p] = applied[p]
  BY FirstCommit
<1>3. applied[o] = 0 /\ applied'[o] = (IF outcome = "success" THEN 1 ELSE 0)
  BY FirstCommit DEF AppliedOnce
<1>4. \A x \in Rows : row[x] \in Nat /\ row'[x] \in Nat /\ row'[x] >= row[x]
  BY <1>1 DEF Commit, TypeOK
<1>5. ASSUME outcome = "success", call.op = "update", call.base > 0
      PROVE  call.base = row[call.row] /\ row'[call.row] = row[call.row] + 1
  <2>1. call.base = row[call.row]
    BY <1>1, <1>5 DEF Outcomes, Call
  <2>2. row'[call.row] = row[call.row] + 1
    BY <1>1, <1>5 DEF Commit, TypeOK
  <2> QED
    BY <2>1, <2>2
<1>6. ASSUME NEW p \in Ops, NEW c \in queue[p].call,
             applied'[p] = 1, c.op = "update", c.base > 0
      PROVE  row'[c.row] > c.base
  <2>1. c.row \in Rows /\ c.base \in Nat
    BY DEF TypeOK, QueuedOp, Call
  <2>2. CASE p = o
    <3>1. c = call /\ outcome = "success"
      BY <1>3, <1>6, <2>2 DEF Outrun
    <3> QED
      BY <1>1, <1>5, <1>6, <2>1, <3>1
  <2>3. CASE p # o
    <3>1. row[c.row] > c.base
      BY <1>2, <1>6, <2>3 DEF Outrun
    <3> QED
      BY <1>4, <2>1, <3>1
  <2> QED
    BY <2>2, <2>3
<1>7. ASSUME NEW p \in Ops, NEW q \in Ops, p # q, NEW c \in queue[p].call,
             NEW d \in queue[q].call, c.op = "update", d.op = "update",
             c.row = d.row, c.base = d.base, c.base > 0,
             applied'[p] = 1, applied'[q] = 1
      PROVE  FALSE
  <2>1. ASSUME NEW a \in Ops, NEW b \in Ops, a # b, a = o,
               NEW e \in queue[a].call, NEW f \in queue[b].call,
               e.op = "update", f.op = "update", e.row = f.row, e.base = f.base,
               e.base > 0, applied'[a] = 1, applied'[b] = 1
        PROVE  FALSE
    <3>1. e = call /\ outcome = "success"
      BY <1>3, <2>1 DEF Outrun
    <3>2. e.base = row[e.row]
      BY <1>5, <2>1, <3>1
    <3>3. applied[b] = 1
      BY <1>2, <2>1
    <3>4. row[f.row] > f.base
      BY <2>1, <3>3 DEF Outrun
    <3> QED
      BY <1>1, <2>1, <3>1, <3>2, <3>4
  <2>2. p # o /\ q # o
    BY <1>7, <2>1
  <2>3. applied[p] = 1 /\ applied[q] = 1
    BY <1>2, <1>7, <2>2
  <2> QED
    BY <1>7, <2>3 DEF Outrun, OneWinsPerVersion
<1>8. OneWinsPerVersion'
  BY <1>7 DEF OneWinsPerVersion
<1>9. \A p \in Ops : queue[p].call = {} => record'[p] = "none"
  BY <1>2 DEF Outrun
<1> QED
  BY <1>6, <1>8, <1>9 DEF Outrun

LEMMA OutrunNext == TypeOK /\ AppliedOnce /\ Outrun /\ [Next]_vars => Outrun'
<1> SUFFICES ASSUME TypeOK, AppliedOnce, Outrun, [Next]_vars PROVE Outrun'
  OBVIOUS
<1>1. ASSUME UNCHANGED <<record, applied, row>>,
             \A o \in Ops : queue'[o].call = queue[o].call,
             \A o \in Ops : queue'[o].status = "absent" => queue[o].status = "absent"
      PROVE  Outrun'
  BY <1>1, OutrunKept DEF TypeOK
<1>2. ASSUME NEW o \in Ops, Enqueue(o) PROVE Outrun'
  <2>1. PICK op \in {"create", "update", "unfit"}, x \in Rows : \E base \in 0..row[x] :
          queue' = [queue EXCEPT ![o] =
            [status |-> "pending", call |-> {[op |-> op, row |-> x, base |-> base]}]]
    BY <1>2 DEF Enqueue
  <2>2. PICK base \in 0..row[x] :
          queue' = [queue EXCEPT ![o] =
            [status |-> "pending", call |-> {[op |-> op, row |-> x, base |-> base]}]]
    BY <2>1
  <2> DEFINE call == [op |-> op, row |-> x, base |-> base]
  <2>3. \A p \in Ops : queue'[p] =
          IF p = o THEN [status |-> "pending", call |-> {call}] ELSE queue[p]
    BY <2>2 DEF TypeOK
  <2>4. UNCHANGED <<record, row, applied>>
    BY <1>2 DEF Enqueue
  <2>5. applied[o] = 0 /\ record[o] = "none"
    BY <1>2 DEF Enqueue, Outrun, AppliedOnce
  <2> HIDE DEF call
  <2>6. OneWinsPerVersion'
    BY <2>3, <2>4, <2>5 DEF Outrun, OneWinsPerVersion
  <2> QED
    BY <2>3, <2>4, <2>5, <2>6 DEF Outrun
<1>3. ASSUME NEW o \in Ops, Requeue(o) \/ Remove(o) PROVE Outrun'
  <2>1. \A p \in Ops : /\ queue'[p].call = queue[p].call
                       /\ queue'[p].status = "absent" => queue[p].status = "absent"
    BY <1>3 DEF Requeue, Remove, TypeOK, QueuedOp
  <2> QED
    BY <1>1, <1>3, <2>1 DEF Requeue, Remove
<1>4. ASSUME NEW t \in Tabs, Flush(t) \/ SendChunk(t) \/ CallFails(t) \/ TabCloses(t)
      PROVE  Outrun'
  BY <1>1, <1>4 DEF Flush, SendChunk, CallFails, TabCloses
<1>5. ASSUME NEW t \in Tabs, Mark(t) PROVE Outrun'
  <2>1. PICK o \in Ops : queue' = [queue EXCEPT ![o].status =
                           IF @ = "removed" THEN @ ELSE MarkedAs(tab[t].answers[o])]
    BY <1>5 DEF Mark
  <2>2. MarkedAs(tab[t].answers[o]) # "absent"
    BY DEF MarkedAs
  <2>3. \A p \in Ops : /\ queue'[p].call = queue[p].call
                       /\ queue'[p].status = "absent" => queue[p].status = "absent"
    BY <2>1, <2>2 DEF TypeOK, QueuedOp
  <2> QED
    BY <1>1, <1>5, <2>3 DEF Mark
<1>6. ASSUME NEW r \in Requests, Replay(r) \/ BatchDies(r) \/ Reply(r) PROVE Outrun'
  BY <1>1, <1>6 DEF Replay, BatchDies, Reply
<1>7. ASSUME NEW r \in Requests PROVE request[r].todo \subseteq Ops
  BY DEF TypeOK, BatchState
<1>8. ASSUME NEW r \in Requests, Execute(r) PROVE Outrun'
  BY <1>7, <1>8, OutrunCommit DEF Execute
<1>9. ASSUME NEW r \in Requests, ExecuteFails(r) PROVE Outrun'
  BY <1>1, <1>7, <1>9, OutrunCommit DEF ExecuteFails
<1>10. ASSUME NEW x \in Rows, Edit(x) PROVE Outrun'
  <2>1. \A y \in Rows : row'[y] >= row[y] /\ row'[y] \in Nat
    BY <1>10 DEF Edit, TypeOK
  <2>2. row' \in [Rows -> Nat]
    BY <1>10 DEF Edit, TypeOK
  <2> QED
    BY <1>10, <2>1, <2>2, OutrunKept DEF Edit
<1>11. CASE UNCHANGED vars
  BY <1>1, <1>11 DEF vars
<1> QED
  BY <1>2, <1>3, <1>4, <1>5, <1>6, <1>8, <1>9, <1>10, <1>11 DEF Next, Device, Server

\* Of two operations made from the same version of a row at most one is ever
\* applied, in whatever order, batch or request they arrive.
THEOREM OneWins == Spec => []OneWinsPerVersion
<1>1. Spec => []AppliedOnce
  BY Once
<1>2. Spec => []Outrun
  BY Typing, <1>1, OutrunInit, OutrunNext, PTL DEF Spec
<1>3. Outrun => OneWinsPerVersion
  BY DEF Outrun
<1> QED
  BY <1>2, <1>3, PTL
=============================================================================
