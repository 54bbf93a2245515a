------------------------ MODULE JobScheduler_proofs ------------------------
(* Proofs about JobScheduler, for every value of its constants.             *)
EXTENDS JobScheduler, FiniteSetTheorems, TLAPS

\* The constants' assumptions, and what they say of the idle values.
LEMMA Constants ==
  /\ \A type \in JobTypes, max \in Int, due \in BOOLEAN :
       QueuedRow(type, max, due) \in JobRow
  /\ NoRow \in JobRow
  /\ NoDef \in DefRow
  /\ IdleTick \in TickState
  /\ \A s \in DefSpecs : s.interval \in Nat /\ s.max \in Int /\ s.type \in JobTypes
<1>1. \A type \in JobTypes, max \in Int, due \in BOOLEAN :
        QueuedRow(type, max, due) \in JobRow
  BY DEF QueuedRow, JobRow, Statuses, Locks
<1>2. (CHOOSE ty \in JobTypes : TRUE) \in JobTypes
  BY TypesAssumption
<1>3. NoRow \in JobRow
  <2>1. \A row \in JobRow : [row EXCEPT !.status = "absent"] \in JobRow
    BY DEF JobRow, Statuses
  <2>2. \A ty \in JobTypes : QueuedRow(ty, 0, FALSE) \in JobRow
    BY DEF QueuedRow, JobRow, Statuses, Locks
  <2> QED BY <1>2, <2>1, <2>2, Zenon DEF NoRow
<1>4. (CHOOSE s \in DefSpecs : TRUE) \in DefSpecs
  BY SpecsAssumption
<1>5. NoDef \in DefRow
  BY <1>4 DEF NoDef, DefRow
<1>6. IdleTick \in TickState
  BY DEF IdleTick, TickState, Places
<1>7. \A s \in DefSpecs : s.interval \in Nat /\ s.max \in Int /\ s.type \in JobTypes
  BY SpecsAssumption
<1> QED BY <1>1, <1>3, <1>5, <1>6, <1>7

\* The ticks in any set of them can be counted.
LEMMA TicksCounted ==
  ASSUME NEW S \in SUBSET Ticks
  PROVE  /\ IsFiniteSet(S) /\ Cardinality(S) \in Nat
         /\ Cardinality(S) <= Cardinality(Ticks) /\ Cardinality(Ticks) \in Nat \ {0}
<1>1. IsFiniteSet(S) /\ Cardinality(S) <= Cardinality(Ticks)
  BY TicksAssumption, FS_Subset
<1>2. Cardinality(S) \in Nat /\ Cardinality(Ticks) \in Nat
  BY <1>1, TicksAssumption, FS_CardinalityType
<1>3. Cardinality(Ticks) # 0
  BY TicksAssumption, FS_EmptySet
<1> QED BY <1>1, <1>2, <1>3

LEMMA RecountType ==
  ASSUME Recount, fired \in [Defs -> Nat \cup {Edited}]
  PROVE  fired' \in [Defs -> Nat \cup {Edited}]
<1>1. ASSUME NEW d \in Defs PROVE Cardinality(Recording(d)') \in Nat
  <2>1. Recording(d)' \in SUBSET Ticks
    BY DEF Recording
  <2> QED BY <2>1, TicksCounted
<1> QED BY <1>1 DEF Recount

LEMMA TypeInit == Init => TypeOK
<1> SUFFICES ASSUME Init PROVE TypeOK
  OBVIOUS
<1>1. jobs \in [JobIds -> JobRow]
  BY Constants DEF Init
<1>2. defs \in [Defs -> DefRow]
  <2>1. \A s \in DefSpecs :
          [present |-> TRUE, enabled |-> TRUE, eta |-> 1, spec |-> s] \in DefRow
    BY DEF DefRow
  <2>2. ReadyDefs \subseteq DefRow
    BY <2>1, Zenon DEF ReadyDefs
  <2> QED BY <2>2, Constants DEF Init
<1>3. tick \in [Ticks -> TickState] /\ \A t \in Ticks : tick[t].pc = "idle"
  BY Constants DEF Init, IdleTick
<1> QED BY <1>1, <1>2, <1>3, BoundsAssumption DEF Init, TypeOK, Holding, JobIds

\* A tick that goes on to another place, with less in hand or as much as before.
LEMMA TickMoves ==
  ASSUME TypeOK, NEW t \in Ticks, NEW pc \in Places, NEW C \in SUBSET Entry,
         tick' = [tick EXCEPT ![t] = [@ EXCEPT !.pc = pc, !.current = C]],
         pc \in Holding => tick[t].pc \in Holding
  PROVE  /\ tick' \in [Ticks -> TickState]
         /\ \A u \in Ticks : tick'[u].pc \in Holding => tick'[u].job \in JobIds
<1> DEFINE row == [tick[t] EXCEPT !.pc = pc, !.current = C]
<1>1. tick[t] \in TickState
  BY DEF TypeOK
<1>2. row \in TickState /\ row.pc = pc /\ row.job = tick[t].job
  BY <1>1 DEF TickState
<1>3. tick' = [tick EXCEPT ![t] = row]
  OBVIOUS
<1> HIDE DEF row
<1>4. tick' \in [Ticks -> TickState]
  BY <1>2, <1>3 DEF TypeOK
<1>5. \A u \in Ticks : tick'[u] = IF u = t THEN row ELSE tick[u]
  BY <1>3 DEF TypeOK
<1> QED BY <1>2, <1>4, <1>5 DEF TypeOK

LEMMA TickGoes ==
  ASSUME TypeOK, NEW t \in Ticks, NEW pc \in Places, Goto(t, pc),
         pc \in Holding => tick[t].pc \in Holding
  PROVE  /\ tick' \in [Ticks -> TickState]
         /\ \A u \in Ticks : tick'[u].pc \in Holding => tick'[u].job \in JobIds
<1>1. tick[t].current \in SUBSET Entry /\ tick[t] \in TickState
  BY DEF TypeOK, TickState
<1>2. [tick[t] EXCEPT !.pc = pc] = [tick[t] EXCEPT !.pc = pc, !.current = tick[t].current]
  BY <1>1 DEF TickState
<1>3. tick' = [tick EXCEPT ![t] = [@ EXCEPT !.pc = pc, !.current = tick[t].current]]
  BY <1>2 DEF Goto
<1> QED BY <1>1, <1>3, TickMoves

LEMMA TypeSelectDue ==
  ASSUME TypeOK, NEW t \in Ticks, SelectDue(t)
  PROVE  TypeOK'
<1> DEFINE due == {[def |-> d, spec |-> defs[d].spec] : d \in {d \in Defs : IsDue(d)}}
           row == [tick[t] EXCEPT !.pc = "promote", !.batch = due]
<1>1. due \in SUBSET Entry
  BY DEF TypeOK, Entry, DefRow
<1>2. tick' = [tick EXCEPT ![t] = row] /\ UNCHANGED <<jobs, inserted, defs, fired, clock>>
  BY DEF SelectDue
<1> HIDE DEF due
<1>3. row \in TickState /\ row.pc \notin Holding
  BY <1>1 DEF TypeOK, TickState, Places, Holding
<1> HIDE DEF row
<1>4. tick' \in [Ticks -> TickState] /\ \A u \in Ticks : tick'[u] = IF u = t THEN row ELSE tick[u]
  BY <1>2, <1>3 DEF TypeOK
<1> QED BY <1>2, <1>3, <1>4 DEF TypeOK

LEMMA TypeAdvanceFails ==
  ASSUME TypeOK, NEW t \in Ticks, PromoteAdvanceFails(t)
  PROVE  TypeOK'
<1>1. fired' \in [Defs -> Nat \cup {Edited}]
  BY RecountType DEF PromoteAdvanceFails, TypeOK
<1>2. "promote" \in Places /\ "promote" \notin Holding /\ {} \in SUBSET Entry
  BY DEF Places, Holding
<1>3. tick' = [tick EXCEPT ![t] = [@ EXCEPT !.pc = "promote", !.current = {}]]
      /\ UNCHANGED <<jobs, defs, inserted, clock>>
  BY DEF PromoteAdvanceFails
<1>4. tick' \in [Ticks -> TickState]
      /\ \A u \in Ticks : tick'[u].pc \in Holding => tick'[u].job \in JobIds
  BY <1>2, <1>3, TickMoves
<1> QED BY <1>1, <1>3, <1>4 DEF TypeOK

LEMMA TypeNext == TypeOK /\ [Next]_vars => TypeOK'
<1> SUFFICES ASSUME TypeOK, [Next]_vars PROVE TypeOK'
  OBVIOUS
<1> USE DEF TypeOK
<1>1. CASE Enqueue
  BY <1>1, Constants, BoundsAssumption, LimitsAssumption DEF Enqueue, Insert, JobIds
<1>2. ASSUME NEW t \in Ticks, StartTick(t) PROVE TypeOK'
  <2>1. "select" \in Places /\ "select" \notin Holding /\ Goto(t, "select")
    BY <1>2 DEF StartTick, Places, Holding
  <2>2. tick' \in [Ticks -> TickState]
        /\ \A u \in Ticks : tick'[u].pc \in Holding => tick'[u].job \in JobIds
    BY <2>1, TickGoes
  <2> QED BY <1>2, <2>2 DEF StartTick
<1>3. ASSUME NEW t \in Ticks, SelectDue(t) PROVE TypeOK'
  BY <1>3, TypeSelectDue, Zenon
<1>4. ASSUME NEW t \in Ticks, PromoteInsert(t) PROVE TypeOK'
  <2>1. PICK e \in tick[t].batch :
          /\ Insert(e.spec.type, e.spec.max, TRUE)
          /\ tick' = [tick EXCEPT ![t].pc = "advance", ![t].current = {e},
                                  ![t].batch = @ \ {e}]
          /\ fired' = IF Counted(e.def) THEN [fired EXCEPT ![e.def] = @ + 1] ELSE fired
    BY <1>4 DEF PromoteInsert
  <2>2. e \in Entry
    BY <2>1 DEF TickState
  <2>3. QueuedRow(e.spec.type, e.spec.max, TRUE) \in JobRow
    BY <2>2, Constants DEF Entry
  <2>4. jobs' \in [JobIds -> JobRow] /\ inserted' \in 0..MaxJobs
    <3> DEFINE row == QueuedRow(e.spec.type, e.spec.max, TRUE)
    <3>1. row \in JobRow
      BY <2>3
    <3>2. inserted < MaxJobs /\ inserted' = inserted + 1
          /\ jobs' = [jobs EXCEPT ![inserted + 1] = row]
      BY <2>1 DEF Insert
    <3> HIDE DEF row
    <3> QED BY <3>1, <3>2, BoundsAssumption DEF JobIds
  <2>5. tick' \in [Ticks -> TickState]
    BY <2>1, <2>2 DEF TickState, Places
  <2>6. fired' \in [Defs -> Nat \cup {Edited}]
    BY <2>1, <2>2 DEF Entry, Counted, Edited
  <2> QED BY <1>4, <2>1, <2>4, <2>5, <2>6 DEF PromoteInsert, Holding
<1>5. ASSUME NEW t \in Ticks, PromoteSkip(t) PROVE TypeOK'
  BY <1>5 DEF PromoteSkip, TickState, Places, Holding, Entry
<1>6. ASSUME NEW t \in Ticks, PromoteAdvance(t) PROVE TypeOK'
  BY <1>6, Constants DEF PromoteAdvance, AdvancedRow, DefRow, TickState, Places, Holding, Entry
<1>7. ASSUME NEW t \in Ticks, PromoteAdvanceFails(t) PROVE TypeOK'
  BY <1>7, TypeAdvanceFails, Zenon
<1>8. ASSUME NEW t \in Ticks, PromoteDone(t) PROVE TypeOK'
  <2>1. "claim" \in Places /\ "claim" \notin Holding /\ Goto(t, "claim")
    BY <1>8 DEF PromoteDone, Places, Holding
  <2>2. tick' \in [Ticks -> TickState]
        /\ \A u \in Ticks : tick'[u].pc \in Holding => tick'[u].job \in JobIds
    BY <2>1, TickGoes
  <2> QED BY <1>8, <2>2 DEF PromoteDone
<1>9. ASSUME NEW t \in Ticks, Claim(t) PROVE TypeOK'
  BY <1>9 DEF Claim, Claimable, JobRow, Statuses, Locks, TickState, Places, Holding, JobIds
<1>10. ASSUME NEW t \in Ticks, ClaimNone(t) PROVE TypeOK'
  BY <1>10, Constants DEF ClaimNone, Finish, IdleTick, Holding
<1>11. ASSUME NEW t \in Ticks, HandlerReturns(t) PROVE TypeOK'
  <2>1. "complete" \in Places /\ Goto(t, "complete") /\ tick[t].pc \in Holding
    BY <1>11 DEF HandlerReturns, Places, Holding
  <2>2. tick' \in [Ticks -> TickState]
        /\ \A u \in Ticks : tick'[u].pc \in Holding => tick'[u].job \in JobIds
    BY <2>1, TickGoes
  <2> QED BY <1>11, <2>2 DEF HandlerReturns
<1>12. ASSUME NEW t \in Ticks, HandlerThrows(t) PROVE TypeOK'
  <2>1. "fail" \in Places /\ Goto(t, "fail") /\ tick[t].pc \in Holding
    BY <1>12 DEF HandlerThrows, Places, Holding
  <2>2. tick' \in [Ticks -> TickState]
        /\ \A u \in Ticks : tick'[u].pc \in Holding => tick'[u].job \in JobIds
    BY <2>1, TickGoes
  <2> QED BY <1>12, <2>2 DEF HandlerThrows
<1>13. ASSUME NEW t \in Ticks, Complete(t) PROVE TypeOK'
  BY <1>13, Constants DEF Complete, Finish, IdleTick, JobRow, Statuses, Locks, Holding
<1>14. ASSUME NEW t \in Ticks, CompleteFails(t) PROVE TypeOK'
  <2>1. "fail" \in Places /\ Goto(t, "fail") /\ tick[t].pc \in Holding
    BY <1>14 DEF CompleteFails, Places, Holding
  <2>2. tick' \in [Ticks -> TickState]
        /\ \A u \in Ticks : tick'[u].pc \in Holding => tick'[u].job \in JobIds
    BY <2>1, TickGoes
  <2> QED BY <1>14, <2>2 DEF CompleteFails
<1>15. ASSUME NEW t \in Ticks, Fail(t) PROVE TypeOK'
  <2>1. \A row \in JobRow, spent \in BOOLEAN :
          [row EXCEPT !.status = IF spent THEN "failed" ELSE "queued",
                      !.due    = IF spent THEN @ ELSE FALSE,
                      !.lock   = "none"] \in JobRow
    BY DEF JobRow, Statuses, Locks
  <2>2. jobs' \in [JobIds -> JobRow]
    BY <1>15, <2>1 DEF Fail, Holding, Exhausted
  <2>3. tick' \in [Ticks -> TickState] /\ tick'[t].pc = "idle"
    BY <1>15, Constants DEF Fail, Finish, IdleTick
  <2> QED BY <1>15, <2>2, <2>3 DEF Fail, Finish, Holding
<1>16. ASSUME NEW t \in Ticks, FailFails(t) PROVE TypeOK'
  BY <1>16, Constants DEF FailFails, Finish, IdleTick, Holding
<1>17. CASE Passing
  <2>1. ASSUME NEW j \in JobIds, JobFallsDue(j) PROVE TypeOK'
    BY <2>1 DEF JobFallsDue, JobRow
  <2>2. ASSUME NEW j \in JobIds, LockExpires(j) PROVE TypeOK'
    BY <2>2 DEF LockExpires, JobRow, Locks
  <2>3. ASSUME NEW d \in Defs, DefClock(d) PROVE TypeOK'
    <3>1. Cardinality(Recording(d)) \in Nat
      BY TicksCounted DEF Recording
    <3> QED BY <2>3, <3>1 DEF DefClock, DefRow
  <2> QED BY <1>17, <2>1, <2>2, <2>3 DEF Passing
<1>18. CASE Administration
  <2>1. ASSUME NEW j \in JobIds, Retry(j) PROVE TypeOK'
    <3>1. \A row \in JobRow : [row EXCEPT !.status = "queued", !.attempts = 0,
                                 !.lock = "none", !.due = TRUE] \in JobRow
      BY DEF JobRow, Statuses, Locks
    <3> QED BY <2>1, <3>1 DEF Retry
  <2>2. ASSUME NEW d \in Defs, EditDef(d) PROVE TypeOK'
    BY <2>2 DEF EditDef, DefRow
  <2>3. ASSUME NEW d \in Defs, DeleteDef(d) PROVE TypeOK'
    BY <2>3, Constants DEF DeleteDef
  <2> QED BY <1>18, <2>1, <2>2, <2>3 DEF Administration
<1>19. ASSUME NEW p \in Procs, Crash(p) PROVE TypeOK'
  BY <1>19, Constants, RecountType DEF Crash, IdleTick, Holding
<1>20. CASE UNCHANGED vars
  BY <1>20 DEF vars
<1>21. ASSUME NEW t \in Ticks, SelectFails(t) PROVE TypeOK'
  BY <1>21, Constants DEF SelectFails, Finish, IdleTick, Holding
<1> QED
  BY <1>1, <1>2, <1>3, <1>4, <1>5, <1>6, <1>7, <1>8, <1>9, <1>10, <1>11, <1>12,
     <1>13, <1>14, <1>15, <1>16, <1>17, <1>18, <1>19, <1>20, <1>21
  DEF Next, Promotion, Execution

\* Every reachable state is well typed.
THEOREM Typing == Spec => []TypeOK
  BY TypeInit, TypeNext, PTL DEF Spec

-----------------------------------------------------------------------------
\* What the unguarded UPDATEs of _completeJob and _failJob rely on, made
\* inductive: a held job is running as it was claimed, it has one holder, and
\* ids not yet handed out have no row (an INSERT overwrites nothing).
IdsAheadAbsent == \A j \in JobIds : j > inserted => jobs[j].status = "absent"

Ownership == HeldIsRunning /\ SingleOwner /\ IdsAheadAbsent

LEMMA OwnershipInit == Init => Ownership
  BY Constants DEF Init, Ownership, HeldIsRunning, SingleOwner, IdsAheadAbsent,
     Holds, IdleTick, Holding, NoRow, QueuedRow

\* Rows that are not running may change as long as no tick starts to hold one.
LEMMA NoNewHolder ==
  ASSUME Ownership, IdsAheadAbsent',
         \A j \in JobIds : jobs[j].status = "running"
           => jobs'[j].status = "running" /\ jobs'[j].attempts = jobs[j].attempts,
         \A t \in Ticks, j \in JobIds :
           Holds(t, j)' => Holds(t, j) /\ tick'[t].attempts = tick[t].attempts
  PROVE  Ownership'
  BY DEF Ownership, HeldIsRunning, SingleOwner

\* A tick that settles the job it holds, or gives up on it, lets go of it; the
\* rows of the other jobs stay.
LEMMA LettingGo ==
  ASSUME TypeOK, Ownership, NEW t \in Ticks, tick[t].pc \in Holding, Finish(t),
         inserted' = inserted,
         jobs'[tick[t].job].status # "absent",
         \A j \in JobIds \ {tick[t].job} : jobs'[j] = jobs[j]
  PROVE  Ownership'
<1>1. tick[t].job \in JobIds /\ Holds(t, tick[t].job)
  BY DEF TypeOK, Holds
<1>2. ~(tick'[t].pc \in Holding) /\ \A u \in Ticks \ {t} : tick'[u] = tick[u]
  BY DEF Finish, TypeOK, IdleTick, Holding
<1>3. ASSUME NEW u \in Ticks, NEW j \in JobIds, Holds(u, j)'
      PROVE  u # t /\ Holds(u, j) /\ j # tick[t].job /\ jobs'[j] = jobs[j]
             /\ tick'[u] = tick[u]
  BY <1>1, <1>2, <1>3 DEF Ownership, SingleOwner, Holds
<1>4. HeldIsRunning' /\ SingleOwner'
  BY <1>3 DEF Ownership, HeldIsRunning, SingleOwner
<1>5. IdsAheadAbsent'
  <2>1. jobs[tick[t].job].status = "running"
    BY <1>1 DEF Ownership, HeldIsRunning
  <2> QED BY <1>1, <2>1 DEF Ownership, IdsAheadAbsent, JobIds
<1> QED BY <1>4, <1>5 DEF Ownership

\* No tick holds a job while it promotes.
LEMMA PromotionHoldsNothing ==
  ASSUME TypeOK, NEW t \in Ticks, Promotion(t), ~PromoteInsert(t)
  PROVE  tick'[t].pc \notin Holding /\ \A u \in Ticks \ {t} : tick'[u] = tick[u]
<1>1. CASE PromoteSkip(t)
  <2>1. PICK e \in tick[t].batch : tick' = [tick EXCEPT ![t].batch = @ \ {e}]
    BY <1>1 DEF PromoteSkip
  <2> QED BY <1>1, <2>1 DEF PromoteSkip, TypeOK, TickState, Holding
<1>2. CASE SelectDue(t)
  BY <1>2 DEF SelectDue, TypeOK, TickState, Holding
<1>3. CASE StartTick(t) \/ PromoteAdvance(t) \/ PromoteAdvanceFails(t) \/ PromoteDone(t)
  BY <1>3 DEF StartTick, PromoteAdvance, PromoteAdvanceFails, PromoteDone, Goto,
       TypeOK, TickState, Holding
<1>4. CASE SelectFails(t)
  BY <1>4 DEF SelectFails, Finish, IdleTick, TypeOK, Holding
<1> QED BY <1>1, <1>2, <1>3, <1>4 DEF Promotion

LEMMA OwnershipNext == TypeOK /\ Ownership /\ [Next]_vars => Ownership'
<1> SUFFICES ASSUME TypeOK, Ownership, [Next]_vars PROVE Ownership'
  OBVIOUS
<1>1. ASSUME NEW row, inserted < MaxJobs, inserted' = inserted + 1,
             jobs' = [jobs EXCEPT ![inserted + 1] = row]
      PROVE  /\ IdsAheadAbsent'
             /\ \A j \in JobIds : jobs[j].status = "running" => jobs'[j] = jobs[j]
  BY <1>1, BoundsAssumption DEF TypeOK, Ownership, IdsAheadAbsent, JobIds
<1>2. CASE Enqueue
  <2>1. PICK row : /\ inserted < MaxJobs /\ inserted' = inserted + 1
                   /\ jobs' = [jobs EXCEPT ![inserted + 1] = row]
    BY <1>2 DEF Enqueue, Insert
  <2> QED BY <1>1, <1>2, <2>1, NoNewHolder DEF Enqueue, Holds
<1>3. ASSUME NEW t \in Ticks, PromoteInsert(t) PROVE Ownership'
  <2>1. PICK e \in tick[t].batch :
          /\ Insert(e.spec.type, e.spec.max, TRUE)
          /\ tick' = [tick EXCEPT ![t].pc = "advance", ![t].current = {e},
                                  ![t].batch = @ \ {e}]
    BY <1>3 DEF PromoteInsert
  <2>2. tick'[t].pc \notin Holding /\ \A u \in Ticks \ {t} : tick'[u] = tick[u]
    BY <2>1 DEF TypeOK, Holding
  <2> QED BY <1>1, <2>1, <2>2, NoNewHolder DEF Insert, Holds
<1>4. ASSUME NEW t \in Ticks, Promotion(t), ~PromoteInsert(t) PROVE Ownership'
  <2>1. jobs' = jobs /\ inserted' = inserted
    BY <1>4 DEF Promotion, StartTick, SelectDue, SelectFails, PromoteSkip, PromoteAdvance,
         PromoteAdvanceFails, PromoteDone
  <2>2. tick'[t].pc \notin Holding /\ \A u \in Ticks \ {t} : tick'[u] = tick[u]
    BY <1>4, PromotionHoldsNothing
  <2> QED BY <2>1, <2>2, NoNewHolder DEF Holds, Ownership, IdsAheadAbsent
<1>5. ASSUME NEW t \in Ticks, Claim(t) PROVE Ownership'
  <2>1. PICK j \in JobIds :
          /\ Claimable(j)
          /\ jobs' = [jobs EXCEPT ![j].status = "running", ![j].lock = "held",
                                  ![j].attempts = @ + 1]
          /\ tick' = [tick EXCEPT ![t].job = j, ![t].attempts = jobs[j].attempts + 1,
               ![t].pc = IF jobs[j].type \in Handlers THEN "handler" ELSE "fail"]
    BY <1>5 DEF Claim
  <2>2. \A k \in JobIds \ {j} : jobs'[k] = jobs[k]
    BY <2>1 DEF TypeOK
  <2>3. jobs[j].status = "queued" /\ jobs'[j].status = "running"
        /\ jobs'[j].attempts = jobs[j].attempts + 1
    BY <2>1 DEF TypeOK, JobRow, Claimable
  <2>4. /\ tick'[t].job = j /\ tick'[t].attempts = jobs[j].attempts + 1
        /\ \A u \in Ticks \ {t} : tick'[u] = tick[u]
    BY <2>1 DEF TypeOK, TickState
  <2>5. \A u \in Ticks : ~Holds(u, j)
    BY <2>3 DEF Ownership, HeldIsRunning
  <2>6. \A u \in Ticks, k \in JobIds :
          Holds(u, k)' => \/ u = t /\ k = j
                          \/ u # t /\ k # j /\ Holds(u, k) /\ tick'[u] = tick[u]
    BY <2>4, <2>5 DEF Holds
  <2>7. HeldIsRunning' /\ SingleOwner'
    BY <2>2, <2>3, <2>4, <2>6 DEF Ownership, HeldIsRunning, SingleOwner
  <2>8. IdsAheadAbsent'
    <3>1. inserted' = inserted
      BY <1>5 DEF Claim
    <3> QED BY <2>2, <2>3, <3>1 DEF Ownership, IdsAheadAbsent
  <2> QED BY <2>7, <2>8 DEF Ownership
<1>6. ASSUME NEW t \in Ticks, ClaimNone(t) PROVE Ownership'
  <2>1. tick'[t].pc \notin Holding /\ \A u \in Ticks \ {t} : tick'[u] = tick[u]
    BY <1>6 DEF ClaimNone, Finish, IdleTick, TypeOK, Holding
  <2> QED BY <1>6, <2>1, NoNewHolder DEF ClaimNone, Holds, Ownership, IdsAheadAbsent
<1>7. ASSUME NEW t \in Ticks, HandlerReturns(t) \/ HandlerThrows(t) \/ CompleteFails(t)
      PROVE  Ownership'
  <2>1. /\ jobs' = jobs /\ inserted' = inserted
        /\ tick[t].pc \in Holding
        /\ tick'[t].job = tick[t].job /\ tick'[t].attempts = tick[t].attempts
        /\ \A u \in Ticks \ {t} : tick'[u] = tick[u]
    BY <1>7 DEF HandlerReturns, HandlerThrows, CompleteFails, Goto, TypeOK, TickState, Holding
  <2> QED BY <2>1, NoNewHolder DEF Holds, Ownership, IdsAheadAbsent
<1>8. ASSUME NEW t \in Ticks, Complete(t) \/ Fail(t) \/ FailFails(t) PROVE Ownership'
  <2>1. tick[t].pc \in Holding /\ Finish(t) /\ inserted' = inserted
    BY <1>8 DEF Complete, Fail, FailFails, Holding
  <2>2. jobs[tick[t].job].status = "running"
    BY <2>1 DEF TypeOK, Ownership, HeldIsRunning, Holds
  <2>3. jobs'[tick[t].job].status # "absent"
        /\ \A j \in JobIds \ {tick[t].job} : jobs'[j] = jobs[j]
    BY <1>8, <2>1, <2>2 DEF Complete, Fail, FailFails, TypeOK, JobRow
  <2> QED BY <2>1, <2>3, LettingGo
<1>9. CASE Passing \/ Administration
  <2>1. tick' = tick /\ inserted' = inserted
    BY <1>9 DEF Passing, JobFallsDue, LockExpires, DefClock,
         Administration, Retry, EditDef, DeleteDef
  <2>2. \A j \in JobIds :
          /\ jobs[j].status = "running"
               => jobs'[j].status = "running" /\ jobs'[j].attempts = jobs[j].attempts
          /\ jobs[j].status = "absent" => jobs'[j].status = "absent"
    <3>1. ASSUME NEW k \in JobIds, JobFallsDue(k) \/ LockExpires(k) \/ Retry(k)
          PROVE  /\ \A j \in JobIds \ {k} : jobs'[j] = jobs[j]
                 /\ jobs[k].status = "absent" => jobs'[k].status = "absent"
                 /\ jobs[k].status = "running"
                      => jobs'[k].status = "running" /\ jobs'[k].attempts = jobs[k].attempts
      BY <3>1 DEF JobFallsDue, LockExpires, Retry, TypeOK, JobRow
    <3>2. ASSUME NEW d \in Defs, DefClock(d) \/ EditDef(d) \/ DeleteDef(d)
          PROVE  jobs' = jobs
      BY <3>2 DEF DefClock, EditDef, DeleteDef
    <3> QED BY <1>9, <3>1, <3>2 DEF Passing, Administration
  <2> QED BY <2>1, <2>2, NoNewHolder DEF Holds, Ownership, IdsAheadAbsent
<1>10. ASSUME NEW p \in Procs, Crash(p) PROVE Ownership'
  <2>1. \A t \in Ticks : tick'[t] = tick[t] \/ tick'[t].pc \notin Holding
    BY <1>10 DEF Crash, IdleTick, Holding
  <2> QED BY <1>10, <2>1, NoNewHolder DEF Crash, Holds, Ownership, IdsAheadAbsent
<1>11. CASE UNCHANGED vars
  BY <1>11 DEF vars, Ownership, HeldIsRunning, SingleOwner, IdsAheadAbsent, Holds
<1> QED
  BY <1>2, <1>3, <1>4, <1>5, <1>6, <1>7, <1>8, <1>9, <1>10, <1>11
  DEF Next, Execution

\* A held job is running with the attempts its claim returned.
THEOREM HeldRunning == Spec => []HeldIsRunning
<1>1. Spec => [](TypeOK /\ Ownership)
  BY TypeInit, TypeNext, OwnershipInit, OwnershipNext, PTL DEF Spec
<1>2. Ownership => HeldIsRunning
  BY DEF Ownership
<1> QED BY <1>1, <1>2, PTL

\* No job is ever held by two ticks.
THEOREM MutualExclusion == Spec => []SingleOwner
<1>1. Spec => [](TypeOK /\ Ownership)
  BY TypeInit, TypeNext, OwnershipInit, OwnershipNext, PTL DEF Spec
<1>2. Ownership => SingleOwner
  BY DEF Ownership
<1> QED BY <1>1, <1>2, PTL

-----------------------------------------------------------------------------
\* One step keeps every queued job claimable: a retry decides on the attempts
\* the claim returned, which Ownership shows are the row's own.
LEMMA ClaimableNext ==
  TypeOK /\ Ownership /\ QueuedIsClaimable /\ [Next]_vars => QueuedIsClaimable'
<1> SUFFICES ASSUME TypeOK, Ownership, QueuedIsClaimable, [Next]_vars
             PROVE  QueuedIsClaimable'
  OBVIOUS
<1> DEFINE Fine(row) == row.status = "queued" =>
             /\ row.lock = "none"
             /\ row.max > 0 => row.attempts < row.max
<1>1. \A j \in JobIds : Fine(jobs[j])
  BY DEF QueuedIsClaimable
<1>2. SUFFICES ASSUME NEW j \in JobIds PROVE Fine(jobs'[j])
  BY DEF QueuedIsClaimable
<1>3. ASSUME NEW type \in JobTypes, NEW max \in Int, NEW due \in BOOLEAN,
             Insert(type, max, due)
      PROVE  Fine(jobs'[j])
  <2>1. CASE j = inserted + 1
    BY <1>3, <2>1 DEF Insert, TypeOK, QueuedRow
  <2>2. CASE j # inserted + 1
    BY <1>1, <1>3, <2>2 DEF Insert, TypeOK
  <2> QED BY <2>1, <2>2
<1>4. CASE Enqueue
  <2>1. PICK type \in JobTypes, max \in AttemptLimits, due \in BOOLEAN :
          Insert(type, max, due)
    BY <1>4 DEF Enqueue
  <2>2. max \in Int
    BY LimitsAssumption
  <2> HIDE DEF Fine
  <2> QED BY <1>3, <2>1, <2>2
<1>5. ASSUME NEW t \in Ticks, PromoteInsert(t) PROVE Fine(jobs'[j])
  <2>1. PICK e \in tick[t].batch : Insert(e.spec.type, e.spec.max, TRUE)
    BY <1>5 DEF PromoteInsert
  <2>2. e.spec.max \in Int /\ e.spec.type \in JobTypes
    BY <2>1, Constants DEF TypeOK, TickState, Entry
  <2> HIDE DEF Fine
  <2> QED BY <1>3, <2>1, <2>2
<1>6. ASSUME NEW t \in Ticks, Promotion(t), ~PromoteInsert(t) PROVE Fine(jobs'[j])
  BY <1>1, <1>6 DEF Promotion, StartTick, SelectDue, SelectFails, PromoteSkip, PromoteAdvance,
       PromoteAdvanceFails, PromoteDone
<1>7. ASSUME NEW t \in Ticks, Claim(t) PROVE Fine(jobs'[j])
  <2>1. PICK k \in JobIds :
          jobs' = [jobs EXCEPT ![k].status = "running", ![k].lock = "held",
                               ![k].attempts = @ + 1]
    BY <1>7 DEF Claim
  <2>2. CASE j = k
    BY <2>1, <2>2 DEF TypeOK, JobRow
  <2>3. CASE j # k
    BY <1>1, <2>1, <2>3 DEF TypeOK
  <2> QED BY <2>2, <2>3
<1>8. ASSUME NEW t \in Ticks, Complete(t) PROVE Fine(jobs'[j])
  BY <1>1, <1>8 DEF Complete, TypeOK, JobRow
<1>9. ASSUME NEW t \in Ticks, Fail(t) PROVE Fine(jobs'[j])
  <2>1. CASE j # tick[t].job
    BY <1>1, <1>9, <2>1 DEF Fail, TypeOK
  <2>2. CASE j = tick[t].job
    <3>1. jobs[j].attempts = tick[t].attempts
      BY <1>9, <2>2 DEF Fail, Ownership, HeldIsRunning, Holds, Holding
    <3>2. /\ jobs'[j].attempts = jobs[j].attempts /\ jobs'[j].max = jobs[j].max
          /\ jobs'[j].lock = "none"
          /\ jobs'[j].status = "queued" => ~Exhausted(t)
      BY <1>9, <2>2 DEF Fail, TypeOK, JobRow
    <3>3. ~Exhausted(t) => jobs[j].attempts < jobs[j].max
      BY <2>2, <3>1 DEF Exhausted, TypeOK, JobRow
    <3> QED BY <3>2, <3>3
  <2> QED BY <2>1, <2>2
<1>10. ASSUME NEW t \in Ticks, Execution(t), ~Claim(t), ~Complete(t), ~Fail(t)
       PROVE  Fine(jobs'[j])
  BY <1>1, <1>10 DEF Execution, ClaimNone, HandlerReturns, HandlerThrows,
       CompleteFails, FailFails
<1>11. CASE Passing
  <2>1. ASSUME NEW k \in JobIds, JobFallsDue(k) PROVE Fine(jobs'[j])
    BY <1>1, <2>1 DEF JobFallsDue, TypeOK, JobRow
  <2>2. ASSUME NEW k \in JobIds, LockExpires(k) PROVE Fine(jobs'[j])
    BY <1>1, <2>2 DEF LockExpires, TypeOK, JobRow
  <2> QED BY <1>1, <1>11, <2>1, <2>2 DEF Passing, DefClock
<1>12. CASE Administration
  <2>1. ASSUME NEW k \in JobIds, Retry(k) PROVE Fine(jobs'[j])
    BY <1>1, <2>1 DEF Retry, TypeOK, JobRow
  <2> QED BY <1>1, <1>12, <2>1 DEF Administration, EditDef, DeleteDef
<1>13. CASE UNCHANGED vars \/ \E p \in Procs : Crash(p)
  BY <1>1, <1>13 DEF vars, Crash
<1> QED
  BY <1>4, <1>5, <1>6, <1>7, <1>8, <1>9, <1>10, <1>11, <1>12, <1>13 DEF Next

\* A queued job is never stuck: it has attempts left and no lock on it.
THEOREM NothingStuckInQueue == Spec => []QueuedIsClaimable
<1>1. Init => QueuedIsClaimable
  BY DEF Init, QueuedIsClaimable, NoRow, QueuedRow
<1>2. TypeOK /\ Ownership /\ QueuedIsClaimable /\ [Next]_vars
        => (TypeOK /\ Ownership /\ QueuedIsClaimable)'
  BY TypeNext, OwnershipNext, ClaimableNext
<1> QED BY <1>1, <1>2, TypeInit, OwnershipInit, PTL DEF Spec

-----------------------------------------------------------------------------
\* What OnlyOwnerSettles says of one job in one step.
SettledByOwner(j) ==
  jobs[j].status = "running" /\ jobs'[j].status # "running"
    => \E t \in Ticks : Holds(t, j) /\ ~Holds(t, j)'

LEMMA SettlingStep ==
  ASSUME TypeOK, Ownership, [Next]_vars, NEW j \in JobIds
  PROVE  SettledByOwner(j)
<1> USE DEF SettledByOwner
<1>1. ASSUME NEW t \in Ticks, Complete(t) \/ Fail(t) PROVE SettledByOwner(j)
  <2>1. tick[t].pc \in Holding /\ Finish(t)
    BY <1>1 DEF Complete, Fail, Holding
  <2>2. CASE j = tick[t].job
    BY <2>1, <2>2 DEF Finish, IdleTick, TypeOK, Holds, Holding
  <2>3. CASE j # tick[t].job
    BY <1>1, <2>3 DEF Complete, Fail, TypeOK
  <2> QED BY <2>2, <2>3
<1>2. ASSUME NEW row, inserted < MaxJobs, jobs' = [jobs EXCEPT ![inserted + 1] = row]
      PROVE  SettledByOwner(j)
  BY <1>2, BoundsAssumption DEF TypeOK, Ownership, IdsAheadAbsent, JobIds
<1>3. CASE Enqueue
  BY <1>2, <1>3 DEF Enqueue, Insert
<1>4. ASSUME NEW t \in Ticks, PromoteInsert(t) PROVE SettledByOwner(j)
  BY <1>2, <1>4 DEF PromoteInsert, Insert
<1>5. ASSUME NEW t \in Ticks, Claim(t) PROVE SettledByOwner(j)
  BY <1>5 DEF Claim, TypeOK, JobRow
<1>6. ASSUME NEW k \in JobIds, JobFallsDue(k) \/ LockExpires(k) \/ Retry(k)
      PROVE  SettledByOwner(j)
  BY <1>6 DEF JobFallsDue, LockExpires, Retry, TypeOK, JobRow
<1>7. CASE UNCHANGED jobs
  BY <1>7
<1>8. \/ \E t \in Ticks : Complete(t) \/ Fail(t) \/ PromoteInsert(t) \/ Claim(t)
      \/ \E k \in JobIds : JobFallsDue(k) \/ LockExpires(k) \/ Retry(k)
      \/ Enqueue \/ UNCHANGED jobs
  BY DEF Next, vars, Promotion, StartTick, SelectDue, SelectFails, PromoteSkip,
       PromoteAdvance, PromoteAdvanceFails, PromoteDone, Execution, ClaimNone,
       HandlerReturns, HandlerThrows, CompleteFails, FailFails,
       Passing, DefClock, Administration, EditDef, DeleteDef, Crash
<1> HIDE DEF SettledByOwner
<1> QED BY <1>1, <1>3, <1>4, <1>5, <1>6, <1>7, <1>8

\* Only the tick that claimed a running job moves it out of running: the admin
\* retry, the promotion, crashes and the other ticks never do.
THEOREM OwnerSettles == Spec => OnlyOwnerSettles
<1>1. TypeOK /\ Ownership /\ [Next]_vars
        => [\A j \in JobIds :
              jobs[j].status = "running" /\ jobs'[j].status # "running"
                => \E t \in Ticks : Holds(t, j) /\ ~Holds(t, j)']_vars
  BY SettlingStep DEF SettledByOwner
<1> QED
  BY <1>1, TypeInit, TypeNext, OwnershipInit, OwnershipNext, PTL
  DEF Spec, OnlyOwnerSettles

-----------------------------------------------------------------------------
(* The scheduler implements WorkQueue *)

\* The holder of a job, when there is at most one.
LEMMA OwnerIs ==
  ASSUME SingleOwner, NEW j \in JobIds
  PROVE  /\ \A t \in Ticks : Holds(t, j) => Owner(j) = t
         /\ (\A t \in Ticks : ~Holds(t, j)) => Owner(j) = Nobody
         /\ \A t \in Ticks : Owner(j) = t => Holds(t, j)
<1>1. ASSUME NEW t \in Ticks, Holds(t, j) PROVE Owner(j) = t
  <2>1. \E u \in Ticks : Holds(u, j)
    BY <1>1
  <2>2. \A u \in Ticks : Holds(u, j) => u = t
    BY <1>1 DEF SingleOwner
  <2> QED BY <2>1, <2>2, Zenon DEF Owner
<1>2. (\A t \in Ticks : ~Holds(t, j)) => Owner(j) = Nobody
  BY Zenon DEF Owner
<1> QED BY <1>1, <1>2, NobodyAssumption

\* A job whose counters and holders a step leaves alone keeps its item.
LEMMA ItemKept ==
  ASSUME SingleOwner, SingleOwner', NEW j \in JobIds,
         jobs'[j].status = jobs[j].status,
         jobs'[j].attempts = jobs[j].attempts,
         jobs'[j].max = jobs[j].max,
         \A t \in Ticks : Holds(t, j)' <=> Holds(t, j)
  PROVE  Items'[j] = Items[j]
<1>1. Owner(j)' = Owner(j)
  <2>1. CASE \E t \in Ticks : Holds(t, j)
    <3>1. PICK t \in Ticks : Holds(t, j)
      BY <2>1
    <3>2. Owner(j) = t
      BY <3>1, OwnerIs
    <3>3. Owner(j)' = t
      <4>1. \E u \in Ticks : Holds(u, j)'
        BY <3>1
      <4>2. \A u \in Ticks : Holds(u, j)' => u = t
        BY <3>1 DEF SingleOwner
      <4> QED BY <4>1, <4>2, Zenon DEF Owner
    <3> QED BY <3>2, <3>3
  <2>2. CASE \A t \in Ticks : ~Holds(t, j)
    BY <2>2, Zenon DEF Owner
  <2> QED BY <2>1, <2>2
<1> QED BY <1>1 DEF Items

\* The same about the holder after a step.
LEMMA OwnerAfter ==
  ASSUME SingleOwner', NEW j \in JobIds
  PROVE  /\ \A t \in Ticks : Holds(t, j)' => Owner(j)' = t
         /\ (\A t \in Ticks : ~Holds(t, j)') => Owner(j)' = Nobody
<1>1. ASSUME NEW t \in Ticks, Holds(t, j)' PROVE Owner(j)' = t
  <2>1. \E u \in Ticks : Holds(u, j)'
    BY <1>1
  <2>2. \A u \in Ticks : Holds(u, j)' => u = t
    BY <1>1 DEF SingleOwner
  <2> QED BY <2>1, <2>2, Zenon DEF Owner
<1>2. (\A t \in Ticks : ~Holds(t, j)') => Owner(j)' = Nobody
  BY Zenon DEF Owner
<1> QED BY <1>1, <1>2

LEMMA ItemsChange ==
  ASSUME NEW n \in JobIds, NEW new, Items'[n] = new,
         \A k \in JobIds \ {n} : Items'[k] = Items[k]
  PROVE  Items' = [Items EXCEPT ![n] = new]
<1>1. Items = [k \in JobIds |-> Items[k]] /\ Items' = [k \in JobIds |-> Items'[k]]
  BY Zenon DEF Items
<1> HIDE DEF Items
<1> QED BY <1>1, SMT

\* Both states of a step are well typed and owned.
Sound == TypeOK /\ Ownership

LEMMA InitImplements == Init => Queue!Init
<1> SUFFICES ASSUME Init PROVE Queue!Init
  OBVIOUS
<1>1. \A t \in Ticks, j \in JobIds : ~Holds(t, j)
  BY Constants DEF Init, Holds, IdleTick, Holding
<1>2. \A j \in JobIds : Owner(j) = Nobody
  BY <1>1, Zenon DEF Owner
<1> QED BY <1>2 DEF Init, Queue!Init, Queue!Unused, Items, NoRow, QueuedRow

\* An INSERT is a Put: nobody holds the new row.
LEMMA InsertImplements ==
  ASSUME Sound, Sound', NEW type \in JobTypes,
         NEW max \in AttemptLimits \cup {spec.max : spec \in DefSpecs},
         NEW due \in BOOLEAN, Insert(type, max, due),
         \A t \in Ticks, j \in JobIds : Holds(t, j)' <=> Holds(t, j)
  PROVE  Queue!Next
<1>1. PICK n \in JobIds : n = inserted + 1 /\ jobs[n].status = "absent"
  BY BoundsAssumption DEF Sound, TypeOK, Insert, Ownership, IdsAheadAbsent, JobIds
<1>2. jobs'[n] = QueuedRow(type, max, due) /\ \A k \in JobIds \ {n} : jobs'[k] = jobs[k]
  BY <1>1 DEF Insert, Sound, TypeOK
<1>3. \A t \in Ticks : ~Holds(t, n)
  BY <1>1 DEF Sound, Ownership, HeldIsRunning
<1>4. Owner(n)' = Nobody
  BY <1>1, <1>3, OwnerAfter DEF Sound, Ownership
<1>5. Items'[n] = Queue!Fresh(max)
  BY <1>1, <1>2, <1>4 DEF Items, QueuedRow, Queue!Fresh
<1>6. \A k \in JobIds \ {n} : Items'[k] = Items[k]
  BY <1>2, ItemKept DEF Sound, Ownership
<1>7. Items' = [Items EXCEPT ![n] = Queue!Fresh(max)]
  BY <1>1, <1>5, <1>6, ItemsChange
<1>8. Queue!Unused(n)
  BY <1>1 DEF Queue!Unused, Items
<1>9. Queue!Put(n)
  BY <1>7, <1>8 DEF Queue!Put
<1> QED BY <1>1, <1>9 DEF Queue!Next

\* A step that gives job n to a tick or takes it from one, the others untouched.
LEMMA OneJobChanges ==
  ASSUME Sound, Sound', NEW n \in JobIds, NEW new, Items'[n] = new,
         \A k \in JobIds \ {n} : jobs'[k] = jobs[k],
         \A u \in Ticks, k \in JobIds \ {n} : Holds(u, k)' <=> Holds(u, k)
  PROVE  Items' = [Items EXCEPT ![n] = new]
<1>1. \A k \in JobIds \ {n} : Items'[k] = Items[k]
  BY ItemKept DEF Sound, Ownership
<1> QED BY <1>1, ItemsChange

LEMMA ClaimImplements ==
  ASSUME Sound, Sound', NEW t \in Ticks, Claim(t)
  PROVE  Queue!Next
<1>1. PICK j \in JobIds :
        /\ Claimable(j)
        /\ jobs' = [jobs EXCEPT ![j].status = "running", ![j].lock = "held",
                                ![j].attempts = @ + 1]
        /\ tick' = [tick EXCEPT ![t].job = j, ![t].attempts = jobs[j].attempts + 1,
             ![t].pc = IF jobs[j].type \in Handlers THEN "handler" ELSE "fail"]
  BY DEF Claim
<1>2. /\ jobs'[j].status = "running" /\ jobs'[j].attempts = jobs[j].attempts + 1
      /\ jobs'[j].max = jobs[j].max
      /\ \A k \in JobIds \ {j} : jobs'[k] = jobs[k]
  BY <1>1 DEF Sound, TypeOK, JobRow
<1>3. /\ tick'[t].job = j /\ tick'[t].pc \in Holding
      /\ \A u \in Ticks \ {t} : tick'[u] = tick[u]
  BY <1>1 DEF Sound, TypeOK, TickState, Holding
<1>4. tick[t].pc \notin Holding
  BY DEF Claim, Holding
<1>5. Holds(t, j)' /\ \A k \in JobIds : ~Holds(t, k)
  BY <1>3, <1>4 DEF Holds
<1>6. \A u \in Ticks, k \in JobIds \ {j} : Holds(u, k)' <=> Holds(u, k)
  BY <1>3, <1>4 DEF Holds
<1>7. Owner(j)' = t
  BY <1>5, OwnerAfter DEF Sound, Ownership
<1>8. Items' = [Items EXCEPT ![j].status = "running", ![j].tries = @ + 1, ![j].holder = t]
  <2> DEFINE new == [status |-> "running", tries |-> jobs[j].attempts + 1,
                     limit |-> jobs[j].max, holder |-> t]
  <2>1. Items'[j] = new
    BY <1>2, <1>7 DEF Items
  <2>2. Items' = [Items EXCEPT ![j] = new]
    BY <1>2, <1>6, <2>1, OneJobChanges
  <2> QED BY <2>2 DEF Items
<1>9. Items[j].status = "queued" /\ Items[j].tries < Items[j].limit
  BY <1>1 DEF Items, Claimable
<1>10. \A k \in JobIds : ~Queue!Held(t, k)
  BY <1>5, OwnerIs DEF Queue!Held, Items, Sound, Ownership
<1>11. Queue!Take(t, j)
  BY <1>8, <1>9, <1>10 DEF Queue!Take
<1> QED BY <1>11 DEF Queue!Next

\* _completeJob is Done and _failJob is Bounce, of the job the tick holds.
LEMMA SettleImplements ==
  ASSUME Sound, Sound', NEW t \in Ticks, Complete(t) \/ Fail(t)
  PROVE  Queue!Next
<1>1. PICK j \in JobIds : tick[t].job = j /\ Holds(t, j)
  BY DEF Sound, TypeOK, Complete, Fail, Holding, Holds
<1>2. jobs[j].status = "running" /\ jobs[j].attempts = tick[t].attempts
  BY <1>1 DEF Sound, Ownership, HeldIsRunning
<1>3. /\ jobs'[j].attempts = jobs[j].attempts /\ jobs'[j].max = jobs[j].max
      /\ \A k \in JobIds \ {j} : jobs'[k] = jobs[k]
  <2>1. CASE Complete(t)
    BY <1>1, <2>1 DEF Complete, Sound, TypeOK, JobRow
  <2>2. CASE Fail(t)
    <3>1. jobs'[j].attempts = jobs[j].attempts /\ jobs'[j].max = jobs[j].max
      BY <1>1, <2>2 DEF Fail, Sound, TypeOK, JobRow
    <3>2. \A k \in JobIds \ {j} : jobs'[k] = jobs[k]
      BY <1>1, <2>2 DEF Fail, Sound, TypeOK
    <3> QED BY <3>1, <3>2
  <2> QED BY <2>1, <2>2
<1>4. tick'[t].pc \notin Holding /\ \A u \in Ticks \ {t} : tick'[u] = tick[u]
  BY DEF Complete, Fail, Finish, IdleTick, Sound, TypeOK, Holding
<1>5. \A u \in Ticks : ~Holds(u, j)'
  BY <1>1, <1>4 DEF Holds, Sound, Ownership, SingleOwner
<1>6. \A u \in Ticks, k \in JobIds \ {j} : Holds(u, k)' <=> Holds(u, k)
  BY <1>1, <1>4 DEF Holds
<1>7. Owner(j) = t /\ Owner(j)' = Nobody
  BY <1>1, <1>5, OwnerIs, OwnerAfter DEF Sound, Ownership
<1>8. Queue!Held(t, j)
  BY <1>2, <1>7 DEF Queue!Held, Items
<1>9. Items' = [Items EXCEPT ![j].status = jobs'[j].status, ![j].holder = Nobody]
  <2> DEFINE new == [status |-> jobs'[j].status, tries |-> jobs[j].attempts,
                     limit |-> jobs[j].max, holder |-> Nobody]
  <2>1. Items'[j] = new
    BY <1>3, <1>7 DEF Items
  <2>2. Items' = [Items EXCEPT ![j] = new]
    BY <1>3, <1>6, <2>1, OneJobChanges
  <2> QED BY <2>2 DEF Items
<1>10. CASE Complete(t)
  <2>1. jobs'[j].status = "complete"
    BY <1>1, <1>10 DEF Complete, Sound, TypeOK, JobRow
  <2>2. Queue!Done(t, j)
    BY <1>8, <1>9, <2>1 DEF Queue!Done
  <2> QED BY <2>2 DEF Queue!Next
<1>11. CASE Fail(t)
  <2>1. jobs'[j].status = IF Exhausted(t) THEN "failed" ELSE "queued"
    BY <1>1, <1>11 DEF Fail, Sound, TypeOK, JobRow
  <2>2. Exhausted(t) <=> Items[j].tries >= Items[j].limit
    BY <1>1, <1>2 DEF Exhausted, Items
  <2>3. Queue!Bounce(t, j)
    BY <1>8, <1>9, <2>1, <2>2 DEF Queue!Bounce
  <2> QED BY <2>3 DEF Queue!Next
<1> QED BY <1>10, <1>11

\* A set of ticks lets go of its jobs without a word to the database.
LEMMA LoseImplements ==
  ASSUME Sound, Sound', NEW lost \in SUBSET Ticks, jobs' = jobs,
         \A u \in lost : tick'[u].pc \notin Holding,
         \A u \in Ticks \ lost : tick'[u] = tick[u]
  PROVE  Queue!Next
<1>1. ASSUME NEW j \in JobIds, Owner(j) \in lost
      PROVE  Items'[j] = [Items[j] EXCEPT !.holder = Nobody]
  <2>1. \A u \in Ticks : ~Holds(u, j)'
    BY <1>1, OwnerIs DEF Holds, Sound, Ownership, SingleOwner
  <2>2. Owner(j)' = Nobody
    BY <2>1, OwnerAfter DEF Sound, Ownership
  <2> QED BY <2>2 DEF Items
<1>2. ASSUME NEW j \in JobIds, Owner(j) \notin lost
      PROVE  Items'[j] = Items[j]
  <2>1. \A u \in lost : ~Holds(u, j)
    BY <1>2, OwnerIs DEF Sound, Ownership
  <2>2. \A u \in Ticks : Holds(u, j)' <=> Holds(u, j)
    BY <2>1 DEF Holds
  <2> QED BY <2>2, ItemKept DEF Sound, Ownership
<1>3. \A j \in JobIds : Items[j].holder = Owner(j)
  BY DEF Items
<1>4. Items' = [j \in JobIds |-> Items'[j]]
  BY Zenon DEF Items
<1>5. Queue!Lose(lost)
  <2> HIDE DEF Items
  <2> QED BY <1>1, <1>2, <1>3, <1>4 DEF Queue!Lose
<1> QED BY <1>5 DEF Queue!Next

\* POST /background/:id/retry is a Reopen.
LEMMA RetryImplements ==
  ASSUME Sound, Sound', NEW j \in JobIds, Retry(j)
  PROVE  Queue!Next
<1>1. /\ jobs[j].status \in {"failed", "queued", "complete"}
      /\ jobs'[j].status = "queued" /\ jobs'[j].attempts = 0 /\ jobs'[j].max = jobs[j].max
      /\ \A k \in JobIds \ {j} : jobs'[k] = jobs[k]
      /\ tick' = tick
  BY DEF Retry, Sound, TypeOK, JobRow
<1>2. \A u \in Ticks, k \in JobIds : Holds(u, k)' <=> Holds(u, k)
  BY <1>1 DEF Holds
<1>3. \A u \in Ticks : ~Holds(u, j)
  BY <1>1 DEF Sound, Ownership, HeldIsRunning
<1>4. Owner(j)' = Nobody
  BY <1>2, <1>3, OwnerAfter DEF Sound, Ownership
<1>5. Items'[j] = Queue!Fresh(Items[j].limit)
  BY <1>1, <1>4 DEF Items, Queue!Fresh
<1>6. Items' = [Items EXCEPT ![j] = Queue!Fresh(Items[j].limit)]
  <2> HIDE DEF Items
  <2> QED BY <1>1, <1>2, <1>5, OneJobChanges
<1>7. Queue!Reopen(j)
  BY <1>1, <1>6 DEF Queue!Reopen, Items
<1> QED BY <1>7 DEF Queue!Next

\* Steps that leave status, attempts, limits and holders alone.
LEMMA StutterImplements ==
  ASSUME Sound, Sound',
         \A j \in JobIds : /\ jobs'[j].status = jobs[j].status
                           /\ jobs'[j].attempts = jobs[j].attempts
                           /\ jobs'[j].max = jobs[j].max,
         \A t \in Ticks, j \in JobIds : Holds(t, j)' <=> Holds(t, j)
  PROVE  UNCHANGED Items
<1>1. \A j \in JobIds : Items'[j] = Items[j]
  BY ItemKept DEF Sound, Ownership
<1>2. Items = [j \in JobIds |-> Items[j]] /\ Items' = [j \in JobIds |-> Items'[j]]
  BY Zenon DEF Items
<1> HIDE DEF Items
<1> QED BY <1>1, <1>2

LEMMA StepImplements == Sound /\ Sound' /\ [Next]_vars => [Queue!Next]_Items
<1> SUFFICES ASSUME Sound, Sound', [Next]_vars PROVE Queue!Next \/ UNCHANGED Items
  OBVIOUS
<1>1. CASE Enqueue
  <2>1. PICK type \in JobTypes, max \in AttemptLimits, due \in BOOLEAN :
          Insert(type, max, due)
    BY <1>1 DEF Enqueue
  <2>2. \A t \in Ticks, j \in JobIds : Holds(t, j)' <=> Holds(t, j)
    BY <1>1 DEF Enqueue, Holds
  <2> QED BY <2>1, <2>2, InsertImplements
<1>2. ASSUME NEW t \in Ticks, PromoteInsert(t) PROVE Queue!Next
  <2>1. PICK e \in tick[t].batch :
          /\ Insert(e.spec.type, e.spec.max, TRUE)
          /\ tick' = [tick EXCEPT ![t].pc = "advance", ![t].current = {e},
                                  ![t].batch = @ \ {e}]
    BY <1>2 DEF PromoteInsert
  <2>2. e.spec \in DefSpecs /\ e.spec.type \in JobTypes
    BY <2>1, Constants DEF Sound, TypeOK, TickState, Entry
  <2>3. tick[t].pc \notin Holding /\ tick'[t].pc \notin Holding
        /\ \A u \in Ticks \ {t} : tick'[u] = tick[u]
    BY <1>2, <2>1 DEF PromoteInsert, Sound, TypeOK, TickState, Holding
  <2>4. \A u \in Ticks, j \in JobIds : Holds(u, j)' <=> Holds(u, j)
    BY <2>3 DEF Holds
  <2> QED BY <2>1, <2>2, <2>4, InsertImplements
<1>3. ASSUME NEW t \in Ticks, Promotion(t), ~PromoteInsert(t) PROVE UNCHANGED Items
  <2>1. jobs' = jobs
    BY <1>3 DEF Promotion, StartTick, SelectDue, SelectFails, PromoteSkip, PromoteAdvance,
         PromoteAdvanceFails, PromoteDone
  <2>2. tick[t].pc \notin Holding
    BY <1>3 DEF Promotion, StartTick, SelectDue, SelectFails, PromoteSkip, PromoteAdvance,
         PromoteAdvanceFails, PromoteDone, Holding
  <2>3. tick'[t].pc \notin Holding /\ \A u \in Ticks \ {t} : tick'[u] = tick[u]
    BY <1>3, PromotionHoldsNothing DEF Sound
  <2> QED BY <2>1, <2>2, <2>3, StutterImplements DEF Holds
<1>4. ASSUME NEW t \in Ticks, ClaimNone(t) \/ FailFails(t) PROVE Queue!Next
  <2>1. jobs' = jobs /\ tick'[t].pc \notin Holding
        /\ \A u \in Ticks \ {t} : tick'[u] = tick[u]
    BY <1>4 DEF ClaimNone, FailFails, Finish, IdleTick, Sound, TypeOK, Holding
  <2>2. {t} \in SUBSET Ticks /\ \A u \in {t} : tick'[u].pc \notin Holding
    BY <2>1
  <2> QED BY <2>1, <2>2, LoseImplements
<1>5. ASSUME NEW t \in Ticks, HandlerReturns(t) \/ HandlerThrows(t) \/ CompleteFails(t)
      PROVE  UNCHANGED Items
  <2>1. /\ jobs' = jobs
        /\ tick[t].pc \in Holding /\ tick'[t].pc \in Holding
        /\ tick'[t].job = tick[t].job
        /\ \A u \in Ticks \ {t} : tick'[u] = tick[u]
    BY <1>5 DEF HandlerReturns, HandlerThrows, CompleteFails, Goto,
         Sound, TypeOK, TickState, Holding
  <2> QED BY <2>1, StutterImplements DEF Holds
<1>6. CASE Passing
  <2>1. tick' = tick /\ \A j \in JobIds : /\ jobs'[j].status = jobs[j].status
                                          /\ jobs'[j].attempts = jobs[j].attempts
                                          /\ jobs'[j].max = jobs[j].max
    <3>1. ASSUME NEW k \in JobIds, JobFallsDue(k) \/ LockExpires(k)
          PROVE  tick' = tick /\ \A j \in JobIds : /\ jobs'[j].status = jobs[j].status
                                                 /\ jobs'[j].attempts = jobs[j].attempts
                                                 /\ jobs'[j].max = jobs[j].max
      BY <3>1 DEF JobFallsDue, LockExpires, Sound, TypeOK, JobRow
    <3> QED BY <1>6, <3>1 DEF Passing, DefClock
  <2> QED BY <2>1, StutterImplements DEF Holds
<1>7. CASE Administration
  <2>1. ASSUME NEW d \in Defs, EditDef(d) \/ DeleteDef(d) PROVE UNCHANGED Items
    BY <2>1, StutterImplements DEF EditDef, DeleteDef, Holds
  <2> QED BY <1>7, <2>1, RetryImplements DEF Administration
<1>8. ASSUME NEW p \in Procs, Crash(p) PROVE Queue!Next
  <2>1. \A u \in {t \in Ticks : ProcOf[t] = p} : tick'[u].pc \notin Holding
    BY <1>8 DEF Crash, IdleTick, Holding
  <2>2. \A u \in Ticks \ {t \in Ticks : ProcOf[t] = p} : tick'[u] = tick[u]
    BY <1>8 DEF Crash
  <2>3. jobs' = jobs
    BY <1>8 DEF Crash
  <2> QED BY <2>1, <2>2, <2>3, LoseImplements
<1>9. CASE UNCHANGED vars
  BY <1>9, StutterImplements DEF vars, Holds
<1> QED
  BY <1>1, <1>2, <1>3, <1>4, <1>5, <1>6, <1>7, <1>8, <1>9,
     ClaimImplements, SettleImplements
  DEF Next, Execution

\* The scheduler's queue implements the abstract work queue.
THEOREM Implementation == Spec => ImplementsWorkQueue
<1>1. Spec => []Sound
  BY TypeInit, TypeNext, OwnershipInit, OwnershipNext, PTL DEF Spec, Sound
<1> QED BY <1>1, InitImplements, StepImplements, PTL
        DEF Spec, ImplementsWorkQueue, Queue!Spec

-----------------------------------------------------------------------------
(* Overlapping ticks promote each due at most once each, and lose nothing    *)

\* The ticks that still have to insert a job for a definition they read.
Waiting(d) == {t \in Ticks : \E e \in tick[t].batch : e.def = d}

\* What a tick read of a definition nobody edited still holds, and it holds one
\* entry of each definition, either to insert or to record.
Promoting ==
  \A t \in Ticks :
    /\ \A e \in tick[t].batch \cup tick[t].current :
         Counted(e.def) => e.spec = defs[e.def].spec /\ defs[e.def].present
    /\ \A e, f \in tick[t].batch \cup tick[t].current : e.def = f.def => e = f
    /\ \A e, f \in tick[t].current : e = f
    /\ tick[t].batch \cap tick[t].current = {}
    /\ tick[t].batch # {} => tick[t].pc \in {"promote", "advance"}
    /\ tick[t].current # {} => tick[t].pc = "advance"

\* A waiting tick may still fire the definition and push it one interval away,
\* a recording one still push it; while the definition is due nothing else has.
Tally(d) ==
  /\ Cardinality(Recording(d)) <= fired[d]
  /\ IsDue(d) => fired[d] = Cardinality(Recording(d))
  /\ fired[d] + Cardinality(Waiting(d)) <= Cardinality(Ticks)
  /\ fired[d] = 0 => IsDue(d)
  /\ defs[d].present /\ defs[d].spec.interval > 0
       => defs[d].eta <= (Cardinality(Ticks) - Cardinality(Waiting(d))
                            - Cardinality(Recording(d))) * defs[d].spec.interval

Kept == Promoting /\ \A d \in Defs : Counted(d) => Tally(d)

\* Disjoint sets of ticks, and what is left of the room between them and all.
LEMMA Apart ==
  ASSUME NEW V \in SUBSET Ticks, NEW W \in SUBSET Ticks, V \cap W = {}
  PROVE  Cardinality(V) + Cardinality(W) <= Cardinality(Ticks)
<1>1. IsFiniteSet(V) /\ IsFiniteSet(W) /\ Cardinality(V) \in Nat /\ Cardinality(W) \in Nat
  BY TicksCounted
<1>2. Cardinality(V \cup W) = Cardinality(V) + Cardinality(W) - Cardinality(V \cap W)
  BY <1>1, FS_Union
<1>3. Cardinality(V \cap W) = 0
  BY FS_EmptySet
<1>4. Cardinality(V \cup W) <= Cardinality(Ticks)
  BY TicksCounted
<1> QED BY <1>1, <1>2, <1>3, <1>4

LEMMA Fewer ==
  ASSUME NEW V \in SUBSET Ticks, NEW W \in SUBSET V
  PROVE  /\ Cardinality(W) <= Cardinality(V)
         /\ Cardinality(V) \in Nat /\ Cardinality(W) \in Nat /\ Cardinality(Ticks) \in Nat \ {0}
<1>1. IsFiniteSet(V) /\ Cardinality(V) \in Nat /\ Cardinality(Ticks) \in Nat \ {0}
  BY TicksCounted
<1>2. Cardinality(W) <= Cardinality(V)
  BY <1>1, FS_Subset
<1>3. Cardinality(W) \in Nat
  BY TicksCounted
<1> QED BY <1>1, <1>2, <1>3

LEMMA MoreRoom ==
  ASSUME NEW m \in Int, NEW n \in Int, NEW i \in Nat, m <= n
  PROVE  m * i <= n * i
  OBVIOUS

LEMMA OneMore ==
  ASSUME NEW n \in Int, NEW i \in Nat
  PROVE  (n + 1) * i = n * i + i
  OBVIOUS

\* Nobody both waits and records, and everybody who does is a tick.
WaitApart ==
  \A d \in Defs :
    /\ Waiting(d) \in SUBSET Ticks /\ Recording(d) \in SUBSET Ticks
    /\ Waiting(d) \cap Recording(d) = {}
    /\ Cardinality(Waiting(d)) + Cardinality(Recording(d)) <= Cardinality(Ticks)

LEMMA WaitingApart == Promoting => WaitApart
<1> SUFFICES ASSUME Promoting, NEW d \in Defs
             PROVE  /\ Waiting(d) \in SUBSET Ticks /\ Recording(d) \in SUBSET Ticks
                    /\ Waiting(d) \cap Recording(d) = {}
                    /\ Cardinality(Waiting(d)) + Cardinality(Recording(d))
                         <= Cardinality(Ticks)
  BY DEF WaitApart
<1>1. Waiting(d) \in SUBSET Ticks /\ Recording(d) \in SUBSET Ticks
  BY DEF Waiting, Recording
<1>2. Waiting(d) \cap Recording(d) = {}
  <2> SUFFICES ASSUME NEW t \in Ticks, NEW e \in tick[t].batch, NEW f \in tick[t].current,
                      e.def = d, f.def = d
               PROVE  FALSE
    BY DEF Waiting, Recording
  <2>1. e = f
    BY DEF Promoting
  <2> QED BY <2>1 DEF Promoting
<1> QED BY <1>1, <1>2, Apart

LEMMA WaitingApartNext == Promoting' => WaitApart'
  BY WaitingApart, PTL

\* Ticks let go of entries and the definition stays as it is.
LEMMA TallyFewer ==
  ASSUME TypeOK, Promoting, Promoting', NEW d \in Defs, Counted(d), Tally(d),
         defs'[d] = defs[d],
         Waiting(d)' \subseteq Waiting(d), Recording(d)' \subseteq Recording(d),
         fired'[d] = IF IsDue(d) THEN Cardinality(Recording(d)') ELSE fired[d]
  PROVE  Tally(d)'
<1> DEFINE T == Cardinality(Ticks)
           w == Cardinality(Waiting(d))  v == Cardinality(Waiting(d)')
           r == Cardinality(Recording(d))  q == Cardinality(Recording(d)')
           i == defs[d].spec.interval
<1>1. /\ T \in Nat /\ w \in Nat /\ v \in Nat /\ r \in Nat /\ q \in Nat
      /\ v <= w /\ q <= r
  BY WaitingApart, Fewer DEF WaitApart
<1>2. v + q <= T
  BY WaitingApartNext DEF WaitApart
<1>3. fired[d] \in Nat /\ i \in Nat /\ defs[d].eta \in Nat
  BY Constants DEF TypeOK, Counted, DefRow
<1>4. IsDue(d)' <=> IsDue(d)
  BY DEF IsDue
<1>5. /\ r <= fired[d] /\ (IsDue(d) => fired[d] = r) /\ fired[d] + w <= T
      /\ fired[d] = 0 => IsDue(d)
      /\ defs[d].present /\ i > 0 => defs[d].eta <= (T - w - r) * i
  BY DEF Tally
<1>6. fired'[d] = IF IsDue(d) THEN q ELSE fired[d]
  OBVIOUS
<1> HIDE DEF T, w, v, r, q, i
<1>7. (T - w - r) * i <= (T - v - q) * i
  <2>1. T - w - r \in Int /\ T - v - q \in Int /\ T - w - r <= T - v - q
    BY <1>1
  <2> QED BY <1>3, <2>1, MoreRoom
<1>8. (T - w - r) * i \in Int /\ (T - v - q) * i \in Int
  BY <1>1, <1>3
<1>9. defs[d].present /\ i > 0 => defs[d].eta <= (T - v - q) * i
  BY <1>3, <1>5, <1>7, <1>8
<1>10. /\ q <= fired'[d] /\ (IsDue(d) => fired'[d] = q) /\ fired'[d] + v <= T
       /\ fired'[d] = 0 => IsDue(d)
  BY <1>1, <1>2, <1>3, <1>5, <1>6
<1> QED BY <1>4, <1>9, <1>10 DEF Tally, T, v, q, i

\* The same when nothing recorded is let go of: a count that stays is right.
LEMMA TallySame ==
  ASSUME TypeOK, Promoting, Promoting', NEW d \in Defs, Counted(d), Tally(d),
         defs'[d] = defs[d], fired'[d] = fired[d],
         Waiting(d)' \subseteq Waiting(d), Recording(d)' = Recording(d)
  PROVE  Tally(d)'
<1>1. fired'[d] = IF IsDue(d) THEN Cardinality(Recording(d)') ELSE fired[d]
  BY DEF Tally
<1> QED BY <1>1, TallyFewer

\* A definition that is due after the step, counted by those who record it.
LEMMA TallyDue ==
  ASSUME TypeOK', Promoting', NEW d \in Defs, IsDue(d)',
         fired'[d] = Cardinality(Recording(d)')
  PROVE  Tally(d)'
<1> DEFINE T == Cardinality(Ticks)
           v == Cardinality(Waiting(d)')  q == Cardinality(Recording(d)')
           i == defs'[d].spec.interval
<1>1. T \in Nat /\ v \in Nat /\ q \in Nat
  BY WaitingApartNext, TicksCounted DEF WaitApart
<1>2. v + q <= T
  BY WaitingApartNext DEF WaitApart
<1>3. i \in Nat /\ defs'[d].eta = 0
  BY Constants DEF TypeOK, DefRow, IsDue
<1> HIDE DEF T, v, q, i
<1>4. 0 * i <= (T - v - q) * i
  <2>1. T - v - q \in Int /\ 0 <= T - v - q
    BY <1>1, <1>2
  <2> QED BY <1>3, <2>1, MoreRoom
<1>5. 0 <= (T - v - q) * i
  <2>1. 0 * i = 0
    BY <1>3
  <2> QED BY <1>4, <2>1
<1>6. q <= fired'[d] /\ fired'[d] + v <= T
  BY <1>1, <1>2 DEF q
<1> QED BY <1>3, <1>5, <1>6 DEF Tally, T, v, q, i

LEMMA KeptInit == Init => Kept
<1> SUFFICES ASSUME Init PROVE Kept
  OBVIOUS
<1>1. Promoting
  BY DEF Init, IdleTick, Promoting
<1>2. ASSUME NEW d \in Defs PROVE Tally(d)
  <2>1. Waiting(d) = {} /\ Recording(d) = {}
    BY DEF Init, IdleTick, Waiting, Recording
  <2>2. Cardinality(Waiting(d)) = 0 /\ Cardinality(Recording(d)) = 0
    BY <2>1, FS_EmptySet
  <2>3. fired[d] = 1
    BY DEF Init
  <2>4. Cardinality(Ticks) \in Nat \ {0}
    BY TicksCounted
  <2>5. ~IsDue(d) /\ (defs[d].present => defs[d].eta = 1 /\ defs[d].spec \in DefSpecs)
    BY DEF Init, NoDef, ReadyDefs, IsDue
  <2>6. defs[d].present => defs[d].spec.interval \in Nat
    BY <2>5, Constants
  <2> DEFINE T == Cardinality(Ticks)  i == defs[d].spec.interval
  <2>7. ASSUME defs[d].present, i > 0 PROVE 1 <= (T - 0 - 0) * i
    <3>1. i \in Nat /\ T \in Nat \ {0}
      BY <2>4, <2>6, <2>7
    <3> HIDE DEF T, i
    <3>2. 1 * i <= T * i
      BY <3>1, MoreRoom
    <3>3. 1 * i = i /\ T - 0 - 0 = T /\ T * i \in Int
      BY <3>1
    <3> QED BY <2>7, <3>1, <3>2, <3>3
  <2>8. defs[d].present /\ i > 0 => defs[d].eta <= (T - 0 - 0) * i
    BY <2>5, <2>7
  <2>9. 0 <= 1 /\ 1 + 0 <= T
    BY <2>4
  <2> HIDE DEF T, i
  <2> QED BY <2>2, <2>3, <2>5, <2>8, <2>9 DEF Tally, T, i
<1> QED BY <1>1, <1>2 DEF Kept

\* A step in which ticks only let go of entries.
LEMMA KeptByFewer ==
  ASSUME TypeOK, Kept, UNCHANGED defs,
         \A t \in Ticks : /\ tick'[t].batch \subseteq tick[t].batch
                          /\ tick'[t].current \subseteq tick[t].current
                          /\ tick'[t].batch # {} => tick'[t].pc \in {"promote", "advance"}
                          /\ tick'[t].current # {} => tick'[t].pc = "advance",
         \/ fired' = fired /\ \A t \in Ticks : tick'[t].current = tick[t].current
         \/ Recount
  PROVE  Kept'
<1>1. \A d \in Defs : Counted(d)' => Counted(d)
  BY DEF Counted, Recount
<1>2. Promoting'
  <2>1. \A t \in Ticks : \A e \in tick[t].batch \cup tick[t].current : e.def \in Defs
    BY DEF TypeOK, TickState, Entry
  <2> QED BY <1>1, <2>1 DEF Kept, Promoting
<1>3. ASSUME NEW d \in Defs, Counted(d)' PROVE Tally(d)'
  <2>1. Promoting /\ Counted(d) /\ Tally(d)
    BY <1>1, <1>3 DEF Kept
  <2>2. Waiting(d)' \subseteq Waiting(d) /\ Recording(d)' \subseteq Recording(d)
    BY DEF Waiting, Recording
  <2>3. CASE Recount
    BY <1>2, <2>1, <2>2, <2>3, TallyFewer DEF Recount
  <2>4. CASE fired' = fired /\ \A t \in Ticks : tick'[t].current = tick[t].current
    <3>1. Recording(d)' = Recording(d)
      BY <2>4 DEF Recording
    <3> QED BY <1>2, <2>1, <2>2, <2>4, <3>1, TallySame
  <2> QED BY <2>3, <2>4
<1> QED BY <1>2, <1>3 DEF Kept

LEMMA SelectKeeps ==
  ASSUME TypeOK, TypeOK', Kept, NEW t \in Ticks, SelectDue(t)
  PROVE  Kept'
<1> DEFINE due == {[def |-> d, spec |-> defs[d].spec] : d \in {d \in Defs : IsDue(d)}}
<1>1. tick' = [tick EXCEPT ![t].pc = "promote", ![t].batch = due]
      /\ UNCHANGED <<defs, fired>> /\ tick[t].pc = "select"
  BY DEF SelectDue
<1>2. /\ \A e \in due : e.def \in Defs /\ IsDue(e.def) /\ e.spec = defs[e.def].spec
      /\ \A e, f \in due : e.def = f.def => e = f
  OBVIOUS
<1> HIDE DEF due
<1>3. /\ tick'[t].batch = due /\ tick'[t].current = tick[t].current
      /\ tick'[t].pc = "promote" /\ \A u \in Ticks : u # t => tick'[u] = tick[u]
  BY <1>1 DEF TypeOK, TickState
<1>4. tick[t].current = {} /\ tick[t].batch = {}
  BY <1>1 DEF Kept, Promoting
<1>5. Promoting'
  <2>1. Promoting
    BY DEF Kept
  <2>2. ASSUME NEW e \in due PROVE e.spec = defs'[e.def].spec /\ defs'[e.def].present
    BY <1>1, <1>2 DEF IsDue
  <2>3. tick'[t].batch \cup tick'[t].current = due /\ tick'[t].current = {}
    BY <1>3, <1>4
  <2>4. \A u \in Ticks : u # t =>
          /\ tick'[u] = tick[u]
          /\ \A e \in tick[u].batch \cup tick[u].current :
               Counted(e.def)' => e.spec = defs'[e.def].spec /\ defs'[e.def].present
    BY <1>1, <1>3, <2>1 DEF Promoting, Counted
  <2> QED BY <1>2, <1>3, <2>1, <2>2, <2>3, <2>4 DEF Promoting
<1>6. ASSUME NEW d \in Defs, Counted(d)' PROVE Tally(d)'
  <2>1. Promoting /\ Counted(d) /\ Tally(d)
    BY <1>1, <1>6 DEF Kept, Counted
  <2>2. Recording(d)' = Recording(d)
    BY <1>3 DEF Recording
  <2>3. CASE IsDue(d)
    <3>1. IsDue(d)' /\ fired'[d] = Cardinality(Recording(d)')
      BY <1>1, <2>1, <2>2, <2>3 DEF IsDue, Tally
    <3> QED BY <1>5, <3>1, TallyDue
  <2>4. CASE ~IsDue(d)
    <3>1. Waiting(d)' \subseteq Waiting(d)
      BY <1>2, <1>3, <2>4 DEF Waiting
    <3> QED BY <1>1, <1>5, <2>1, <2>2, <3>1, TallySame
  <2> QED BY <2>3, <2>4
<1> QED BY <1>5, <1>6 DEF Kept

LEMMA InsertKeeps ==
  ASSUME TypeOK, Kept, NEW t \in Ticks, PromoteInsert(t)
  PROVE  Kept'
<1>1. PICK e \in tick[t].batch :
        /\ tick' = [tick EXCEPT ![t].pc = "advance", ![t].current = {e}, ![t].batch = @ \ {e}]
        /\ fired' = IF Counted(e.def) THEN [fired EXCEPT ![e.def] = @ + 1] ELSE fired
  BY DEF PromoteInsert
<1>2. /\ tick'[t].pc = "advance" /\ tick'[t].current = {e}
      /\ tick'[t].batch = tick[t].batch \ {e}
      /\ \A u \in Ticks : u # t => tick'[u] = tick[u]
  BY <1>1 DEF TypeOK, TickState
<1>3. defs' = defs /\ tick[t].pc = "promote" /\ tick[t].current = {}
  BY DEF PromoteInsert, Kept, Promoting
<1>4. e.def \in Defs /\ \A f \in tick[t].batch : f.def = e.def => f = e
  BY DEF Kept, Promoting, TypeOK, TickState, Entry
<1>5. /\ Counted(e.def) => fired'[e.def] = fired[e.def] + 1
      /\ \A d \in Defs : d # e.def => fired'[d] = fired[d]
      /\ \A d \in Defs : Counted(d)' => Counted(d)
  BY <1>1, <1>4 DEF TypeOK, Counted
<1>6. Promoting'
  <2>1. \A u \in Ticks : \A f \in tick[u].batch \cup tick[u].current : f.def \in Defs
    BY DEF TypeOK, TickState, Entry
  <2>2. \A f \in tick'[t].batch \cup tick'[t].current : f \in tick[t].batch
    BY <1>2
  <2>3. Promoting
    BY DEF Kept
  <2>4. \A u \in Ticks :
          /\ \A f \in tick'[u].batch \cup tick'[u].current : f \in tick[u].batch \cup tick[u].current
          /\ tick'[u].batch \cap tick'[u].current = {}
    BY <1>2, <2>2, <2>3 DEF Promoting
  <2> QED BY <1>2, <1>3, <1>5, <2>1, <2>3, <2>4 DEF Promoting
<1>7. ASSUME NEW d \in Defs, Counted(d)', d # e.def PROVE Tally(d)'
  <2>1. Waiting(d)' \subseteq Waiting(d) /\ Recording(d)' = Recording(d)
    BY <1>2, <1>3, <1>7 DEF Waiting, Recording
  <2>2. Promoting /\ Counted(d) /\ Tally(d)
    BY <1>5, <1>7 DEF Kept
  <2> QED BY <1>3, <1>5, <1>6, <1>7, <2>1, <2>2, TallySame
<1>8. ASSUME Counted(e.def)' PROVE Tally(e.def)'
  <2> DEFINE d == e.def
             T == Cardinality(Ticks)
             w == Cardinality(Waiting(d))  v == Cardinality(Waiting(d)')
             r == Cardinality(Recording(d))  q == Cardinality(Recording(d)')
  <2>1. t \in Waiting(d) /\ Waiting(d)' = Waiting(d) \ {t}
    BY <1>2, <1>4 DEF Waiting
  <2>2. t \notin Recording(d) /\ Recording(d)' = Recording(d) \cup {t}
    BY <1>2, <1>3 DEF Recording
  <2>3. Waiting(d) \in SUBSET Ticks /\ Recording(d) \in SUBSET Ticks
    BY DEF Waiting, Recording
  <2>4. v = w - 1 /\ q = r + 1
    BY <2>1, <2>2, <2>3, TicksCounted, FS_AddElement, FS_RemoveElement
  <2>5. T \in Nat /\ w \in Nat /\ r \in Nat
    BY <2>3, TicksCounted
  <2>6. Counted(d) /\ Tally(d)
    BY <1>4, <1>5, <1>8 DEF Kept
  <2>7. fired'[d] = fired[d] + 1 /\ fired[d] \in Nat
    BY <1>4, <1>5, <2>6 DEF TypeOK, Counted
  <2>8. defs'[d] = defs[d] /\ (IsDue(d)' <=> IsDue(d))
    BY <1>3 DEF IsDue
  <2>9. /\ r <= fired[d] /\ (IsDue(d) => fired[d] = r) /\ fired[d] + w <= T
        /\ defs[d].present /\ defs[d].spec.interval > 0
             => defs[d].eta <= (T - w - r) * defs[d].spec.interval
    BY <2>6 DEF Tally
  <2> HIDE DEF T, w, v, r, q, d
  <2>10. T - v - q = T - w - r
    BY <2>4, <2>5
  <2>11. /\ q <= fired'[d] /\ (IsDue(d) => fired'[d] = q) /\ fired'[d] + v <= T
         /\ fired'[d] # 0
    BY <2>4, <2>5, <2>7, <2>9
  <2>12. Tally(d)'
    BY <2>8, <2>9, <2>10, <2>11 DEF Tally, T, v, q
  <2> QED BY <2>12 DEF d
<1> QED BY <1>4, <1>6, <1>7, <1>8 DEF Kept

LEMMA AdvanceKeeps ==
  ASSUME TypeOK, Kept, NEW t \in Ticks, PromoteAdvance(t)
  PROVE  Kept'
<1>1. PICK e \in tick[t].current :
        defs' = IF defs[e.def].present
                THEN [defs EXCEPT ![e.def] = AdvancedRow(@, e.spec)] ELSE defs
  BY DEF PromoteAdvance
<1>2. /\ tick'[t].pc = "promote" /\ tick'[t].current = {} /\ tick'[t].batch = tick[t].batch
      /\ \A u \in Ticks : u # t => tick'[u] = tick[u]
      /\ fired' = fired
  BY DEF PromoteAdvance, TypeOK, TickState
<1>3. /\ e.def \in Defs /\ e.spec \in DefSpecs
      /\ \A f \in tick[t].current : f = e
      /\ \A f \in tick[t].batch : f.def # e.def
  BY DEF Kept, Promoting, TypeOK, TickState, Entry
<1>4. \A d \in Defs : d # e.def => defs'[d] = defs[d]
  BY <1>1, <1>3 DEF TypeOK
<1>5. defs'[e.def].spec = defs[e.def].spec /\ defs'[e.def].present = defs[e.def].present
  <2>1. \A row \in DefRow : /\ AdvancedRow(row, e.spec).spec = row.spec
                            /\ AdvancedRow(row, e.spec).present = row.present
    BY DEF AdvancedRow, DefRow
  <2>2. defs[e.def] \in DefRow
    BY <1>3 DEF TypeOK
  <2>3. defs'[e.def] = AdvancedRow(defs[e.def], e.spec) \/ defs'[e.def] = defs[e.def]
    BY <1>1, <1>3 DEF TypeOK
  <2> QED BY <2>1, <2>2, <2>3
<1>6. \A d \in Defs : defs'[d].spec = defs[d].spec /\ defs'[d].present = defs[d].present
  BY <1>4, <1>5
<1>7. Promoting'
  <2>1. \A u \in Ticks : \A f \in tick[u].batch \cup tick[u].current : f.def \in Defs
    BY DEF TypeOK, TickState, Entry
  <2>2. Promoting
    BY DEF Kept
  <2>3. \A u \in Ticks :
          /\ tick'[u].batch = tick[u].batch /\ tick'[u].current \subseteq tick[u].current
          /\ tick'[u].batch # {} => tick'[u].pc \in {"promote", "advance"}
          /\ tick'[u].current # {} => tick'[u].pc = "advance"
    BY <1>2, <2>2 DEF Promoting
  <2> QED BY <1>2, <1>6, <2>1, <2>2, <2>3 DEF Promoting, Counted
<1>8. ASSUME NEW d \in Defs, Counted(d)', d # e.def PROVE Tally(d)'
  <2>1. Waiting(d)' \subseteq Waiting(d) /\ Recording(d)' = Recording(d)
    BY <1>2, <1>3, <1>8 DEF Waiting, Recording
  <2>2. Promoting /\ Counted(d) /\ Tally(d)
    BY <1>2, <1>8 DEF Kept, Counted
  <2> QED BY <1>2, <1>4, <1>7, <1>8, <2>1, <2>2, TallySame
<1>9. ASSUME Counted(e.def)' PROVE Tally(e.def)'
  <2> DEFINE d == e.def
             T == Cardinality(Ticks)
             w == Cardinality(Waiting(d))  v == Cardinality(Waiting(d)')
             r == Cardinality(Recording(d))  q == Cardinality(Recording(d)')
             i == defs[d].spec.interval
  <2>1. Waiting(d)' = Waiting(d)
    BY <1>2 DEF Waiting
  <2>2. t \in Recording(d) /\ Recording(d)' = Recording(d) \ {t}
    BY <1>2, <1>3 DEF Recording
  <2>3. Waiting(d) \in SUBSET Ticks /\ Recording(d) \in SUBSET Ticks
    BY DEF Waiting, Recording
  <2>4. v = w /\ q = r - 1
    BY <2>1, <2>2, <2>3, TicksCounted, FS_RemoveElement
  <2>5. T \in Nat /\ w \in Nat /\ r \in Nat /\ q \in Nat
    <3>1. Recording(d)' \in SUBSET Ticks
      BY DEF Recording
    <3> QED BY <2>3, <3>1, TicksCounted
  <2>6. Counted(d) /\ Tally(d)
    BY <1>2, <1>3, <1>9 DEF Kept, Counted
  <2>7. fired'[d] = fired[d] /\ fired[d] \in Nat
    BY <1>2, <1>3, <2>6 DEF TypeOK, Counted
  <2>8. defs[d] \in DefRow /\ i \in Nat /\ e.spec = defs[d].spec /\ defs[d].present
    BY <1>3, <2>6, Constants DEF TypeOK, DefRow, Kept, Promoting
  <2>9. defs'[d] = AdvancedRow(defs[d], defs[d].spec)
    BY <1>1, <1>3, <2>8 DEF TypeOK
  <2>10. /\ defs'[d].spec = defs[d].spec
         /\ i > 0 => defs'[d].eta = defs[d].eta + i
         /\ ~IsDue(d)'
    <3>1. CASE i > 0
      <4>1. defs'[d] = [defs[d] EXCEPT !.eta = @ + i]
        BY <2>9, <3>1 DEF AdvancedRow
      <4>2. defs'[d].eta = defs[d].eta + i /\ defs'[d].spec = defs[d].spec /\ defs[d].eta \in Nat
        BY <2>8, <4>1 DEF DefRow
      <4>3. defs'[d].eta # 0
        BY <2>8, <3>1, <4>2
      <4> QED BY <4>2, <4>3 DEF IsDue
    <3>2. CASE ~(i > 0)
      <4>1. defs'[d] = [defs[d] EXCEPT !.enabled = FALSE]
        BY <2>9, <3>2 DEF AdvancedRow
      <4>2. defs'[d].enabled = FALSE /\ defs'[d].spec = defs[d].spec
        BY <2>8, <4>1 DEF DefRow
      <4> QED BY <3>2, <4>2 DEF IsDue
    <3> QED BY <3>1, <3>2
  <2>11. /\ r <= fired[d] /\ fired[d] + w <= T
         /\ defs[d].present /\ i > 0 => defs[d].eta <= (T - w - r) * i
    BY <2>6 DEF Tally
  <2>12. defs[d].eta \in Nat
    BY <2>8 DEF DefRow
  <2> HIDE DEF T, w, v, r, q, d, i
  <2>13. T - v - q = (T - w - r) + 1 /\ T - w - r \in Int /\ T - v - q \in Int
    BY <2>4, <2>5
  <2>14. (T - v - q) * i = (T - w - r) * i + i
    BY <2>8, <2>13, OneMore
  <2>15. (T - v - q) * i \in Int /\ (T - w - r) * i \in Int
    BY <2>8, <2>13
  <2>16. i > 0 => defs'[d].eta <= (T - v - q) * i
    BY <2>8, <2>10, <2>11, <2>12, <2>14, <2>15
  <2>17. q <= fired'[d] /\ fired'[d] + v <= T /\ fired'[d] # 0
    BY <2>4, <2>5, <2>7, <2>11
  <2>18. Tally(d)'
    BY <2>10, <2>16, <2>17 DEF Tally, T, v, q, i
  <2> QED BY <2>18 DEF d
<1> QED BY <1>3, <1>7, <1>8, <1>9 DEF Kept

LEMMA ClockKeeps ==
  ASSUME TypeOK, TypeOK', Kept, NEW d \in Defs, DefClock(d)
  PROVE  Kept'
<1>1. /\ defs[d].present /\ defs[d].eta > 0 /\ tick' = tick
      /\ defs' = [defs EXCEPT ![d].eta = @ - 1]
      /\ fired' = IF Counted(d) /\ defs[d].enabled /\ defs[d].eta = 1
                  THEN [fired EXCEPT ![d] = Cardinality(Recording(d))] ELSE fired
  BY DEF DefClock
<1>2. /\ defs'[d].present = defs[d].present /\ defs'[d].enabled = defs[d].enabled
      /\ defs'[d].spec = defs[d].spec /\ defs'[d].eta = defs[d].eta - 1
      /\ \A c \in Defs : c # d => defs'[c] = defs[c]
  BY <1>1 DEF TypeOK, DefRow
<1>3. /\ \A c \in Defs : c # d => fired'[c] = fired[c]
      /\ Cardinality(Recording(d)) \in Nat
  BY <1>1, TicksCounted DEF TypeOK, Recording
<1>4. \A c \in Defs : Counted(c)' => Counted(c)
  BY <1>1, <1>3 DEF Counted
<1>5. Promoting'
  <2>1. \A u \in Ticks : \A f \in tick[u].batch \cup tick[u].current : f.def \in Defs
    BY DEF TypeOK, TickState, Entry
  <2>2. \A c \in Defs : defs'[c].spec = defs[c].spec /\ defs'[c].present = defs[c].present
    BY <1>2
  <2> QED BY <1>1, <1>4, <2>1, <2>2 DEF Kept, Promoting
<1>6. \A c \in Defs : Waiting(c)' = Waiting(c) /\ Recording(c)' = Recording(c)
  BY <1>1 DEF Waiting, Recording
<1>7. ASSUME NEW c \in Defs, Counted(c)', c # d PROVE Tally(c)'
  BY <1>2, <1>3, <1>4, <1>5, <1>6, <1>7, TallySame DEF Kept
<1>8. ASSUME Counted(d)' PROVE Tally(d)'
  <2>1. Counted(d) /\ Tally(d) /\ ~IsDue(d)
    BY <1>1, <1>4, <1>8 DEF Kept, IsDue
  <2>2. defs[d].eta \in Nat /\ defs[d].spec.interval \in Nat
    BY Constants DEF TypeOK, DefRow
  <2>3. CASE defs[d].enabled /\ defs[d].eta = 1
    <3>1. fired'[d] = Cardinality(Recording(d)')
      BY <1>1, <1>6, <2>1, <2>3 DEF TypeOK
    <3>2. IsDue(d)'
      BY <1>1, <1>2, <2>3 DEF IsDue
    <3> QED BY <1>5, <3>1, <3>2, TallyDue
  <2>4. CASE ~(defs[d].enabled /\ defs[d].eta = 1)
    <3>1. fired' = fired
      BY <1>1, <2>4
    <3>2. ~IsDue(d)'
      BY <1>2, <2>2, <2>4 DEF IsDue
    <3> DEFINE room == (Cardinality(Ticks) - Cardinality(Waiting(d))
                          - Cardinality(Recording(d))) * defs[d].spec.interval
    <3>3. room \in Int
      <4>1. Cardinality(Ticks) \in Nat /\ Cardinality(Waiting(d)) \in Nat
            /\ Cardinality(Recording(d)) \in Nat
        BY TicksCounted DEF Waiting, Recording
      <4> QED BY <2>2, <4>1
    <3>4. defs[d].present /\ defs[d].spec.interval > 0 => defs[d].eta <= room
      BY <2>1 DEF Tally
    <3>5. room = (Cardinality(Ticks) - Cardinality(Waiting(d)')
                    - Cardinality(Recording(d)')) * defs'[d].spec.interval
      BY <1>2, <1>6
    <3> HIDE DEF room
    <3>6. defs'[d].present /\ defs'[d].spec.interval > 0 => defs'[d].eta <= room
      BY <1>2, <2>2, <3>3, <3>4
    <3> QED BY <1>2, <1>6, <2>1, <3>1, <3>2, <3>5, <3>6 DEF Tally
  <2> QED BY <2>3, <2>4
<1> QED BY <1>5, <1>7, <1>8 DEF Kept

\* An edited definition is not counted any more, the others stay as they are.
LEMMA EditKeeps ==
  ASSUME TypeOK, Kept, NEW d \in Defs, EditDef(d) \/ DeleteDef(d)
  PROVE  Kept'
<1>1. /\ tick' = tick /\ fired' = [fired EXCEPT ![d] = Edited]
      /\ \A c \in Defs : c # d => defs'[c] = defs[c]
  BY DEF EditDef, DeleteDef, TypeOK
<1>2. ~Counted(d)' /\ \A c \in Defs : c # d => fired'[c] = fired[c]
  BY <1>1 DEF TypeOK, Counted
<1>3. \A c \in Defs : Counted(c)' => c # d /\ Counted(c)
  BY <1>2 DEF Counted
<1>4. Promoting'
  <2>1. \A u \in Ticks : \A f \in tick[u].batch \cup tick[u].current : f.def \in Defs
    BY DEF TypeOK, TickState, Entry
  <2> QED BY <1>1, <1>3, <2>1 DEF Kept, Promoting
<1>5. \A c \in Defs : Waiting(c)' = Waiting(c) /\ Recording(c)' = Recording(c)
  BY <1>1 DEF Waiting, Recording
<1>6. ASSUME NEW c \in Defs, Counted(c)' PROVE Tally(c)'
  BY <1>1, <1>2, <1>3, <1>4, <1>5, <1>6, TallySame DEF Kept
<1> QED BY <1>4, <1>6 DEF Kept

LEMMA KeptNext == TypeOK /\ TypeOK' /\ Kept /\ [Next]_vars => Kept'
<1> SUFFICES ASSUME TypeOK, TypeOK', Kept, [Next]_vars PROVE Kept'
  OBVIOUS
<1>1. ASSUME UNCHANGED <<defs, fired, tick>> PROVE Kept'
  BY <1>1, KeptByFewer DEF Kept, Promoting
<1>2. ASSUME Enqueue PROVE Kept'
  BY <1>1, <1>2 DEF Enqueue
<1>3. ASSUME NEW j \in JobIds, JobFallsDue(j) \/ LockExpires(j) \/ Retry(j) PROVE Kept'
  BY <1>1, <1>3 DEF JobFallsDue, LockExpires, Retry
<1>4. ASSUME NEW t \in Ticks, Execution(t) PROVE Kept'
  <2>1. UNCHANGED <<defs, fired>> /\ \A u \in Ticks : u # t => tick'[u] = tick[u]
    <3>1. CASE Claim(t)
      BY <3>1 DEF Claim, TypeOK
    <3>2. CASE HandlerReturns(t) \/ HandlerThrows(t) \/ CompleteFails(t)
      BY <3>2 DEF HandlerReturns, HandlerThrows, CompleteFails, Goto, TypeOK
    <3>3. CASE ClaimNone(t) \/ Complete(t) \/ Fail(t) \/ FailFails(t)
      BY <3>3 DEF ClaimNone, Complete, Fail, FailFails, Finish, TypeOK
    <3> QED BY <1>4, <3>1, <3>2, <3>3 DEF Execution
  <2>2. tick[t].batch = {} /\ tick[t].current = {}
    <3>1. tick[t].pc \notin {"promote", "advance"}
      BY <1>4 DEF Execution, Claim, ClaimNone, HandlerReturns, HandlerThrows, Complete,
           CompleteFails, Fail, FailFails
    <3> QED BY <3>1 DEF Kept, Promoting
  <2>3. tick'[t].batch = {} /\ tick'[t].current = {}
    <3>1. CASE Claim(t)
      <4>1. PICK j \in JobIds : tick' = [tick EXCEPT
              ![t].job = j, ![t].attempts = jobs[j].attempts + 1,
              ![t].pc = IF jobs[j].type \in Handlers THEN "handler" ELSE "fail"]
        BY <3>1 DEF Claim
      <4> QED BY <2>2, <4>1 DEF TypeOK, TickState
    <3>2. CASE HandlerReturns(t) \/ HandlerThrows(t) \/ CompleteFails(t)
      BY <2>2, <3>2 DEF HandlerReturns, HandlerThrows, CompleteFails, Goto, TypeOK, TickState
    <3>3. CASE ClaimNone(t) \/ Complete(t) \/ Fail(t) \/ FailFails(t)
      BY <3>3 DEF ClaimNone, Complete, Fail, FailFails, Finish, IdleTick, TypeOK
    <3> QED BY <1>4, <3>1, <3>2, <3>3 DEF Execution
  <2> QED BY <2>1, <2>2, <2>3, KeptByFewer DEF Kept, Promoting
<1>5. ASSUME NEW p \in Procs, Crash(p) PROVE Kept'
  <2>1. \A u \in Ticks : tick'[u] = IdleTick \/ tick'[u] = tick[u]
    BY <1>5 DEF Crash
  <2>2. Recount /\ UNCHANGED defs
    BY <1>5 DEF Crash
  <2> QED BY <2>1, <2>2, KeptByFewer DEF IdleTick, Kept, Promoting
<1>6. ASSUME NEW t \in Ticks, StartTick(t) \/ SelectFails(t) \/ PromoteDone(t) PROVE Kept'
  <2>1. /\ tick'[t].batch = {} /\ tick'[t].current = {} /\ tick[t].current = {}
        /\ \A u \in Ticks : u # t => tick'[u] = tick[u]
        /\ UNCHANGED <<defs, fired>>
    BY <1>6 DEF StartTick, SelectFails, PromoteDone, Goto, Finish, IdleTick, TypeOK, TickState,
         Kept, Promoting
  <2> QED BY <2>1, KeptByFewer DEF Kept, Promoting
<1>7. ASSUME NEW t \in Ticks, PromoteSkip(t) PROVE Kept'
  <2>1. PICK e \in tick[t].batch : tick' = [tick EXCEPT ![t].batch = @ \ {e}]
    BY <1>7 DEF PromoteSkip
  <2>2. /\ tick'[t].batch \subseteq tick[t].batch
        /\ tick'[t].current = tick[t].current /\ tick'[t].pc = tick[t].pc
        /\ \A u \in Ticks : u # t => tick'[u] = tick[u]
    BY <2>1 DEF TypeOK, TickState
  <2>3. UNCHANGED <<defs, fired>>
    BY <1>7 DEF PromoteSkip
  <2> QED BY <2>2, <2>3, KeptByFewer DEF Kept, Promoting
<1>8. ASSUME NEW t \in Ticks, PromoteAdvanceFails(t) PROVE Kept'
  <2>1. /\ tick'[t].batch = tick[t].batch /\ tick'[t].current = {} /\ tick'[t].pc = "promote"
        /\ \A u \in Ticks : u # t => tick'[u] = tick[u]
        /\ Recount /\ UNCHANGED defs
    BY <1>8 DEF PromoteAdvanceFails, TypeOK, TickState
  <2> QED BY <2>1, KeptByFewer DEF Kept, Promoting
<1>9. CASE UNCHANGED vars
  BY <1>1, <1>9 DEF vars
<1>10. ASSUME NEW t \in Ticks, Promotion(t) PROVE Kept'
  BY <1>6, <1>7, <1>8, <1>10, SelectKeeps, InsertKeeps, AdvanceKeeps DEF Promotion
<1> QED
  BY <1>2, <1>3, <1>4, <1>5, <1>9, <1>10, ClockKeeps, EditKeeps
  DEF Next, Passing, Administration

LEMMA AlwaysKept == Spec => []Kept
<1>1. TypeOK /\ TypeOK' /\ Kept /\ [Next]_vars => Kept'
  BY KeptNext
<1> QED BY <1>1, KeptInit, Typing, PTL DEF Spec

\* Advancing or disabling a definition swallows no firing, whatever ticks overlap
\* and whatever crashes, fails or is edited between the INSERT of its job and the
\* UPDATE of its row: one that had no job since it came due is still due.
THEOREM LosesNoFiring == Spec => []NoLostFiring
<1>1. TypeOK /\ Kept => NoLostFiring
  BY DEF Kept, NoLostFiring, Tally, Counted, Edited
<1> QED BY <1>1, AlwaysKept, Typing, PTL

\* However many ticks overlap, die or see a statement fail, a definition nobody
\* edited fires at most once per tick each time it comes due.
THEOREM FiresPerTick == Spec => []FiringsBounded
<1>1. TypeOK /\ Kept => FiringsBounded
  <2> SUFFICES ASSUME TypeOK, Kept, NEW d \in Defs PROVE fired[d] <= Cardinality(Ticks)
    BY DEF FiringsBounded
  <2>1. Cardinality(Ticks) \in Nat /\ Cardinality(Waiting(d)) \in Nat
    BY TicksCounted DEF Waiting
  <2>2. CASE Counted(d)
    <3>1. fired[d] \in Nat
      BY <2>2 DEF TypeOK, Counted
    <3> QED BY <2>1, <2>2, <3>1 DEF Kept, Tally
  <2>3. CASE ~Counted(d)
    BY <2>1, <2>3 DEF Counted, Edited
  <2> QED BY <2>2, <2>3
<1> QED BY <1>1, AlwaysKept, Typing, PTL

\* However many ticks overlap, die or see a statement fail, a recurring definition
\* nobody edited is never further from its next run than one interval per tick:
\* an UPDATE that fails and is made up for by the next tick adds none.
THEOREM KeepsCadence == Spec => []CadenceKept
<1>1. TypeOK /\ Kept => CadenceKept
  <2> SUFFICES ASSUME TypeOK, Kept, NEW d \in Defs, Counted(d), defs[d].present,
                      defs[d].spec.interval > 0
               PROVE  defs[d].eta <= Cardinality(Ticks) * defs[d].spec.interval
    BY DEF CadenceKept
  <2> DEFINE T == Cardinality(Ticks)  w == Cardinality(Waiting(d))
             r == Cardinality(Recording(d))  i == defs[d].spec.interval
  <2>1. T \in Nat /\ w \in Nat /\ r \in Nat
    BY TicksCounted DEF Waiting, Recording
  <2>2. i \in Nat /\ defs[d].eta \in Nat
    BY Constants DEF TypeOK, DefRow
  <2>3. defs[d].eta <= (T - w - r) * i
    BY DEF Kept, Tally
  <2> HIDE DEF T, w, r, i
  <2>4. (T - w - r) * i <= T * i
    <3>1. T - w - r \in Int /\ T - w - r <= T
      BY <2>1
    <3> QED BY <2>1, <2>2, <3>1, MoreRoom
  <2>5. (T - w - r) * i \in Int /\ T * i \in Int
    BY <2>1, <2>2
  <2>6. defs[d].eta <= T * i
    BY <2>2, <2>3, <2>4, <2>5
  <2> QED BY <2>6 DEF T, i
<1> QED BY <1>1, AlwaysKept, Typing, PTL
=============================================================================
