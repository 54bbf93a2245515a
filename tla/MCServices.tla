----------------------------- MODULE MCServices -----------------------------
(***************************************************************************)
(* Small instances of the services that work on tables of their own.  No   *)
(* step of one reads or writes what another one does, so that nothing is   *)
(* learnt from interleaving them: each behaviour is one of a single part.  *)
(***************************************************************************)
EXTENDS AgentTasks, NovaCommands, SnapshotDiff, PackWorker, MobileSync, CostPosting, CriticalPath, TLC

CONSTANTS w1, k1, k2, v1, v2, p1, d1, g1, g2, m1, s1, c1, a1, a2, r1, r2, key1, key2, t1, t2, u1, u2, n1, n2, n3

VARIABLE part   \* the service that moves

allVars ==
  <<agentVars, commandVars, diffVars, packVars, syncVars, costVars, networkVars, part>>

\* Two numbers for what is one project to Nova; under another key, each body is in
\* its own way.
MCBodies == {[digest |-> 1, number |-> 1, nova |-> 1],
             [digest |-> 2, number |-> 2, nova |-> 1]}

\* A lead and a lag; milestones and tasks of two days are led and followed by either.
MCLags == {-1, 1}

ServicesInit ==
  /\ AgentInit /\ CommandsInit /\ DiffInit /\ PackInit /\ SyncInit /\ CostInit /\ NetworkInit
  /\ part \in {"agents", "commands", "diff", "packs", "sync", "costs", "schedule"}
  /\ part = "diff" \/ project = [row |-> v1, counts |-> v1, packages |-> [p \in Packages |-> v1]]

Agents   == part = "agents"   /\ AgentNext    /\ UNCHANGED <<commandVars, diffVars, packVars, syncVars, costVars, networkVars, part>>
Commands == part = "commands" /\ CommandsNext /\ UNCHANGED <<agentVars, diffVars, packVars, syncVars, costVars, networkVars, part>>
Diff     == part = "diff"     /\ DiffNext     /\ UNCHANGED <<agentVars, commandVars, packVars, syncVars, costVars, networkVars, part>>
Packs    == part = "packs"    /\ PackNext     /\ UNCHANGED <<agentVars, commandVars, diffVars, syncVars, costVars, networkVars, part>>
Sync     == part = "sync"     /\ SyncNext     /\ UNCHANGED <<agentVars, commandVars, diffVars, packVars, costVars, networkVars, part>>
Costs    == part = "costs"    /\ CostNext     /\ UNCHANGED <<agentVars, commandVars, diffVars, packVars, syncVars, networkVars, part>>
Schedule == part = "schedule" /\ NetworkNext /\ UNCHANGED <<agentVars, commandVars, diffVars, packVars, syncVars, costVars, part>>

ServicesNext == Agents \/ Commands \/ Diff \/ Packs \/ Sync \/ Costs \/ Schedule

\* The fairness of the part that moves; AgentFairness and DiffFairness say why.
ServicesFairness ==
  /\ \A w \in Workers :
       /\ WF_agentVars(part = "agents" /\ Poll(w))
       /\ WF_agentVars(part = "agents" /\ (ClaimTask(w) \/ ClaimNoTask(w)))
  /\ WF_agentVars(part = "agents" /\ \E k \in Tasks : TaskFallsDue(k))
  /\ WF_agentVars(part = "agents" /\ \E k \in Tasks : ClaimGrowsStale(k))
  /\ WF_agentVars(part = "agents" /\ \E x \in live : Executing(x))
  /\ WF_agentVars(part = "agents" /\ ReclaimStaleTasks)
  /\ \A d \in DiffJobs :
       /\ WF_diffVars(part = "diff" /\ PromoteDiff(d))
       /\ WF_diffVars(part = "diff" /\ Diffing(d))

ServicesSpec == ServicesInit /\ [][ServicesNext]_allVars /\ ServicesFairness

ServicesTypeOK ==
  AgentTypeOK /\ CommandsTypeOK /\ DiffTypeOK /\ PackTypeOK /\ SyncTypeOK /\ CostTypeOK
  /\ NetworkTypeOK
=============================================================================
