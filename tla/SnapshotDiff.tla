---------------------------- MODULE SnapshotDiff ----------------------------
(***************************************************************************)
(* How Nova learns of progress (api/services/integration/                  *)
(* novaSnapshotDiff.ts, novaProgressProjection.ts): a recurring job        *)
(* projects a linked project, compares the hash of the projection and of   *)
(* each turnover package with what the link row remembers, and emits what  *)
(* has changed, the event and the new hash in one transaction.             *)
(*                                                                         *)
(* A hash is as good as what it is a hash of.  A summary is read in two    *)
(* statements that see different moments: the project row, then the counts *)
(* of its deficiencies, actions and packages.  NovaOutbox says what        *)
(* becomes of the events.                                                  *)
(***************************************************************************)
EXTENDS Integers, Sequences

CONSTANTS
  Packages,     \* turnover packages of the project
  Values,       \* what a project row, a set of counts, or a package can show
  Seed,         \* the summary project.create emits and hashes: never projected
  Unknown,      \* no hash yet
  DiffJobs,     \* diff jobs of the tenant in progress: one, unless promoters overlap
  MaxChanges,   \* bound: changes of the project
  MaxFailures   \* bound: statements that fail

\* initialSummary names no counts, and a projection always does.
ASSUME SeedAssumption == Seed \notin Values \X Values
ASSUME UnknownAssumption == Unknown \notin Values
ASSUME PackagesAssumption == "progress" \notin Packages
ASSUME DiffBounds == MaxChanges \in Nat /\ MaxFailures \in Nat

VARIABLES
  project,   \* what a statement would read now: row, counts, packages
  link,      \* nova_project_links: last_summary_hash, last_turnover_state
  outbox,    \* nova_outbox: what the events about each thing say, in the order of seq
  job,       \* the diff jobs and what their handlers have read
  changes, failures

diffVars == <<project, link, outbox, job, changes, failures>>

-----------------------------------------------------------------------------
Maybe(S) == S \cup {Unknown}
Summary  == (Values \X Values) \cup {Seed}
States   == [Packages -> Maybe(Values)]

ProjectState == [row : Values, counts : Values, packages : [Packages -> Values]]
LinkRow      == [linked : BOOLEAN, summary : Summary, turnover : States]

\* What an event is about.  The order of events about different things is left
\* out: the diff never looks at it, and Nova keeps the last one about each thing.
Subjects == {"progress"} \cup Packages
Said     == Summary \cup Values

\* What the handler read: the link, then piece by piece the project.
JobSteps == {"none", "queued", "row", "counts", "emit", "packages", "emit packages"}
JobState == [step : JobSteps, link : LinkRow,
             row : Maybe(Values), counts : Maybe(Values), packages : States]

NoStates == [p \in Packages |-> Unknown]
NoLink   == [linked |-> FALSE, summary |-> Seed, turnover |-> NoStates]
NoJob    == [step |-> "none", link |-> NoLink,
             row |-> Unknown, counts |-> Unknown, packages |-> NoStates]

DiffInit ==
  /\ project \in ProjectState
  /\ link = NoLink
  /\ outbox = [x \in Subjects |-> <<>>]
  /\ job = [d \in DiffJobs |-> NoJob]
  /\ changes = 0 /\ failures = 0

-----------------------------------------------------------------------------
(* The project and its link *)

\* INSERT INTO nova_outbox, for everything in about.
Emit(about, says) ==
  outbox' = [x \in Subjects |-> IF x \in about THEN Append(outbox[x], says[x]) ELSE outbox[x]]

\* The last event about something, by seq: what Nova's stale guard keeps.
LastSaid(x) == outbox[x][Len(outbox[x])]

\* project.create: the link row and the created event in one transaction.
LinkProject ==
  /\ ~link.linked
  /\ link' = [NoLink EXCEPT !.linked = TRUE]
  /\ Emit({"progress"}, [progress |-> Seed])
  /\ UNCHANGED <<project, job, changes, failures>>

\* Somebody works on the project.
ChangeProject ==
  /\ changes < MaxChanges
  /\ changes' = changes + 1
  /\ \E new \in ProjectState \ {project} : project' = new
  /\ UNCHANGED <<link, outbox, job, failures>>

-----------------------------------------------------------------------------
(* _promoteSnapshotDiffs *)

\* The tenant has a link and neither a queued nor a running diff job.
PromoteDiff(d) ==
  /\ link.linked
  /\ job[d].step = "none"
  /\ job' = [job EXCEPT ![d].step = "queued"]
  /\ UNCHANGED <<project, link, outbox, changes, failures>>

-----------------------------------------------------------------------------
(* _handleSnapshotDiffJob, _diffLink *)

\* A scheduler tick has claimed the job: the SELECT of the links.
SelectLinks(d) ==
  /\ job[d].step = "queued"
  /\ job' = [job EXCEPT ![d].step = "row", ![d].link = link]
  /\ UNCHANGED <<project, link, outbox, changes, failures>>

\* buildProgressSummary: the project row ...
ReadRow(d) ==
  /\ job[d].step = "row"
  /\ job' = [job EXCEPT ![d].step = "counts", ![d].row = project.row]
  /\ UNCHANGED <<project, link, outbox, changes, failures>>

\* ... and the counts, some other moment.
ReadCounts(d) ==
  /\ job[d].step = "counts"
  /\ job' = [job EXCEPT ![d].step = "emit", ![d].counts = project.counts]
  /\ UNCHANGED <<project, link, outbox, changes, failures>>

Read(d) == <<job[d].row, job[d].counts>>

\* Bug: hashes what the project shows by now, not what it emits.
EmitAndRehash(d) ==
  /\ job[d].step = "emit"
  /\ job' = [job EXCEPT ![d].step = "packages"]
  /\ IF Read(d) = job[d].link.summary THEN UNCHANGED <<link, outbox>>
     ELSE /\ Emit({"progress"}, [progress |-> Read(d)])
          /\ link' = [link EXCEPT !.summary = <<project.row, project.counts>>]
  /\ UNCHANGED <<project, changes, failures>>

\* The hash is the one remembered, or event and hash in one transaction.
EmitSummary(d) ==
  /\ job[d].step = "emit"
  /\ job' = [job EXCEPT ![d].step = "packages"]
  /\ IF Read(d) = job[d].link.summary THEN UNCHANGED <<link, outbox>>
     ELSE /\ Emit({"progress"}, [progress |-> Read(d)])
          /\ link' = [link EXCEPT !.summary = Read(d)]
  /\ UNCHANGED <<project, changes, failures>>

ReadPackages(d) ==
  /\ job[d].step = "packages"
  /\ job' = [job EXCEPT ![d].step = "emit packages", ![d].packages = project.packages]
  /\ UNCHANGED <<project, link, outbox, changes, failures>>

Changed(d) == {p \in Packages : job[d].packages[p] # job[d].link.turnover[p]}

\* Bug: remembers the changed packages and forgets the others.
EmitAndForget(d) ==
  /\ job[d].step = "emit packages"
  /\ job' = [job EXCEPT ![d] = NoJob]
  /\ Emit(Changed(d), job[d].packages)
  /\ link' = [link EXCEPT !.turnover =
       [p \in Packages |-> IF p \in Changed(d) THEN job[d].packages[p] ELSE Unknown]]
  /\ UNCHANGED <<project, changes, failures>>

\* One event for each package whose hash is new, the whole state remembered.
EmitPackages(d) ==
  /\ job[d].step = "emit packages"
  /\ job' = [job EXCEPT ![d] = NoJob]
  /\ IF Changed(d) = {} THEN UNCHANGED <<link, outbox>>
     ELSE /\ Emit(Changed(d), job[d].packages)
          /\ link' = [link EXCEPT !.turnover = job[d].packages]
  /\ UNCHANGED <<project, changes, failures>>

\* A statement fails: logged, and the link waits for the next job.
DiffFails(d) ==
  /\ failures < MaxFailures
  /\ job[d].step \notin {"none", "queued"}
  /\ failures' = failures + 1
  /\ job' = [job EXCEPT ![d] = NoJob]
  /\ UNCHANGED <<project, link, outbox, changes>>

Diffing(d) ==
  \/ SelectLinks(d) \/ ReadRow(d) \/ ReadCounts(d) \/ EmitSummary(d)
  \/ ReadPackages(d) \/ EmitPackages(d)

DiffNext ==
  \/ LinkProject \/ ChangeProject
  \/ \E d \in DiffJobs : PromoteDiff(d) \/ Diffing(d) \/ DiffFails(d)

DiffSpec == DiffInit /\ [][DiffNext]_diffVars

\* The promoter runs with every tick of the scheduler, which also runs the job
\* to its end; that a process dies in between is a matter of JobScheduler.
DiffFairness ==
  \A d \in DiffJobs : WF_diffVars(PromoteDiff(d)) /\ WF_diffVars(Diffing(d))

DiffFairSpec == DiffSpec /\ DiffFairness

-----------------------------------------------------------------------------
(* Correctness *)

\* Every variable keeps its type, and what a job emits it has read.
DiffTypeOK ==
  /\ project \in ProjectState
  /\ link \in LinkRow
  /\ outbox \in [Subjects -> Seq(Said)]
  /\ job \in [DiffJobs -> JobState]
  /\ changes \in 0..MaxChanges /\ failures \in 0..MaxFailures
  /\ \A d \in DiffJobs :
       /\ job[d].step \in {"counts", "emit"} => job[d].row \in Values
       /\ job[d].step = "emit" => job[d].counts \in Values
       /\ job[d].step = "emit packages" => job[d].packages \in [Packages -> Values]

\* Nova is told of changes only: two events about the same thing that follow
\* one another never say the same, whatever fails between reading a summary and
\* emitting it, and however the project changes back and forth meanwhile.
NoRepeats ==
  \A x \in Subjects : \A i \in 1..(Len(outbox[x]) - 1) : outbox[x][i] # outbox[x][i + 1]

Told(x, value) == outbox[x] # <<>> /\ LastSaid(x) = value

\* Once the project rests, the last event about its progress and about each of
\* its packages says how things are, though a summary is put together from
\* moments that never were, and compared with a link row read before it.
EveryChangeTold ==
  <>[](link.linked =>
         /\ Told("progress", <<project.row, project.counts>>)
         /\ \A p \in Packages : Told(p, project.packages[p]))
=============================================================================
