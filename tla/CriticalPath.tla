---------------------------- MODULE CriticalPath ----------------------------
(***************************************************************************)
(* The schedule of a project: tasks and finish-to-start dependencies, as   *)
(* the routes edit them (api/routes/schedule.ts), and the critical path    *)
(* they make (api/services/cpm.ts), one turn of a loop at a time.          *)
(*                                                                         *)
(* A task is here while it has a duration, a dependency while it has a lag *)
(* (a lead, if negative).  The tables keep a dependency from leading to    *)
(* its own predecessor and from being there twice; nobody asks whether its *)
(* tasks are of one project, and cycles are for the computation to find.   *)
(* It runs on the rows it was given, so that nothing is lost by letting    *)
(* the edits wait for its end.                                             *)
(***************************************************************************)
EXTENDS Integers, Sequences, SequencesExt, FiniteSetsExt

CONSTANTS
  Activities,  \* rows schedule_tasks may hold
  Durations,   \* duration_days: what a request may ask for, from 0
  Lags         \* lag_days, of either sign

ASSUME NetworkAssumption ==
  IsFiniteSet(Activities) /\ Durations \subseteq Nat /\ Lags \subseteq Int

VARIABLES
  duration,    \* schedule_tasks: the duration of each task of the project
  elsewhere,   \* and the tasks of other projects
  lag,         \* schedule_dependencies: the lag of each <<predecessor, successor>>
  pass,        \* where computeCpm is
  ready,       \* its queue: tasks all of whose predecessors are in topo
  topo,        \* the tasks in the order they are taken
  at,          \* the place in topo it has come to
  es,          \* the early start of each task passed on the way forward
  lf           \* the late finish of each task passed on the way back

tableVars   == <<duration, elsewhere, lag>>
cpmVars     == <<pass, ready, topo, at, es, lf>>
networkVars == <<tableVars, cpmVars>>

-----------------------------------------------------------------------------
Present  == DOMAIN duration
AllTasks == Present \cup elsewhere
Links    == DOMAIN lag
Within   == Links \cap (Present \X Present)

Preds(a) == {p \in Present : <<p, a>> \in Links}
Succs(a) == {s \in Present : <<a, s>> \in Links}

With(f, x, value) == [y \in DOMAIN f \cup {x} |-> IF y = x THEN value ELSE f[y]]

Passes == {"none", "sort", "forward", "backward", "missing", "cyclic", "done"}

NothingComputed ==
  /\ pass = "none" /\ ready = {} /\ topo = <<>> /\ at = 0
  /\ es = <<>> /\ lf = <<>>

NetworkInit == duration = <<>> /\ elsewhere = {} /\ lag = <<>> /\ NothingComputed

-----------------------------------------------------------------------------
(* The routes *)

\* POST and PATCH of a task.
PutTask(a) ==
  /\ pass = "none" /\ a \notin elsewhere
  /\ \E d \in Durations : duration' = With(duration, a, d)
  /\ UNCHANGED <<elsewhere, lag, cpmVars>>

\* POST of a task of another project.
PutElsewhere(a) ==
  /\ pass = "none" /\ a \notin Present
  /\ elsewhere' = elsewhere \cup {a}
  /\ UNCHANGED <<duration, lag, cpmVars>>

\* Its dependencies go with it: ON DELETE CASCADE.
DeleteTask(a) ==
  /\ pass = "none" /\ a \in AllTasks
  /\ elsewhere' = elsewhere \ {a}
  /\ duration' = [b \in Present \ {a} |-> duration[b]]
  /\ lag' = [l \in {k \in Links : a \notin {k[1], k[2]}} |-> lag[l]]
  /\ UNCHANGED cpmVars

\* The two tasks may be of any project.
AddDependency(p, s) ==
  /\ pass = "none"
  /\ {p, s} \subseteq AllTasks /\ p # s /\ <<p, s>> \notin Links
  /\ \E n \in Lags : lag' = With(lag, <<p, s>>, n)
  /\ UNCHANGED <<duration, elsewhere, cpmVars>>

DeleteDependency(l) ==
  /\ pass = "none"
  /\ lag' = [k \in Links \ {l} |-> lag[k]]
  /\ UNCHANGED <<duration, elsewhere, cpmVars>>

-----------------------------------------------------------------------------
(* computeCpm: Kahn's algorithm *)

\* Links read, as their predecessor is in the project, with an end that is not in T.
LeadOut(T) == {l \in Links : l[1] \in Present /\ {l[1], l[2]} \ T # {}}

\* GET cpm, of a project with tasks.  The tasks, T, and the links are read by two
\* queries at once: other tasks may be made between them, and links to these.
\* CpmMissingTaskError: one end of a link is not among the tasks.
MissingTask ==
  /\ pass = "none"
  /\ \E T \in (SUBSET Present) \ {{}} : LeadOut(T) # {}
  /\ pass' = "missing"
  /\ UNCHANGED <<tableVars, ready, topo, at, es, lf>>

\* Tasks with no link to those made later are computed as a project without them.
Compute ==
  /\ pass = "none" /\ Present # {} /\ LeadOut(Present) = {}
  /\ pass' = "sort"
  /\ ready' = {a \in Present : Preds(a) = {}}
  /\ UNCHANGED <<tableVars, topo, at, es, lf>>

Taken == ToSet(topo)

\* A task is queued when the last of its predecessors is taken, so the tasks on
\* a cycle, and those behind it, never are.  In what order the queue is emptied
\* depends on that of the rows.
TakeReady(a) ==
  /\ pass = "sort" /\ a \in ready
  /\ topo' = Append(topo, a)
  /\ ready' = (ready \ {a}) \cup {s \in Succs(a) : Preds(s) \subseteq Taken \cup {a}}
  /\ UNCHANGED <<tableVars, pass, at, es, lf>>

\* CpmCycleError, unless every task was taken.
Sorted ==
  /\ pass = "sort" /\ ready = {}
  /\ IF Len(topo) # Cardinality(Present)
       THEN pass' = "cyclic" /\ UNCHANGED at
       ELSE pass' = "forward" /\ at' = 1
  /\ UNCHANGED <<tableVars, ready, topo, es, lf>>

-----------------------------------------------------------------------------
(* The two passes *)

EarlyFinish(a) == es[a] + duration[a]

\* A lead cannot push the start below day 0.
EarlyStart(a) == Max({0} \cup {EarlyFinish(p) + lag[<<p, a>>] : p \in Preds(a)})

PassForward ==
  /\ pass = "forward"
  /\ es' = With(es, topo[at], EarlyStart(topo[at]))
  /\ IF at = Len(topo) THEN pass' = "backward" /\ UNCHANGED at
                       ELSE at' = at + 1 /\ UNCHANGED pass
  /\ UNCHANGED <<tableVars, ready, topo, lf>>

\* project_finish
Finish == Max({EarlyFinish(a) : a \in Present})

LateStart(a) == lf[a] - duration[a]

\* Bug: the lag counts on the way forward only.
LateFinishUnlagged(a) ==
  IF Succs(a) = {} THEN Finish ELSE Min({LateStart(s) : s \in Succs(a)})

LateFinish(a) ==
  IF Succs(a) = {} THEN Finish ELSE Min({LateStart(s) - lag[<<a, s>>] : s \in Succs(a)})

PassBackward ==
  /\ pass = "backward"
  /\ lf' = With(lf, topo[at], LateFinish(topo[at]))
  /\ at' = at - 1
  /\ pass' = IF at = 1 THEN "done" ELSE pass
  /\ UNCHANGED <<tableVars, ready, topo, es>>

\* total_float: a task is critical if it has none.
Float(a) == lf[a] - EarlyFinish(a)

\* The result, or what is wrong, is sent, and everything forgotten.
SendResult ==
  /\ pass \in {"missing", "cyclic", "done"}
  /\ pass' = "none" /\ ready' = {} /\ topo' = <<>> /\ at' = 0 /\ es' = <<>> /\ lf' = <<>>
  /\ UNCHANGED tableVars

NetworkNext ==
  \/ \E a \in Activities : PutTask(a) \/ PutElsewhere(a) \/ DeleteTask(a)
  \/ \E p, s \in Activities : AddDependency(p, s)
  \/ \E l \in Links : DeleteDependency(l)
  \/ MissingTask \/ Compute \/ (\E a \in ready : TakeReady(a)) \/ Sorted
  \/ PassForward \/ PassBackward \/ SendResult

NetworkSpec == NetworkInit /\ [][NetworkNext]_networkVars

-----------------------------------------------------------------------------
(* Correctness *)

\* Every variable keeps its type, and a pass has been through the tasks before,
\* or behind, the place it has come to.
NetworkTypeOK ==
  /\ Present \subseteq Activities /\ duration \in [Present -> Durations]
  /\ elsewhere \subseteq Activities \ Present
  /\ Links \subseteq AllTasks \X AllTasks /\ lag \in [Links -> Lags]
  /\ pass \in Passes /\ ready \subseteq Present /\ topo \in Seq(Present)
  /\ at \in 0..Len(topo)
  /\ es \in [DOMAIN es -> Nat] /\ DOMAIN es \subseteq Present
  /\ lf \in [DOMAIN lf -> Int] /\ DOMAIN lf \subseteq Present
  /\ pass = "forward" => DOMAIN es = {topo[i] : i \in 1..(at - 1)}
  /\ pass = "backward" => DOMAIN lf = {topo[i] : i \in (at + 1)..Len(topo)}

\* Tasks each of which waits for another of them.
Cyclic == \E S \in (SUBSET Present) \ {{}} : \A a \in S : Preds(a) \cap S # {}

\* Days to start the tasks on that keep every dependency, if the tasks take d.
Keeps(start, d) == \A l \in Within : start[l[1]] + d[l[1]] + lag[l] <= start[l[2]]

\* The project can be done in n days.
InTime(start, d, n) == Keeps(start, d) /\ \A a \in Present : start[a] + d[a] <= n
CanBeDone(d, n) == \E start \in [Present -> 0..n] : InTime(start, d, n)

Longer(a, n) == [duration EXCEPT ![a] = @ + n]

\* No successor finishes before the predecessor it leads does.
LeadsFit == \A l \in Within : lag[l] + duration[l[2]] >= 0

\* A project with a link to another one is never computed, and a project that is
\* computed is rejected if and only if it has a cycle.  If it has none, the
\* finish is the first day by which the project can be done, and the float of a
\* task is exactly how much longer it may take without anything changing about
\* that, unless a lead is longer than the task it leads: then LateFinish forgets
\* that the predecessor itself must finish, and the float is too large.
CriticalPathIsTrue ==
  /\ pass \notin {"none", "missing"} => \A l \in Links : l[1] \in Present => l \in Within
  /\ pass = "cyclic" => Cyclic
  /\ pass \in {"forward", "backward", "done"} => ~Cyclic
  /\ pass = "done" =>
       /\ CanBeDone(duration, Finish)
       /\ \A n \in 0..(Finish - 1) : ~CanBeDone(duration, n)
       /\ \A a \in Present :
            /\ Float(a) >= 0
            /\ LeadsFit => CanBeDone(Longer(a, Float(a)), Finish)
            /\ ~CanBeDone(Longer(a, Float(a) + 1), Finish)
=============================================================================
