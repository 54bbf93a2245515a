--------------------------- MODULE Services_proofs ---------------------------
(***************************************************************************)
(* The services that work on tables of their own.  First CriticalPath, for *)
(* any finite network, any durations, lags and leads; then the services    *)
(* together, as MCServices runs them: each of them is still what its own   *)
(* module says, and all that is proved of it alone holds.                  *)
(***************************************************************************)
EXTENDS MCServices, Workers_proofs, NovaLink_proofs, FieldRecords_proofs,
        FiniteSetTheorems, WellFoundedInduction, TLAPS

-----------------------------------------------------------------------------
(* The largest and the smallest of finitely many numbers                     *)

\* Of the first k members of a sequence of numbers one is the largest.
LEMMA LargestOfPrefix ==
  ASSUME NEW n \in Nat, NEW f \in [1..n -> Int]
  PROVE  \A k \in 1..n : \E m \in 1..k : \A j \in 1..k : f[j] <= f[m]
<1> DEFINE Largest(m, k) == \A j \in 1..k : f[j] <= f[m]
<1> DEFINE Failing == {k \in 1..n : \A m \in 1..k : ~Largest(m, k)}
<1> SUFFICES ASSUME Failing # {} PROVE FALSE
  OBVIOUS
<1>1. PICK k \in Failing : \A j \in Failing : ~(j < k)
  <2>1. Failing \subseteq Nat
    OBVIOUS
  <2>2. PICK k \in Failing : \A j \in Failing : <<j, k>> \notin OpToRel(<, Nat)
    <3> HIDE DEF Failing
    <3> QED BY <2>1, WFMin, NatLessThanWellFounded
  <2> QED BY <2>1, <2>2 DEF OpToRel
<1>2. k \in 1..n /\ \A m \in 1..k : ~Largest(m, k)
  OBVIOUS
<1>3. k # 1
  <2>1. Largest(1, 1)
    BY <1>2
  <2> HIDE DEF Largest, Failing
  <2> QED BY <1>2, <2>1
<1>4. PICK m \in 1..(k - 1) : Largest(m, k - 1)
  <2>1. k - 1 \in 1..n /\ k - 1 < k
    BY <1>2, <1>3
  <2>2. k - 1 \notin Failing
    <3> HIDE DEF Failing
    <3> QED BY <1>1, <2>1
  <2> HIDE DEF Largest
  <2> QED BY <2>1, <2>2
<1>5. m \in 1..n /\ m \in 1..k /\ f[m] \in Int /\ f[k] \in Int
  BY <1>2, <1>4
<1>6. \A j \in 1..k : j = k \/ j \in 1..(k - 1)
  BY <1>2
<1>7. CASE f[k] <= f[m]
  <2>1. Largest(m, k)
    BY <1>4, <1>6, <1>7
  <2> HIDE DEF Largest, Failing
  <2> QED BY <1>2, <1>5, <2>1
<1>8. CASE f[m] < f[k]
  <2>1. ASSUME NEW j \in 1..(k - 1) PROVE f[j] <= f[k]
    <3>1. f[j] \in Int /\ f[j] <= f[m]
      BY <1>2, <1>4, <2>1
    <3> QED BY <1>5, <1>8, <3>1
  <2>2. Largest(k, k)
    BY <1>5, <1>6, <2>1
  <2>3. k \in 1..k
    BY <1>2
  <2> HIDE DEF Largest, Failing
  <2> QED BY <1>2, <2>2, <2>3
<1> QED BY <1>5, <1>7, <1>8

LEMMA MaxIsLargest ==
  ASSUME NEW S \in SUBSET Int, S # {}, IsFiniteSet(S)
  PROVE  Max(S) \in S /\ \A x \in S : x <= Max(S)
<1>1. PICK n \in Nat : \E f \in [1..n -> S] : \A x \in S : \E i \in 1..n : f[i] = x
  BY FS_NatSurjection DEF ExistsSurjection, Surjection
<1>2. PICK f \in [1..n -> S] : \A x \in S : \E i \in 1..n : f[i] = x
  BY <1>1
<1>3. n \in 1..n
  <2>1. PICK x \in S : TRUE
    OBVIOUS
  <2>2. PICK i \in 1..n : f[i] = x
    BY <1>2
  <2> QED BY <2>2
<1>4. PICK m \in 1..n : \A j \in 1..n : f[j] <= f[m]
  BY <1>3, LargestOfPrefix
<1>5. f[m] \in S /\ \A x \in S : f[m] >= x
  BY <1>2, <1>4
<1> QED BY <1>5 DEF Max

LEMMA MinIsSmallest ==
  ASSUME NEW S \in SUBSET Int, S # {}, IsFiniteSet(S)
  PROVE  Min(S) \in S /\ \A x \in S : Min(S) <= x
<1> DEFINE Negated == {0 - x : x \in S}
<1> DEFINE f == [x \in S |-> 0 - x]
<1>1. f \in Surjection(S, Negated)
  BY DEF Surjection
<1>2. IsFiniteSet(Negated)
  <2> HIDE DEF f, Negated
  <2> QED BY <1>1, FS_Surjection
<1>3. Max(Negated) \in Negated /\ \A x \in Negated : x <= Max(Negated)
  <2>1. Negated \in SUBSET Int
    <3>1. \A x \in S : x \in Int
      OBVIOUS
    <3>2. \A x \in S : 0 - x \in Int
      <4>1. \A i \in Int : 0 - i \in Int
        OBVIOUS
      <4> QED BY <3>1, <4>1, Zenon
    <3> QED BY <3>2, Zenon
  <2>2. Negated # {}
    BY Zenon
  <2> HIDE DEF Negated
  <2> QED BY <1>2, <2>1, <2>2, MaxIsLargest
<1>4. PICK m \in S : Max(Negated) = 0 - m
  BY <1>3
<1>5. \A x \in S : m <= x
  <2> TAKE x \in S
  <2>1. 0 - x \in Negated
    BY Zenon
  <2>2. 0 - x <= 0 - m
    BY <1>3, <1>4, <2>1
  <2>3. x \in Int /\ m \in Int
    OBVIOUS
  <2> HIDE DEF Negated, f
  <2> QED BY <2>2, <2>3
<1> QED BY <1>5 DEF Min

LEMMA LargestFromZero ==
  ASSUME NEW S \in SUBSET Int, IsFiniteSet(S)
  PROVE  /\ Max({0} \cup S) \in Nat
         /\ \A x \in S : x <= Max({0} \cup S)
         /\ Max({0} \cup S) = 0 \/ Max({0} \cup S) \in S
<1>1. IsFiniteSet(S \cup {0}) /\ S \cup {0} = {0} \cup S
  BY FS_AddElement
<1>2. /\ Max({0} \cup S) \in {0} \cup S
      /\ \A x \in {0} \cup S : x <= Max({0} \cup S)
  BY <1>1, MaxIsLargest
<1>3. PICK m : m = Max({0} \cup S)
  OBVIOUS
<1>4. (m = 0 \/ m \in S) /\ \A x \in S : x <= m
  BY <1>2, <1>3
<1>5. 0 \in {0} \cup S
  OBVIOUS
<1>6. 0 <= m
  BY <1>2, <1>3, <1>5
<1>7. m \in Int
  <2>1. 0 \in Int /\ \A x \in S : x \in Int
    OBVIOUS
  <2> QED BY <1>4, <2>1, Zenon
<1>8. m \in Nat
  BY <1>6, <1>7
<1> QED BY <1>3, <1>4, <1>8

\* A finite set has finitely many values under a function.
LEMMA FinitelyMany ==
  ASSUME NEW S, IsFiniteSet(S), NEW f, DOMAIN f = S, f = [x \in S |-> f[x]]
  PROVE  IsFiniteSet({f[x] : x \in S})
<1>1. f \in Surjection(S, {f[x] : x \in S})
  BY DEF Surjection
<1> QED BY <1>1, FS_Surjection

-----------------------------------------------------------------------------
(* The inductive invariant                                                   *)

Tables ==
  /\ Present \subseteq Activities /\ duration \in [Present -> Durations]
  /\ elsewhere \subseteq Activities \ Present
  /\ Links \subseteq AllTasks \X AllTasks /\ lag \in [Links -> Lags]

\* What a pass has been through when it comes to i, from the front and from behind.
Before(i) == {topo[j] : j \in 1..(i - 1)}
Behind(i) == {topo[j] : j \in (i + 1)..Len(topo)}

\* No link of the project leads to another one.
Contained == LeadOut(Present) = {}

\* No task is taken twice, or before its predecessors, or if it is on a cycle; the
\* queue holds what can be taken next; what is left when it runs dry has a cycle.
\* Nothing is taken as long as a link leads to another project.
SortInv ==
  /\ \A i, j \in 1..Len(topo) : topo[i] = topo[j] => i = j
  /\ \A i \in 1..Len(topo) : Preds(topo[i]) \subseteq Before(i)
  /\ \A S \in SUBSET Present : (\A a \in S : Preds(a) \cap S # {}) => S \cap Taken = {}
  /\ pass = "sort" => ready = {a \in Present \ Taken : Preds(a) \subseteq Taken}
  /\ pass = "cyclic" => Cyclic
  /\ pass \in {"forward", "backward", "done"} => Taken = Present
  /\ pass \notin {"none", "missing"} => Contained

PassInv ==
  /\ pass = "none" => NothingComputed
  /\ pass # "none" => Present # {}
  /\ pass \in {"missing", "sort", "cyclic"} => DOMAIN es = {}
  /\ pass \in {"forward", "backward"} => at # 0
  /\ pass \in {"backward", "done"} => DOMAIN es = Present
  /\ pass \notin {"backward", "done"} => DOMAIN lf = {}
  /\ pass = "done" => DOMAIN lf = Present

\* Tasks may take longer than planned.
AtLeast(d) == \A a \in Present : duration[a] <= d[a]
Schedules  == [Present -> Nat]

\* The early starts keep the dependencies, and no other schedule starts earlier.
EarlyInv ==
  /\ \A a \in DOMAIN es :
       /\ Preds(a) \subseteq DOMAIN es
       /\ \A p \in Preds(a) : EarlyFinish(p) + lag[<<p, a>>] <= es[a]
  /\ \A start, d \in Schedules :
       AtLeast(d) /\ Keeps(start, d) => \A a \in DOMAIN es : es[a] <= start[a]

\* The late finishes keep the dependencies, if the leads fit they are in time, and
\* no other schedule that is in time finishes later.
LateInv ==
  /\ \A a \in DOMAIN lf :
       /\ Succs(a) \subseteq DOMAIN lf
       /\ EarlyFinish(a) <= lf[a]
       /\ \A s \in Succs(a) : lf[a] + lag[<<a, s>>] <= LateStart(s)
       /\ LeadsFit => lf[a] <= Finish
  /\ \A start, d \in Schedules :
       AtLeast(d) /\ InTime(start, d, Finish) => \A a \in DOMAIN lf : start[a] + d[a] <= lf[a]

NetworkInv == NetworkTypeOK /\ SortInv /\ PassInv /\ EarlyInv /\ LateInv

\* Between two computations the tables are all there is.
LEMMA Resting == Tables /\ NothingComputed => NetworkInv
<1> SUFFICES ASSUME Tables, NothingComputed PROVE NetworkInv
  OBVIOUS
<1>1. /\ pass = "none" /\ ready = {} /\ topo = <<>> /\ at = 0 /\ Len(topo) = 0
      /\ DOMAIN es = {} /\ DOMAIN lf = {} /\ Taken = {}
  BY DEF NothingComputed, Taken, ToSet
<1>2. topo \in Seq(Present) /\ es \in [DOMAIN es -> Nat] /\ lf \in [DOMAIN lf -> Int]
  BY DEF NothingComputed
<1>3. NetworkTypeOK
  BY <1>1, <1>2 DEF NetworkTypeOK, Tables, Passes
<1>4. SortInv /\ PassInv /\ EarlyInv /\ LateInv
  BY <1>1 DEF NothingComputed, SortInv, PassInv, EarlyInv, LateInv
<1> QED BY <1>3, <1>4 DEF NetworkInv

LEMMA RestingNext == Tables' /\ NothingComputed' => NetworkInv'
BY Resting, PTL

LEMMA NetworkInitially == NetworkInit => NetworkInv
<1> SUFFICES ASSUME NetworkInit PROVE Tables
  BY Resting DEF NetworkInit
<1>1. /\ Present = {} /\ Links = {} /\ elsewhere = {}
      /\ duration \in [{} -> Durations] /\ lag \in [{} -> Lags]
  BY DEF NetworkInit, Present, Links
<1> QED BY <1>1 DEF Tables

-----------------------------------------------------------------------------
(* The edits                                                                 *)

LEMMA WithTyped ==
  ASSUME NEW D, NEW S, NEW f \in [D -> S], NEW x, NEW value \in S
  PROVE  /\ With(f, x, value) \in [D \cup {x} -> S]
         /\ With(f, x, value)[x] = value
         /\ \A y \in D \ {x} : With(f, x, value)[y] = f[y]
  BY DEF With

LEMMA EditStep ==
  ASSUME NetworkInv, pass = "none",
         \/ \E a \in Activities : PutTask(a) \/ PutElsewhere(a) \/ DeleteTask(a)
         \/ \E p, s \in Activities : AddDependency(p, s)
         \/ \E l \in Links : DeleteDependency(l)
  PROVE  NetworkInv'
<1>1. Tables /\ NothingComputed
  BY DEF NetworkInv, NetworkTypeOK, Tables, PassInv
<1>2. ASSUME NEW a \in Activities, PutTask(a) PROVE Tables' /\ UNCHANGED cpmVars
  <2>1. PICK d \in Durations : duration' = With(duration, a, d)
    BY <1>2 DEF PutTask
  <2>2. duration' \in [Present \cup {a} -> Durations]
    BY <1>1, <2>1, WithTyped DEF Tables
  <2> QED BY <1>1, <1>2, <2>2 DEF PutTask, Tables, Present, AllTasks, Links
<1>7. ASSUME NEW a \in Activities, PutElsewhere(a) PROVE Tables' /\ UNCHANGED cpmVars
  <2>1. Present' = Present /\ Links' = Links /\ elsewhere' = elsewhere \cup {a} /\ a \notin Present
    BY <1>7 DEF PutElsewhere, Present, Links
  <2>2. AllTasks \subseteq AllTasks'
    BY <2>1 DEF AllTasks
  <2> QED BY <1>1, <1>7, <2>1, <2>2 DEF PutElsewhere, Tables
<1>3. ASSUME NEW a \in Activities, DeleteTask(a) PROVE Tables' /\ UNCHANGED cpmVars
  <2>1. /\ duration' \in [Present \ {a} -> Durations] /\ Present' = Present \ {a}
        /\ elsewhere' = elsewhere \ {a} /\ AllTasks' = AllTasks \ {a}
    BY <1>1, <1>3 DEF DeleteTask, Tables, Present, AllTasks
  <2>2. /\ Links' = {k \in Links : a \notin {k[1], k[2]}}
        /\ lag' \in [Links' -> Lags]
    BY <1>1, <1>3 DEF DeleteTask, Tables, Links
  <2>3. Links' \subseteq AllTasks' \X AllTasks'
    BY <1>1, <2>1, <2>2 DEF Tables
  <2> QED BY <1>1, <1>3, <2>1, <2>2, <2>3 DEF DeleteTask, Tables
<1>4. ASSUME NEW p \in Activities, NEW s \in Activities, AddDependency(p, s)
      PROVE  Tables' /\ UNCHANGED cpmVars
  <2>1. PICK n \in Lags : lag' = With(lag, <<p, s>>, n)
    BY <1>4 DEF AddDependency
  <2>2. lag' \in [Links \cup {<<p, s>>} -> Lags]
    BY <1>1, <2>1, WithTyped DEF Tables
  <2>3. Present' = Present /\ elsewhere' = elsewhere /\ AllTasks' = AllTasks
        /\ Links' = Links \cup {<<p, s>>} /\ <<p, s>> \in AllTasks \X AllTasks
    BY <1>4, <2>2 DEF AddDependency, Present, AllTasks, Links
  <2> QED BY <1>1, <1>4, <2>2, <2>3 DEF AddDependency, Tables
<1>5. ASSUME NEW l \in Links, DeleteDependency(l) PROVE Tables' /\ UNCHANGED cpmVars
  <2>1. /\ Links' = Links \ {l} /\ lag' \in [Links' -> Lags] /\ Present' = Present
        /\ elsewhere' = elsewhere /\ AllTasks' = AllTasks
    BY <1>1, <1>5 DEF DeleteDependency, Tables, Present, AllTasks, Links
  <2> QED BY <1>1, <1>5, <2>1 DEF DeleteDependency, Tables
<1>6. UNCHANGED cpmVars => NothingComputed'
  BY <1>1 DEF NothingComputed, cpmVars
<1> QED BY <1>2, <1>3, <1>4, <1>5, <1>6, <1>7, RestingNext

-----------------------------------------------------------------------------
(* Kahn's algorithm                                                          *)

LEMMA SameNetwork ==
  ASSUME UNCHANGED tableVars
  PROVE  /\ Present' = Present /\ elsewhere' = elsewhere /\ AllTasks' = AllTasks
         /\ Links' = Links /\ Within' = Within /\ (Contained' <=> Contained)
         /\ \A a : Preds(a)' = Preds(a) /\ Succs(a)' = Succs(a)
         /\ Cyclic' <=> Cyclic
         /\ LeadsFit' <=> LeadsFit
         /\ \A d : AtLeast(d)' <=> AtLeast(d)
         /\ \A start, d : Keeps(start, d)' <=> Keeps(start, d)
<1>1. /\ duration' = duration /\ lag' = lag /\ Present' = Present /\ elsewhere' = elsewhere
      /\ AllTasks' = AllTasks /\ Links' = Links /\ Within' = Within
      /\ (Contained' <=> Contained)
  BY DEF tableVars, Present, AllTasks, Links, Within, LeadOut, Contained
<1>2. \A a : Preds(a)' = Preds(a) /\ Succs(a)' = Succs(a)
  BY <1>1 DEF Preds, Succs
<1>3. Cyclic' <=> Cyclic
  BY <1>1, <1>2 DEF Cyclic
<1>4. LeadsFit' <=> LeadsFit
  BY <1>1 DEF LeadsFit
<1>5. \A d : AtLeast(d)' <=> AtLeast(d)
  BY <1>1 DEF AtLeast
<1>6. \A start, d : Keeps(start, d)' <=> Keeps(start, d)
  BY <1>1 DEF Keeps
<1> QED BY <1>1, <1>2, <1>3, <1>4, <1>5, <1>6

LEMMA Appended ==
  ASSUME NEW S, NEW s \in Seq(S), NEW x \in S
  PROVE  /\ Append(s, x) \in Seq(S) /\ Len(s) \in Nat
         /\ Len(Append(s, x)) = Len(s) + 1 /\ Append(s, x)[Len(s) + 1] = x
         /\ \A i \in 1..Len(s) : Append(s, x)[i] = s[i]
         /\ ToSet(Append(s, x)) = ToSet(s) \cup {x}
  BY DEF ToSet

LEMMA TakenIs ==
  ASSUME NetworkTypeOK
  PROVE  /\ Len(topo) \in Nat /\ Taken = {topo[i] : i \in 1..Len(topo)}
         /\ Taken \subseteq Present /\ \A i \in 1..Len(topo) : topo[i] \in Present
         /\ Present \subseteq Activities /\ IsFiniteSet(Present)
<1>1. IsFiniteSet(Present)
  BY FS_Subset, NetworkAssumption DEF NetworkTypeOK
<1>2. /\ topo \in Seq(Present) /\ Len(topo) \in Nat /\ DOMAIN topo = 1..Len(topo)
      /\ \A i \in 1..Len(topo) : topo[i] \in Present
  BY DEF NetworkTypeOK
<1>3. Taken = {topo[i] : i \in 1..Len(topo)}
  BY <1>2 DEF Taken, ToSet
<1> QED BY <1>1, <1>2, <1>3 DEF NetworkTypeOK

LEMMA ComputeStep ==
  ASSUME NetworkInv, Compute
  PROVE  NetworkInv'
<1>1. /\ UNCHANGED tableVars /\ Tables' /\ Present # {} /\ pass' = "sort"
      /\ Contained
  BY SameNetwork DEF Contained, NetworkInv, NetworkTypeOK, Compute, Tables, tableVars
<1>2. /\ topo' = <<>> /\ at' = 0 /\ es' = <<>> /\ lf' = <<>> /\ Len(topo') = 0
      /\ DOMAIN es' = {} /\ DOMAIN lf' = {} /\ Taken' = {}
  BY DEF Compute, NetworkInv, PassInv, NothingComputed, Taken, ToSet
<1>3. ready' = {a \in Present : Preds(a) = {}}
  BY DEF Compute
<1>4. topo' \in Seq(Present') /\ es' \in [DOMAIN es' -> Nat] /\ lf' \in [DOMAIN lf' -> Int]
  BY <1>2
<1>5. NetworkTypeOK'
  BY <1>1, <1>2, <1>3, <1>4, SameNetwork DEF NetworkTypeOK, Tables, Passes
<1>6. SortInv'
  <2>1. ready' = {a \in Present' \ Taken' : Preds(a)' \subseteq Taken'}
    BY <1>1, <1>2, <1>3, SameNetwork
  <2> QED BY <1>1, <1>2, <2>1, SameNetwork DEF SortInv
<1>7. PassInv' /\ EarlyInv' /\ LateInv'
  BY <1>1, <1>2, SameNetwork DEF PassInv, EarlyInv, LateInv
<1> QED BY <1>5, <1>6, <1>7 DEF NetworkInv

LEMMA MissingStep ==
  ASSUME NetworkInv, MissingTask
  PROVE  NetworkInv'
<1>1. /\ UNCHANGED tableVars /\ UNCHANGED <<ready, topo, at, es, lf>>
      /\ NothingComputed /\ pass' = "missing" /\ Present # {}
  BY DEF NetworkInv, PassInv, MissingTask
<1>2. /\ topo' = <<>> /\ DOMAIN es' = {} /\ DOMAIN lf' = {} /\ Len(topo') = 0 /\ Taken' = {}
  BY <1>1 DEF NothingComputed, Taken, ToSet
<1>3. NetworkTypeOK'
  BY <1>1, SameNetwork DEF NetworkInv, NetworkTypeOK, Passes, tableVars
<1>4. SortInv' /\ PassInv' /\ EarlyInv' /\ LateInv'
  BY <1>1, <1>2, SameNetwork DEF SortInv, PassInv, EarlyInv, LateInv
<1> QED BY <1>3, <1>4 DEF NetworkInv

LEMMA TakeStep ==
  ASSUME NetworkInv, NEW a \in ready, TakeReady(a)
  PROVE  NetworkInv'
<1>1. /\ UNCHANGED <<tableVars, pass, at, es, lf>> /\ Tables' /\ pass = "sort" /\ pass' = "sort"
      /\ DOMAIN es = {} /\ DOMAIN lf = {} /\ Present # {}
      /\ topo' = Append(topo, a) /\ topo \in Seq(Present) /\ at \in 0..Len(topo)
  BY DEF NetworkInv, NetworkTypeOK, TakeReady, Tables, tableVars, Present, AllTasks, Links, PassInv
<1>2. a \in Present \ Taken /\ Preds(a) \subseteq Taken
  BY <1>1 DEF NetworkInv, SortInv
<1>3. /\ topo' \in Seq(Present) /\ Len(topo) \in Nat
      /\ Len(topo') = Len(topo) + 1 /\ topo'[Len(topo) + 1] = a
      /\ \A i \in 1..Len(topo) : topo'[i] = topo[i]
      /\ Taken' = Taken \cup {a}
  BY <1>1, <1>2, Appended DEF Taken
<1>4. /\ Taken = {topo[i] : i \in 1..Len(topo)} /\ Taken \subseteq Present
      /\ \A i \in 1..Len(topo) : topo[i] \in Taken
  BY TakenIs DEF NetworkInv
<1>5. \A i, j \in 1..Len(topo') : topo'[i] = topo'[j] => i = j
  <2>1. \A i, j \in 1..Len(topo) : topo[i] = topo[j] => i = j
    BY DEF NetworkInv, SortInv
  <2>2. \A i \in 1..Len(topo') : i = Len(topo) + 1 \/ i \in 1..Len(topo)
    BY <1>3
  <2> QED BY <1>2, <1>3, <1>4, <2>1, <2>2
<1>6. \A s \in Taken : Preds(s) \subseteq Taken
  <2>1. ASSUME NEW i \in 1..Len(topo) PROVE Before(i) \subseteq Taken
    BY <1>3, <1>4 DEF Before
  <2>2. \A i \in 1..Len(topo) : Preds(topo[i]) \subseteq Taken
    BY <2>1 DEF NetworkInv, SortInv
  <2> QED BY <1>4, <2>2
<1>7. ASSUME NEW i \in 1..Len(topo') PROVE Preds(topo'[i]) \subseteq Before(i)'
  <2>1. CASE i = Len(topo) + 1
    <3>1. Before(i)' = Taken
      BY <1>3, <1>4, <2>1 DEF Before
    <3> QED BY <1>2, <1>3, <2>1, <3>1
  <2>2. CASE i # Len(topo) + 1
    <3>1. i \in 1..Len(topo) /\ topo'[i] = topo[i]
      BY <1>3, <1>7, <2>2
    <3>2. Before(i)' = Before(i)
      BY <1>3, <3>1 DEF Before
    <3> QED BY <3>1, <3>2 DEF NetworkInv, SortInv
  <2> QED BY <2>1, <2>2
<1>8. ASSUME NEW S \in SUBSET Present, \A x \in S : Preds(x) \cap S # {} PROVE S \cap Taken' = {}
  <2>1. S \cap Taken = {}
    BY <1>8 DEF NetworkInv, SortInv
  <2> QED BY <1>2, <1>3, <1>8, <2>1
<1>9. ready' = {x \in Present \ Taken' : Preds(x) \subseteq Taken'}
  <2>1. ready = {x \in Present \ Taken : Preds(x) \subseteq Taken}
    BY <1>1 DEF NetworkInv, SortInv
  <2>2. ready' = (ready \ {a}) \cup {s \in Succs(a) : Preds(s) \subseteq Taken'}
    BY <1>3 DEF TakeReady
  <2>3. \A s \in Present : s \in Succs(a) <=> a \in Preds(s)
    BY <1>2 DEF Succs, Preds
  <2>4. Succs(a) \subseteq Present
    BY DEF Succs
  <2> QED BY <1>2, <1>3, <1>6, <2>1, <2>2, <2>3, <2>4
<1>10. SortInv'
  <2>1. Contained
    BY <1>1 DEF NetworkInv, SortInv
  <2>2. Contained'
    BY <1>1, <2>1, SameNetwork
  <2> QED BY <1>1, <1>5, <1>7, <1>8, <1>9, <2>2, SameNetwork DEF SortInv
<1>11. NetworkTypeOK'
  BY <1>1, <1>3, <1>9, SameNetwork DEF NetworkInv, NetworkTypeOK, Tables
<1>12. PassInv' /\ EarlyInv' /\ LateInv'
  BY <1>1, SameNetwork DEF PassInv, EarlyInv, LateInv
<1> QED BY <1>10, <1>11, <1>12 DEF NetworkInv

\* As many tasks are taken as there are in topo.
LEMMA TakenCounted ==
  ASSUME NetworkTypeOK, SortInv
  PROVE  Cardinality(Taken) = Len(topo)
<1>1. topo \in Bijection(1..Len(topo), Taken)
  <2>1. topo \in [1..Len(topo) -> Taken] /\ \A x \in Taken : \E i \in 1..Len(topo) : topo[i] = x
    BY TakenIs DEF NetworkTypeOK
  <2>2. \A i, j \in 1..Len(topo) : topo[i] = topo[j] => i = j
    BY DEF SortInv
  <2> QED BY <2>1, <2>2 DEF Bijection, Injection, Surjection, IsInjective
<1>2. IsFiniteSet(1..Len(topo)) /\ Cardinality(1..Len(topo)) = Len(topo)
  BY TakenIs, FS_Interval
<1> QED BY <1>1, <1>2, FS_Bijection DEF ExistsBijection

LEMMA SortedStep ==
  ASSUME NetworkInv, Sorted
  PROVE  NetworkInv'
<1>1. /\ UNCHANGED <<tableVars, ready, topo, es, lf>> /\ Tables' /\ pass = "sort"
      /\ DOMAIN es = {} /\ DOMAIN lf = {} /\ Present # {} /\ Taken' = Taken
  BY DEF NetworkInv, NetworkTypeOK, Sorted, Tables, tableVars, Present, AllTasks, Links, PassInv, Taken
<1>2. /\ IsFiniteSet(Present) /\ Taken \subseteq Present /\ Cardinality(Taken) = Len(topo)
      /\ Len(topo) \in Nat /\ Taken = {topo[i] : i \in 1..Len(topo)}
  BY TakenIs, TakenCounted DEF NetworkInv
<1>3. CASE Len(topo) # Cardinality(Present)
  <2>1. pass' = "cyclic" /\ UNCHANGED at
    BY <1>3 DEF Sorted
  <2>2. Cyclic
    <3> DEFINE Untaken == Present \ Taken
    <3>1. Untaken # {}
      BY <1>2, <1>3
    <3>2. \A a \in Untaken : Preds(a) \cap Untaken # {}
      BY <1>1 DEF Sorted, NetworkInv, SortInv, Preds
    <3>3. Untaken \subseteq Present
      OBVIOUS
    <3> HIDE DEF Untaken
    <3> QED BY <3>1, <3>2, <3>3 DEF Cyclic
  <2>3. SortInv'
    BY <1>1, <2>1, <2>2, SameNetwork DEF NetworkInv, SortInv, Before
  <2> QED BY <1>1, <2>1, <2>3, SameNetwork
          DEF NetworkInv, NetworkTypeOK, Tables, Passes, PassInv, EarlyInv, LateInv
<1>4. CASE Len(topo) = Cardinality(Present)
  <2>1. pass' = "forward" /\ at' = 1
    BY <1>4 DEF Sorted
  <2>2. Taken = Present
    BY <1>2, <1>4, FS_Subset
  <2>3. at' \in 0..Len(topo)
    <3>1. PICK a \in Taken : TRUE
      BY <1>1, <2>2
    <3>2. PICK i \in 1..Len(topo) : topo[i] = a
      BY <1>2
    <3>3. Len(topo) \in Nat /\ i \in 1..Len(topo)
      BY <1>2
    <3>4. Len(topo) >= 1
      BY <3>3
    <3> QED BY <2>1, <3>3, <3>4
  <2>4. DOMAIN es' = {topo'[i] : i \in 1..(at' - 1)}
    BY <1>1, <2>1
  <2>5. SortInv'
    <3>1. Contained
      BY <1>1 DEF NetworkInv, SortInv
    <3>2. Contained'
      BY <1>1, <3>1, SameNetwork
    <3>3. Taken' = Taken /\ \A i : Before(i)' = Before(i)
      BY <1>1 DEF Before
    <3>4. SortInv /\ topo' = topo /\ pass' = "forward" /\ pass = "sort"
      BY <1>1, <2>1 DEF NetworkInv
    <3> QED BY <1>1, <2>2, <3>2, <3>3, <3>4, SameNetwork DEF SortInv
  <2>6. NetworkTypeOK'
    BY <1>1, <2>1, <2>3, <2>4, SameNetwork DEF NetworkInv, NetworkTypeOK, Tables, Passes
  <2> QED BY <1>1, <2>1, <2>5, <2>6, SameNetwork DEF NetworkInv, PassInv, EarlyInv, LateInv
<1> QED BY <1>3, <1>4

-----------------------------------------------------------------------------
(* The way forward                                                           *)

LEMMA TypedNetwork ==
  ASSUME NetworkTypeOK
  PROVE  /\ \A a \in Present : duration[a] \in Nat
         /\ \A a : Preds(a) \subseteq Present /\ Succs(a) \subseteq Present
         /\ \A a : IsFiniteSet(Preds(a)) /\ IsFiniteSet(Succs(a))
         /\ \A a, p : p \in Preds(a) => <<p, a>> \in Links /\ lag[<<p, a>>] \in Int
         /\ \A a, s : s \in Succs(a) => <<a, s>> \in Links /\ lag[<<a, s>>] \in Int
         /\ \A a, b \in Present : a \in Preds(b) <=> b \in Succs(a)
         /\ \A a \in Present : \A p \in Preds(a) : <<p, a>> \in Within
         /\ \A a \in Present : \A s \in Succs(a) : <<a, s>> \in Within
<1>1. /\ \A a \in Present : duration[a] \in Nat
      /\ \A l \in Links : lag[l] \in Int
  BY NetworkAssumption DEF NetworkTypeOK
<1>2. \A a : Preds(a) \subseteq Present /\ Succs(a) \subseteq Present
  BY DEF Preds, Succs
<1>3. \A a : IsFiniteSet(Preds(a)) /\ IsFiniteSet(Succs(a))
  BY <1>2, TakenIs, FS_Subset
<1> QED BY <1>1, <1>2, <1>3 DEF Preds, Succs, Within

LEMMA EarlyStartIs ==
  ASSUME NetworkTypeOK, NEW a \in Present, Preds(a) \subseteq DOMAIN es
  PROVE  /\ EarlyStart(a) \in Nat
         /\ \A p \in Preds(a) : EarlyFinish(p) + lag[<<p, a>>] <= EarlyStart(a)
         /\ \/ EarlyStart(a) = 0
            \/ \E p \in Preds(a) : EarlyStart(a) = EarlyFinish(p) + lag[<<p, a>>]
<1> DEFINE f == [p \in Preds(a) |-> EarlyFinish(p) + lag[<<p, a>>]]
<1> DEFINE Candidates == {f[p] : p \in Preds(a)}
<1>1. ASSUME NEW p \in Preds(a) PROVE f[p] = EarlyFinish(p) + lag[<<p, a>>] /\ f[p] \in Int
  <2>1. es[p] \in Nat /\ duration[p] \in Nat /\ lag[<<p, a>>] \in Int
    BY <1>1, TypedNetwork DEF NetworkTypeOK
  <2> QED BY <1>1, <2>1 DEF EarlyFinish
<1>2. IsFiniteSet(Candidates)
  <2>1. IsFiniteSet(Preds(a)) /\ DOMAIN f = Preds(a) /\ f = [p \in Preds(a) |-> f[p]]
    BY TypedNetwork
  <2> HIDE DEF f
  <2> QED BY <2>1, FinitelyMany
<1>3. EarlyStart(a) = Max({0} \cup Candidates)
  BY DEF EarlyStart
<1>4. /\ Max({0} \cup Candidates) \in Nat
      /\ \A x \in Candidates : x <= Max({0} \cup Candidates)
      /\ Max({0} \cup Candidates) = 0 \/ Max({0} \cup Candidates) \in Candidates
  <2>1. Candidates \in SUBSET Int
    BY <1>1
  <2> HIDE DEF Candidates
  <2> QED BY <1>2, <2>1, LargestFromZero
<1>5. \A p \in Preds(a) : f[p] <= EarlyStart(a)
  BY <1>3, <1>4
<1>6. EarlyStart(a) \in Nat
  <2> HIDE DEF Candidates
  <2> QED BY <1>3, <1>4
<1>7. EarlyStart(a) = 0 \/ \E p \in Preds(a) : EarlyStart(a) = f[p]
  BY <1>3, <1>4
<1> HIDE DEF f, Candidates
<1> QED BY <1>1, <1>5, <1>6, <1>7

LEMMA SortKept ==
  ASSUME SortInv, UNCHANGED <<tableVars, topo>>, Taken = Present,
         pass \in {"forward", "backward"}, pass' \in {"forward", "backward", "done"}
  PROVE  SortInv'
<1>1. Taken' = Taken /\ \A i : Before(i)' = Before(i)
  BY DEF Taken, Before
<1>2. Contained'
  <2>1. Contained
    BY DEF SortInv
  <2> QED BY <2>1, SameNetwork
<1> QED BY <1>1, <1>2, SameNetwork DEF SortInv

LEMMA ForwardStep ==
  ASSUME NetworkInv, PassForward
  PROVE  NetworkInv'
<1> DEFINE a == topo[at]
<1> DEFINE v == EarlyStart(a)
<1>1. /\ NetworkTypeOK /\ SortInv /\ PassInv /\ EarlyInv /\ pass = "forward"
      /\ UNCHANGED <<tableVars, ready, topo, lf>> /\ Taken = Present /\ Present # {}
      /\ DOMAIN lf = {} /\ DOMAIN es = Before(at)
      /\ es' = With(es, a, v)
  BY DEF NetworkInv, PassForward, SortInv, PassInv, NetworkTypeOK, Before
<1>2. Len(topo) \in Nat /\ at \in 1..Len(topo) /\ a \in Present
  BY <1>1, TakenIs DEF NetworkTypeOK, PassInv
<1>3. a \notin DOMAIN es /\ Preds(a) \subseteq DOMAIN es
  <2>1. \A j \in 1..(at - 1) : topo[j] # topo[at]
    BY <1>1, <1>2 DEF SortInv
  <2> QED BY <1>1, <1>2, <2>1 DEF SortInv, Before
<1> HIDE DEF a
<1>4. /\ v \in Nat
      /\ \A p \in Preds(a) : EarlyFinish(p) + lag[<<p, a>>] <= v
      /\ v = 0 \/ \E p \in Preds(a) : v = EarlyFinish(p) + lag[<<p, a>>]
  BY <1>1, <1>2, <1>3, EarlyStartIs
<1> HIDE DEF v
<1>5. /\ es' \in [DOMAIN es \cup {a} -> Nat] /\ DOMAIN es' = DOMAIN es \cup {a} /\ es'[a] = v
      /\ \A b \in DOMAIN es : es'[b] = es[b]
  <2>1. es \in [DOMAIN es -> Nat]
    BY <1>1 DEF NetworkTypeOK
  <2>2. /\ With(es, a, v) \in [DOMAIN es \cup {a} -> Nat] /\ With(es, a, v)[a] = v
        /\ \A b \in DOMAIN es \ {a} : With(es, a, v)[b] = es[b]
    BY <1>4, <2>1 DEF With
  <2> QED BY <1>1, <1>3, <2>2
<1>6. \A b \in DOMAIN es : EarlyFinish(b)' = EarlyFinish(b)
  BY <1>1, <1>5 DEF EarlyFinish, tableVars
<1>7. EarlyInv'
  <2>1. ASSUME NEW b \in DOMAIN es'
        PROVE  /\ Preds(b)' \subseteq DOMAIN es'
               /\ \A p \in Preds(b)' : EarlyFinish(p)' + lag'[<<p, b>>] <= es'[b]
    <3>1. lag' = lag /\ Preds(b)' = Preds(b)
      BY <1>1, SameNetwork DEF tableVars
    <3>2. CASE b = a
      BY <1>3, <1>4, <1>5, <1>6, <3>1, <3>2
    <3>3. CASE b # a
      <4>1. b \in DOMAIN es
        BY <1>5, <2>1, <3>3
      <4>2. /\ Preds(b) \subseteq DOMAIN es
            /\ \A p \in Preds(b) : EarlyFinish(p) + lag[<<p, b>>] <= es[b]
        BY <1>1, <4>1 DEF EarlyInv
      <4> QED BY <1>5, <1>6, <3>1, <4>1, <4>2
    <3> QED BY <3>2, <3>3
  <2>2. ASSUME NEW start \in Schedules, NEW d \in Schedules, AtLeast(d), Keeps(start, d),
               NEW b \in DOMAIN es'
        PROVE  es'[b] <= start[b]
    <3>1. \A c \in DOMAIN es : es[c] <= start[c]
      BY <1>1, <2>2 DEF EarlyInv
    <3>2. CASE b # a
      BY <1>5, <2>2, <3>1, <3>2
    <3>3. CASE b = a /\ v = 0
      BY <1>2, <1>5, <3>3 DEF Schedules
    <3>4. ASSUME b = a, NEW p \in Preds(a), v = EarlyFinish(p) + lag[<<p, a>>]
          PROVE  es'[b] <= start[b]
      <4>1. /\ p \in DOMAIN es /\ p \in Present /\ <<p, a>> \in Within
            /\ lag[<<p, a>>] \in Int /\ duration[p] \in Nat /\ es[p] \in Nat
        <5>1. <<p, a>> \in Within /\ p \in Present /\ lag[<<p, a>>] \in Int
          BY <1>1, <1>2, <3>4, TypedNetwork
        <5> QED BY <1>1, <1>3, <3>4, <5>1, TypedNetwork DEF NetworkTypeOK
      <4>2. /\ start[p] + d[p] + lag[<<p, a>>] <= start[a]
            /\ es[p] <= start[p] /\ duration[p] <= d[p]
            /\ start[p] \in Nat /\ d[p] \in Nat /\ start[a] \in Nat
        <5>1. <<p, a>>[1] = p /\ <<p, a>>[2] = a
          OBVIOUS
        <5> QED BY <1>2, <2>2, <3>1, <4>1, <5>1 DEF Keeps, AtLeast, Schedules
      <4>3. v = es[p] + duration[p] + lag[<<p, a>>]
        BY <3>4 DEF EarlyFinish
      <4> QED BY <1>5, <3>4, <4>1, <4>2, <4>3
    <3> QED BY <1>4, <3>2, <3>3, <3>4
  <2>3. Schedules' = Schedules
    BY <1>1, SameNetwork DEF Schedules
  <2> QED BY <1>1, <2>1, <2>2, <2>3, SameNetwork DEF EarlyInv
<1>8. CASE at = Len(topo)
  <2>1. pass' = "backward" /\ at' = at
    BY <1>8 DEF PassForward
  <2>2. DOMAIN es' = Present /\ DOMAIN lf' = {topo'[i] : i \in (at' + 1)..Len(topo')}
    <3>1. Present = {topo[i] : i \in 1..Len(topo)}
      BY <1>1, TakenIs
    <3>2. \A i \in 1..Len(topo) : i = at \/ i \in 1..(at - 1)
      BY <1>2, <1>8
    <3> QED BY <1>1, <1>2, <1>5, <1>8, <2>1, <3>1, <3>2 DEF Before, a
  <2>3. NetworkTypeOK'
    BY <1>1, <1>2, <1>5, <2>1, <2>2, SameNetwork DEF NetworkTypeOK, Passes, tableVars
  <2>4. SortInv' /\ PassInv'
    BY <1>1, <1>2, <2>1, <2>2, SortKept, SameNetwork DEF PassInv
  <2>5. LateInv'
    BY <1>1 DEF LateInv
  <2> QED BY <1>7, <2>3, <2>4, <2>5 DEF NetworkInv
<1>9. CASE at # Len(topo)
  <2>1. pass' = "forward" /\ at' = at + 1
    BY <1>1, <1>9 DEF PassForward
  <2>2. at' \in 1..Len(topo) /\ DOMAIN es' = {topo'[i] : i \in 1..(at' - 1)}
    <3>1. \A i \in 1..(at' - 1) : i = at \/ i \in 1..(at - 1)
      BY <1>2, <2>1
    <3> QED BY <1>1, <1>2, <1>5, <1>9, <2>1, <3>1 DEF Before, a
  <2>3. es' \in [DOMAIN es' -> Nat] /\ DOMAIN es' \subseteq Present /\ at' \in 0..Len(topo')
    BY <1>1, <1>2, <1>5, <2>2 DEF NetworkTypeOK
  <2>4. NetworkTypeOK'
    BY <1>1, <2>1, <2>2, <2>3, SameNetwork DEF NetworkTypeOK, Passes, tableVars
  <2>5. SortInv'
    BY <1>1, <2>1, SortKept
  <2>6. PassInv'
    <3>1. at' # 0
      BY <1>2, <2>1
    <3> QED BY <1>1, <2>1, <3>1, SameNetwork DEF PassInv
  <2>7. LateInv'
    BY <1>1 DEF LateInv
  <2> QED BY <1>7, <2>4, <2>5, <2>6, <2>7 DEF NetworkInv
<1> QED BY <1>8, <1>9

-----------------------------------------------------------------------------
(* The way back                                                              *)

LEMMA FinishIs ==
  ASSUME NetworkTypeOK, DOMAIN es = Present, Present # {}
  PROVE  /\ Finish \in Nat
         /\ \A a \in Present : EarlyFinish(a) \in Nat /\ EarlyFinish(a) <= Finish
         /\ \E a \in Present : EarlyFinish(a) = Finish
<1> DEFINE f == [a \in Present |-> EarlyFinish(a)]
<1> DEFINE Finishes == {f[a] : a \in Present}
<1>1. ASSUME NEW a \in Present PROVE f[a] = EarlyFinish(a) /\ EarlyFinish(a) \in Nat
  <2>1. es[a] \in Nat /\ duration[a] \in Nat
    BY <1>1, TypedNetwork DEF NetworkTypeOK
  <2> QED BY <1>1, <2>1 DEF EarlyFinish
<1>2. IsFiniteSet(Finishes)
  <2>1. IsFiniteSet(Present) /\ DOMAIN f = Present /\ f = [a \in Present |-> f[a]]
    BY TakenIs
  <2> HIDE DEF f
  <2> QED BY <2>1, FinitelyMany
<1>3. Finish = Max(Finishes)
  BY DEF Finish
<1>4. Max(Finishes) \in Finishes /\ \A x \in Finishes : x <= Max(Finishes)
  <2>1. Finishes \in SUBSET Int /\ Finishes # {}
    BY <1>1
  <2> HIDE DEF Finishes
  <2> QED BY <1>2, <2>1, MaxIsLargest
<1>5. PICK a \in Present : Finish = f[a]
  BY <1>3, <1>4
<1>6. \A b \in Present : f[b] <= Finish
  BY <1>3, <1>4
<1> HIDE DEF f, Finishes
<1> QED BY <1>1, <1>5, <1>6

LEMMA LateFinishIs ==
  ASSUME NetworkTypeOK, DOMAIN es = Present, NEW a \in Present, Succs(a) \subseteq DOMAIN lf
  PROVE  /\ LateFinish(a) \in Int
         /\ \A s \in Succs(a) : LateFinish(a) + lag[<<a, s>>] <= LateStart(s)
         /\ \/ Succs(a) = {} /\ LateFinish(a) = Finish
            \/ \E s \in Succs(a) : LateFinish(a) = LateStart(s) - lag[<<a, s>>]
<1> DEFINE f == [s \in Succs(a) |-> LateStart(s) - lag[<<a, s>>]]
<1> DEFINE Candidates == {f[s] : s \in Succs(a)}
<1>1. CASE Succs(a) = {}
  <2>1. LateFinish(a) = Finish
    BY <1>1 DEF LateFinish
  <2>2. Finish \in Nat
    BY FinishIs
  <2> QED BY <1>1, <2>1, <2>2
<1>2. CASE Succs(a) # {}
  <2>1. ASSUME NEW s \in Succs(a)
        PROVE  /\ f[s] = LateStart(s) - lag[<<a, s>>] /\ f[s] \in Int
               /\ LateStart(s) \in Int /\ lag[<<a, s>>] \in Int
    <3>1. lf[s] \in Int /\ duration[s] \in Nat /\ lag[<<a, s>>] \in Int
      BY <2>1, TypedNetwork DEF NetworkTypeOK
    <3> QED BY <2>1, <3>1 DEF LateStart
  <2>2. IsFiniteSet(Candidates)
    <3>1. IsFiniteSet(Succs(a)) /\ DOMAIN f = Succs(a) /\ f = [s \in Succs(a) |-> f[s]]
      BY TypedNetwork
    <3> HIDE DEF f
    <3> QED BY <3>1, FinitelyMany
  <2>3. LateFinish(a) = Min(Candidates)
    BY <1>2 DEF LateFinish
  <2>4. Min(Candidates) \in Candidates /\ \A x \in Candidates : Min(Candidates) <= x
    <3>1. Candidates \in SUBSET Int /\ Candidates # {}
      BY <1>2, <2>1
    <3> HIDE DEF Candidates
    <3> QED BY <2>2, <3>1, MinIsSmallest
  <2>5. PICK s \in Succs(a) : LateFinish(a) = f[s]
    BY <2>3, <2>4
  <2>6. \A t \in Succs(a) : LateFinish(a) <= f[t]
    BY <2>3, <2>4
  <2> HIDE DEF f, Candidates
  <2>7. LateFinish(a) \in Int
    BY <2>1, <2>5
  <2> QED BY <2>1, <2>5, <2>6, <2>7
<1> QED BY <1>1, <1>2

LEMMA BackwardStep ==
  ASSUME NetworkInv, PassBackward
  PROVE  NetworkInv'
<1> DEFINE a == topo[at]
<1> DEFINE v == LateFinish(a)
<1>1. /\ NetworkTypeOK /\ SortInv /\ PassInv /\ EarlyInv /\ LateInv /\ pass = "backward"
      /\ UNCHANGED <<tableVars, ready, topo, es>> /\ Taken = Present /\ Present # {}
      /\ DOMAIN es = Present /\ DOMAIN lf = Behind(at)
      /\ lf' = With(lf, a, v) /\ at' = at - 1
  BY DEF NetworkInv, PassBackward, SortInv, PassInv, NetworkTypeOK, Behind
<1>2. Len(topo) \in Nat /\ at \in 1..Len(topo) /\ a \in Present
  BY <1>1, TakenIs DEF NetworkTypeOK, PassInv
<1>3. a \notin DOMAIN lf
  <2>1. \A j \in (at + 1)..Len(topo) : j \in 1..Len(topo) /\ topo[j] # topo[at]
    BY <1>1, <1>2 DEF SortInv
  <2> QED BY <1>1, <2>1 DEF Behind
<1>4. Succs(a) \subseteq DOMAIN lf
  <2> SUFFICES ASSUME NEW s \in Succs(a) PROVE s \in Behind(at)
    BY <1>1
  <2>1. s \in Present /\ a \in Preds(s)
    BY <1>1, <1>2, TypedNetwork
  <2>2. PICK j \in 1..Len(topo) : topo[j] = s
    BY <1>1, <2>1, TakenIs
  <2>3. PICK i \in 1..(j - 1) : topo[i] = a
    <3>1. a \in Before(j)
      BY <1>1, <2>1, <2>2 DEF SortInv
    <3> HIDE DEF a
    <3> QED BY <3>1 DEF Before
  <2>4. i \in 1..Len(topo)
    BY <1>2, <2>2, <2>3
  <2>5. i = at
    BY <1>1, <1>2, <2>3, <2>4 DEF SortInv
  <2>6. j \in (at + 1)..Len(topo)
    BY <1>2, <2>2, <2>3, <2>5
  <2> QED BY <2>2, <2>6 DEF Behind
<1> HIDE DEF a
<1>5. /\ v \in Int
      /\ \A s \in Succs(a) : v + lag[<<a, s>>] <= LateStart(s)
      /\ \/ Succs(a) = {} /\ v = Finish
         \/ \E s \in Succs(a) : v = LateStart(s) - lag[<<a, s>>]
  BY <1>1, <1>2, <1>4, LateFinishIs
<1> HIDE DEF v
<1>6. /\ lf' \in [DOMAIN lf \cup {a} -> Int] /\ DOMAIN lf' = DOMAIN lf \cup {a} /\ lf'[a] = v
      /\ \A b \in DOMAIN lf : lf'[b] = lf[b]
  <2>1. lf \in [DOMAIN lf -> Int]
    BY <1>1 DEF NetworkTypeOK
  <2>2. /\ With(lf, a, v) \in [DOMAIN lf \cup {a} -> Int] /\ With(lf, a, v)[a] = v
        /\ \A b \in DOMAIN lf \ {a} : With(lf, a, v)[b] = lf[b]
    BY <1>5, <2>1 DEF With
  <2> QED BY <1>1, <1>3, <2>2
<1>7. /\ duration' = duration /\ lag' = lag /\ Present' = Present
      /\ \A b : EarlyFinish(b)' = EarlyFinish(b) /\ Succs(b)' = Succs(b) /\ Preds(b)' = Preds(b)
      /\ Finish' = Finish /\ (LeadsFit' <=> LeadsFit)
      /\ \A b \in DOMAIN lf : LateStart(b)' = LateStart(b)
  <2>1. duration' = duration /\ es' = es /\ lag' = lag /\ Present' = Present
    BY <1>1, SameNetwork DEF tableVars
  <2>2. \A b : EarlyFinish(b)' = EarlyFinish(b)
    BY <2>1 DEF EarlyFinish
  <2>3. Finish' = Finish
    BY <2>1, <2>2 DEF Finish
  <2>4. \A b \in DOMAIN lf : LateStart(b)' = LateStart(b)
    BY <1>6, <2>1 DEF LateStart
  <2> QED BY <1>1, <2>1, <2>2, <2>3, <2>4, SameNetwork
<1>8. Finish \in Nat /\ \A b \in Present : EarlyFinish(b) \in Nat /\ EarlyFinish(b) <= Finish
  BY <1>1, FinishIs
\* What LateInv says of the tasks behind a, it says of a.
<1>9. EarlyFinish(a) <= v /\ (LeadsFit => v <= Finish)
  <2>1. CASE Succs(a) = {} /\ v = Finish
    BY <1>2, <1>8, <2>1
  <2>2. ASSUME NEW s \in Succs(a), v = LateStart(s) - lag[<<a, s>>]
        PROVE  EarlyFinish(a) <= v /\ (LeadsFit => v <= Finish)
    <3>1. /\ s \in DOMAIN lf /\ s \in Present /\ a \in Preds(s) /\ <<a, s>> \in Within
          /\ lag[<<a, s>>] \in Int /\ duration[s] \in Nat /\ es[s] \in Nat /\ lf[s] \in Int
      BY <1>1, <1>2, <1>4, <2>2, TypedNetwork DEF NetworkTypeOK
    <3>2. EarlyFinish(s) <= lf[s] /\ (LeadsFit => lf[s] <= Finish)
      BY <1>1, <3>1 DEF LateInv
    <3>3. EarlyFinish(a) + lag[<<a, s>>] <= es[s]
      BY <1>1, <3>1 DEF EarlyInv
    <3>4. v = lf[s] - duration[s] - lag[<<a, s>>] /\ EarlyFinish(s) = es[s] + duration[s]
      BY <2>2 DEF LateStart, EarlyFinish
    <3>5. EarlyFinish(a) \in Nat
      BY <1>2, <1>8
    <3>6. EarlyFinish(a) <= v
      BY <3>1, <3>2, <3>3, <3>4, <3>5
    <3>7. ASSUME LeadsFit PROVE v <= Finish
      <4>1. lag[<<a, s>>] + duration[s] >= 0
        <5>1. <<a, s>>[2] = s
          OBVIOUS
        <5> QED BY <3>1, <3>7, <5>1 DEF LeadsFit
      <4> QED BY <1>8, <3>1, <3>2, <3>4, <3>7, <4>1
    <3> QED BY <3>6, <3>7
  <2> QED BY <1>5, <2>1, <2>2
<1>10. ASSUME NEW start \in Schedules, NEW d \in Schedules, AtLeast(d), InTime(start, d, Finish)
       PROVE  start[a] + d[a] <= v
  <2>1. CASE Succs(a) = {} /\ v = Finish
    BY <1>2, <1>10, <2>1 DEF InTime
  <2>2. ASSUME NEW s \in Succs(a), v = LateStart(s) - lag[<<a, s>>]
        PROVE  start[a] + d[a] <= v
    <3>1. /\ s \in DOMAIN lf /\ s \in Present /\ <<a, s>> \in Within
          /\ lag[<<a, s>>] \in Int /\ duration[s] \in Nat /\ lf[s] \in Int
      BY <1>1, <1>2, <1>4, <2>2, TypedNetwork DEF NetworkTypeOK
    <3>2. start[s] + d[s] <= lf[s]
      BY <1>1, <1>10, <3>1 DEF LateInv
    <3>3. /\ start[a] + d[a] + lag[<<a, s>>] <= start[s] /\ duration[s] <= d[s]
          /\ start[a] \in Nat /\ d[a] \in Nat /\ start[s] \in Nat /\ d[s] \in Nat
      <4>1. <<a, s>>[1] = a /\ <<a, s>>[2] = s
        OBVIOUS
      <4> QED BY <1>2, <1>10, <3>1, <4>1 DEF InTime, Keeps, AtLeast, Schedules
    <3>4. v = lf[s] - duration[s] - lag[<<a, s>>]
      BY <2>2 DEF LateStart
    <3> QED BY <3>1, <3>2, <3>3, <3>4
  <2> QED BY <1>5, <2>1, <2>2
<1>11. LateInv'
  <2>1. ASSUME NEW b \in DOMAIN lf'
        PROVE  /\ Succs(b) \subseteq DOMAIN lf'
               /\ EarlyFinish(b) <= lf'[b]
               /\ \A s \in Succs(b) : lf'[b] + lag[<<b, s>>] <= LateStart(s)'
               /\ LeadsFit => lf'[b] <= Finish
    <3>1. CASE b = a
      BY <1>4, <1>5, <1>6, <1>7, <1>9, <3>1
    <3>2. CASE b # a
      <4>1. b \in DOMAIN lf
        BY <1>6, <2>1, <3>2
      <4>2. /\ Succs(b) \subseteq DOMAIN lf /\ EarlyFinish(b) <= lf[b]
            /\ \A s \in Succs(b) : lf[b] + lag[<<b, s>>] <= LateStart(s)
            /\ LeadsFit => lf[b] <= Finish
        BY <1>1, <4>1 DEF LateInv
      <4> QED BY <1>6, <1>7, <4>1, <4>2
    <3> QED BY <3>1, <3>2
  <2>2. ASSUME NEW start \in Schedules, NEW d \in Schedules, AtLeast(d), InTime(start, d, Finish),
               NEW b \in DOMAIN lf'
        PROVE  start[b] + d[b] <= lf'[b]
    <3>1. \A c \in DOMAIN lf : start[c] + d[c] <= lf[c]
      BY <1>1, <2>2 DEF LateInv
    <3> QED BY <1>6, <1>10, <2>2, <3>1
  <2>3. Schedules' = Schedules /\ \A start, d, n : InTime(start, d, n)' <=> InTime(start, d, n)
    BY <1>1, <1>7, SameNetwork DEF Schedules, InTime
  <2> QED BY <1>1, <1>7, <2>1, <2>2, <2>3, SameNetwork DEF LateInv
<1>12. EarlyInv'
  BY <1>1, <1>7, SameNetwork DEF EarlyInv, Schedules
<1>13. lf' \in [DOMAIN lf' -> Int] /\ DOMAIN lf' \subseteq Present /\ at' \in 0..Len(topo')
  <2>1. DOMAIN lf \subseteq Present
    BY <1>1 DEF NetworkTypeOK
  <2> QED BY <1>1, <1>2, <1>6, <2>1
<1>14. DOMAIN lf' = {topo'[i] : i \in (at' + 1)..Len(topo')}
  <2>1. \A i \in (at' + 1)..Len(topo) : i = at \/ i \in (at + 1)..Len(topo)
    BY <1>1, <1>2
  <2>2. (at + 1)..Len(topo) \subseteq (at' + 1)..Len(topo) /\ at \in (at' + 1)..Len(topo)
    BY <1>1, <1>2
  <2> QED BY <1>1, <1>6, <2>1, <2>2 DEF Behind, a
<1>15. CASE at = 1
  <2>1. pass' = "done"
    BY <1>15 DEF PassBackward
  <2>2. DOMAIN lf' = Present
    BY <1>1, <1>14, <1>15, TakenIs
  <2>3. NetworkTypeOK'
    BY <1>1, <1>13, <2>1, SameNetwork DEF NetworkTypeOK, Passes, tableVars
  <2>4. SortInv' /\ PassInv'
    BY <1>1, <2>1, <2>2, SortKept, SameNetwork DEF PassInv
  <2> QED BY <1>11, <1>12, <2>3, <2>4 DEF NetworkInv
<1>16. CASE at # 1
  <2>1. pass' = "backward" /\ at' # 0
    BY <1>1, <1>2, <1>16 DEF PassBackward
  <2>2. NetworkTypeOK'
    BY <1>1, <1>13, <1>14, <2>1, SameNetwork DEF NetworkTypeOK, Passes, tableVars
  <2>3. SortInv' /\ PassInv'
    BY <1>1, <2>1, SortKept, SameNetwork DEF PassInv
  <2> QED BY <1>11, <1>12, <2>2, <2>3 DEF NetworkInv
<1> QED BY <1>15, <1>16

LEMMA NetworkStep == NetworkInv /\ [NetworkNext]_networkVars => NetworkInv'
<1> SUFFICES ASSUME NetworkInv, [NetworkNext]_networkVars PROVE NetworkInv'
  OBVIOUS
<1>1. CASE SendResult
  BY <1>1, RestingNext
     DEF SendResult, NothingComputed, NetworkInv, NetworkTypeOK, Tables, tableVars, Present, AllTasks, Links
<1>2. CASE UNCHANGED networkVars
  <2>1. UNCHANGED tableVars /\ UNCHANGED <<pass, ready, topo, at, es, lf>>
    BY <1>2 DEF networkVars, cpmVars
  <2>2. \A b : EarlyFinish(b)' = EarlyFinish(b) /\ LateStart(b)' = LateStart(b)
    BY <2>1 DEF EarlyFinish, LateStart, tableVars
  <2>3. /\ Finish' = Finish /\ Schedules' = Schedules /\ Taken' = Taken
        /\ \A i : Before(i)' = Before(i)
    BY <2>1, <2>2, SameNetwork DEF Finish, Schedules, Taken, Before
  <2>4. \A start, d, n : InTime(start, d, n)' <=> InTime(start, d, n)
    BY <2>1, SameNetwork DEF InTime
  <2>5. NetworkTypeOK'
    BY <2>1, SameNetwork DEF NetworkInv, NetworkTypeOK, tableVars
  <2>6. SortInv' /\ PassInv'
    BY <2>1, <2>3, SameNetwork DEF NetworkInv, SortInv, PassInv, NothingComputed
  <2>7. EarlyInv'
    BY <2>1, <2>2, <2>3, SameNetwork DEF NetworkInv, EarlyInv, tableVars
  <2>8. LateInv'
    BY <2>1, <2>2, <2>3, <2>4, SameNetwork DEF NetworkInv, LateInv, tableVars
  <2> QED BY <2>5, <2>6, <2>7, <2>8 DEF NetworkInv
<1>3. ASSUME \/ \E a \in Activities : PutTask(a) \/ PutElsewhere(a) \/ DeleteTask(a)
             \/ \E p, s \in Activities : AddDependency(p, s)
             \/ \E l \in Links : DeleteDependency(l)
      PROVE  NetworkInv'
  BY <1>3, EditStep DEF PutTask, PutElsewhere, DeleteTask, AddDependency, DeleteDependency
<1> QED BY <1>1, <1>2, <1>3, MissingStep, ComputeStep, TakeStep, SortedStep, ForwardStep, BackwardStep
        DEF NetworkNext

LEMMA NetworkInvariant == NetworkSpec => []NetworkInv
BY NetworkInitially, NetworkStep, PTL DEF NetworkSpec

\* The tables, the queue, the order and both passes keep their types, and a pass
\* has been through exactly the tasks before, or behind, the place it has come to.
THEOREM NetworkTyping == NetworkSpec => []NetworkTypeOK
<1>1. NetworkInv => NetworkTypeOK
  BY DEF NetworkInv
<1> QED BY <1>1, NetworkInvariant, PTL

-----------------------------------------------------------------------------
(* What the result says                                                      *)

\* Who has taken every task has found no cycle.
LEMMA NoCycleTaken ==
  ASSUME SortInv, Taken = Present
  PROVE  ~Cyclic
<1> SUFFICES ASSUME Cyclic PROVE FALSE
  OBVIOUS
<1>1. PICK S \in (SUBSET Present) \ {{}} : \A a \in S : Preds(a) \cap S # {}
  BY DEF Cyclic
<1>2. S \subseteq Present /\ S # {}
  OBVIOUS
<1>3. S \cap Taken = {}
  BY <1>1, <1>2 DEF SortInv
<1> QED BY <1>2, <1>3

LEMMA ScheduleInTime ==
  ASSUME NEW n \in Nat, NEW start \in [Present -> Int], NEW d \in Schedules,
         \A a \in Present : start[a] >= 0, InTime(start, d, n)
  PROVE  CanBeDone(d, n)
<1>1. ASSUME NEW a \in Present PROVE start[a] \in 0..n
  <2>1. start[a] \in Int /\ start[a] >= 0 /\ d[a] \in Nat /\ start[a] + d[a] <= n
    BY <1>1 DEF InTime, Schedules
  <2> QED BY <2>1
<1>2. start \in [Present -> 0..n]
  BY <1>1
<1> QED BY <1>2 DEF CanBeDone

LEMMA LongerIs ==
  ASSUME NetworkTypeOK, NEW a \in Present, NEW n \in Nat
  PROVE  /\ Longer(a, n) \in Schedules /\ AtLeast(Longer(a, n))
         /\ Longer(a, n)[a] = duration[a] + n
         /\ \A b \in Present \ {a} : Longer(a, n)[b] = duration[b]
         /\ duration \in Schedules /\ AtLeast(duration)
<1>1. \A b \in Present : duration[b] \in Nat
  BY TypedNetwork
<1>2. duration \in Schedules
  BY <1>1 DEF NetworkTypeOK, Schedules
<1>3. /\ Longer(a, n)[a] = duration[a] + n
      /\ \A b \in Present \ {a} : Longer(a, n)[b] = duration[b]
      /\ Longer(a, n) \in Schedules
  BY <1>1, <1>2 DEF Longer, Schedules
<1> QED BY <1>1, <1>2, <1>3 DEF AtLeast

\* The early starts are a schedule that takes until Finish, and there is no faster one.
LEMMA FinishIsEarliest ==
  ASSUME NetworkInv, pass = "done"
  PROVE  CanBeDone(duration, Finish) /\ \A n \in 0..(Finish - 1) : ~CanBeDone(duration, n)
<1>1. /\ NetworkTypeOK /\ EarlyInv /\ DOMAIN es = Present /\ Present # {}
  BY DEF NetworkInv, PassInv
<1>2. /\ Finish \in Nat
      /\ \A a \in Present : EarlyFinish(a) \in Nat /\ EarlyFinish(a) <= Finish
      /\ \E a \in Present : EarlyFinish(a) = Finish
  BY <1>1, FinishIs
<1>3. duration \in Schedules /\ AtLeast(duration)
  BY <1>1, LongerIs
<1>4. es \in [Present -> Nat] /\ \A a \in Present : es[a] \in Nat
  BY <1>1 DEF NetworkTypeOK
<1>5. InTime(es, duration, Finish)
  <2>1. ASSUME NEW l \in Within PROVE es[l[1]] + duration[l[1]] + lag[l] <= es[l[2]]
    <3>1. PICK p \in Present, s \in Present : l = <<p, s>>
      BY <2>1 DEF Within
    <3>2. p \in Preds(s)
      BY <2>1, <3>1 DEF Preds, Within
    <3>3. l[1] = p /\ l[2] = s
      BY <3>1
    <3> QED BY <1>1, <3>1, <3>2, <3>3 DEF EarlyInv, EarlyFinish
  <2> QED BY <1>2, <2>1 DEF InTime, Keeps, EarlyFinish
<1>6. CanBeDone(duration, Finish)
  <2>1. es \in [Present -> Int] /\ \A a \in Present : es[a] >= 0
    BY <1>4
  <2> QED BY <1>2, <1>3, <1>5, <2>1, ScheduleInTime
<1>7. ASSUME NEW n \in 0..(Finish - 1), NEW start \in [Present -> 0..n], InTime(start, duration, n)
      PROVE  FALSE
  <2>1. start \in Schedules
    BY DEF Schedules
  <2>2. PICK a \in Present : EarlyFinish(a) = Finish
    BY <1>2
  <2>3. es[a] <= start[a]
    BY <1>1, <1>3, <1>7, <2>1 DEF EarlyInv, InTime
  <2>4. start[a] + duration[a] <= n
    BY <1>7 DEF InTime
  <2>5. es[a] \in Nat /\ start[a] \in Nat /\ duration[a] \in Nat /\ n < Finish /\ n \in Int
    BY <1>2, <1>4, <2>1, <1>3 DEF Schedules
  <2> QED BY <1>2, <2>2, <2>3, <2>4, <2>5 DEF EarlyFinish
<1> QED BY <1>6, <1>7 DEF CanBeDone

\* What a task can have beyond its float the project pays for: its late finish is
\* the latest any schedule in time has for it, its early start the earliest.
LEMMA BeyondTheFloat ==
  ASSUME NetworkInv, pass = "done", NEW a \in Present
  PROVE  Float(a) \in Nat /\ ~CanBeDone(Longer(a, Float(a) + 1), Finish)
<1>1. /\ NetworkTypeOK /\ EarlyInv /\ LateInv /\ DOMAIN es = Present /\ DOMAIN lf = Present
      /\ Present # {}
  BY DEF NetworkInv, PassInv
<1>2. /\ es[a] \in Nat /\ duration[a] \in Nat /\ lf[a] \in Int /\ EarlyFinish(a) <= lf[a]
      /\ EarlyFinish(a) = es[a] + duration[a]
  BY <1>1, TypedNetwork DEF NetworkTypeOK, LateInv, EarlyFinish
<1>3. Float(a) \in Nat /\ lf[a] = es[a] + duration[a] + Float(a)
  BY <1>2 DEF Float
<1>4. Finish \in Nat
  BY <1>1, FinishIs
<1> DEFINE d == Longer(a, Float(a) + 1)
<1>5. d \in Schedules /\ AtLeast(d) /\ d[a] = duration[a] + (Float(a) + 1)
  BY <1>1, <1>3, LongerIs
<1> HIDE DEF d
<1>6. ASSUME NEW start \in [Present -> 0..Finish], InTime(start, d, Finish) PROVE FALSE
  <2>1. start \in Schedules
    BY <1>4 DEF Schedules
  <2>2. es[a] <= start[a]
    BY <1>1, <1>5, <1>6, <2>1 DEF EarlyInv, InTime
  <2>3. start[a] + d[a] <= lf[a]
    BY <1>1, <1>5, <1>6, <2>1 DEF LateInv
  <2>4. start[a] \in Nat
    BY <2>1 DEF Schedules
  <2> QED BY <1>2, <1>3, <1>5, <2>2, <2>3, <2>4
<1> QED BY <1>3, <1>6 DEF CanBeDone, d

\* What it has of float is free: it starts as early as it can, with everything taken
\* before it; everything taken after it starts as late as it may.
LEMMA WithinTheFloat ==
  ASSUME NetworkInv, pass = "done", LeadsFit, NEW a \in Present
  PROVE  CanBeDone(Longer(a, Float(a)), Finish)
<1>1. /\ NetworkTypeOK /\ SortInv /\ EarlyInv /\ LateInv
      /\ DOMAIN es = Present /\ DOMAIN lf = Present /\ Present # {} /\ Taken = Present
  BY DEF NetworkInv, PassInv, SortInv
<1>2. /\ Finish \in Nat
      /\ \A b \in Present : EarlyFinish(b) <= Finish
  BY <1>1, FinishIs
<1>3. ASSUME NEW b \in Present
      PROVE  /\ es[b] \in Nat /\ duration[b] \in Nat /\ lf[b] \in Int
             /\ EarlyFinish(b) = es[b] + duration[b] /\ LateStart(b) = lf[b] - duration[b]
             /\ EarlyFinish(b) <= lf[b] /\ lf[b] <= Finish
  BY <1>1, <1>3, TypedNetwork DEF NetworkTypeOK, LateInv, EarlyFinish, LateStart
<1>4. Float(a) \in Nat /\ lf[a] = es[a] + duration[a] + Float(a)
  BY <1>3 DEF Float
<1>5. PICK k \in 1..Len(topo) : topo[k] = a
  BY <1>1, TakenIs
<1> DEFINE Later == {topo[i] : i \in (k + 1)..Len(topo)}
<1> DEFINE start == [b \in Present |-> IF b \in Later THEN LateStart(b) ELSE es[b]]
<1> DEFINE d == Longer(a, Float(a))
<1>6. /\ d \in Schedules /\ d[a] = duration[a] + Float(a)
      /\ \A b \in Present \ {a} : d[b] = duration[b]
  BY <1>1, <1>4, LongerIs
<1>7. a \notin Later
  <2>1. \A i \in (k + 1)..Len(topo) : i \in 1..Len(topo) /\ i # k
    BY <1>1, <1>5, TakenIs
  <2> QED BY <1>1, <1>5, <2>1 DEF SortInv
\* What leads to a task taken before a, or to a, is not taken after it, and is not a.
<1>8. ASSUME NEW s \in Present \ Later, NEW p \in Preds(s) PROVE p \notin Later /\ p # a
  <2>1. PICK j \in 1..Len(topo) : topo[j] = s
    BY <1>1, TakenIs
  <2>2. j <= k /\ Len(topo) \in Nat
    BY <1>1, <1>5, <1>8, <2>1, TakenIs
  <2>3. p \in Before(j)
    BY <1>1, <1>8, <2>1 DEF SortInv
  <2>4. PICK i \in 1..(j - 1) : topo[i] = p
    BY <2>3 DEF Before
  <2>5. \A h \in k..Len(topo) : h \in 1..Len(topo) /\ h # i
    BY <1>5, <2>1, <2>2, <2>4
  <2>6. i \in 1..Len(topo)
    BY <2>1, <2>2, <2>4
  <2>7. \A h \in k..Len(topo) : topo[h] # p
    BY <1>1, <2>4, <2>5, <2>6 DEF SortInv
  <2>8. k \in k..Len(topo) /\ (k + 1)..Len(topo) \subseteq k..Len(topo)
    BY <1>5, <2>2
  <2> QED BY <1>5, <2>7, <2>8
<1> HIDE DEF Later, d
<1>9. ASSUME NEW b \in Present
      PROVE  /\ start[b] \in Int /\ start[b] >= 0
             /\ start[b] + d[b] <= Finish
             /\ b \in Later => start[b] = LateStart(b) /\ d[b] = duration[b]
             /\ b \notin Later => start[b] = es[b]
  <2>1. CASE b \in Later
    BY <1>3, <1>6, <1>7, <1>9, <2>1
  <2>2. CASE b = a
    BY <1>3, <1>4, <1>6, <1>7, <2>2
  <2>3. CASE b \notin Later /\ b # a
    BY <1>2, <1>3, <1>6, <1>9, <2>3
  <2> QED BY <2>1, <2>2, <2>3
<1>10. ASSUME NEW p \in Present, NEW s \in Present, <<p, s>> \in Links
       PROVE  start[p] + d[p] + lag[<<p, s>>] <= start[s]
  <2>1. p \in Preds(s) /\ s \in Succs(p) /\ lag[<<p, s>>] \in Int
    BY <1>1, <1>10, TypedNetwork DEF Preds, Succs
  <2>2. /\ EarlyFinish(p) + lag[<<p, s>>] <= es[s]
        /\ lf[p] + lag[<<p, s>>] <= LateStart(s)
    BY <1>1, <2>1 DEF EarlyInv, LateInv
  <2>3. start[p] + d[p] <= lf[p] /\ (p \notin Later /\ p # a => start[p] + d[p] = EarlyFinish(p))
    <3> HIDE DEF start
    <3>1. CASE p \in Later
      <4>1. start[p] = LateStart(p) /\ d[p] = duration[p]
        BY <1>9, <3>1
      <4>2. LateStart(p) = lf[p] - duration[p] /\ lf[p] \in Int /\ duration[p] \in Int
        BY <1>3
      <4> QED BY <1>7, <3>1, <4>1, <4>2
    <3>2. CASE p = a
      <4>1. start[p] = es[p] /\ d[p] = duration[p] + Float(p)
        BY <1>6, <1>7, <1>9, <3>2
      <4>2. es[p] \in Nat /\ duration[p] \in Nat
        BY <1>3
      <4> QED BY <1>4, <3>2, <4>1, <4>2
    <3>3. CASE p \notin Later /\ p # a
      BY <1>3, <1>6, <1>9, <3>3
    <3> QED BY <3>1, <3>2, <3>3
  <2>4. start[p] \in Int /\ d[p] \in Int /\ lf[p] \in Int /\ LateStart(s) \in Int
    <3>1. d[p] \in Nat
      BY <1>6 DEF Schedules
    <3>2. lf[s] - duration[s] \in Int /\ LateStart(s) = lf[s] - duration[s]
      BY <1>3
    <3> QED BY <1>3, <1>9, <3>1, <3>2
  <2>5. CASE s \in Later
    BY <1>9, <2>1, <2>2, <2>3, <2>4, <2>5
  <2>6. CASE s \notin Later
    BY <1>8, <1>9, <2>1, <2>2, <2>3, <2>6
  <2> QED BY <2>5, <2>6
<1>11. start \in [Present -> Int] /\ \A b \in Present : start[b] >= 0
  BY <1>9
<1> HIDE DEF start
<1>12. InTime(start, d, Finish)
  <2>1. ASSUME NEW l \in Within PROVE start[l[1]] + d[l[1]] + lag[l] <= start[l[2]]
    <3>1. PICK p \in Present, s \in Present : l = <<p, s>>
      BY <2>1 DEF Within
    <3> QED BY <1>10, <2>1, <3>1 DEF Within
  <2> QED BY <1>9, <2>1 DEF InTime, Keeps
<1> QED BY <1>2, <1>6, <1>11, <1>12, ScheduleInTime DEF d

\* What GET cpm answers, for every network the routes can make, of any size, with any
\* durations, lags and leads: no project with a link to another one gets a result, and
\* of those that are computed it finds a cycle if and only if there is one; Finish is
\* the first day the project can be done by, and a task cannot take longer than its
\* float.  Up to that it can, if no lead is longer than the task it leads (LeadsFit).
THEOREM CriticalPathHolds == NetworkSpec => []CriticalPathIsTrue
<1>1. ASSUME NetworkInv PROVE CriticalPathIsTrue
  <2>4. pass \notin {"none", "missing"} => \A l \in Links : l[1] \in Present => l \in Within
    BY <1>1 DEF NetworkInv, NetworkTypeOK, SortInv, Contained, LeadOut, Within
  <2>1. pass = "cyclic" => Cyclic
    BY <1>1 DEF NetworkInv, SortInv
  <2>2. pass \in {"forward", "backward", "done"} => ~Cyclic
    BY <1>1, NoCycleTaken DEF NetworkInv, SortInv
  <2>3. ASSUME pass = "done", NEW a \in Present
        PROVE  /\ Float(a) >= 0
               /\ LeadsFit => CanBeDone(Longer(a, Float(a)), Finish)
               /\ ~CanBeDone(Longer(a, Float(a) + 1), Finish)
    BY <1>1, <2>3, BeyondTheFloat, WithinTheFloat
  <2> QED BY <1>1, <2>1, <2>2, <2>3, <2>4, FinishIsEarliest DEF CriticalPathIsTrue
<1> QED BY <1>1, NetworkInvariant, PTL

-----------------------------------------------------------------------------
(* The services together                                                     *)

\* Whatever part moves, every service behaves as its own specification says: the
\* one that moves takes its steps, the others rest.
THEOREM EachServiceAsSpecified ==
  ServicesSpec => /\ AgentSpec /\ CommandsSpec /\ DiffSpec /\ PackSpec
                  /\ SyncSpec /\ CostSpec /\ NetworkSpec
<1>1. ServicesInit => /\ AgentInit /\ CommandsInit /\ DiffInit /\ PackInit
                      /\ SyncInit /\ CostInit /\ NetworkInit
  BY DEF ServicesInit
<1>2. [ServicesNext]_allVars =>
        /\ [AgentNext]_agentVars /\ [CommandsNext]_commandVars /\ [DiffNext]_diffVars
        /\ [PackNext]_packVars /\ [SyncNext]_syncVars /\ [CostNext]_costVars
        /\ [NetworkNext]_networkVars
  BY DEF ServicesNext, allVars, Agents, Commands, Diff, Packs, Sync, Costs, Schedule
<1> QED BY <1>1, <1>2, PTL
        DEF ServicesSpec, AgentSpec, CommandsSpec, DiffSpec, PackSpec, SyncSpec, CostSpec, NetworkSpec

\* Together the services keep the types of all their tables.
THEOREM ServicesTyping == ServicesSpec => []ServicesTypeOK
<1>1. /\ AgentTypeOK /\ CommandsTypeOK /\ DiffTypeOK /\ PackTypeOK
      /\ SyncTypeOK /\ CostTypeOK /\ NetworkTypeOK
      => ServicesTypeOK
  BY DEF ServicesTypeOK
<1> QED BY <1>1, EachServiceAsSpecified, AgentTyping, CommandsTyping, DiffTyping, PackTyping,
           SyncTyping, CostTyping, NetworkTyping, PTL

\* And every promise of each of them: nothing a service relies on is undone by
\* another one.
THEOREM ServicesKeepPromises ==
  ServicesSpec => [](/\ ExecutionsBounded /\ ConcurrencyBounded /\ OneAtWork
                     /\ AnswersAgree /\ OverdraftBounded /\ PackedOnce
                     /\ EditedOnce /\ PostedOnce /\ CriticalPathIsTrue)
BY EachServiceAsSpecified, BoundedExecutions, BoundedConcurrency, WorkedOnOnce, AnswersStayTrue,
   OverdraftIsBounded, DraftsAreCharged, EditsTakeEffectOnce, CostsPostedOnce, CriticalPathHolds, PTL
=============================================================================
