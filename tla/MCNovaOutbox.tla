---------------------------- MODULE MCNovaOutbox ----------------------------
(* Small instances of NovaOutbox: one or two tenants, ticks and processes.   *)
EXTENDS NovaOutbox, TLC

CONSTANTS api, worker, t1, t2, acme, bell

OneTick  == (t1 :> api)
TwoTicks == (t1 :> api) @@ (t2 :> worker)

\* The rows of one tenant, and one row for each of two.
AllAcme   == [r \in RowIds |-> acme]
AcmeBell  == [r \in RowIds |-> IF r = 1 THEN acme ELSE bell]

\* Each process has one tick, and no variable holds a process: trading the ticks
\* trades the processes too.
Interchangeable == Permutations({t1, t2})

NoSpec == [interval |-> 0, max |-> 1, type |-> acme]
NoSpecs == {NoSpec}
=============================================================================
