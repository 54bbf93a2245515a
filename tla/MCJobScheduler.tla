--------------------------- MODULE MCJobScheduler ---------------------------
(* Model values and small instances of JobScheduler.                         *)
EXTENDS JobScheduler, TLC

CONSTANTS api, worker, t1, t2, d1, d2, known, unknown

\* A tick in each of two processes.
TwoTicks == (t1 :> api) @@ (t2 :> worker)

\* Each process has one tick, and no variable holds a process: trading the ticks
\* trades the processes too.
Interchangeable == Permutations({t1, t2})

Daily    == [interval |-> 1, max |-> 1, type |-> known]
OneShot  == [interval |-> 0, max |-> 2, type |-> unknown]

OnlyOneShot == {OneShot}
BothSpecs   == {Daily, OneShot}
=============================================================================
