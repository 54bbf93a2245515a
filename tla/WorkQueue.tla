----------------------------- MODULE WorkQueue -----------------------------
(***************************************************************************)
(* What a database-backed work queue promises, whatever its table: a job   *)
(* is held by at most one worker, only its holder settles it, it is taken  *)
(* at most limit times before it fails for good, and a worker that dies    *)
(* leaves its jobs taken by nobody.  The queues of this system are shown   *)
(* to implement it by refinement.                                          *)
(***************************************************************************)
EXTENDS Integers

CONSTANTS Workers, Jobs, Limits, Nobody

VARIABLE item       \* [Jobs -> [status, tries, limit, holder]]

Fresh(limit) == [status |-> "queued", tries |-> 0, limit |-> limit, holder |-> Nobody]

Unused(j) == item[j].status = "absent"
Held(w, j) == item[j].status = "running" /\ item[j].holder = w

Init == \A j \in Jobs : Unused(j) /\ item[j].holder = Nobody

Put(j) ==
  /\ Unused(j)
  /\ \E limit \in Limits : item' = [item EXCEPT ![j] = Fresh(limit)]

Take(w, j) ==
  /\ item[j].status = "queued" /\ item[j].tries < item[j].limit
  /\ \A k \in Jobs : ~Held(w, k)
  /\ item' = [item EXCEPT ![j].status = "running", ![j].tries = @ + 1, ![j].holder = w]

Done(w, j) ==
  /\ Held(w, j)
  /\ item' = [item EXCEPT ![j].status = "complete", ![j].holder = Nobody]

Bounce(w, j) ==
  /\ Held(w, j)
  /\ item' = [item EXCEPT
       ![j].status = IF item[j].tries >= item[j].limit THEN "failed" ELSE "queued",
       ![j].holder = Nobody]

\* Workers die: what they held stays running and is nobody's.
Lose(lost) ==
  item' = [j \in Jobs |->
    IF item[j].holder \in lost THEN [item[j] EXCEPT !.holder = Nobody] ELSE item[j]]

\* An operator starts a job over, but never one that is running.
Reopen(j) ==
  /\ item[j].status \in {"queued", "failed", "complete"}
  /\ item' = [item EXCEPT ![j] = Fresh(item[j].limit)]

Next ==
  \/ \E j \in Jobs : Put(j) \/ Reopen(j)
  \/ \E w \in Workers, j \in Jobs : Take(w, j) \/ Done(w, j) \/ Bounce(w, j)
  \/ \E lost \in SUBSET Workers : Lose(lost)

Spec == Init /\ [][Next]_item
=============================================================================
