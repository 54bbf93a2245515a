--------------------------- MODULE EventDelivery ---------------------------
(***************************************************************************)
(* What an outbox promises to the producers of its events: delivery at     *)
(* least once, a refusal by the receiver, or a dead letter after Limit     *)
(* recorded failures.  An event is only ever called delivered when the     *)
(* receiver has it, an outcome is for good, and neither a crash nor a lost *)
(* answer costs an event a try that was not made.                          *)
(***************************************************************************)
EXTENDS Integers

CONSTANTS Events, Limit

VARIABLES
  state,     \* [Events -> {"unborn", "pending", "delivered", "refused", "dead"}]
  tries,     \* [Events -> Nat], failures recorded
  received   \* what the receiver has accepted, once or more often

event == <<state, tries, received>>

Init ==
  /\ state = [e \in Events |-> "unborn"]
  /\ tries = [e \in Events |-> 0]
  /\ received = {}

Publish(e) ==
  /\ state[e] = "unborn"
  /\ state' = [state EXCEPT ![e] = "pending"]
  /\ UNCHANGED <<tries, received>>

Receive(e) ==
  /\ state[e] = "pending"
  /\ received' = received \cup {e}
  /\ UNCHANGED <<state, tries>>

Confirm(e) ==
  /\ state[e] = "pending" /\ e \in received
  /\ state' = [state EXCEPT ![e] = "delivered"]
  /\ UNCHANGED <<tries, received>>

Refuse(e) ==
  /\ state[e] = "pending"
  /\ state' = [state EXCEPT ![e] = "refused"]
  /\ UNCHANGED <<tries, received>>

Miss(e) ==
  /\ state[e] = "pending"
  /\ tries' = [tries EXCEPT ![e] = @ + 1]
  /\ state' = [state EXCEPT ![e] = IF tries[e] + 1 >= Limit THEN "dead" ELSE @]
  /\ UNCHANGED received

Next == \E e \in Events :
  Publish(e) \/ Receive(e) \/ Confirm(e) \/ Refuse(e) \/ Miss(e)

Spec == Init /\ [][Next]_event
=============================================================================
