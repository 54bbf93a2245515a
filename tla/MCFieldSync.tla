---------------------------- MODULE MCFieldSync -----------------------------
(* Small instances of FieldSync; operations, tabs and requests are alike.    *)
EXTENDS FieldSync, TLC

Interchangeable ==
  Permutations(Ops) \cup Permutations(Tabs) \cup Permutations(Requests)
=============================================================================
