------------------------- MODULE MCAccountingOutbox -------------------------
(* Small instances of AccountingOutbox.                                      *)
EXTENDS AccountingOutbox, TLC
CONSTANTS w1, w2, q1, q2, d1, d2

\* Neither documents nor drain passes are told apart by any definition.
Interchangeable == Permutations({d1, d2}) \cup Permutations({w1, w2})
=============================================================================
