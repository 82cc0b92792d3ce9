-------------------------------- MODULE MCDlq --------------------------------
(* Small instances of Dlq for TLC. *)
EXTENDS Dlq

\* Identifiers and payloads are interchangeable.
Symmetry == Permutations(Ids) \union Permutations(Payloads)
=============================================================================
