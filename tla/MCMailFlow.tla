----------------------------- MODULE MCMailFlow ------------------------------
(* A small instance of MailFlow for TLC. *)
EXTENDS MailFlow

\* Identifiers are interchangeable.
Symmetry == Permutations(Ids)
=============================================================================
