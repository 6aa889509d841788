------------------------------ MODULE MCAcmeApi -----------------------------
(* Instances of the running program for TLC. *)
EXTENDS AcmeApi, TLC

Symmetry == Permutations(Workers) \union Permutations(Keys)
=============================================================================
