------------------------------- MODULE MCLinks -------------------------------
(* Model-checking instance of Links. *)
EXTENDS Links, TLC

Symmetric == Permutations(Addresses)
=============================================================================
