--------------------------- MODULE MCOneTimeCode ---------------------------
(* Model-checking instances of OneTimeCode. *)
EXTENDS OneTimeCode, TLC

\* Requests and codes are interchangeable.
Symmetric == Permutations(Requests) \cup Permutations(Codes)
=============================================================================
