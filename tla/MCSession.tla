----------------------------- MODULE MCSession -----------------------------
(* Model checking Session: the requests, identities and session ids are      *)
(* interchangeable.                                                          *)
EXTENDS Session, TLC

Symmetric == Permutations(Requests) \cup Permutations(Identities) \cup Permutations(Sessions)
=============================================================================
