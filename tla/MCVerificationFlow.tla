------------------------- MODULE MCVerificationFlow -------------------------
(* Model-checking instances of VerificationFlow. *)
EXTENDS VerificationFlow, TLC

CONSTANTS a0, a1, a2

\* Keep, replace or add an address; add two; change something else.
MCProposals ==
    {[addrs |-> {a0}, other |-> "new"], [addrs |-> {a0}, other |-> "old"],
     [addrs |-> {a1}, other |-> "old"], [addrs |-> {a0, a1}, other |-> "old"],
     [addrs |-> {a0, a1, a2}, other |-> "old"]}

Symmetric == Permutations(Requests) \cup Permutations(Changes)
=============================================================================
