----------------------------- MODULE MCCourier -----------------------------
(* Small instances of Courier for TLC. *)
EXTENDS Courier, TLC

CONSTANTS w1, w2

TwoWorkers == {w1, w2}
OneWorker == {w1}
Symmetry == Permutations(TwoWorkers)
=============================================================================
