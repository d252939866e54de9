------------------------------ MODULE MCDriver ------------------------------
(***************************************************************************)
(* Driver on a small instance: two stream slots, two decimation factors.   *)
(***************************************************************************)
EXTENDS Driver, TLC

CONSTANTS s1, s2, handle

MCStream == {s1, s2}

\* Slots are alike; only safety runs use this.
Slots == Permutations(MCStream)
=============================================================================
