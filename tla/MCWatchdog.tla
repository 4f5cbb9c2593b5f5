------------------------------ MODULE MCWatchdog ------------------------------
(***************************************************************************)
(* An instance of Watchdog: the first site is reported down on its first   *)
(* failed cycle, the other one on its third.                               *)
(***************************************************************************)
EXTENDS Watchdog, TLC

CONSTANTS s1, s2, w1, w2

Sites == {s1, s2}
Thresholds == (s1 :> 1) @@ (s2 :> 3)
Symmetry == Permutations(Worker)
===============================================================================
