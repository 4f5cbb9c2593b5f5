------------------------------ MODULE MCReconciler ------------------------------
(***************************************************************************)
(* Small instances of Reconciler: a blocker, and a newer meeting that      *)
(* clears it and claims completion, which may arrive in either order.      *)
(***************************************************************************)
EXTENDS Reconciler, TLC

CONSTANTS w1, w2, blocker, claim

Orders == (blocker :> 1) @@ (claim :> 2)
Sayings == (blocker :> [meeting |-> FALSE, blocker |-> TRUE])
        @@ (claim :> [meeting |-> TRUE, claim |-> TRUE, blocker |-> FALSE])
================================================================================
