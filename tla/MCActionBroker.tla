--------------------------- MODULE MCActionBroker ---------------------------
(***************************************************************************)
(* Small instances of ActionBroker.  The approval `once' is one-off and    *)
(* names the key k1, whatever intents there are; `always' is standing, for *)
(* any key; both name the payload and the limits of every intent.          *)
(*                                                                         *)
(* MCBrokerEffects.cfg: two intents with different keys and both           *)
(* approvals, so that `once' is tried for a key that is not its own.       *)
(*                                                                         *)
(* MCBrokerAuthority.cfg: one intent and `always', two policy contents and *)
(* a correction that revokes `always'; managed mode; fairness, for the     *)
(* liveness of the ledger.                                                 *)
(***************************************************************************)
EXTENDS ActionBrokerLedger, TLC

CONSTANTS w1, w2, k1, k2, i1, i2, once, always, t1

Workers == Permutations(Worker)

MCKeyOf == [i \in Intent |-> IF i = i1 THEN k1 ELSE k2]
MCAuthorityType == [a \in Approval |-> IF a = once THEN "one_off" ELSE "standing"]
MCApprovedKey == [a \in Approval |-> IF a = once THEN k1 ELSE AnyKey]
MCBinds == [a \in Approval |-> Intent]
MCTaskOf == [a \in Approval |-> t1]
=============================================================================
