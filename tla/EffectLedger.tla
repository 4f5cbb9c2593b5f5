---------------------------- MODULE EffectLedger ----------------------------
(***************************************************************************)
(* What the effect boundary promises of each operation key, whatever       *)
(* approvals, policies and rows make it do so.  One key at a time is in    *)
(* flight; a provider is called for the key in flight only, once; what is  *)
(* then put on record is never taken off it, and a key on record is never  *)
(* in flight again.  A flight can be forgotten (a crash): its key is free  *)
(* again although the provider may have been called.                       *)
(***************************************************************************)
EXTENDS Naturals

CONSTANT OpKey

VARIABLES
    entry,      \* [OpKey -> Entries]
    delivered   \* [OpKey -> Nat], calls that reached the provider

vars == <<entry, delivered>>

Entries == {"free", "reserved", "answered", "unknown", "settled"}

InFlight(k) == entry[k] \in {"reserved", "answered"}

Init ==
    /\ entry = [k \in OpKey |-> "free"]
    /\ delivered = [k \in OpKey |-> 0]

Take(k) ==
    /\ entry[k] = "free"
    /\ \A j \in OpKey : ~InFlight(j)
    /\ entry' = [entry EXCEPT ![k] = "reserved"]
    /\ UNCHANGED delivered

Deliver(k) == \/ UNCHANGED delivered
              \/ delivered' = [delivered EXCEPT ![k] = @ + 1]

Answer(k) ==
    /\ entry[k] = "reserved"
    /\ Deliver(k)
    /\ entry' = [entry EXCEPT ![k] = "answered"]

Forget(k) ==
    /\ InFlight(k)
    /\ IF entry[k] = "reserved" THEN Deliver(k) ELSE UNCHANGED delivered
    /\ entry' = [entry EXCEPT ![k] = "free"]

Record(k) ==
    /\ entry[k] = "answered"
    /\ \E e \in {"unknown", "settled"} : entry' = [entry EXCEPT ![k] = e]
    /\ UNCHANGED delivered

Reconcile(k) ==
    /\ entry[k] = "unknown"
    /\ entry' = [entry EXCEPT ![k] = "settled"]
    /\ UNCHANGED delivered

Next == \E k \in OpKey : Take(k) \/ Answer(k) \/ Forget(k) \/ Record(k) \/ Reconcile(k)

Spec == Init /\ [][Next]_vars

FairSpec == Spec /\ \A k \in OpKey : WF_vars(Answer(k) \/ Forget(k) \/ Record(k))
=============================================================================
