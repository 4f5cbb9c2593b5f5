------------------------- MODULE ActionBrokerLedger -------------------------
(***************************************************************************)
(* ActionBroker implements EffectLedger: the row of a key, or else the     *)
(* fence of the worker that holds the key, is its entry in the ledger.     *)
(***************************************************************************)
EXTENDS ActionBroker

Holds(w, k) == Fenced(w) /\ session[w].key = k

EntryOf(k) ==
    IF Recorded(k)
    THEN IF operations[k].effect = "unknown" THEN "unknown" ELSE "settled"
    ELSE IF \E w \in Worker : Holds(w, k) /\ At(w, "reserved") THEN "reserved"
    ELSE IF \E w \in Worker : Holds(w, k) THEN "answered"
    ELSE "free"

Ledger == INSTANCE EffectLedger WITH
    entry <- [k \in OpKey |-> EntryOf(k)],
    delivered <- applied

\* Every behaviour of the broker is one of the ledger: only a key without a row
\* is dispatched, one at a time, at most one provider call per reservation, a row
\* is never taken back, and no key stays in flight for ever.
ImplementsLedger == Ledger!FairSpec
=============================================================================
