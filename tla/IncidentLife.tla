----------------------------- MODULE IncidentLife -----------------------------
(***************************************************************************)
(* What the watchdog promises of every incident, whoever touches it:       *)
(* it is filed once, leased before it is repaired, repaired a bounded      *)
(* number of times over all its leases, and closed for good.               *)
(***************************************************************************)
EXTENDS Naturals

CONSTANTS
    Incident,
    MaxRepairs      \* a natural number

VARIABLES
    phase,      \* [Incident -> Phase]
    repairs     \* [Incident -> Nat], repair actions applied to the site

vars == <<phase, repairs>>

Phase == {"absent", "queued", "leased", "failed", "resolved", "cancelled"}
Closed == {"resolved", "cancelled"}

Init ==
    /\ phase = [i \in Incident |-> "absent"]
    /\ repairs = [i \in Incident |-> 0]

Move(i, from, to) ==
    /\ phase[i] \in from
    /\ phase' = [phase EXCEPT ![i] = to]
    /\ UNCHANGED repairs

File(i) == Move(i, {"absent"}, "queued")
Lease(i) == Move(i, {"queued", "failed", "leased"}, "leased")
GiveBack(i) == Move(i, {"leased"}, "queued")
GiveUp(i) == Move(i, {"leased"}, "failed")
Resolve(i) == Move(i, {"queued", "leased"}, "resolved")
Cancel(i) == Move(i, {"queued", "failed"}, "cancelled")

Repair(i) ==
    /\ phase[i] = "leased"
    /\ repairs[i] < MaxRepairs
    /\ repairs' = [repairs EXCEPT ![i] = @ + 1]
    /\ UNCHANGED phase

Next == \E i \in Incident :
    File(i) \/ Lease(i) \/ GiveBack(i) \/ GiveUp(i) \/ Resolve(i) \/ Cancel(i) \/ Repair(i)

Spec == Init /\ [][Next]_vars
===============================================================================
