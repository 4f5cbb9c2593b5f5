--------------------------- MODULE ManagedDispatch ---------------------------
(***************************************************************************)
(* Managed dispatch (plugins/operator-control/managed.py): the calls of    *)
(* ManagedController.dispatch and replace_active_run over three databases, *)
(* the leases (SQLiteLeaseRegistry), the budget (SQLiteBudgetLedger) and   *)
(* the provider (LocalSQLiteManagedWriteAdapter).                          *)
(*                                                                         *)
(* Each method of these is one transaction, hence one action; a call is a  *)
(* sequence of them, and calls of several processes interleave.  A         *)
(* dispatch runs inside ActionBroker.execute, which holds the writer lock  *)
(* of its broker's database from the admission to the commit; processes of *)
(* different brokers share the leases and the provider.  The token of a    *)
(* lease is abstracted to its generation: the registry never issues a      *)
(* generation of a target twice.                                           *)
(***************************************************************************)
EXTENDS Naturals, FiniteSets

CONSTANTS
    Caller,         \* processes that dispatch or replace
    Broker,         \* broker databases
    BrokerOf,       \* [Caller -> Broker]
    Target,         \* exact protected targets
    OpKey,          \* operation keys
    TargetOf,       \* [OpKey -> Target]
    Amount,         \* [OpKey -> Nat], the budget_amount of an operation
    Budget,         \* total - spent - verification_reserve of the parent
    None,
    MaxRun,         \* bound: runs of the task
    MaxGeneration,  \* bound: lease generations of a target
    MaxCrashes      \* bound: calls that die on the way

ASSUME ConstantsAssumption ==
    /\ BrokerOf \in [Caller -> Broker]
    /\ TargetOf \in [OpKey -> Target]
    /\ Amount \in [OpKey -> Nat]
    /\ Budget \in Nat
    /\ None \notin OpKey
    /\ None \notin Broker
    /\ MaxRun \in Nat \ {0}
    /\ MaxGeneration \in Nat
    /\ MaxCrashes \in Nat

VARIABLES
    call,         \* [Caller -> Call], locals of the call in progress
    lease,        \* table managed_leases
    generation,   \* table managed_lease_generations
    fence,        \* table provider_fences, 0 for no row
    row,          \* table effects: the operation that wrote a target last
    reservations, \* table reservations
    live,         \* the current run of the task on the board, 0 when cancelled
    recorded,     \* <<broker, operation>> pairs with a committed row
    writes,       \* how often an operation was written to its target
    handed,       \* the last generation replace_active_run has handed over
    crashes

provider == <<fence, row, writes>>
registry == <<lease, generation, handed>>
vars == <<call, registry, provider, reservations, live, recorded, crashes>>

Run == 1 .. MaxRun

Steps == {"idle", "admitted", "budgeted", "leased", "armed", "checked", "mutated",
          "returned", "raising", "replacing", "invalidated"}

\* `via' is the broker whose writer lock the call holds; a replacement has none.
Call == [at : Steps, via : Broker \cup {None}, op : OpKey \cup {None}, run : Nat,
         old : Nat, gen : Nat]

Lease == [held : BOOLEAN, owner : Nat, gen : Nat, expired : BOOLEAN]

NoCall == [at |-> "idle", via |-> None, op |-> None, run |-> 0, old |-> 0, gen |-> 0]
NoLease == [held |-> FALSE, owner |-> 0, gen |-> 0, expired |-> FALSE]

Init ==
    /\ call = [c \in Caller |-> NoCall]
    /\ lease = [t \in Target |-> NoLease]
    /\ generation = [t \in Target |-> 0]
    /\ fence = [t \in Target |-> 0]
    /\ row = [t \in Target |-> [op |-> None, gen |-> 0]]
    /\ reservations = {}
    /\ live = 1
    /\ recorded = {}
    /\ writes = [o \in OpKey |-> 0]
    /\ handed = [t \in Target |-> 0]
    /\ crashes = 0

-----------------------------------------------------------------------------
At(c, step) == call[c].at = step
On(c) == TargetOf[call[c].op]
GoTo(c, step) == call' = [call EXCEPT ![c].at = step]
End(c) == call' = [call EXCEPT ![c] = NoCall]

\* check_current: the envelope names the current, running, not cancelled run.
Current(r) == live = r

\* The broker's writer lock is free, and the broker has no row for the operation.
Dispatchable(b, o) == <<b, o>> \notin recorded /\ \A d \in Caller : call[d].via # b

Admit(c, o, r) ==
    /\ At(c, "idle")
    /\ Dispatchable(BrokerOf[c], o)
    /\ Current(r)
    /\ call' = [call EXCEPT ![c] = [at |-> "admitted", via |-> BrokerOf[c], op |-> o,
                                    run |-> r, old |-> 0, gen |-> 0]]
    /\ UNCHANGED <<registry, provider, reservations, live, recorded, crashes>>

\* Faulty variant: the reservations of other operations are not summed.
Affordable_Alone(o) == Amount[o] <= Budget

\* SUM(amount), counted in units of the budget.
Units(o) == {o} \X (1 .. Amount[o])
Reserved == Cardinality(UNION {Units(o) : o \in reservations})
Affordable(o) == Reserved + Amount[o] <= Budget

\* The reservation of an operation is made once, and kept when its call fails.
ReserveBudget(c) ==
    LET o == call[c].op IN
    /\ At(c, "admitted")
    /\ IF o \in reservations \/ Affordable(o)
       THEN GoTo(c, "budgeted") /\ reservations' = reservations \cup {o}
       ELSE End(c) /\ UNCHANGED reservations
    /\ UNCHANGED <<registry, provider, live, recorded, crashes>>

Free(t) == ~lease[t].held \/ lease[t].expired
NextGeneration(t) == generation[t] + 1

Acquire(c) ==
    LET t == On(c)
        g == NextGeneration(t)
    IN
    /\ At(c, "budgeted")
    /\ IF Free(t)
       THEN /\ g <= MaxGeneration
            /\ lease' = [lease EXCEPT ![t] = [held |-> TRUE, owner |-> call[c].run,
                                              gen |-> g, expired |-> FALSE]]
            /\ generation' = [generation EXCEPT ![t] = g]
            /\ call' = [call EXCEPT ![c] = [@ EXCEPT !.at = "leased", !.gen = g]]
       ELSE End(c) /\ UNCHANGED <<lease, generation>>
    /\ UNCHANGED <<handed, provider, reservations, live, recorded, crashes>>

\* Faulty variant: the fence can be armed backwards.
Armable_Backwards(t, g) == TRUE

Armable(t, g) == fence[t] < g

ArmFence(c) ==
    LET t == On(c) IN
    /\ At(c, "leased")
    /\ IF Armable(t, call[c].gen)
       THEN fence' = [fence EXCEPT ![t] = call[c].gen] /\ GoTo(c, "armed")
       ELSE GoTo(c, "raising") /\ UNCHANGED fence
    /\ UNCHANGED <<registry, row, writes, reservations, live, recorded, crashes>>

CheckBoundary(c) ==
    /\ At(c, "armed")
    /\ GoTo(c, IF Current(call[c].run) THEN "checked" ELSE "raising")
    /\ UNCHANGED <<registry, provider, reservations, live, recorded, crashes>>

\* Faulty variant: the effect is looked up by its target.
Duplicate_ByTarget(c) == row[On(c)].op # None

Duplicate(c) == row[On(c)].op = call[c].op
Writable(c) == fence[On(c)] = call[c].gen

\* A duplicate is a row that still carries the operation_key: the answer is
\* that of the row, and nothing is written.
Mutate(c) ==
    /\ At(c, "checked")
    /\ \/ /\ Duplicate(c)
          /\ GoTo(c, "mutated")
          /\ UNCHANGED <<row, writes>>
       \/ /\ ~Duplicate(c) /\ Writable(c)
          /\ row' = [row EXCEPT ![On(c)] = [op |-> call[c].op, gen |-> call[c].gen]]
          /\ writes' = [writes EXCEPT ![call[c].op] = @ + 1]
          /\ GoTo(c, "mutated")
       \/ /\ ~Duplicate(c) /\ ~Writable(c)
          /\ GoTo(c, "raising")
          /\ UNCHANGED <<row, writes>>
    /\ UNCHANGED <<registry, fence, reservations, live, recorded, crashes>>

\* The lease row of this call: same token, owner and generation.
Own(c) == lease[On(c)].held /\ lease[On(c)].gen = call[c].gen
          /\ lease[On(c)].owner = call[c].run

Drop(t) == lease' = [lease EXCEPT ![t] = NoLease]

Consume(c) ==
    /\ At(c, "mutated")
    /\ IF Own(c) /\ ~lease[On(c)].expired
       THEN Drop(On(c)) /\ GoTo(c, "returned")
       ELSE GoTo(c, "raising") /\ UNCHANGED lease
    /\ UNCHANGED <<generation, handed, provider, reservations, live, recorded, crashes>>

\* The finally clause: release, whose ManagedDenied is swallowed.  The exception
\* makes the broker roll its reservation back.
Release(c) ==
    /\ At(c, "raising")
    /\ IF Own(c) THEN Drop(On(c)) ELSE UNCHANGED lease
    /\ End(c)
    /\ UNCHANGED <<generation, handed, provider, reservations, live, recorded, crashes>>

\* The broker commits its row; a replacement has no broker to return to.
Recorder(c) == {call[c].via} \ {None}

Commit(c) ==
    /\ At(c, "returned")
    /\ recorded' = recorded \cup Recorder(c) \X {call[c].op}
    /\ End(c)
    /\ UNCHANGED <<registry, provider, reservations, live, crashes>>

Crash(c) ==
    /\ ~At(c, "idle")
    /\ crashes < MaxCrashes
    /\ crashes' = crashes + 1
    /\ End(c)
    /\ UNCHANGED <<registry, provider, reservations, live, recorded>>

-----------------------------------------------------------------------------
(* replace_active_run: the provider's fence first, the lease after it.       *)

\* Faulty variant: a replacement keeps the generation of the lease it replaces.
Successor_Same(g) == g

Successor(g) == g + 1

Invalidated(c) == fence[On(c)] = call[c].gen

\* `o' is the operation the replacement will write.
ReplaceRead(c, o, new) ==
    LET t == TargetOf[o] IN
    /\ At(c, "idle")
    /\ lease[t].held
    /\ call' = [call EXCEPT ![c] = [at |-> "replacing", via |-> None, op |-> o, run |-> new,
                                    old |-> lease[t].owner, gen |-> lease[t].gen]]
    /\ UNCHANGED <<registry, provider, reservations, live, recorded, crashes>>

Invalidate(c) ==
    LET g == Successor(call[c].gen) IN
    /\ At(c, "replacing")
    /\ IF Invalidated(c)
       THEN /\ fence' = [fence EXCEPT ![On(c)] = g]
            /\ call' = [call EXCEPT ![c] = [@ EXCEPT !.at = "invalidated", !.gen = g]]
       ELSE End(c) /\ UNCHANGED fence
    /\ UNCHANGED <<registry, row, writes, reservations, live, recorded, crashes>>

\* Faulty variant: managed_lease_generations is not updated.
Issued_LeaseOnly(t, g) == generation

Issued(t, g) == [generation EXCEPT ![t] = g]

\* registry.replace; the replacement may then write under its generation, which
\* the provider already has for its fence.
ReplaceLease(c) ==
    LET t == On(c)
        g == call[c].gen
    IN
    /\ At(c, "invalidated")
    /\ IF lease[t].held /\ lease[t].owner = call[c].old /\ Successor(lease[t].gen) = g
       THEN /\ g <= MaxGeneration
            /\ lease' = [lease EXCEPT ![t] = [held |-> TRUE, owner |-> call[c].run,
                                              gen |-> g, expired |-> FALSE]]
            /\ generation' = Issued(t, g)
            /\ handed' = [handed EXCEPT ![t] = g]
            /\ GoTo(c, "checked")
       ELSE End(c) /\ UNCHANGED registry
    /\ UNCHANGED <<provider, reservations, live, recorded, crashes>>

-----------------------------------------------------------------------------
\* The time of a lease is over, whoever is still at work under it.
Expire(t) ==
    /\ lease[t].held /\ ~lease[t].expired
    /\ lease' = [lease EXCEPT ![t].expired = TRUE]
    /\ UNCHANGED <<call, generation, handed, provider, reservations, live, recorded, crashes>>

\* The board gives the task to a new run.
Reassign ==
    /\ live \in 1 .. MaxRun - 1
    /\ live' = live + 1
    /\ UNCHANGED <<call, registry, provider, reservations, recorded, crashes>>

Cancel ==
    /\ live # 0
    /\ live' = 0
    /\ UNCHANGED <<call, registry, provider, reservations, recorded, crashes>>

Dispatch(c) ==
    \/ \E o \in OpKey, r \in Run : Admit(c, o, r)
    \/ ReserveBudget(c)
    \/ Acquire(c)
    \/ ArmFence(c)
    \/ CheckBoundary(c)
    \/ Mutate(c)
    \/ Consume(c)
    \/ Release(c)
    \/ Commit(c)

Replace(c) ==
    \/ \E o \in OpKey, new \in Run : ReplaceRead(c, o, new)
    \/ Invalidate(c)
    \/ ReplaceLease(c)

Next ==
    \/ \E c \in Caller : Dispatch(c) \/ Replace(c) \/ Crash(c)
    \/ \E t \in Target : Expire(t)
    \/ Reassign
    \/ Cancel

Spec == Init /\ [][Next]_vars

-----------------------------------------------------------------------------
TypeOK ==
    /\ call \in [Caller -> Call]
    /\ lease \in [Target -> Lease]
    /\ generation \in [Target -> Nat]
    /\ fence \in [Target -> Nat]
    /\ row \in [Target -> [op : OpKey \cup {None}, gen : Nat]]
    /\ reservations \subseteq OpKey
    /\ live \in 0 .. MaxRun
    /\ recorded \subseteq Broker \X OpKey
    /\ writes \in [OpKey -> Nat]
    /\ handed \in [Target -> Nat]
    /\ crashes \in 0 .. MaxCrashes

\* The lease of a target is always of the newest generation the registry has
\* issued for it, so that the lease that is held is the one that may be armed.
LeaseIsNewest ==
    \A t \in Target : lease[t].held => lease[t].gen = generation[t]

\* The provider is at most one generation ahead of the registry: a replacement
\* that dies or loses a race between the provider's fence and the lease costs one
\* refused dispatch, and never wedges the target.
FenceAhead == \A t \in Target : fence[t] <= generation[t] + 1

\* Of the calls that can still write a target, at most one carries the generation
\* the provider accepts, however leases expire and runs are replaced.
OneWriterPerFence ==
    \A c, d \in Caller :
        /\ call[c].at \in {"armed", "checked"} /\ call[d].at \in {"armed", "checked"}
        /\ On(c) = On(d)
        /\ call[c].gen = fence[On(c)] /\ call[d].gen = fence[On(c)]
        => c = d

\* The writes of a target come in the order of the leases: a write never replaces
\* one made under the same or a later lease.
WritesAdvance ==
    [][\A t \in Target : row'[t] # row[t] => row'[t].gen > row[t].gen]_vars

\* Once replace_active_run has handed a target over, nothing is written there
\* under a lease older than the one it handed over.
ReplacedNeverWrites ==
    [][\A t \in Target : row'[t] # row[t] => row'[t].gen >= handed[t]]_vars

\* The operations admitted against one parent never exceed its budget.
BudgetRespected == Reserved <= Budget

\* An operation a broker has recorded, or is about to, was written to its target;
\* an answer is never that of another operation.
ConfirmedWasWritten ==
    \A o \in OpKey :
        \/ \E b \in Broker : <<b, o>> \in recorded
        \/ \E c \in Caller : call[c].op = o /\ call[c].at \in {"mutated", "returned"}
        => writes[o] > 0
=============================================================================
