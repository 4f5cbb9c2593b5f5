---------------------------- MODULE ActionBroker ----------------------------
(***************************************************************************)
(* The authoritative effect boundary of tools/operator-control: the class  *)
(* ActionBroker of broker.py over the SQLite database of store.py.         *)
(*                                                                         *)
(* Every broker call is made by a worker (an OS process with a connection  *)
(* of its own).  SQLite has one writer: `writer' is the connection that    *)
(* holds BEGIN IMMEDIATE.  The tables below are the COMMITTED ones; what   *)
(* an open transaction has written is in the session of its worker, so a   *)
(* crash or a ROLLBACK is the loss of that session.                        *)
(*                                                                         *)
(* A connection opened with for_operation=True tests operations_blocked    *)
(* when it is opened, before BEGIN IMMEDIATE: Connect is a step of its     *)
(* own, and the transactions that need it start from a connected session.  *)
(***************************************************************************)
EXTENDS Naturals, FiniteSets

CONSTANTS
    Worker,         \* processes that call the broker
    OpKey,          \* operation keys
    Intent,         \* action intents, each with its own acceptance_id
    Approval,       \* approval identifiers
    Task,           \* task identifiers the approvals are bound to
    Correction,     \* correction identifiers that prepare revocations
    Digest,         \* contents the policy source directory can have
    InitialDigest,  \* its content when the broker bootstraps
    KeyOf,          \* [Intent -> OpKey], the operation_key of an intent
    AuthorityType,  \* [Approval -> {"one_off", "standing"}]
    ApprovedKey,    \* [Approval -> OpKey \cup {AnyKey}], its operation_key
    Binds,          \* [Approval -> SUBSET Intent], the intents whose payload,
                    \* target, limits and versions the approval names
    TaskOf,         \* [Approval -> Task]
    AnyKey,         \* the operation_key "*" of a standing approval
    Perishable,     \* SUBSET (Approval \cup Intent): approvals, and intents
                    \* whose acceptance, expire within the behaviour
    None,           \* no digest, no intent, no worker
    Managed,        \* managed_mode: a controller dispatches the handler
    MaxReconciliationAttempts,
    MaxApplied,     \* bound: dispatches of one key that reach the provider
    MaxCrashes      \* bound: crashes of a worker inside a call

ASSUME ConstantsAssumption ==
    /\ KeyOf \in [Intent -> OpKey]
    /\ AuthorityType \in [Approval -> {"one_off", "standing"}]
    /\ ApprovedKey \in [Approval -> OpKey \cup {AnyKey}]
    /\ Binds \in [Approval -> SUBSET Intent]
    /\ TaskOf \in [Approval -> Task]
    /\ Perishable \subseteq Approval \cup Intent
    /\ InitialDigest \in Digest
    /\ Managed \in BOOLEAN
    /\ MaxReconciliationAttempts \in Nat
    /\ MaxApplied \in Nat
    /\ MaxCrashes \in Nat

ASSUME NamesAssumption ==
    /\ AnyKey \notin OpKey
    /\ None \notin Worker \cup OpKey \cup Intent \cup Approval \cup Digest

ASSUME WorkersAssumption == IsFiniteSet(Worker) /\ Worker # {}

VARIABLES
    writer,        \* the worker whose transaction holds the writer lock
    session,       \* [Worker -> Session], locals of the call in progress
    operations,    \* table operations, one row per key
    used,          \* table approvals_used
    approvals,     \* table approvals
    preparations,  \* table approval_revocation_preparations
    acceptances,   \* table acceptances: the digest an acceptance is bound to
    published,     \* table policy_authority_versions: its digests
    retired,       \* ... those with revoked=1
    current,       \* control_state.current_policy_id, as a digest
    blocked,       \* control_state.operations_blocked
    source,        \* content of the policy source directory
    late,          \* the expires_at of the perishable records has passed
    applied,       \* how often the provider applied the effect of a key
    lost,          \* how often an applied effect lost its transaction
    effects,       \* what each dispatch that reached the provider ran under
    crashes        \* crashes so far

effectTables == <<operations, used>>
policyTables == <<published, retired, current>>
tables == <<effectTables, approvals, preparations, acceptances, policyTables, blocked>>
world  == <<source, late, applied, lost, effects, crashes>>
vars   == <<writer, session, tables, world>>

-----------------------------------------------------------------------------
Outcomes == {"unknown", "confirmed-success", "confirmed-failure"}

Stages == {"idle", "connected", "reserved", "returned", "publishing",
           "issuing", "reconciling"}

Session == [at       : Stages,
            intent   : Intent \cup {None},
            approval : Approval \cup {None},
            digest   : Digest \cup {None},
            key      : OpKey \cup {None},
            effect   : Outcomes,
            hit      : BOOLEAN]    \* the provider applied this dispatch

Row == [state    : {"absent", "reconciling", "completed"},
        effect   : Outcomes,
        intent   : Intent \cup {None},
        approval : Approval \cup {None},
        attempts : Nat]

ApprovalRow == [issued  : BOOLEAN,
                digest  : Digest \cup {None},
                revoked : BOOLEAN,
                scope   : {1, 2}]   \* scope_version: a revocation raises it, once

Idle == [at |-> "idle", intent |-> None, approval |-> None, digest |-> None,
         key |-> None, effect |-> "unknown", hit |-> FALSE]

NoRow == [state |-> "absent", effect |-> "unknown", intent |-> None,
          approval |-> None, attempts |-> 0]

EffectRecord == [intent : Intent, approval : Approval, digest : Digest]

Init ==
    /\ writer = None
    /\ session = [w \in Worker |-> Idle]
    /\ operations = [k \in OpKey |-> NoRow]
    /\ used = {}
    /\ approvals = [a \in Approval |-> [issued |-> FALSE, digest |-> None,
                                        revoked |-> FALSE, scope |-> 1]]
    /\ preparations = [p \in Correction \X Approval |-> "none"]
    /\ acceptances = [i \in Intent |-> None]
    /\ published = {InitialDigest}
    /\ retired = {}
    /\ current = InitialDigest
    /\ blocked = FALSE
    /\ source = InitialDigest
    /\ late = FALSE
    /\ applied = [k \in OpKey |-> 0]
    /\ lost = [k \in OpKey |-> 0]
    /\ effects = {}
    /\ crashes = 0

-----------------------------------------------------------------------------
(* Connections and the writer lock.                                        *)

\* Faulty variants: BEGIN instead of BEGIN IMMEDIATE, and a connection that
\* does not read operations_blocked.
LockFree_Deferred == TRUE
Unblocked_Unread == TRUE

LockFree == writer = None
Unblocked == ~blocked

At(w, stage) == session[w].at = stage

\* The end of a transaction that starts, runs and commits in one step.
Finish(w) ==
    /\ LockFree
    /\ session' = [session EXCEPT ![w] = Idle]
    /\ UNCHANGED writer

Connect(w) ==
    /\ At(w, "idle")
    /\ Unblocked
    /\ session' = [session EXCEPT ![w].at = "connected"]
    /\ UNCHANGED <<writer, tables, world>>

\* A call that ends without having written: Denied, the busy timeout of
\* sqlite3.connect, an IntegrityError, a replay that returns the stored result
\* of its row, or the death of the process.
Leave(w) ==
    /\ session[w].at \in {"connected", "publishing", "issuing", "reconciling"}
    /\ session' = [session EXCEPT ![w] = Idle]
    /\ UNCHANGED <<writer, tables, world>>

-----------------------------------------------------------------------------
(* execute.                                                                *)

\* Faulty variants: the key of the approval is not compared; only an unknown
\* row is taken for an existing one.
KeyInScope_Ignored(i, a) == TRUE
NoRecord_OnlyUnknown(i) ==
    ~(operations[KeyOf[i]].state # "absent" /\ operations[KeyOf[i]].effect = "unknown")

KeyInScope(i, a) ==
    \/ ApprovedKey[a] = KeyOf[i]
    \/ AuthorityType[a] = "standing" /\ ApprovedKey[a] = AnyKey

UsedUp(a) == AuthorityType[a] = "one_off" /\ \E k \in OpKey : <<a, k>> \in used

NoRecord(i) == operations[KeyOf[i]].state = "absent"

Authorized(i, a) ==
    /\ approvals[a].issued /\ ~approvals[a].revoked
    /\ approvals[a].digest = current
    /\ acceptances[i] = current
    /\ late => Perishable \cap {a, i} = {}
    /\ ~UsedUp(a)
    /\ i \in Binds[a]
    /\ KeyInScope(i, a)

\* BEGIN IMMEDIATE, the checks and the uncommitted INSERTs.
Reserve(w, i, a) ==
    /\ At(w, "connected")
    /\ LockFree
    /\ NoRecord(i)
    /\ Authorized(i, a)
    /\ writer' = w
    /\ session' = [session EXCEPT ![w] = [Idle EXCEPT !.at = "reserved",
            !.intent = i, !.approval = a, !.digest = current, !.key = KeyOf[i]]]
    /\ UNCHANGED <<tables, world>>

\* What the provider sees of a dispatch that reaches it.
Apply(w, hit) ==
    LET s == session[w] IN
    IF hit
    THEN /\ applied[s.key] < MaxApplied
         /\ applied' = [applied EXCEPT ![s.key] = @ + 1]
         /\ effects' = effects \cup {[intent |-> s.intent, approval |-> s.approval,
                                      digest |-> s.digest]}
    ELSE UNCHANGED <<applied, effects>>

\* The handler returns a provider id and the exact bound readback: of what it
\* applied now or, if the provider knows the key, of what it applied before.
DispatchConfirmed(w) ==
    /\ At(w, "reserved")
    /\ \E hit \in BOOLEAN :
          /\ hit \/ applied[session[w].key] > 0
          /\ Apply(w, hit)
          /\ session' = [session EXCEPT ![w] =
                [@ EXCEPT !.at = "returned", !.hit = hit, !.effect = "confirmed-success"]]
    /\ UNCHANGED <<writer, tables, source, late, lost, crashes>>

\* It returns anything else or, outside managed mode, raises: the effect is
\* unknown, whether or not the provider applied it.
DispatchUnconfirmed(w) ==
    /\ At(w, "reserved")
    /\ \E hit \in BOOLEAN :
          /\ Apply(w, hit)
          /\ session' = [session EXCEPT ![w] =
                [@ EXCEPT !.at = "returned", !.hit = hit]]
    /\ UNCHANGED <<writer, tables, source, late, lost, crashes>>

\* In managed mode an exception of the controller rolls the reservation back,
\* also when it comes after the adapter has applied the mutation.
HandlerRaises(w) ==
    /\ Managed
    /\ At(w, "reserved")
    /\ \E hit \in BOOLEAN :
          /\ Apply(w, hit)
          /\ lost' = [lost EXCEPT ![session[w].key] = IF hit THEN @ + 1 ELSE @]
    /\ session' = [session EXCEPT ![w] = Idle]
    /\ writer' = None
    /\ UNCHANGED <<tables, source, late, crashes>>

Committable(w) == At(w, "returned")

\* The UPDATE and the COMMIT that make row and use of the approval durable.
CommitFence(w) ==
    LET s == session[w] IN
    /\ Committable(w)
    /\ operations' = [operations EXCEPT ![s.key] =
            [state |-> IF s.effect = "unknown" THEN "reconciling" ELSE "completed",
             effect |-> s.effect, intent |-> s.intent, approval |-> s.approval,
             attempts |-> 0]]
    /\ used' = used \cup {<<s.approval, s.key>>}
    /\ writer' = None
    /\ session' = [session EXCEPT ![w] = Idle]
    /\ UNCHANGED <<approvals, preparations, acceptances, policyTables,
                   blocked, world>>

\* The process dies, or the COMMIT fails, with the transaction open: SQLite
\* rolls it back, whatever the provider has already done.
Crash(w) ==
    /\ session[w].at \in {"reserved", "returned"}
    /\ crashes < MaxCrashes
    /\ crashes' = crashes + 1
    /\ lost' = [lost EXCEPT ![session[w].key] = IF session[w].hit THEN @ + 1 ELSE @]
    /\ session' = [session EXCEPT ![w] = Idle]
    /\ writer' = None
    /\ UNCHANGED <<tables, source, late, applied, effects>>

-----------------------------------------------------------------------------
(* reconcile: a SELECT, the checks and an UPDATE, outside any transaction. *)

\* Faulty variant: one attempt more than the limit is let through.
AttemptsLeft_OffByOne(k) == operations[k].attempts <= MaxReconciliationAttempts

AttemptsLeft(k) == operations[k].attempts < MaxReconciliationAttempts

Reconcilable(k) == operations[k].state # "absent" /\ operations[k].effect = "unknown"

ReconcileRead(w, k) ==
    /\ At(w, "connected")
    /\ Reconcilable(k)
    /\ AttemptsLeft(k)
    /\ session' = [session EXCEPT ![w] = [@ EXCEPT !.at = "reconciling", !.key = k]]
    /\ UNCHANGED <<writer, tables, world>>

\* The UPDATE of reconcile names the key only: it does not test again that the
\* effect is unknown.
Settle(w, row) ==
    /\ At(w, "reconciling")
    /\ Finish(w)
    /\ operations' = [operations EXCEPT ![session[w].key] = row]
    /\ UNCHANGED <<used, approvals, preparations, acceptances, policyTables,
                   blocked, world>>

ReconcileMismatch(w) ==
    Settle(w, [operations[session[w].key] EXCEPT !.attempts = @ + 1])

ReconcileConfirm(w) ==
    \E effect \in {"confirmed-success", "confirmed-failure"} :
        Settle(w, [operations[session[w].key] EXCEPT !.state = "completed",
                       !.effect = effect, !.attempts = @ + 1])

-----------------------------------------------------------------------------
(* Approvals: issuing, revoking, and revoking in two phases.               *)

\* Faulty variant: revocation does not look at the operations.
Dispatched_NotRead(a) == FALSE

Dispatched(a) == \E k \in OpKey : operations[k].approval = a

Live(a) == approvals[a].issued /\ ~approvals[a].revoked

\* issue_approval reads the current digest on one connection and inserts the
\* record with an autocommit statement on another.
IssueRead(w, a) ==
    /\ At(w, "idle")
    /\ session' = [session EXCEPT ![w] =
            [@ EXCEPT !.at = "issuing", !.approval = a, !.digest = current]]
    /\ UNCHANGED <<writer, tables, world>>

IssueInsert(w) ==
    LET a == session[w].approval IN
    /\ At(w, "issuing")
    /\ ~approvals[a].issued
    /\ Finish(w)
    /\ approvals' = [approvals EXCEPT ![a] =
            [@ EXCEPT !.issued = TRUE, !.digest = session[w].digest]]
    /\ UNCHANGED <<effectTables, preparations, acceptances, policyTables,
                   blocked, world>>

Revoked(a) ==
    [approvals EXCEPT ![a] =
        [@ EXCEPT !.revoked = TRUE, !.scope = approvals[a].scope + 1]]

RevokeApproval(w, a) ==
    /\ At(w, "connected")
    /\ ~Dispatched(a)
    /\ Live(a)
    /\ Finish(w)
    /\ approvals' = Revoked(a)
    /\ UNCHANGED <<effectTables, preparations, acceptances, policyTables,
                   blocked, world>>

\* A cancelled preparation is followed by a new row with a new intent_id: the
\* state here is that of the latest row of the correction and the approval.
PrepareRevocation(w, c, a) ==
    /\ At(w, "connected")
    /\ Live(a)
    /\ ~Dispatched(a)
    /\ Finish(w)
    /\ preparations' = [preparations EXCEPT ![<<c, a>>] = "prepared"]
    /\ UNCHANGED <<effectTables, approvals, acceptances, policyTables,
                   blocked, world>>

CommitRevocation(w, c, a) ==
    /\ At(w, "connected")
    /\ preparations[<<c, a>>] = "prepared"
    /\ ~Dispatched(a)
    /\ Live(a)
    /\ Finish(w)
    /\ approvals' = Revoked(a)
    /\ preparations' = [preparations EXCEPT ![<<c, a>>] = "committed"]
    /\ UNCHANGED <<effectTables, acceptances, policyTables, blocked, world>>

CancelRevocation(w, c, a) ==
    /\ At(w, "connected")
    /\ preparations[<<c, a>>] \in {"prepared", "cancelled"}
    /\ Finish(w)
    /\ preparations' = [preparations EXCEPT ![<<c, a>>] = "cancelled"]
    /\ UNCHANGED <<effectTables, approvals, acceptances, policyTables,
                   blocked, world>>

\* store.cancel_task_authority: whatever the operations say, and without a new
\* scope_version.
CancelTaskAuthority(t) ==
    /\ LockFree
    /\ approvals' = [a \in Approval |->
            IF Live(a) /\ TaskOf[a] = t THEN [approvals[a] EXCEPT !.revoked = TRUE]
                                        ELSE approvals[a]]
    /\ UNCHANGED <<writer, session, effectTables, preparations, acceptances,
                   policyTables, blocked, world>>

-----------------------------------------------------------------------------
(* Policy authority, acceptances and the rollback block.                   *)

\* publish_policy reads the source files before it opens its connection.
PublishRead(w) ==
    /\ At(w, "idle")
    /\ Unblocked
    /\ session' = [session EXCEPT ![w] =
            [@ EXCEPT !.at = "publishing", !.digest = source]]
    /\ UNCHANGED <<writer, tables, world>>

\* policy_id and digest are unique: a content published before, if it is not
\* the current one, ends in an IntegrityError.
PublishCommit(w) ==
    LET d == session[w].digest IN
    /\ At(w, "publishing")
    /\ d \notin published
    /\ Finish(w)
    /\ published' = published \cup {d}
    /\ current' = d
    /\ UNCHANGED <<effectTables, approvals, preparations, acceptances,
                   retired, blocked, world>>

Revocable(d) == d \in published \ (retired \cup {current})

RevokePolicy(w, d) ==
    /\ At(w, "connected")
    /\ Revocable(d)
    /\ Finish(w)
    /\ retired' = retired \cup {d}
    /\ UNCHANGED <<effectTables, approvals, preparations, acceptances,
                   published, current, blocked, world>>

\* The resolver returns an acceptance evaluated under some published policy.
IssueAcceptance(i) ==
    /\ LockFree
    /\ acceptances[i] = None
    /\ \E d \in published : acceptances' = [acceptances EXCEPT ![i] = d]
    /\ UNCHANGED <<writer, session, effectTables, approvals, preparations,
                   policyTables, blocked, world>>

Pending(k) == operations[k].state = "reconciling" \/ Reconcilable(k)

\* store.prepare_rollback.
PrepareRollback ==
    /\ LockFree
    /\ \A k \in OpKey : ~Pending(k)
    /\ blocked' = TRUE
    /\ UNCHANGED <<writer, session, effectTables, approvals, preparations,
                   acceptances, policyTables, world>>

-----------------------------------------------------------------------------
(* The world: policy files are edited, and records expire.                   *)

EditSource(d) ==
    /\ source' = d
    /\ UNCHANGED <<writer, session, tables, late, applied, lost, effects, crashes>>

TimePasses ==
    /\ ~late /\ Perishable # {}
    /\ late' = TRUE
    /\ UNCHANGED <<writer, session, tables, source, applied, lost, effects,
                   crashes>>

-----------------------------------------------------------------------------
Execute(w) ==
    \/ \E i \in Intent, a \in Approval : Reserve(w, i, a)
    \/ DispatchConfirmed(w)
    \/ DispatchUnconfirmed(w)
    \/ HandlerRaises(w)
    \/ CommitFence(w)

Reconcile(w) ==
    \/ \E k \in OpKey : ReconcileRead(w, k)
    \/ ReconcileMismatch(w)
    \/ ReconcileConfirm(w)

Approve(w) ==
    \/ \E a \in Approval : IssueRead(w, a)
    \/ IssueInsert(w)
    \/ \E a \in Approval : RevokeApproval(w, a)
    \/ \E c \in Correction, a \in Approval :
          \/ PrepareRevocation(w, c, a)
          \/ CommitRevocation(w, c, a)
          \/ CancelRevocation(w, c, a)

Govern(w) ==
    \/ PublishRead(w)
    \/ PublishCommit(w)
    \/ \E d \in Digest : RevokePolicy(w, d)

World ==
    \/ \E t \in Task : CancelTaskAuthority(t)
    \/ \E i \in Intent : IssueAcceptance(i)
    \/ PrepareRollback
    \/ \E d \in Digest : EditSource(d)
    \/ TimePasses

Next ==
    \/ \E w \in Worker :
          \/ Connect(w)
          \/ Leave(w)
          \/ Execute(w)
          \/ Crash(w)
          \/ Reconcile(w)
          \/ Approve(w)
          \/ Govern(w)
    \/ World

Spec == Init /\ [][Next]_vars

\* The handler returns (the code sets no deadline of its own on it), and a call
\* that waits for the lock gives up after SQLite's busy timeout.
FairSpec ==
    /\ Spec
    /\ \A w \in Worker :
          /\ WF_vars(Leave(w))
          /\ WF_vars(DispatchConfirmed(w) \/ DispatchUnconfirmed(w) \/ CommitFence(w))

-----------------------------------------------------------------------------
(* Properties.                                                             *)

\* Every table and every session keeps its shape.
TypeOK ==
    /\ writer \in Worker \cup {None}
    /\ session \in [Worker -> Session]
    /\ operations \in [OpKey -> Row]
    /\ used \subseteq Approval \X OpKey
    /\ approvals \in [Approval -> ApprovalRow]
    /\ preparations \in [Correction \X Approval ->
                            {"none", "prepared", "cancelled", "committed"}]
    /\ acceptances \in [Intent -> Digest \cup {None}]
    /\ published \subseteq Digest
    /\ retired \subseteq Digest
    /\ current \in Digest
    /\ blocked \in BOOLEAN
    /\ source \in Digest
    /\ late \in BOOLEAN
    /\ applied \in [OpKey -> Nat]
    /\ lost \in [OpKey -> Nat]
    /\ effects \subseteq EffectRecord
    /\ crashes \in Nat

\* Inside the fence: execute has reserved and has not committed yet.
Fenced(w) == session[w].at \in {"reserved", "returned"}

Recorded(k) == operations[k].state # "absent"

Remembered(k) ==
    \/ Recorded(k)
    \/ \E w \in Worker : Fenced(w) /\ session[w].key = k /\ session[w].hit

\* A provider applies the effect of a key once, plus once for every time a
\* transaction was lost (a crash, or an exception in managed mode) after the
\* provider had applied it: no interleaving of execute calls adds another.
EffectsAccounted ==
    \A k \in OpKey : applied[k] <= lost[k] + (IF Remembered(k) THEN 1 ELSE 0)

\* From its reservation to its commit the authority of an execute call cannot
\* change under it: the digest it read is still current, its approval is still
\* bound to that digest and not revoked, and its acceptance is still of that
\* digest.
FenceFreezesAuthority ==
    \A w \in Worker : Fenced(w) =>
        LET s == session[w] IN
        /\ s.digest = current
        /\ approvals[s.approval].digest = current
        /\ Live(s.approval)
        /\ acceptances[s.intent] = current

\* An approval whose scope_version was raised by a revocation has neither a row
\* in operations nor a use, and no committed preparation is without it.
RevocationExcludesOperation ==
    /\ \A a \in Approval : approvals[a].scope = 2 =>
          /\ approvals[a].revoked
          /\ ~Dispatched(a)
          /\ \A k \in OpKey : <<a, k>> \notin used
    /\ \A p \in Correction \X Approval :
          preparations[p] = "committed" => approvals[p[2]].scope = 2

\* At most one correction ever commits the revocation of an approval.
OneCommittedRevocation ==
    \A a \in Approval, c, d \in Correction :
        preparations[<<c, a>>] = "committed" /\ preparations[<<d, a>>] = "committed"
            => c = d

\* Whatever crashes and retries happen, the effects dispatched under a one-off
\* approval are all of one operation key.
OneOffOneKey ==
    \A e, f \in effects :
        e.approval = f.approval /\ AuthorityType[e.approval] = "one_off"
            => KeyOf[e.intent] = KeyOf[f.intent]

\* The attempt limit of reconcile is tested before the UPDATE: concurrent
\* reconcilers overshoot it, by less than one attempt each.
Reconcilers(k) == {w \in Worker : At(w, "reconciling") /\ session[w].key = k}

OvershootBounded ==
    \A k \in OpKey : operations[k].attempts + Cardinality(Reconcilers(k))
                        < MaxReconciliationAttempts + Cardinality(Worker)

\* The pointer never names a revoked version, so no interleaving of publishing
\* and revoking leaves the broker without authority ("current policy authority
\* unavailable").
CurrentPolicyAuthoritative == current \in published \ retired

\* A key with a row, above all one whose effect is unknown, is never dispatched
\* again.
RecordedNeverRedispatched ==
    [][\A k \in OpKey : Recorded(k) => Recorded(k)' /\ applied'[k] = applied[k]]_vars

\* Once operations are blocked, the calls that had connected before finish, and
\* after them no operation changes and nothing is dispatched.
Open == {w \in Worker : session[w].at \in {"connected", "reserved", "returned", "reconciling"}}

BlockedDrains ==
    [][blocked => /\ blocked'
                  /\ Open' \subseteq Open
                  /\ Open = {} => UNCHANGED <<operations, applied>>]_vars
=============================================================================
