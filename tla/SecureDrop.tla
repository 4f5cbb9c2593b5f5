----------------------------- MODULE SecureDrop -----------------------------
(***************************************************************************)
(* One-time drops (tools/secure-credentials, store.py): the life of one    *)
(* drop, from its creation to the row that is wiped or deleted.  The       *)
(* drops of a database are rows that no operation relates to each other,   *)
(* so one drop stands for each of them.                                    *)
(*                                                                         *)
(* Clients are the web application, the agents and the operator's commands *)
(* that submit, flush the outbox, reveal, consume and revoke; janitors run *)
(* recover_claims and cleanup_expired, from cron and from the application. *)
(* A transaction, or a statement that commits by itself, is one action;    *)
(* files are read and written between them.                                *)
(***************************************************************************)
EXTENDS Naturals, FiniteSets

CONSTANTS
    Client,     \* processes that submit, flush, reveal, consume, revoke
    Janitor,    \* processes that recover claims and clean up
    Path,       \* destinations an agent may name
    None,
    MaxClaims,  \* bound: claims made of the drop
    MaxCrashes  \* bound: calls that die on the way

ASSUME ConstantsAssumption ==
    /\ IsFiniteSet(Client)
    /\ Client \cap Janitor = {}
    /\ None \notin Path
    /\ MaxClaims \in Nat
    /\ MaxCrashes \in Nat

VARIABLES
    vault,        \* made by create_submitted_drop, not for a sender
    state,        \* column state, "deleted" when there is no row
    token,        \* recipient_token_enc is not NULL
    claim,        \* claim_id: the number of the claim, 0 for NULL
    destination,  \* claim_destination
    claims,       \* claims made so far
    old,          \* those made more than stale_after seconds ago
    expired,      \* expires_at has passed
    outbox,       \* state of the row of delivery_outbox
    record,       \* the outbox file with the recipient's link exists
    files,        \* destinations that hold the plaintext
    call,         \* [Client \cup Janitor -> Call], the call in progress
    disclosed,    \* how often the plaintext got out: a file, a response
    lost,         \* claims given back though a plaintext may have got out
    vanished,     \* a reveal died between its commit and its response
    crashes

drop == <<state, token, claim, destination, claims, outbox>>
clock == <<old, expired>>
store == <<record, files>>
history == <<disclosed, lost, vanished, crashes>>
vars == <<vault, drop, clock, store, call, history>>

Process == Client \cup Janitor

States == {"open", "submitted", "claimed", "consumed", "revoked", "deleted"}

\* The ciphertext and the key are gone for good.
Wiped == {"consumed", "revoked", "deleted"}

Stages == {"idle", "clearing", "flushing", "flushed", "revealing", "consuming",
           "holding", "failing", "misplaced", "delivered",
           "recovering", "verified", "stale", "cleaning", "unlinking"}

Call == [at : Stages, claim : Nat, path : Path \cup {None}, listed : BOOLEAN]

NoCall == [at |-> "idle", claim |-> 0, path |-> None, listed |-> FALSE]

Init ==
    /\ vault \in BOOLEAN
    /\ state = "open"
    /\ token = TRUE
    /\ claim = 0
    /\ destination = None
    /\ claims = 0
    /\ old = {}
    /\ expired = FALSE
    /\ outbox = "none"
    /\ record = FALSE
    /\ files = {}
    /\ call = [p \in Process |-> NoCall]
    /\ disclosed = 0
    /\ lost = 0
    /\ vanished = FALSE
    /\ crashes = 0

-----------------------------------------------------------------------------
At(p, stage) == call[p].at = stage
GoTo(p, stage) == call' = [call EXCEPT ![p].at = stage]
End(p) == call' = [call EXCEPT ![p] = NoCall]

\* submit_once; create_submitted_drop has its link already, and names no
\* base_url.  A replay changes nothing.
Submit(p) ==
    /\ At(p, "idle")
    /\ state = "open" /\ ~expired
    /\ state' = "submitted"
    /\ outbox' = IF vault THEN "none" ELSE "queued"
    /\ IF vault THEN GoTo(p, "clearing") ELSE UNCHANGED call
    /\ UNCHANGED <<vault, token, claim, destination, claims, clock, store, history>>

ClearToken(p) ==
    /\ At(p, "clearing")
    /\ token' = FALSE
    /\ End(p)
    /\ UNCHANGED <<vault, state, claim, destination, claims, outbox, clock, store, history>>

\* flush_delivery_outbox: the rows, then each file, then each acknowledgment.
FlushRead(p) ==
    /\ At(p, "idle")
    /\ outbox = "queued"
    /\ GoTo(p, "flushing")
    /\ UNCHANGED <<vault, drop, clock, store, history>>

FlushWrite(p) ==
    /\ At(p, "flushing")
    /\ record' = TRUE
    /\ GoTo(p, "flushed")
    /\ UNCHANGED <<vault, drop, clock, files, history>>

Acknowledgeable(p) == At(p, "flushed")

FlushAcknowledge(p) ==
    /\ Acknowledgeable(p)
    /\ IF outbox = "queued" THEN outbox' = "delivered" /\ token' = FALSE
                            ELSE UNCHANGED <<outbox, token>>
    /\ End(p)
    /\ UNCHANGED <<vault, state, claim, destination, claims, clock, store, history>>

-----------------------------------------------------------------------------
\* _finalize_consumed, which names the drop only: whatever its state, if there
\* is a row.  claimed_at stays.
Finalize ==
    IF state = "deleted" THEN UNCHANGED drop
    ELSE /\ state' = "consumed"
         /\ token' = FALSE
         /\ claim' = 0
         /\ destination' = None
         /\ outbox' = "none"
         /\ UNCHANGED claims

\* Faulty variants: a claimed drop can be read again; the deadline was checked
\* by the lookup only.
Available_Claimed == state \in {"submitted", "claimed"} /\ ~expired
Available_Late == state = "submitted"

\* _consume_row.
Available == state = "submitted" /\ ~expired

\* take_once: the row is wiped before the plaintext is returned.
Take(p) ==
    /\ At(p, "idle")
    /\ Available
    /\ Finalize
    /\ GoTo(p, "revealing")
    /\ UNCHANGED <<vault, clock, store, history>>

Reveal(p) ==
    /\ At(p, "revealing")
    /\ disclosed' = disclosed + 1
    /\ End(p)
    /\ UNCHANGED <<vault, drop, clock, store, lost, vanished, crashes>>

\* consume_to_file: a lookup, the claim, the file, the finalization.
ConsumeLookup(p, path) ==
    /\ At(p, "idle")
    /\ state = "submitted" /\ ~expired
    /\ call' = [call EXCEPT ![p] = [@ EXCEPT !.at = "consuming", !.path = path]]
    /\ UNCHANGED <<vault, drop, clock, store, history>>

ConsumeClaim(p) ==
    /\ At(p, "consuming")
    /\ IF Available
       THEN /\ claims < MaxClaims
            /\ claims' = claims + 1
            /\ state' = "claimed"
            /\ claim' = claims + 1
            /\ destination' = call[p].path
            /\ call' = [call EXCEPT ![p] = [@ EXCEPT !.at = "holding", !.claim = claims + 1]]
       ELSE End(p) /\ UNCHANGED <<state, claim, destination, claims>>
    /\ UNCHANGED <<vault, token, outbox, clock, store, history>>

Deliver(p) ==
    /\ files' = files \cup {call[p].path}
    /\ disclosed' = disclosed + 1
    /\ UNCHANGED <<vault, drop, clock, record, lost, vanished, crashes>>

\* _atomic_private_text returns, or raises: before it has put the file in place,
\* or after (ensure_private_file and fsync_directory come last).
WriteFile(p) == At(p, "holding") /\ Deliver(p) /\ GoTo(p, "delivered")

WriteRaisesLate(p) == At(p, "holding") /\ Deliver(p) /\ GoTo(p, "misplaced")

WriteRaises(p) ==
    /\ At(p, "holding")
    /\ GoTo(p, "failing")
    /\ UNCHANGED <<vault, drop, clock, store, history>>

Mine(p) == state = "claimed" /\ claim = call[p].claim

Reopen ==
    /\ state' = "submitted"
    /\ claim' = 0
    /\ destination' = None
    /\ UNCHANGED <<token, claims, outbox>>

\* The except clause.
Unclaim(p) ==
    /\ call[p].at \in {"failing", "misplaced"}
    /\ IF Mine(p) THEN Reopen ELSE UNCHANGED drop
    /\ lost' = IF Mine(p) /\ At(p, "misplaced") THEN lost + 1 ELSE lost
    /\ End(p)
    /\ UNCHANGED <<vault, clock, store, disclosed, vanished, crashes>>

ConsumeFinalize(p) ==
    /\ At(p, "delivered")
    /\ IF Mine(p) THEN Finalize ELSE UNCHANGED drop
    /\ End(p)
    /\ UNCHANGED <<vault, clock, store, history>>

\* after_delivery or the transaction raises: the claim stays.
FinalizeRaises(p) ==
    /\ At(p, "delivered")
    /\ End(p)
    /\ UNCHANGED <<vault, drop, clock, store, history>>

\* revoke, whatever the state; the columns of the claim stay.
Revoke ==
    /\ state # "deleted"
    /\ state' = "revoked"
    /\ token' = FALSE
    /\ outbox' = "none"
    /\ UNCHANGED <<vault, claim, destination, claims, clock, store, call, history>>

-----------------------------------------------------------------------------
(* recover_claims: a snapshot of the claimed rows, then row by row.          *)

RecoverRead(j) ==
    /\ At(j, "idle")
    /\ state = "claimed"
    /\ call' = [call EXCEPT ![j] = [@ EXCEPT !.at = "recovering", !.claim = claim,
                                             !.path = destination]]
    /\ UNCHANGED <<vault, drop, clock, store, history>>

\* Faulty variant: the destination is not compared.
Verifiable_Any(j) == TRUE

\* The file at the destination has the digest of the payload.
Verifiable(j) == call[j].path \in files

RecoverCheck(j) ==
    /\ At(j, "recovering")
    /\ IF Verifiable(j) THEN GoTo(j, "verified")
       ELSE IF call[j].claim \in old THEN GoTo(j, "stale")
       ELSE End(j)
    /\ UNCHANGED <<vault, drop, clock, store, history>>

RecoverFinalize(j) ==
    /\ At(j, "verified")
    /\ Finalize
    /\ End(j)
    /\ UNCHANGED <<vault, clock, store, history>>

\* Faulty variant: an expired drop is left.
Releasable_Fresh == state = "claimed" /\ ~expired

\* The UPDATE tests the state of the row; not the claim the snapshot saw.
Releasable == state = "claimed"

RecoverRelease(j) ==
    /\ At(j, "stale")
    /\ IF Releasable THEN Reopen /\ lost' = lost + 1 ELSE UNCHANGED <<drop, lost>>
    /\ End(j)
    /\ UNCHANGED <<vault, clock, store, disclosed, vanished, crashes>>

\* cleanup_expired: SELECT, DELETE, and the outbox files of the rows selected.
Removable == expired /\ state \notin {"claimed", "deleted"}

CleanupSelect(j) ==
    /\ At(j, "idle")
    /\ expired
    /\ call' = [call EXCEPT ![j] = [@ EXCEPT !.at = "cleaning", !.listed = Removable]]
    /\ UNCHANGED <<vault, drop, clock, store, history>>

CleanupDelete(j) ==
    /\ At(j, "cleaning")
    /\ IF Removable
       THEN state' = "deleted" /\ token' = FALSE /\ outbox' = "none"
       ELSE UNCHANGED <<state, token, outbox>>
    /\ GoTo(j, "unlinking")
    /\ UNCHANGED <<vault, claim, destination, claims, clock, store, history>>

CleanupUnlink(j) ==
    /\ At(j, "unlinking")
    /\ record' = (record /\ ~call[j].listed)
    /\ End(j)
    /\ UNCHANGED <<vault, drop, clock, files, history>>

-----------------------------------------------------------------------------
\* A process dies in a call.
Crash(p) ==
    /\ ~At(p, "idle")
    /\ crashes < MaxCrashes
    /\ crashes' = crashes + 1
    /\ vanished' = (vanished \/ At(p, "revealing"))
    /\ End(p)
    /\ UNCHANGED <<vault, drop, clock, store, disclosed, lost>>

Expire ==
    /\ ~expired
    /\ expired' = TRUE
    /\ UNCHANGED <<vault, drop, old, store, call, history>>

Age(c) ==
    /\ c \in 1 .. claims \ old
    /\ old' = old \cup {c}
    /\ UNCHANGED <<vault, drop, expired, store, call, history>>

Intake(p) == Submit(p) \/ ClearToken(p) \/ FlushRead(p) \/ FlushWrite(p) \/ FlushAcknowledge(p)

Begin(p) == Take(p) \/ \E path \in Path : ConsumeLookup(p, path)

Proceed(p) ==
    \/ Reveal(p)
    \/ ConsumeClaim(p)
    \/ WriteFile(p)
    \/ WriteRaisesLate(p)
    \/ WriteRaises(p)
    \/ Unclaim(p)
    \/ ConsumeFinalize(p)
    \/ FinalizeRaises(p)

Recover(j) == RecoverRead(j) \/ RecoverCheck(j) \/ RecoverFinalize(j) \/ RecoverRelease(j)

Cleanup(j) == CleanupSelect(j) \/ CleanupDelete(j) \/ CleanupUnlink(j)

Next ==
    \/ \E p \in Client : Intake(p) \/ Begin(p) \/ Proceed(p)
    \/ \E j \in Janitor : Recover(j) \/ Cleanup(j)
    \/ \E p \in Process : Crash(p)
    \/ Revoke
    \/ Expire
    \/ \E c \in 1 .. MaxClaims : Age(c)

Spec == Init /\ [][Next]_vars

\* Time passes, and cron runs both commands again and again, as the README has
\* it; of what the clients do nothing is promised.
FairSpec ==
    /\ Spec
    /\ WF_vars(Expire)
    /\ \A c \in 1 .. MaxClaims : WF_vars(Age(c))
    /\ \A j \in Janitor : SF_vars(RecoverRead(j)) /\ WF_vars(Recover(j) \/ Cleanup(j))
                          /\ SF_vars(CleanupSelect(j))

-----------------------------------------------------------------------------
\* The types, and the columns that belong together: a claimed row names its claim
\* and its destination, an unclaimed one neither, a wiped one keeps no link.
TypeOK ==
    /\ vault \in BOOLEAN
    /\ state \in States
    /\ token \in BOOLEAN
    /\ claim \in Nat
    /\ destination \in Path \cup {None}
    /\ claims \in Nat
    /\ old \subseteq Nat
    /\ expired \in BOOLEAN
    /\ outbox \in {"none", "queued", "delivered"}
    /\ record \in BOOLEAN
    /\ files \subseteq Path
    /\ call \in [Process -> Call]
    /\ disclosed \in Nat
    /\ lost \in Nat
    /\ vanished \in BOOLEAN
    /\ crashes \in Nat
    /\ state = "claimed" => claim \in 1 .. claims /\ destination \in Path
    /\ state \in {"open", "submitted", "consumed"} => claim = 0 /\ destination = None
    /\ state \in Wiped => ~token /\ outbox = "none"

\* The calls that have the plaintext in memory and can still let it out.
Holders == {p \in Client : call[p].at \in {"revealing", "holding", "failing"}}

\* A drop gives its plaintext away once, plus once for every claim that was given
\* back though its plaintext may have got out (a release by recover_claims, a
\* write that raised after the file was in place): no interleaving of reveals,
\* consumers, revocation and cleanup adds another.
CopiesAccounted ==
    disclosed + Cardinality(Holders)
        <= lost + (IF state \in {"open", "submitted"} THEN 0 ELSE 1)

\* A consumed drop has given its plaintext away, or is about to: the only way to
\* wipe a secret nobody has received is the death of a reveal after its commit.
ConsumedWasDisclosed ==
    state = "consumed" => \/ disclosed > 0
                          \/ vanished
                          \/ \E p \in Client : At(p, "revealing")

\* Whoever submitted a secret can still be served: until it is claimed and wiped
\* there is the sealed recipient token, or the outbox file that has its link.
LinkReachable ==
    ~vault /\ state \in {"submitted", "claimed"} => token \/ record

\* A wiped drop never becomes readable again, whatever a recovery, an unclaim or
\* a finalization that began before it still does.
WipedStaysWiped ==
    [][/\ state \in Wiped => state' \in Wiped
       /\ state = "deleted" => state' = "deleted"]_vars

\* Once a drop is wiped or expired nobody gets hold of its plaintext any more;
\* those that had it before can only finish.
WipedDrains ==
    [][(state \in Wiped \/ expired) => Holders' \subseteq Holders]_vars

\* Every drop is wiped in the end: an expired one cannot hide behind a claim whose
\* consumer died.
EventuallyWiped == <>(state \in Wiped)
=============================================================================
