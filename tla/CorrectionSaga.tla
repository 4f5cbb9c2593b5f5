---------------------------- MODULE CorrectionSaga ----------------------------
(***************************************************************************)
(* Corrections of one claim (plugins/operator-control/corrections.py and   *)
(* correction_adapters.py): journal, claim authority, native cards that    *)
(* consumed the claim and, for an approval, the two-phase withdrawal of    *)
(* the broker (broker.py).                                                 *)
(*                                                                         *)
(* A call of record goes from one durable write to the next; it may raise  *)
(* at each of them, which compensates, and die at each of them, after      *)
(* which the same record is replayed.  Calls are serial: journal and       *)
(* claims are files of one profile, read and rewritten without a lock.     *)
(***************************************************************************)
EXTENDS Naturals, FiniteSets

CONSTANTS
    Correction,     \* correction records; the id of one is the id of its replacement
    Card,           \* native work that may have consumed the claim
    Original,       \* id of the claim that is corrected
    PriorOf,        \* [Correction -> claim ids], the claim a correction cites
    Staged,         \* the claim is an approval, with the broker behind it
    None,
    MaxFaults,      \* bound: calls to adapters that raise
    MaxCrashes,     \* bound: processes that die
    MaxChanges      \* bound: moves of cards by others

ASSUME ConstantsAssumption ==
    /\ Original \notin Correction /\ None \notin Correction \cup {Original}
    /\ Correction \cap {"open", "todo", "done"} = {}
    /\ Card \cap Correction = {}
    /\ PriorOf \in [Correction -> Correction \cup {Original}]
    /\ Staged \in BOOLEAN
    /\ IsFiniteSet(Card)
    /\ {MaxFaults, MaxCrashes, MaxChanges} \subseteq Nat

VARIABLES
    journal,    \* [Correction -> Entry], both keys of a correction
    claim,      \* the id of the current claim
    superseded, \* <<old, new>> pairs the authority can show
    card,       \* "open", "todo", "done", or the correction whose block it carries
    mark,       \* the last impact marker of a correction on a card
    broker,     \* approval and preparations: [revoked, reserved, prep]
    call,       \* locals of the call of record in progress
    orphans,    \* what a call did and the journal does not know, because it died or failed:
                \* cards it blocked, and corrections whose withdrawal it made final
    faults, crashes, changes

counters == <<faults, crashes, changes>>
vars == <<journal, claim, superseded, card, mark, broker, call, orphans, counters>>

Claims == Correction \cup {Original}
NoEntry == [state |-> "none", prior |-> None, applied |-> {}, prep |-> FALSE]
NoCall == [at |-> "idle", c |-> None, entry |-> NoEntry, todo |-> {}, card |-> None]

Init ==
    /\ journal = [c \in Correction |-> NoEntry]
    /\ claim = Original
    /\ superseded = {}
    /\ card = [k \in Card |-> "open"]
    /\ mark = [c \in Correction |-> [k \in Card |-> "none"]]
    /\ broker = [revoked |-> FALSE, reserved |-> FALSE, prep |-> [c \in Correction |-> "none"]]
    /\ call = NoCall
    /\ orphans = {}
    /\ faults = 0 /\ crashes = 0 /\ changes = 0

-----------------------------------------------------------------------------
At(step) == call.at = step
GoTo(step) == call' = [call EXCEPT !.at = step]
Write(entry) == journal' = [journal EXCEPT ![call.c] = entry]
\* _write_entry: the local entry is changed and persisted.
Save(entry, step) == Write(entry) /\ call' = [call EXCEPT !.entry = entry, !.at = step]

\* _calculate_impacts: the active consumers, a blocked card being one.
Consumers == {k \in Card : card[k] # "done"}

\* verify_impact: the board may have put a card that was blocked back to "todo".
Verified(c, k) == mark[c][k] = "applied" /\ card[k] \in Correction \cup {"todo"}

\* Faulty variant: a live replacement is taken for a stale claim.
Live_Never(c) == FALSE
Live(c) == claim = c
Citable(c) == Live(c) \/ claim = PriorOf[c]

-----------------------------------------------------------------------------
(* record, forwards *)

\* Up to the try: a stale record leaves its entry as it is.
Begin(c) ==
    LET entry == IF journal[c].state = "none" THEN [NoEntry EXCEPT !.state = "prepared"]
                 ELSE journal[c]
    IN
    /\ At("idle")
    /\ journal[c].state \notin {"committed", "blocked"}
    /\ journal' = [journal EXCEPT ![c] = entry]
    /\ call' = IF ~Citable(c) THEN NoCall
               ELSE [at |-> IF Staged /\ ~entry.prep THEN "preparing"
                            ELSE IF Live(c) THEN "reading" ELSE "journaling",
                     c |-> c, entry |-> entry, todo |-> Consumers, card |-> None]
    /\ UNCHANGED <<claim, superseded, card, mark, broker, orphans, counters>>

\* prepare_approval_revocation; Denied leaves the call without a preparation.
PrepareWithdrawal ==
    /\ At("preparing")
    /\ IF broker.revoked \/ broker.reserved
       THEN GoTo("raised") /\ UNCHANGED broker
       ELSE /\ broker' = [broker EXCEPT !.prep[call.c] = "prepared"]
            /\ call' = [call EXCEPT !.entry.prep = TRUE, !.at = "prepared"]
    /\ UNCHANGED <<journal, claim, superseded, card, mark, orphans, counters>>

SavePreparation ==
    /\ At("prepared")
    /\ Save(call.entry, IF Live(call.c) THEN "reading" ELSE "journaling")
    /\ UNCHANGED <<claim, superseded, card, mark, broker, orphans, counters>>

Snapshot == claim

SaveApplying ==
    /\ At("journaling")
    /\ Save([call.entry EXCEPT !.state = "applying", !.prior = Snapshot], "applying")
    /\ UNCHANGED <<claim, superseded, card, mark, broker, orphans, counters>>

\* _apply of the authority: the claim and what it supersedes in one write.
ApplyClaim ==
    /\ At("applying")
    /\ claim' = call.c
    /\ superseded' = {p \in superseded : p[1] # claim} \cup {<<claim, call.c>>}
    /\ GoTo("reading")
    /\ UNCHANGED <<journal, card, mark, broker, orphans, counters>>

Readback ==
    /\ At("reading") /\ Live(call.c)
    /\ GoTo("impacting")
    /\ UNCHANGED <<journal, claim, superseded, card, mark, broker, orphans, counters>>

\* An impact of an earlier attempt that can be verified is not repeated.
SkipImpact(k) ==
    /\ At("impacting") /\ k \in call.todo
    /\ k \in call.entry.applied /\ Verified(call.c, k)
    /\ call' = [call EXCEPT !.todo = @ \ {k}]
    /\ UNCHANGED <<journal, claim, superseded, card, mark, broker, orphans, counters>>

\* apply_impact: the marker comment, then the block.
CommentImpact(k) ==
    /\ At("impacting") /\ k \in call.todo
    /\ ~(k \in call.entry.applied /\ Verified(call.c, k))
    /\ mark' = [mark EXCEPT ![call.c][k] = "applied"]
    /\ call' = [call EXCEPT !.at = "blocking", !.card = k]
    /\ UNCHANGED <<journal, claim, superseded, card, broker, orphans, counters>>

BlockCard ==
    /\ At("blocking")
    /\ card[call.card] # "done"
    /\ card' = [card EXCEPT ![call.card] = call.c]
    /\ call' = [call EXCEPT !.at = "blocked", !.entry.applied = call.entry.applied \cup {call.card}]
    /\ UNCHANGED <<journal, claim, superseded, mark, broker, orphans, counters>>

SaveImpact ==
    LET k == call.card
        entry == [call.entry EXCEPT !.state = "impacting"]
    IN
    /\ At("blocked")
    /\ Write(entry)
    /\ call' = [call EXCEPT !.entry = entry, !.card = None, !.todo = @ \ {k},
                            !.at = IF Verified(call.c, k) THEN "impacting" ELSE "raised"]
    /\ UNCHANGED <<claim, superseded, card, mark, broker, orphans, counters>>

Superseded(c) == <<PriorOf[c], c>> \in superseded

\* Faulty variant: the withdrawal does not wait for the impacts.
Impacted_Some == TRUE
Impacted == call.todo = {}

\* commit_approval_revocation
Withdrawable == broker.prep[call.c] = "prepared" /\ ~broker.reserved /\ ~broker.revoked
Withdraw == broker' = [broker EXCEPT !.prep[call.c] = "committed", !.revoked = TRUE]

\* The withdrawal of an approval, or nothing to withdraw.
CommitWithdrawal ==
    /\ At("impacting") /\ Impacted
    /\ IF ~Superseded(call.c) THEN GoTo("raised") /\ UNCHANGED broker
       ELSE IF ~Staged THEN GoTo("withdrawn") /\ UNCHANGED broker
       ELSE IF Withdrawable THEN Withdraw /\ GoTo("withdrawn")
       ELSE GoTo("raised") /\ UNCHANGED broker
    /\ UNCHANGED <<journal, claim, superseded, card, mark, orphans, counters>>

SaveCommitted ==
    /\ At("withdrawn")
    /\ Write([call.entry EXCEPT !.state = "committed"])
    /\ call' = NoCall
    /\ UNCHANGED <<claim, superseded, card, mark, broker, orphans, counters>>

-----------------------------------------------------------------------------
(* record, backwards *)

Forwards == {"preparing", "prepared", "journaling", "applying", "reading", "impacting",
             "blocking", "blocked"}

\* An adapter raises before it has done anything.
Raise ==
    /\ call.at \in Forwards /\ faults < MaxFaults
    /\ GoTo("raised")
    /\ faults' = faults + 1
    /\ UNCHANGED <<journal, claim, superseded, card, mark, broker, orphans, crashes, changes>>

\* The command blocks the card and then fails: the impact is not among the applied ones.
BlockRaises ==
    /\ At("blocking") /\ faults < MaxFaults
    /\ card[call.card] # "done"
    /\ card' = [card EXCEPT ![call.card] = call.c]
    /\ orphans' = orphans \cup {call.card}
    /\ GoTo("raised")
    /\ faults' = faults + 1
    /\ UNCHANGED <<journal, claim, superseded, mark, broker, crashes, changes>>

\* The card was closed before it could be blocked.
BlockRefused ==
    /\ At("blocking") /\ card[call.card] = "done"
    /\ GoTo("raised")
    /\ UNCHANGED <<journal, claim, superseded, card, mark, broker, orphans, counters>>

\* The broker commits and raises when it reads its answer: withdrawal_committed is not set.
WithdrawalUnanswered ==
    /\ At("impacting") /\ Impacted /\ faults < MaxFaults
    /\ Staged /\ Superseded(call.c) /\ Withdrawable
    /\ Withdraw
    /\ orphans' = orphans \cup {call.c}
    /\ GoTo("raised")
    /\ faults' = faults + 1
    /\ UNCHANGED <<journal, claim, superseded, card, mark, crashes, changes>>

\* Faulty variant: what raises after the withdrawal is compensated like the rest.
NoWayBack_Compensates == "raised"
NoWayBack == "giving up"

\* The readback of the broker fails after the withdrawal.
WithdrawalUnread ==
    /\ At("withdrawn") /\ Staged /\ faults < MaxFaults
    /\ GoTo(NoWayBack)
    /\ faults' = faults + 1
    /\ UNCHANGED <<journal, claim, superseded, card, mark, broker, orphans, crashes, changes>>

\* approval_status
Withdrawn == broker.revoked /\ \E c \in Correction : broker.prep[c] = "committed"

\* cancel_approval_revocation, unless the approval is revoked.
CancelWithdrawal ==
    /\ At("raised")
    /\ IF Staged /\ call.entry.prep /\ ~Withdrawn
       THEN broker' = [broker EXCEPT !.prep[call.c] = "cancelled"]
       ELSE UNCHANGED broker
    /\ call' = [call EXCEPT !.at = "compensating", !.todo = call.entry.applied]
    /\ UNCHANGED <<journal, claim, superseded, card, mark, orphans, counters>>

\* rollback_impact: unblock, then the marker; a card without marker is left alone.
RollbackImpact(k) ==
    /\ At("compensating") /\ k \in call.todo
    /\ call' = [call EXCEPT !.todo = @ \ {k}]
    /\ card' = [card EXCEPT ![k] = IF @ = "done" THEN @ ELSE "open"]
    /\ mark' = [mark EXCEPT ![call.c][k] = "rolled_back"]
    /\ UNCHANGED <<journal, claim, superseded, broker, orphans, counters>>

Restorable == call.entry.prior # None /\ claim = call.c

RestoreClaim ==
    /\ At("compensating") /\ call.todo = {}
    /\ IF Restorable
       THEN /\ claim' = call.entry.prior
            /\ superseded' = {p \in superseded : p[1] # call.entry.prior}
       ELSE UNCHANGED <<claim, superseded>>
    /\ GoTo("restored")
    /\ UNCHANGED <<journal, card, mark, broker, orphans, counters>>

SaveRolledBack ==
    /\ At("restored")
    /\ Write([call.entry EXCEPT !.state = "rolled_back", !.applied = {}])
    /\ call' = NoCall
    /\ UNCHANGED <<claim, superseded, card, mark, broker, orphans, counters>>

CompensationRaises ==
    /\ call.at \in {"compensating", "restored"} /\ faults < MaxFaults
    /\ GoTo("giving up")
    /\ faults' = faults + 1
    /\ UNCHANGED <<journal, claim, superseded, card, mark, broker, orphans, crashes, changes>>

SaveBlocked ==
    /\ At("giving up")
    /\ Write([call.entry EXCEPT !.state = "blocked"])
    /\ call' = NoCall
    /\ UNCHANGED <<claim, superseded, card, mark, broker, orphans, counters>>

Crash ==
    /\ ~At("idle") /\ crashes < MaxCrashes
    /\ call' = NoCall
    /\ crashes' = crashes + 1
    /\ orphans' = orphans \cup (call.entry.applied \ journal[call.c].applied)
                          \cup {c \in {call.c} : broker.prep[c] = "committed"}
    /\ UNCHANGED <<journal, claim, superseded, card, mark, broker, faults, changes>>

-----------------------------------------------------------------------------
(* Others: the owner of a card, and a call of the broker under the approval *)

MoveCard(k) ==
    /\ changes < MaxChanges
    /\ card[k] # "done"
    /\ \E next \in IF card[k] = "open" THEN {"done"} ELSE {"open", "todo"} \ {card[k]} :
            card' = [card EXCEPT ![k] = next]
    /\ changes' = changes + 1
    /\ UNCHANGED <<journal, claim, superseded, mark, broker, call, orphans, faults, crashes>>

ReserveOperation ==
    /\ Staged /\ ~broker.revoked /\ ~broker.reserved
    /\ broker' = [broker EXCEPT !.reserved = TRUE]
    /\ UNCHANGED <<journal, claim, superseded, card, mark, call, orphans, counters>>

-----------------------------------------------------------------------------
Forward ==
    \/ PrepareWithdrawal \/ SavePreparation \/ SaveApplying \/ ApplyClaim \/ Readback
    \/ \E k \in Card : SkipImpact(k) \/ CommentImpact(k)
    \/ BlockCard \/ BlockRefused \/ SaveImpact \/ CommitWithdrawal \/ SaveCommitted
Backward ==
    \/ CancelWithdrawal \/ \E k \in Card : RollbackImpact(k)
    \/ RestoreClaim \/ SaveRolledBack \/ SaveBlocked
Fault == Raise \/ BlockRaises \/ WithdrawalUnanswered \/ WithdrawalUnread \/ CompensationRaises

Next ==
    \/ \E c \in Correction : Begin(c)
    \/ Forward \/ Backward \/ Fault \/ Crash
    \/ \E k \in Card : MoveCard(k)
    \/ ReserveOperation

Spec == Init /\ [][Next]_vars

\* A call that has begun goes on, and every record is replayed again and again.
FairSpec == Spec /\ WF_vars(Forward \/ Backward) /\ \A c \in Correction : SF_vars(Begin(c))

-----------------------------------------------------------------------------
(* Properties *)

States == {"none", "prepared", "applying", "impacting", "committed", "rolled_back", "blocked"}
Entry == [state : States, prior : Claims \cup {None}, applied : SUBSET Card, prep : BOOLEAN]

\* Journal, authority, cards and broker keep their shape; what is applied can be restored.
TypeOK ==
    /\ journal \in [Correction -> Entry]
    /\ \A c \in Correction : journal[c].state \in {"applying", "impacting"} => journal[c].prior # None
    /\ claim \in Claims
    /\ superseded \subseteq Claims \X Correction
    /\ card \in [Card -> {"open", "todo", "done"} \cup Correction]
    /\ mark \in [Correction -> [Card -> {"none", "applied", "rolled_back"}]]
    /\ broker \in [revoked : BOOLEAN, reserved : BOOLEAN,
                   prep : [Correction -> {"none", "prepared", "committed", "cancelled"}]]
    /\ call \in [at : Forwards \cup {"idle", "withdrawn", "raised", "compensating", "restored", "giving up"},
                 c : Correction \cup {None}, entry : Entry, todo : SUBSET Card,
                 card : Card \cup {None}]
    /\ orphans \subseteq Card \cup Correction

Committed(c) == journal[c].state = "committed"

\* A claim is in force, or a correction of it is.
InForce(c) == claim = c \/ \E d \in Correction : PriorOf[d] = c /\ Superseded(d)

\* A committed correction reached everything it was to reach: its claim is in force until it
\* is corrected in turn, every consumer that is not done carries its marker, and the approval
\* is withdrawn without an operation under it (record, commit_approval_revocation).
CommittedIsComplete ==
    \A c \in Correction : Committed(c) =>
        /\ InForce(c)
        /\ \A k \in Card : card[k] = "done" \/ mark[c][k] = "applied"
        /\ Staged => broker.prep[c] = "committed" /\ ~broker.reserved

\* The types are right, and a correction that was rolled back has left nothing its journal
\* knows of: its claim is not in force, no card carries its block but one that its call did
\* not live to record, and its withdrawal is not final, unless its call died or lost the
\* answer of the broker between the withdrawal and the journal (record, _compensate).
RolledBackIsClean ==
    /\ TypeOK
    /\ \A c \in Correction : journal[c].state = "rolled_back" /\ call.c # c =>
          /\ claim # c
          /\ \A k \in Card \ orphans : card[k] # c
          /\ broker.prep[c] = "committed" => c \in orphans

\* A final withdrawal is never rolled back: tests/test_correction_persistence.py:295 says "never
\* rolls back claim away from revocation", record raises "irreversible broker withdrawal
\* committed; reconciliation required".  It does not hold: a replay does not know it was final.
WithdrawalStays ==
    \A c \in Correction : broker.prep[c] = "committed" => journal[c].state # "rolled_back"

\* A claim an unfinished correction has put in force is settled, if the record is replayed:
\* committed, blocked for an operator or taken back, whatever raises or dies on the way.
\* Taken back it may be after its withdrawal (WithdrawalStays).
HalfDone(c) == claim = c /\ journal[c].state \notin {"committed", "blocked"}
Settles == \A c \in Correction : HalfDone(c) ~> ~HalfDone(c)
===============================================================================
