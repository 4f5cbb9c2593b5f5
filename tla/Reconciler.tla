------------------------------ MODULE Reconciler ------------------------------
(***************************************************************************)
(* Reconciliation of source events with one Kanban card                    *)
(* (tools/task-reconciliation/reconcile.py).  The durable state of the     *)
(* card is its last state comment; a call reads it, merges its event field *)
(* by field, decides on completion, sends the owner's acknowledgment and   *)
(* writes the state back before it moves the card.                         *)
(*                                                                         *)
(* Every command of the board is a step of its own: nothing locks the card *)
(* between them.  The board itself and the acknowledgment provider are     *)
(* external.                                                               *)
(***************************************************************************)
EXTENDS Naturals, FiniteSets, FiniteSetsExt

CONSTANTS
    Worker,
    Event,        \* observations of the task of the card
    Order,        \* [Event -> Nat], timestamp and sequence
    Says,         \* [Event -> the values of the fields it mentions]
    None,
    MaxVersion,   \* bound: requirement versions of the control store
    MaxFaults     \* bound: crashes, and exceptions of the board, the sender or the hook

Field == {"meeting", "claim", "blocker"}
Version == 1..MaxVersion

ASSUME ConstantsAssumption ==
    /\ Order \in [Event -> Nat \ {0}]
    /\ \A e \in Event : /\ Says[e] \in [DOMAIN Says[e] -> BOOLEAN]
                        /\ DOMAIN Says[e] \subseteq Field /\ "meeting" \in DOMAIN Says[e]
    /\ IsFiniteSet(Worker)
    /\ MaxVersion \in Nat \ {0}
    /\ MaxFaults \in Nat

VARIABLES
    state,     \* the last state comment
    status,    \* of the card
    receipts,  \* the versions with a receipt comment
    control,   \* [version, effective], the trusted control store
    call,      \* [Worker -> Call]
    sends,     \* [Version -> Nat], dispatched acknowledgments
    unknown,   \* [Version -> Nat], those without a confirmed receipt
    lost,      \* [Version -> Nat], those whose call failed before the receipt comment
    closed,    \* history: the card has been done
    faults

vars == <<state, status, receipts, control, call, sends, unknown, lost, closed, faults>>
board == <<state, status, receipts>>
counts == <<sends, unknown, lost, closed>>

State == [observed : SUBSET Event, fields : [Field -> BOOLEAN \cup {None}],
          fresh : [Field -> Nat], latest : Nat, accepted : BOOLEAN,
          acks : [Version -> {"none", "pending", "unknown", "emitted"}]]
NoState == [observed |-> {}, fields |-> [f \in Field |-> None], fresh |-> [f \in Field |-> 0],
            latest |-> 0, accepted |-> FALSE, acks |-> [v \in Version |-> "none"]]
Stages == {"idle", "read", "intend", "look", "send", "receipt", "save", "review", "complete", "move"}
\* The state a call builds, the status of the card it read, the version it accepts, or 0.
NoCall == [at |-> "idle", state |-> NoState, status |-> "ready", event |-> None, version |-> 0]

Init ==
    /\ state = NoState
    /\ status = "ready"
    /\ receipts = {}
    /\ control = [version |-> 1, effective |-> 0]
    /\ call = [w \in Worker |-> NoCall]
    /\ sends = [v \in Version |-> 0] /\ unknown = sends /\ lost = sends
    /\ closed = FALSE
    /\ faults = 0

-----------------------------------------------------------------------------
\* Faulty variant: the last event to arrive wins.
Newer_Arrival(order, previous) == TRUE
Newer(order, previous) == order >= previous

\* reconcile: the event is merged field by field.
Merged(prior, e) ==
    LET taken == {f \in DOMAIN Says[e] : Newer(Order[e], prior.fresh[f])} IN
    [prior EXCEPT !.observed = @ \cup {e},
                  !.fields = [f \in Field |-> IF f \in taken THEN Says[e][f] ELSE @[f]],
                  !.fresh = [f \in Field |-> IF f \in taken THEN Order[e] ELSE @[f]],
                  !.latest = Max({@, Order[e]})]

Goes(w, at) == call' = [call EXCEPT ![w].at = at]
Acknowledged(w, at, ack) ==
    call' = [call EXCEPT ![w].at = at, ![w].state.acks[call[w].version] = ack]
Ends(w) == call' = [call EXCEPT ![w] = NoCall]

\* An event that has been observed is answered without a change.
Read(w, e) ==
    /\ call[w].at = "idle"
    /\ e \notin state.observed
    /\ call' = [call EXCEPT ![w] = [at |-> "read", state |-> Merged(state, e), status |-> status,
                                    event |-> e, version |-> 0]]
    /\ UNCHANGED <<board, control, counts, faults>>

\* _acceptance_decision: the event is the latest, and the state a meeting's claim that is as
\* new as the requirement; the attestation and the boundary may still say no.
Decidable(w) ==
    LET new == call[w].state
        order == Order[call[w].event] IN
    /\ order = new.latest
    /\ new.fields["claim"] = TRUE /\ new.fields["meeting"] = TRUE
    /\ order >= control.effective

Accept(w) ==
    /\ call[w].at = "read"
    /\ Decidable(w)
    /\ call' = [call EXCEPT
            ![w].state.accepted = TRUE,
            ![w].version = control.version,
            ![w].at = CASE call[w].state.acks[control.version] = "emitted" -> "save"
                        [] call[w].state.acks[control.version] = "none" -> "intend"
                        [] OTHER -> "look"]
    /\ UNCHANGED <<board, control, counts, faults>>

Reject(w) ==
    /\ call[w].at = "read"
    /\ Goes(w, "save")
    /\ UNCHANGED <<board, control, counts, faults>>

\* _deliver_acknowledgment: the intent, in a comment of its own and in a state comment.
Intend(w) ==
    /\ call[w].at = "intend"
    /\ Acknowledged(w, "look", "pending")
    /\ state' = call'[w].state
    /\ UNCHANGED <<status, receipts, control, counts, faults>>

\* Faulty variant: receipt comments are not read.
Receipted_Unread(v) == FALSE
Receipted(v) == v \in receipts

\* Without a recipient, a channel or a sender nothing is sent.
Look(w) ==
    /\ call[w].at = "look"
    /\ IF Receipted(call[w].version) THEN Acknowledged(w, "save", "emitted")
       ELSE Goes(w, "send") \/ Goes(w, "save")
    /\ UNCHANGED <<board, control, counts, faults>>

Counted(count, v) == [count EXCEPT ![v] = @ + 1]
Send(w) ==
    LET v == call[w].version IN
    /\ call[w].at = "send"
    /\ sends' = Counted(sends, v)
    /\ \/ Goes(w, "receipt") /\ UNCHANGED unknown
       \/ Acknowledged(w, "save", "unknown") /\ unknown' = Counted(unknown, v)
    /\ UNCHANGED <<board, control, lost, closed, faults>>

Receipt(w) ==
    /\ call[w].at = "receipt"
    /\ receipts' = receipts \cup {call[w].version}
    /\ Acknowledged(w, "save", "emitted")
    /\ UNCHANGED <<state, status, control, counts, faults>>

\* Faulty variant: a card that is blocked is left to its blocker.
Closing_Unblocked(w) == call[w].version # 0 /\ call[w].status \notin {"done", "blocked"}
Closing(w) == call[w].version # 0 /\ call[w].status # "done"

\* The state comment; the status the call read says how it goes on.
Save(w) ==
    LET blocked == call[w].state.fields["blocker"] = TRUE
        moves == call[w].version = 0 /\ (blocked <=> call[w].status # "blocked") IN
    /\ call[w].at = "save"
    /\ state' = call[w].state
    /\ IF Closing(w) THEN Goes(w, "review") ELSE IF moves THEN Goes(w, "move") ELSE Ends(w)
    /\ UNCHANGED <<status, receipts, control, counts, faults>>

\* request_review, complete: the board leaves a card that is done as it is.
Review(w) ==
    /\ call[w].at = "review"
    /\ status' = IF status = "done" THEN status ELSE "review"
    /\ Goes(w, "complete")
    /\ UNCHANGED <<state, receipts, control, counts, faults>>

Complete(w) ==
    /\ call[w].at = "complete"
    /\ status' = "done" /\ closed' = TRUE
    /\ Ends(w)
    /\ UNCHANGED <<state, receipts, control, sends, unknown, lost, faults>>

\* block, unblock: the board may refuse both for a card that is done.
Move(w) ==
    /\ call[w].at = "move"
    /\ \/ status' = IF call[w].state.fields["blocker"] = TRUE THEN "blocked" ELSE "ready"
       \/ status = "done" /\ UNCHANGED status
    /\ Ends(w)
    /\ UNCHANGED <<state, receipts, control, counts, faults>>

\* The process dies, or a command of the board, the sender or the event hook raises; a
\* sender that raises may have sent.
Fail(w) ==
    LET v == call[w].version IN
    /\ call[w].at # "idle"
    /\ faults < MaxFaults
    /\ faults' = faults + 1
    /\ \/ call[w].at # "receipt" /\ UNCHANGED counts
       \/ /\ call[w].at = "send"
          /\ sends' = Counted(sends, v) /\ lost' = Counted(lost, v)
          /\ UNCHANGED <<unknown, closed>>
       \/ /\ call[w].at = "receipt"
          /\ lost' = Counted(lost, v) /\ UNCHANGED <<sends, unknown, closed>>
    /\ Ends(w)
    /\ UNCHANGED <<board, control>>

\* The owner changes the requirement; it may be effective from any event on.
Revise ==
    /\ control.version < MaxVersion
    /\ \E e \in Event : control' = [version |-> control.version + 1, effective |-> Order[e]]
    /\ UNCHANGED <<board, call, counts, faults>>

Acknowledge(w) == Intend(w) \/ Look(w) \/ Send(w) \/ Receipt(w)
Step(w) == Accept(w) \/ Reject(w) \/ Acknowledge(w) \/ Save(w) \/ Review(w) \/ Complete(w) \/ Move(w)
Next ==
    \/ \E w \in Worker, e \in Event : Read(w, e)
    \/ \E w \in Worker : Step(w) \/ Fail(w)
    \/ Revise

Spec == Init /\ [][Next]_vars

\* A call that runs goes on, and a source delivers its event again until it is observed.
FairSpec ==
    /\ Spec
    /\ \A w \in Worker : WF_vars(Step(w))
    /\ \A e \in Event : WF_vars(\E w \in Worker : Read(w, e))

-----------------------------------------------------------------------------
(* Properties *)

\* The comments, calls and counters keep their types, and a call that acknowledges or closes
\* has accepted a version that was issued.
TypeOK ==
    /\ state \in State
    /\ status \in {"ready", "blocked", "review", "done"}
    /\ receipts \subseteq Version
    /\ control \in [version : Version, effective : Nat]
    /\ \A w \in Worker :
          /\ call[w].at \in Stages /\ call[w].state \in State
          /\ call[w].version \in 0..control.version
          /\ call[w].at \in {"intend", "look", "send", "receipt", "review", "complete"} =>
                call[w].version # 0 /\ call[w].state.accepted
    /\ \A v \in Version : sends[v] \in Nat /\ unknown[v] \in Nat /\ lost[v] \in Nat

\* Whatever the order in which events arrive, and whichever calls overwrite each other, a
\* field of the card is what the newest of its observed events that mention it says
\* (reconcile, field_freshness).
FieldsAreNewest ==
    \A f \in Field :
        LET telling == {e \in state.observed : f \in DOMAIN Says[e]} IN
        IF telling = {} THEN state.fields[f] = None
        ELSE \E e \in telling : /\ \A other \in telling : Order[other] <= Order[e]
                                /\ state.fields[f] = Says[e][f]

\* The types are right; the acknowledgment of a version is sent once by each concurrent call
\* at most, and again only for an unknown outcome or a call that failed before its receipt: a
\* receipt comment ends it, even if the state that recorded it was lost
\* (_deliver_acknowledgment).
SendsAccounted ==
    /\ TypeOK
    /\ \A v \in Version : sends[v] <= Cardinality(Worker) + unknown[v] + lost[v]

\* As long as nothing fails, an acceptance in the state moves the card to done.
AcceptedCompletes == (state.accepted /\ faults = 0) ~> (closed \/ faults > 0)
===============================================================================
