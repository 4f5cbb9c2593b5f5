-------------------------- MODULE CorrectionSagaProofs --------------------------
(***************************************************************************)
(* Proofs about CorrectionSaga, for every set of cards, every number of    *)
(* corrections and failures, and corrections of corrections.               *)
(***************************************************************************)
EXTENDS CorrectionSaga, TLAPS

Steps == Forwards \cup {"withdrawn", "raised", "compensating", "restored", "giving up"}
Ran == {"applying", "impacting", "committed", "blocked"}
Preps == {"none", "prepared", "committed", "cancelled"}
Call == [at : Steps, c : Correction, entry : Entry, todo : SUBSET Card, card : Card \cup {None}]

(* Types; a call in progress is that of a record.                            *)
Shape ==
    /\ journal \in [Correction -> Entry]
    /\ claim \in Claims
    /\ superseded \subseteq Claims \X Correction
    /\ card \in [Card -> {"open", "todo", "done"} \cup Correction]
    /\ mark \in [Correction -> [Card -> {"none", "applied", "rolled_back"}]]
    /\ broker \in [revoked : BOOLEAN, reserved : BOOLEAN, prep : [Correction -> Preps]]
    /\ call \in Call \cup {NoCall}
    /\ orphans \subseteq Card \cup Correction

(* What supersedes what is one chain: it ends at the claim in force, and     *)
(* every claim on it but that one has one correction.                        *)
Chain ==
    /\ \A p \in superseded : p[1] = PriorOf[p[2]]
    /\ \A d \in Correction : claim = d => Superseded(d)
    /\ \A d \in Correction : Superseded(d) =>
          /\ PriorOf[d] # claim
          /\ PriorOf[d] \in Correction => Superseded(PriorOf[d])
          /\ InForce(d)
    /\ \A d, e \in Correction : Superseded(d) /\ Superseded(e) /\ PriorOf[d] = PriorOf[e] => d = e

(* The journal knows how to take back what is on the chain.                  *)
Journaled ==
    \A d \in Correction :
        /\ Superseded(d) => journal[d].state \in Ran /\ journal[d].prior = PriorOf[d]
        /\ journal[d].state \in {"applying", "impacting"} => journal[d].prior # None
        /\ journal[d].state \in {"none", "rolled_back"} => journal[d].applied = {}
        /\ journal[d].state = "none" => journal[d] = NoEntry

(* A withdrawal is final, and what is committed has made it.                 *)
Final ==
    /\ broker.revoked => ~broker.reserved
    /\ \A d \in Correction :
          /\ broker.prep[d] = "committed" => broker.revoked
          /\ Committed(d) =>
                /\ Superseded(d)
                /\ \A k \in Card : card[k] = "done" \/ mark[d][k] = "applied"
                /\ Staged => broker.prep[d] = "committed"

(* A card that carries the block of a correction is known to its journal, to *)
(* its call, or as an orphan.                                                *)
Known ==
    \A d \in Correction, k \in Card \ orphans :
        card[k] = d => k \in IF call.c = d THEN call.entry.applied ELSE journal[d].applied

(* Where a call is in its record.                                            *)
Marked(k) == card[k] = "done" \/ mark[call.c][k] = "applied"
Recording ==
    LET c == call.c IN
    call.at # "idle" =>
        /\ journal[c].state \notin {"none", "committed", "blocked"}
        /\ call.entry.prior = journal[c].prior
        /\ call.at \in {"preparing", "prepared"} =>
              /\ claim \in {c, PriorOf[c]}
              /\ call.entry.state = journal[c].state /\ call.entry.applied = journal[c].applied
        /\ call.at \in {"journaling", "applying"} => claim = PriorOf[c] /\ claim # c
        /\ call.at = "applying" => journal[c].state = "applying" /\ journal[c].prior = PriorOf[c]
        /\ call.at \in {"reading", "impacting", "blocking", "blocked", "withdrawn"} => claim = c
        /\ call.at \in {"raised", "compensating"} => claim \in {c, PriorOf[c]}
        /\ call.at \in {"blocking", "blocked"} =>
              call.card \in Card /\ mark[c][call.card] = "applied"
        /\ call.at \in Forwards \cup {"withdrawn"} => \A k \in Card \ call.todo : Marked(k)
        /\ call.at = "withdrawn" =>
              call.todo = {} /\ (Staged => broker.prep[c] = "committed")
        /\ call.at = "compensating" =>
              \A k \in Card \ orphans : card[k] = c => k \in call.todo
        /\ call.at = "restored" =>
              ~Superseded(c) /\ \A k \in Card \ orphans : card[k] # c

(* The inductive invariant.                                                  *)
Correcting == Shape /\ Chain /\ Journaled /\ Final /\ Known /\ Recording

-----------------------------------------------------------------------------
(* A call in progress, as opposed to none.                                   *)
LEMMA InProgress ==
  ASSUME Shape
  PROVE  /\ call.at # "idle" => call \in Call
         /\ call.at = "idle" => call = NoCall
         /\ NoCall.at = "idle" /\ NoCall.c = None /\ NoCall.c \notin Correction
  <1>1. NoCall.at = "idle" /\ NoCall.c = None /\ NoCall.c \notin Correction
    BY ConstantsAssumption DEF NoCall
  <1>2. \A x \in Call : x.at # "idle"
    BY DEF Call, Steps, Forwards
  <1>3. QED
    BY <1>1, <1>2 DEF Shape

(* A call that goes on with its record.                                      *)
Goes(at, entry, todo, k) ==
    /\ call' \in Call
    /\ call'.at = at /\ call'.c = call.c /\ call'.entry = entry
    /\ call'.todo = todo /\ call'.card = k

(* The invariant holds at first.                                             *)
LEMMA InitCorrecting == Init => Correcting
  <1> SUFFICES ASSUME Init PROVE Correcting
    OBVIOUS
  <1> USE ConstantsAssumption DEF Init
  <1>1. NoEntry \in Entry /\ NoEntry.state = "none" /\ NoEntry.applied = {}
    BY DEF NoEntry, Entry, States
  <1>2. Shape
    <2>1. broker \in [revoked : BOOLEAN, reserved : BOOLEAN, prep : [Correction -> Preps]]
      BY DEF Preps
    <2>2. QED
      BY <1>1, <2>1 DEF Shape, Claims
  <1>3. \A d \in Correction : ~Superseded(d) /\ claim # d
    BY DEF Superseded
  <1>4. Chain
    BY <1>3 DEF Chain
  <1>5. Journaled
    BY <1>1, <1>3 DEF Journaled
  <1>6. Final
    BY <1>1 DEF Final, Committed
  <1>7. Known
    BY DEF Known
  <1>8. Recording
    BY DEF Recording, NoCall
  <1>9. QED
    BY <1>2, <1>4, <1>5, <1>6, <1>7, <1>8 DEF Correcting

(* The chain is a matter of the authority.                                   *)
LEMMA ChainFrame == ASSUME Chain, UNCHANGED <<claim, superseded>> PROVE Chain'
  BY DEF Chain, Superseded, InForce

(* Nothing but the place of a call changes.                                  *)
LEMMA PlaceFrame ==
  ASSUME Correcting, UNCHANGED <<journal, claim, superseded, card, mark, broker, orphans>>,
         NEW at \in Steps, call.at # "idle", GoTo(at)
  PROVE  /\ Goes(at, call.entry, call.todo, call.card)
         /\ Shape' /\ Chain' /\ Journaled' /\ Final' /\ Known'
  <1>1. call \in Call /\ call' = [call EXCEPT !.at = at]
    BY InProgress DEF Correcting, GoTo
  <1>2. Goes(at, call.entry, call.todo, call.card)
    BY <1>1 DEF Goes, Call
  <1>3. Shape'
    BY <1>2 DEF Correcting, Shape, Goes
  <1>4. Chain'
    BY ChainFrame DEF Correcting
  <1>5. Journaled'
    BY DEF Correcting, Journaled, Superseded
  <1>6. Final'
    BY DEF Correcting, Final, Superseded, Committed
  <1>7. Known'
    BY <1>2 DEF Correcting, Known, Goes
  <1>8. QED
    BY <1>2, <1>3, <1>4, <1>5, <1>6, <1>7

(* The replacement is read back.                                             *)
LEMMA ReadbackKeeps == ASSUME Correcting, Readback PROVE Correcting'
  <1>1. /\ Goes("impacting", call.entry, call.todo, call.card)
        /\ Shape' /\ Chain' /\ Journaled' /\ Final' /\ Known'
    BY PlaceFrame DEF Readback, At, Steps, Forwards
  <1>2. Recording'
    BY <1>1 DEF Correcting, Recording, Readback, At, Goes, Marked, Forwards
  <1>3. QED
    BY <1>1, <1>2 DEF Correcting

(* An impact that is found in place is not repeated.                         *)
LEMMA SkipKeeps == ASSUME Correcting, NEW k \in Card, SkipImpact(k) PROVE Correcting'
  <1>1. call \in Call /\ call.at = "impacting"
    BY InProgress DEF Correcting, SkipImpact, At
  <1>2. Goes("impacting", call.entry, call.todo \ {k}, call.card)
    BY <1>1 DEF SkipImpact, Goes, Call
  <1>3. Shape' /\ Chain'
    BY <1>2, ChainFrame DEF Correcting, Shape, SkipImpact, Goes
  <1>4. Journaled' /\ Final' /\ Known'
    BY <1>2 DEF Correcting, Journaled, Final, Known, Superseded, Committed, SkipImpact, Goes
  <1>5. Recording'
    BY <1>1, <1>2 DEF Correcting, Recording, SkipImpact, Verified, Goes, Marked, Forwards
  <1>6. QED
    BY <1>3, <1>4, <1>5 DEF Correcting

(* A card is in no correction's hands that is not blocked by one.            *)
LEMMA CardStatuses == \A d \in Correction : d \notin {"open", "todo", "done"}
  BY ConstantsAssumption

(* A call begins: it takes over what the journal has of the record.          *)
LEMMA BeginKeeps == ASSUME Correcting, NEW c \in Correction, Begin(c) PROVE Correcting'
  <1> DEFINE entry == IF journal[c].state = "none" THEN [NoEntry EXCEPT !.state = "prepared"]
                      ELSE journal[c]
             at == IF Staged /\ ~entry.prep THEN "preparing"
                   ELSE IF Live(c) THEN "reading" ELSE "journaling"
  <1>1. /\ call = NoCall /\ journal' = [journal EXCEPT ![c] = entry]
        /\ journal[c].state \notin {"committed", "blocked"}
        /\ UNCHANGED <<claim, superseded, card, mark, broker, orphans>>
        /\ \/ call' = NoCall
           \/ /\ Citable(c)
              /\ call' = [at |-> at, c |-> c, entry |-> entry, todo |-> Consumers, card |-> None]
    BY InProgress DEF Begin, At, Correcting
  <1>2. at \in {"preparing", "reading", "journaling"} /\ (at = "reading" => Live(c))
        /\ (at = "journaling" => ~Live(c))
    OBVIOUS
  <1>3. journal \in [Correction -> Entry] /\ journal[c] \in Entry
    BY DEF Correcting, Shape
  <1>4. /\ entry \in Entry /\ entry.state \notin {"none", "committed", "blocked"}
        /\ entry.applied = journal[c].applied /\ entry.prior = journal[c].prior
        /\ journal[c].state # "none" => entry = journal[c]
        /\ journal[c].state = "none" => entry.state = "prepared" /\ entry.applied = {}
    <2>1. CASE journal[c].state = "none"
      <3>1. journal[c] = NoEntry
        BY <2>1 DEF Correcting, Journaled
      <3>2. entry = [NoEntry EXCEPT !.state = "prepared"]
        BY <2>1
      <3>3. entry \in Entry /\ entry.state = "prepared" /\ entry.applied = {} /\ entry.prior = None
        BY <3>2 DEF NoEntry, Entry, States
      <3>4. NoEntry.applied = {} /\ NoEntry.prior = None
        BY DEF NoEntry
      <3>5. QED
        BY <2>1, <3>1, <3>3, <3>4
    <2>2. CASE journal[c].state # "none"
      BY <1>1, <1>3, <2>2
    <2>3. QED
      BY <2>1, <2>2
  <1> HIDE DEF entry, at
  <1>5. /\ journal' \in [Correction -> Entry] /\ journal'[c] = entry
        /\ \A d \in Correction \ {c} : journal'[d] = journal[d]
    BY <1>1, <1>3, <1>4
  <1>6. \/ call' = NoCall
        \/ /\ call' \in Call /\ call'.at = at /\ call'.c = c /\ call'.entry = entry
           /\ call'.todo = Consumers /\ Citable(c)
    <2>1. Consumers \in SUBSET Card /\ at \in Steps
      BY <1>2 DEF Consumers, Steps, Forwards
    <2>2. [at |-> at, c |-> c, entry |-> entry, todo |-> Consumers, card |-> None] \in Call
      BY <1>4, <2>1 DEF Call
    <2>3. QED
      BY <1>1, <2>2
  <1>7. Shape'
    BY <1>1, <1>5, <1>6 DEF Correcting, Shape
  <1>8. Chain'
    BY <1>1, ChainFrame DEF Correcting
  <1>9. Journaled'
    BY <1>1, <1>4, <1>5 DEF Correcting, Journaled, Superseded, Ran
  <1>10. Final'
    BY <1>1, <1>4, <1>5 DEF Correcting, Final, Superseded, Committed
  <1>11. Known'
    <2>1. NoCall.c \notin Correction
      BY InProgress DEF Correcting
    <2>2. \A d \in Correction, k \in Card \ orphans : card[k] = d => k \in journal[d].applied
      BY <1>1, <2>1 DEF Correcting, Known
    <2>3. \A d \in Correction : journal'[d].applied = journal[d].applied
      BY <1>4, <1>5
    <2>4. QED
      BY <1>1, <1>4, <1>5, <1>6, <2>1, <2>2, <2>3 DEF Known
  <1>12. Recording'
    <2>1. CASE call' = NoCall
      BY <2>1, InProgress DEF Recording, NoCall
    <2>2. CASE /\ call' \in Call /\ call'.at = at /\ call'.c = c /\ call'.entry = entry
               /\ call'.todo = Consumers /\ Citable(c)
      <3>1. claim \in {c, PriorOf[c]}
        BY <2>2 DEF Citable, Live
      <3>2. \A k \in Card \ Consumers : card[k] = "done"
        BY DEF Consumers
      <3>3. QED
        BY <1>1, <1>2, <1>4, <1>5, <2>2, <3>1, <3>2 DEF Recording, Marked, Live
    <2>3. QED
      BY <1>6, <2>1, <2>2
  <1>13. QED
    BY <1>7, <1>8, <1>9, <1>10, <1>11, <1>12 DEF Correcting

(* What a call of record finds where it stands.                              *)
LEMMA Running ==
  ASSUME Correcting, call.at # "idle"
  PROVE  /\ call \in Call /\ call.c \in Correction /\ call.entry \in Entry
         /\ journal \in [Correction -> Entry] /\ call.todo \subseteq Card
         /\ journal[call.c].state \notin {"none", "committed", "blocked"}
         /\ call.entry.prior = journal[call.c].prior
  BY InProgress DEF Correcting, Shape, Call, Recording

(* The call writes its entry and goes on, or ends.                           *)
LEMMA WriteKeeps ==
  ASSUME Correcting, call.at # "idle", NEW entry \in Entry, Write(entry),
         UNCHANGED <<claim, superseded, card, mark, broker, orphans>>,
         entry.prior \in {journal[call.c].prior, PriorOf[call.c]},
         entry.state # "none", Superseded(call.c) => entry.state \in Ran,
         entry.state \in {"applying", "impacting"} => entry.prior # None,
         entry.state = "rolled_back" => entry.applied = {},
         entry.state = "committed" =>
             /\ Superseded(call.c) /\ \A k \in Card : Marked(k)
             /\ Staged => broker.prep[call.c] = "committed",
         \A k \in Card \ orphans : card[k] = call.c => k \in entry.applied,
         \/ call' = NoCall
         \/ call' \in Call /\ call'.c = call.c /\ call'.entry = entry
  PROVE  Shape' /\ Chain' /\ Journaled' /\ Final' /\ Known'
         /\ journal'[call.c] = entry /\ (call' = NoCall => Recording')
  <1>0. PICK c \in Correction : c = call.c
    BY Running
  <1>1. c \in Correction /\ journal \in [Correction -> Entry]
    BY Running
  <1>2. /\ journal' \in [Correction -> Entry] /\ journal'[c] = entry
        /\ \A d \in Correction \ {c} : journal'[d] = journal[d]
    BY <1>0, <1>1 DEF Write
  <1>3. Shape'
    BY <1>2 DEF Correcting, Shape
  <1>4. Chain'
    BY ChainFrame DEF Correcting
  <1>5. Journaled'
    <2>1. ASSUME NEW d \in Correction \ {c}
          PROVE  /\ Superseded(d)' => journal'[d].state \in Ran /\ journal'[d].prior = PriorOf[d]
                 /\ journal'[d].state \in {"applying", "impacting"} => journal'[d].prior # None
                 /\ journal'[d].state \in {"none", "rolled_back"} => journal'[d].applied = {}
                 /\ journal'[d].state = "none" => journal'[d] = NoEntry
      BY <1>2 DEF Correcting, Journaled, Superseded
    <2>2. Superseded(c) => entry.prior = PriorOf[c]
      BY <1>0, <1>1 DEF Correcting, Journaled
    <2>3. Superseded(c)' <=> Superseded(c)
      BY DEF Superseded
    <2>4. /\ Superseded(c) => journal'[c].state \in Ran /\ journal'[c].prior = PriorOf[c]
          /\ journal'[c].state \in {"applying", "impacting"} => journal'[c].prior # None
          /\ journal'[c].state \in {"none", "rolled_back"} => journal'[c].applied = {}
          /\ journal'[c].state # "none"
      BY <1>0, <1>2, <2>2
    <2>5. QED
      BY <2>1, <2>3, <2>4 DEF Journaled
  <1>6. Final'
    BY <1>0, <1>2 DEF Correcting, Final, Superseded, Committed, Marked
  <1>7. Known'
    <2>1. ASSUME NEW d \in Correction, NEW k \in Card \ orphans', card'[k] = d
          PROVE  k \in IF call'.c = d THEN call'.entry.applied ELSE journal'[d].applied
      <3>1. d = c => k \in entry.applied
        BY <1>0, <2>1
      <3>2. d # c => k \in journal[d].applied
        BY <1>0, <2>1 DEF Correcting, Known
      <3>3. call' = NoCall => call'.c # d
        BY InProgress DEF Correcting
      <3>4. QED
        BY <1>0, <1>2, <3>1, <3>2, <3>3
    <2>2. QED
      BY <2>1 DEF Known
  <1>8. call' = NoCall => Recording'
    BY InProgress DEF Correcting, Recording, NoCall
  <1>9. QED
    BY <1>0, <1>2, <1>3, <1>4, <1>5, <1>6, <1>7, <1>8

(* A claim that is in force has a prior that can be restored.                *)
LEMMA Prior ==
  ASSUME Correcting, NEW d \in Correction
  PROVE  /\ PriorOf[d] \in Claims /\ PriorOf[d] # None
         /\ claim = d => Superseded(d)
         /\ Superseded(d) => journal[d].state \in Ran /\ journal[d].prior = PriorOf[d]
  BY ConstantsAssumption DEF Correcting, Chain, Journaled, Claims

(* The preparation of a withdrawal is written to the journal.                *)
LEMMA SavePreparationKeeps == ASSUME Correcting, SavePreparation PROVE Correcting'
  <1>1. PICK c \in Correction : c = call.c
    BY Running DEF SavePreparation, At
  <1>2. /\ call.at = "prepared" /\ Write(call.entry)
        /\ call' = [call EXCEPT !.entry = call.entry, !.at = IF Live(c) THEN "reading" ELSE "journaling"]
        /\ UNCHANGED <<claim, superseded, card, mark, broker, orphans>>
    BY <1>1 DEF SavePreparation, At, Save
  <1>3. call \in Call /\ call.entry \in Entry /\ journal[c].state \notin {"none", "committed", "blocked"}
        /\ call.entry.prior = journal[c].prior
    BY <1>1, <1>2, Running
  <1>4. /\ claim \in {c, PriorOf[c]}
        /\ call.entry.state = journal[c].state /\ call.entry.applied = journal[c].applied
        /\ \A k \in Card \ call.todo : Marked(k)
    BY <1>1, <1>2 DEF Correcting, Recording, Forwards
  <1>5. Goes(IF Live(c) THEN "reading" ELSE "journaling", call.entry, call.todo, call.card)
    BY <1>2, <1>3 DEF Goes, Call, Steps, Forwards
  <1>6. \A k \in Card \ orphans : card[k] = c => k \in call.entry.applied
    BY <1>1 DEF Correcting, Known
  <1>7. /\ call.entry.state \in {"applying", "impacting"} => call.entry.prior # None
        /\ call.entry.state = "rolled_back" => call.entry.applied = {}
        /\ Superseded(c) => call.entry.state \in Ran
    BY <1>1, <1>3, <1>4 DEF Correcting, Journaled
  <1>8. Shape' /\ Chain' /\ Journaled' /\ Final' /\ Known' /\ journal'[c] = call.entry
    BY <1>1, <1>2, <1>3, <1>4, <1>5, <1>6, <1>7, WriteKeeps DEF Goes
  <1>9. Recording'
    BY <1>1, <1>2, <1>3, <1>4, <1>5, <1>8 DEF Recording, Goes, Live, Marked
  <1>10. QED
    BY <1>8, <1>9 DEF Correcting

(* The intent to apply is written with the claim it replaces.                *)
LEMMA SaveApplyingKeeps == ASSUME Correcting, SaveApplying PROVE Correcting'
  <1>1. PICK c \in Correction : c = call.c
    BY Running DEF SaveApplying, At
  <1> DEFINE entry == [call.entry EXCEPT !.state = "applying", !.prior = claim]
  <1>2. /\ call.at = "journaling" /\ Write(entry)
        /\ call' = [call EXCEPT !.entry = entry, !.at = "applying"]
        /\ UNCHANGED <<claim, superseded, card, mark, broker, orphans>>
    BY DEF SaveApplying, At, Save, Snapshot
  <1>3. call \in Call /\ call.entry \in Entry
    BY <1>2, Running
  <1>4. claim = PriorOf[c] /\ claim # c /\ \A k \in Card \ call.todo : Marked(k)
    BY <1>1, <1>2 DEF Correcting, Recording, Forwards
  <1>5. /\ entry \in Entry /\ entry.state = "applying" /\ entry.prior = PriorOf[c]
        /\ entry.applied = call.entry.applied
    BY <1>3, <1>4, Prior DEF Entry, States
  <1> HIDE DEF entry
  <1>6. Goes("applying", entry, call.todo, call.card)
    BY <1>2, <1>3, <1>5 DEF Goes, Call, Steps, Forwards
  <1>7. \A k \in Card \ orphans : card[k] = c => k \in entry.applied
    BY <1>1, <1>5 DEF Correcting, Known
  <1>8. Shape' /\ Chain' /\ Journaled' /\ Final' /\ Known' /\ journal'[c] = entry
    BY <1>1, <1>2, <1>5, <1>6, <1>7, Prior, WriteKeeps DEF Goes, Ran
  <1>9. Recording'
    BY <1>1, <1>2, <1>4, <1>5, <1>6, <1>8 DEF Recording, Goes, Marked
  <1>10. QED
    BY <1>8, <1>9 DEF Correcting

(* An impact is written to the journal, and read back.                       *)
LEMMA SaveImpactKeeps == ASSUME Correcting, SaveImpact PROVE Correcting'
  <1>1. PICK c \in Correction : c = call.c
    BY Running DEF SaveImpact, At
  <1> DEFINE entry == [call.entry EXCEPT !.state = "impacting"]
  <1>2. /\ call.at = "blocked" /\ Write(entry)
        /\ \E at \in {"impacting", "raised"} :
              call' = [call EXCEPT !.entry = entry, !.card = None, !.todo = call.todo \ {call.card},
                                   !.at = at]
        /\ UNCHANGED <<claim, superseded, card, mark, broker, orphans>>
    BY DEF SaveImpact, At
  <1>3. call \in Call /\ call.entry \in Entry /\ call.entry.prior = journal[c].prior
    BY <1>1, <1>2, Running
  <1>4. /\ claim = c /\ \A k \in Card \ call.todo : Marked(k)
        /\ mark[c][call.card] = "applied"
    BY <1>1, <1>2 DEF Correcting, Recording, Forwards
  <1>5. /\ entry \in Entry /\ entry.state = "impacting" /\ entry.prior = journal[c].prior
        /\ entry.applied = call.entry.applied
    BY <1>3 DEF Entry, States
  <1>6. entry.prior = PriorOf[c] /\ PriorOf[c] # None
    BY <1>4, <1>5, Prior
  <1> HIDE DEF entry
  <1>7. PICK at \in {"impacting", "raised"} : Goes(at, entry, call.todo \ {call.card}, None)
    BY <1>2, <1>3, <1>5 DEF Goes, Call, Steps, Forwards
  <1>8. \A k \in Card \ orphans : card[k] = c => k \in entry.applied
    BY <1>1, <1>5 DEF Correcting, Known
  <1>9. Shape' /\ Chain' /\ Journaled' /\ Final' /\ Known' /\ journal'[c] = entry
    BY <1>1, <1>2, <1>5, <1>6, <1>7, <1>8, WriteKeeps DEF Goes, Ran
  <1>10. \A k \in Card \ call'.todo : Marked(k)'
    BY <1>1, <1>2, <1>4, <1>7 DEF Goes, Marked
  <1>11. Recording'
    BY <1>1, <1>2, <1>4, <1>5, <1>7, <1>9, <1>10 DEF Recording, Goes
  <1>12. QED
    BY <1>9, <1>11 DEF Correcting

(* The correction is committed.                                              *)
LEMMA SaveCommittedKeeps == ASSUME Correcting, SaveCommitted PROVE Correcting'
  <1>1. PICK c \in Correction : c = call.c
    BY Running DEF SaveCommitted, At
  <1> DEFINE entry == [call.entry EXCEPT !.state = "committed"]
  <1>2. /\ call.at = "withdrawn" /\ Write(entry) /\ call' = NoCall
        /\ UNCHANGED <<claim, superseded, card, mark, broker, orphans>>
    BY DEF SaveCommitted, At
  <1>3. call.entry \in Entry /\ call.entry.prior = journal[c].prior
    BY <1>1, <1>2, Running
  <1>4. /\ claim = c /\ \A k \in Card : Marked(k)
        /\ Staged => broker.prep[c] = "committed"
    BY <1>1, <1>2 DEF Correcting, Recording
  <1>5. /\ entry \in Entry /\ entry.state = "committed" /\ entry.prior = journal[c].prior
        /\ entry.applied = call.entry.applied
    BY <1>3 DEF Entry, States
  <1> HIDE DEF entry
  <1>6. \A k \in Card \ orphans : card[k] = c => k \in entry.applied
    BY <1>1, <1>5 DEF Correcting, Known
  <1>7. Shape' /\ Chain' /\ Journaled' /\ Final' /\ Known' /\ Recording'
    BY <1>1, <1>2, <1>4, <1>5, <1>6, Prior, WriteKeeps DEF Ran
  <1>8. QED
    BY <1>7 DEF Correcting

(* The correction is rolled back, or blocked for an operator.                *)
LEMMA SaveUndoneKeeps == ASSUME Correcting, SaveRolledBack \/ SaveBlocked PROVE Correcting'
  <1>1. PICK c \in Correction : c = call.c
    BY Running DEF SaveRolledBack, SaveBlocked, At
  <1>2. PICK entry \in {[call.entry EXCEPT !.state = "rolled_back", !.applied = {}],
                        [call.entry EXCEPT !.state = "blocked"]} :
            /\ Write(entry) /\ call' = NoCall
            /\ UNCHANGED <<claim, superseded, card, mark, broker, orphans>>
            /\ \/ call.at = "restored" /\ entry.state = "rolled_back" /\ entry.applied = {}
               \/ call.at = "giving up" /\ entry.state = "blocked" /\ entry.applied = call.entry.applied
    <2>1. call.entry \in Entry
      BY Running DEF SaveRolledBack, SaveBlocked, At
    <2>2. QED
      BY <2>1 DEF SaveRolledBack, SaveBlocked, At, Entry
  <1>3. call.entry \in Entry /\ call.entry.prior = journal[c].prior
    BY <1>1, <1>2, Running
  <1>4. entry \in Entry /\ entry.prior = journal[c].prior
    BY <1>3 DEF Entry, States
  <1>5. call.at = "restored" => ~Superseded(c) /\ \A k \in Card \ orphans : card[k] # c
    BY <1>1 DEF Correcting, Recording
  <1>6. \A k \in Card \ orphans : card[k] = c => k \in entry.applied
    BY <1>1, <1>2, <1>5 DEF Correcting, Known
  <1>7. Shape' /\ Chain' /\ Journaled' /\ Final' /\ Known' /\ Recording'
    BY <1>1, <1>2, <1>4, <1>5, <1>6, WriteKeeps DEF Ran
  <1>8. QED
    BY <1>7 DEF Correcting

(* Authority: the chain grows by the claim that replaces the last of it, and *)
(* loses no more than that.                                                  *)
LEMMA ChainGrows ==
  ASSUME Chain, NEW c \in Correction, claim = PriorOf[c], claim # c, claim' = c,
         superseded' = {p \in superseded : p[1] # claim} \cup {<<claim, c>>}
  PROVE  /\ Chain' /\ ~Superseded(c)
         /\ \A d \in Correction : Superseded(d)' <=> Superseded(d) \/ d = c
  <1>1. \A d \in Correction : Superseded(d)' <=> Superseded(d) \/ d = c
    BY DEF Superseded, Chain
  <1>2. ~Superseded(c)
    BY DEF Chain
  <1>3. \A p \in superseded' : p[1] = PriorOf[p[2]]
    BY DEF Chain
  <1>4. ASSUME NEW d \in Correction, Superseded(d)' PROVE PriorOf[d] # claim'
    <2>1. CASE d = c
      BY <2>1
    <2>2. CASE Superseded(d) /\ PriorOf[d] = c
      BY <1>2, <2>2 DEF Chain
    <2>3. QED
      BY <1>1, <1>4, <2>1, <2>2
  <1>5. ASSUME NEW d \in Correction, Superseded(d)', PriorOf[d] \in Correction
        PROVE  Superseded(PriorOf[d])'
    <2>1. d = c => Superseded(PriorOf[d])
      BY <1>5 DEF Chain
    <2>2. d # c => Superseded(PriorOf[d])
      BY <1>1, <1>5 DEF Chain
    <2>3. QED
      BY <1>1, <1>5, <2>1, <2>2
  <1>6. ASSUME NEW d \in Correction, Superseded(d)' PROVE InForce(d)'
    <2>1. CASE d = c
      BY <2>1 DEF InForce
    <2>2. CASE Superseded(d) /\ claim = d
      BY <1>1, <2>2 DEF InForce
    <2>3. CASE Superseded(d) /\ \E e \in Correction : PriorOf[e] = d /\ Superseded(e)
      BY <1>1, <2>3 DEF InForce
    <2>4. QED
      BY <1>1, <1>6, <2>1, <2>2, <2>3 DEF Chain, InForce
  <1>7. ASSUME NEW d \in Correction, NEW e \in Correction,
               Superseded(d)', Superseded(e)', PriorOf[d] = PriorOf[e]
        PROVE  d = e
    BY <1>1, <1>7 DEF Chain
  <1>8. Chain'
    BY <1>1, <1>3, <1>4, <1>5, <1>6, <1>7 DEF Chain
  <1>9. QED
    BY <1>1, <1>2, <1>8

(* The chain shrinks by its last link.                                       *)
LEMMA ChainShrinks ==
  ASSUME Chain, NEW c \in Correction, claim = c, claim' = PriorOf[c],
         superseded' = {p \in superseded : p[1] # PriorOf[c]}
  PROVE  /\ Chain' /\ claim' # c
         /\ \A d \in Correction : Superseded(d)' <=> Superseded(d) /\ d # c
  <1>1. Superseded(c) /\ PriorOf[c] # c
    BY DEF Chain
  <1>2. \A d \in Correction : Superseded(d)' <=> Superseded(d) /\ d # c
    <2>1. ASSUME NEW d \in Correction PROVE Superseded(d)' <=> Superseded(d) /\ PriorOf[d] # PriorOf[c]
      BY DEF Superseded
    <2>2. QED
      BY <1>1, <2>1 DEF Chain
  <1>3. \A p \in superseded' : p[1] = PriorOf[p[2]]
    BY DEF Chain
  <1>4. ASSUME NEW d \in Correction, Superseded(d)' PROVE PriorOf[d] # claim'
    BY <1>1, <1>2, <1>4 DEF Chain
  <1>5. ASSUME NEW d \in Correction, Superseded(d)', PriorOf[d] \in Correction
        PROVE  Superseded(PriorOf[d])'
    BY <1>2, <1>5 DEF Chain
  <1>6. ASSUME NEW d \in Correction, Superseded(d)' PROVE InForce(d)'
    <2>1. CASE d = PriorOf[c]
      BY <2>1 DEF InForce
    <2>2. CASE d # PriorOf[c]
      <3>1. PICK e \in Correction : PriorOf[e] = d /\ Superseded(e)
        BY <1>2, <1>6 DEF Chain, InForce
      <3>2. e # c
        BY <2>2, <3>1
      <3>3. QED
        BY <1>2, <3>1, <3>2 DEF InForce
    <2>3. QED
      BY <2>1, <2>2
  <1>7. ASSUME NEW d \in Correction, NEW e \in Correction,
               Superseded(d)', Superseded(e)', PriorOf[d] = PriorOf[e]
        PROVE  d = e
    BY <1>2, <1>7 DEF Chain
  <1>8. \A d \in Correction : claim' = d => Superseded(d)'
    BY <1>1, <1>2 DEF Chain
  <1>9. Chain'
    BY <1>3, <1>4, <1>5, <1>6, <1>7, <1>8 DEF Chain
  <1>10. QED
    BY <1>1, <1>2, <1>9

(* The claim is replaced.                                                    *)
LEMMA ApplyClaimKeeps == ASSUME Correcting, ApplyClaim PROVE Correcting'
  <1>1. PICK c \in Correction : c = call.c
    BY Running DEF ApplyClaim, At
  <1>2. /\ call.at = "applying" /\ claim' = c
        /\ superseded' = {p \in superseded : p[1] # claim} \cup {<<claim, c>>}
        /\ call' = [call EXCEPT !.at = "reading"]
        /\ UNCHANGED <<journal, card, mark, broker, orphans>>
    BY <1>1 DEF ApplyClaim, At, GoTo
  <1>3. call \in Call /\ journal[c].state \notin {"none", "committed", "blocked"}
        /\ call.entry.prior = journal[c].prior
    BY <1>1, <1>2, Running
  <1>4. /\ claim = PriorOf[c] /\ claim # c /\ \A k \in Card \ call.todo : Marked(k)
        /\ journal[c].state = "applying" /\ journal[c].prior = PriorOf[c]
    BY <1>1, <1>2 DEF Correcting, Recording, Forwards
  <1>5. Goes("reading", call.entry, call.todo, call.card)
    BY <1>2, <1>3 DEF Goes, Call, Steps, Forwards
  <1>6. /\ Chain' /\ ~Superseded(c)
        /\ \A d \in Correction : Superseded(d)' <=> Superseded(d) \/ d = c
    BY <1>2, <1>4, ChainGrows DEF Correcting
  <1>7. Shape'
    BY <1>2, <1>5 DEF Correcting, Shape, Claims, Goes
  <1>8. Journaled'
    BY <1>2, <1>4, <1>6 DEF Correcting, Journaled, Ran
  <1>9. Final'
    BY <1>2, <1>6 DEF Correcting, Final, Committed
  <1>10. Known'
    BY <1>2, <1>5 DEF Correcting, Known, Goes
  <1>11. Recording'
    BY <1>1, <1>2, <1>3, <1>4, <1>5 DEF Recording, Goes, Marked
  <1>12. QED
    BY <1>6, <1>7, <1>8, <1>9, <1>10, <1>11 DEF Correcting

(* The claim is taken back, unless it is not the one of the correction.      *)
LEMMA RestoreClaimKeeps == ASSUME Correcting, RestoreClaim PROVE Correcting'
  <1>1. PICK c \in Correction : c = call.c
    BY Running DEF RestoreClaim, At
  <1>2. /\ call.at = "compensating" /\ call.todo = {}
        /\ call' = [call EXCEPT !.at = "restored"]
        /\ UNCHANGED <<journal, card, mark, broker, orphans>>
        /\ IF Restorable
           THEN /\ claim' = call.entry.prior
                /\ superseded' = {p \in superseded : p[1] # call.entry.prior}
           ELSE UNCHANGED <<claim, superseded>>
    BY DEF RestoreClaim, At, GoTo
  <1>3. call \in Call /\ journal[c].state \notin {"none", "committed", "blocked"}
        /\ call.entry.prior = journal[c].prior
    BY <1>1, <1>2, Running
  <1>4. /\ claim \in {c, PriorOf[c]}
        /\ \A k \in Card \ orphans : card[k] # c
    BY <1>1, <1>2 DEF Correcting, Recording
  <1>5. Goes("restored", call.entry, call.todo, call.card)
    BY <1>2, <1>3 DEF Goes, Call, Steps, Forwards
  <1>6. /\ Chain' /\ claim' \in Claims /\ superseded' \subseteq superseded
        /\ \A d \in Correction : Superseded(d)' <=> Superseded(d) /\ d # c
    <2>1. CASE claim = c
      <3>1. call.entry.prior = PriorOf[c] /\ PriorOf[c] # None /\ PriorOf[c] \in Claims
        BY <1>3, <2>1, Prior
      <3>2. claim' = PriorOf[c] /\ superseded' = {p \in superseded : p[1] # PriorOf[c]}
        BY <1>1, <1>2, <2>1, <3>1 DEF Restorable
      <3>3. QED
        BY <2>1, <3>1, <3>2, ChainShrinks DEF Correcting
    <2>2. CASE claim # c
      <3>1. claim = PriorOf[c] /\ UNCHANGED <<claim, superseded>>
        BY <1>1, <1>2, <1>4, <2>2 DEF Restorable
      <3>2. ~Superseded(c)
        BY <3>1 DEF Correcting, Chain
      <3>3. QED
        BY <3>1, <3>2, ChainFrame DEF Correcting, Superseded, Shape
    <2>3. QED
      BY <2>1, <2>2
  <1>7. Shape'
    BY <1>2, <1>5, <1>6 DEF Correcting, Shape, Goes
  <1>8. Journaled'
    BY <1>2, <1>6 DEF Correcting, Journaled
  <1>9. Final'
    BY <1>2, <1>3, <1>6 DEF Correcting, Final, Committed
  <1>10. Known'
    BY <1>2, <1>5 DEF Correcting, Known, Goes
  <1>11. Recording'
    BY <1>1, <1>2, <1>3, <1>4, <1>5, <1>6 DEF Recording, Goes, Forwards
  <1>12. QED
    BY <1>6, <1>7, <1>8, <1>9, <1>10, <1>11 DEF Correcting

(* The process dies: what its call has blocked and not written is orphaned.  *)
LEMMA CrashKeeps == ASSUME Correcting, Crash PROVE Correcting'
  <1>1. PICK c \in Correction : c = call.c
    BY Running DEF Crash, At
  <1>2. /\ call' = NoCall /\ UNCHANGED <<journal, claim, superseded, card, mark, broker>>
        /\ \E lost \in SUBSET {c} :
              orphans' = orphans \cup (call.entry.applied \ journal[c].applied) \cup lost
    BY <1>1 DEF Crash
  <1>3. call.entry \in Entry
    BY Running DEF Crash, At
  <1>4. Shape'
    BY <1>2, <1>3 DEF Correcting, Shape, Entry
  <1>5. Chain' /\ Journaled' /\ Final'
    BY <1>2, ChainFrame DEF Correcting, Journaled, Final, Superseded, Committed
  <1>6. Known'
    <2>1. ASSUME NEW d \in Correction, NEW k \in Card \ orphans', card[k] = d
          PROVE  k \in journal[d].applied
      BY <1>1, <1>2, <2>1 DEF Correcting, Known
    <2>2. call'.c \notin Correction
      BY <1>2, InProgress DEF Correcting
    <2>3. QED
      BY <1>2, <2>1, <2>2 DEF Known
  <1>7. Recording'
    BY <1>2, InProgress DEF Correcting, Recording, NoCall
  <1>8. QED
    BY <1>4, <1>5, <1>6, <1>7 DEF Correcting

-----------------------------------------------------------------------------
(* A call of the broker, on behalf of a record.                              *)
LEMMA BrokerKeeps ==
  ASSUME Correcting, call.at # "idle", NEW c \in Correction, c = call.c,
         UNCHANGED <<journal, claim, superseded, card, mark>>,
         orphans' \in {orphans, orphans \cup {c}},
         call' \in Call, call'.c = c, call'.entry.applied = call.entry.applied,
         broker' \in [revoked : BOOLEAN, reserved : BOOLEAN, prep : [Correction -> Preps]],
         \A d \in Correction \ {c} : broker'.prep[d] = broker.prep[d],
         broker'.reserved = broker.reserved, broker.revoked => broker'.revoked,
         broker'.revoked => ~broker.reserved,
         broker'.prep[c] = "committed" => broker'.revoked
  PROVE  Shape' /\ Chain' /\ Journaled' /\ Final' /\ Known'
  <1>1. journal[c].state # "committed"
    BY Running
  <1>2. Shape'
    BY DEF Correcting, Shape
  <1>3. Chain' /\ Journaled'
    BY ChainFrame DEF Correcting, Journaled, Superseded
  <1>4. Final'
    BY <1>1 DEF Correcting, Final, Superseded, Committed
  <1>5. Known'
    BY DEF Correcting, Known
  <1>6. QED
    BY <1>2, <1>3, <1>4, <1>5

(* The withdrawal is prepared, or denied.                                    *)
LEMMA PrepareWithdrawalKeeps == ASSUME Correcting, PrepareWithdrawal PROVE Correcting'
  <1>1. PICK c \in Correction : c = call.c
    BY Running DEF PrepareWithdrawal, At
  <1>2. call.at = "preparing" /\ UNCHANGED <<journal, claim, superseded, card, mark, orphans>>
    BY DEF PrepareWithdrawal, At
  <1>3. /\ call \in Call /\ call.entry \in Entry
        /\ journal[c].state \notin {"none", "committed", "blocked"}
        /\ call.entry.prior = journal[c].prior
    BY <1>1, <1>2, Running
  <1>4. /\ claim \in {c, PriorOf[c]} /\ \A k \in Card \ call.todo : Marked(k)
        /\ call.entry.state = journal[c].state /\ call.entry.applied = journal[c].applied
    BY <1>1, <1>2 DEF Correcting, Recording, Forwards
  <1>5. CASE GoTo("raised") /\ UNCHANGED broker
    <2>1. /\ Goes("raised", call.entry, call.todo, call.card)
          /\ Shape' /\ Chain' /\ Journaled' /\ Final' /\ Known'
      BY <1>2, <1>5, PlaceFrame DEF Steps
    <2>2. Recording'
      BY <1>1, <1>2, <1>3, <1>4, <2>1 DEF Recording, Goes, Forwards
    <2>3. QED
      BY <2>1, <2>2 DEF Correcting
  <1>6. CASE /\ ~(broker.revoked \/ broker.reserved)
             /\ broker' = [broker EXCEPT !.prep[c] = "prepared"]
             /\ call' = [call EXCEPT !.entry.prep = TRUE, !.at = "prepared"]
    <2>1. /\ broker' \in [revoked : BOOLEAN, reserved : BOOLEAN, prep : [Correction -> Preps]]
          /\ broker'.revoked = broker.revoked /\ broker'.reserved = broker.reserved
          /\ broker'.prep = [broker.prep EXCEPT ![c] = "prepared"]
          /\ broker.prep \in [Correction -> Preps]
      BY <1>6 DEF Correcting, Shape, Preps
    <2> DEFINE entry == [call.entry EXCEPT !.prep = TRUE]
    <2>2. /\ entry \in Entry /\ entry.state = call.entry.state
          /\ entry.applied = call.entry.applied /\ entry.prior = call.entry.prior
      BY <1>3 DEF Entry
    <2>3. call' = [call EXCEPT !.entry = entry, !.at = "prepared"]
      BY <1>3, <1>6 DEF Call
    <2> HIDE DEF entry
    <2>4. Goes("prepared", entry, call.todo, call.card)
      BY <1>3, <2>2, <2>3 DEF Goes, Call, Steps, Forwards
    <2>5. /\ \A d \in Correction \ {c} : broker'.prep[d] = broker.prep[d]
          /\ broker'.prep[c] = "prepared"
      BY <2>1
    <2>6. Shape' /\ Chain' /\ Journaled' /\ Final' /\ Known'
      BY <1>1, <1>2, <1>6, <2>1, <2>2, <2>4, <2>5, BrokerKeeps DEF Goes
    <2>7. Recording'
      BY <1>1, <1>2, <1>3, <1>4, <2>2, <2>4 DEF Recording, Goes, Marked
    <2>8. QED
      BY <2>6, <2>7 DEF Correcting
  <1>7. QED
    BY <1>1, <1>5, <1>6 DEF PrepareWithdrawal

(* The broker makes the withdrawal final.                                    *)
LEMMA WithdrawKeeps ==
  ASSUME Correcting, call.at = "impacting", NEW at \in {"withdrawn", "raised"}, GoTo(at),
         UNCHANGED <<journal, claim, superseded, card, mark>>,
         orphans' \in {orphans, orphans \cup {call.c}},
         Withdrawable, Withdraw
  PROVE  /\ Goes(at, call.entry, call.todo, call.card)
         /\ Shape' /\ Chain' /\ Journaled' /\ Final' /\ Known'
         /\ broker'.prep[call.c] = "committed"
  <1>1. PICK c \in Correction : c = call.c
    BY Running
  <1>2. /\ broker' \in [revoked : BOOLEAN, reserved : BOOLEAN, prep : [Correction -> Preps]]
        /\ broker'.revoked /\ broker'.reserved = broker.reserved /\ ~broker.reserved
        /\ broker'.prep = [broker.prep EXCEPT ![c] = "committed"]
        /\ broker.prep \in [Correction -> Preps]
    BY <1>1 DEF Correcting, Shape, Preps, Withdrawable, Withdraw
  <1>3. /\ \A d \in Correction \ {c} : broker'.prep[d] = broker.prep[d]
        /\ broker'.prep[c] = "committed"
    BY <1>2
  <1>4. Goes(at, call.entry, call.todo, call.card)
    BY Running DEF GoTo, Goes, Call, Steps
  <1>5. Shape' /\ Chain' /\ Journaled' /\ Final' /\ Known'
    BY <1>1, <1>2, <1>3, <1>4, BrokerKeeps DEF Goes
  <1>6. QED
    BY <1>1, <1>3, <1>4, <1>5

(* The withdrawal is final, or refused.                                      *)
LEMMA CommitWithdrawalKeeps == ASSUME Correcting, CommitWithdrawal PROVE Correcting'
  <1>1. PICK c \in Correction : c = call.c
    BY Running DEF CommitWithdrawal, At
  <1>2. /\ call.at = "impacting" /\ UNCHANGED <<journal, claim, superseded, card, mark, orphans>>
        /\ call.todo = {}
    BY DEF CommitWithdrawal, At, Impacted
  <1>3. /\ call \in Call /\ journal[c].state \notin {"none", "committed", "blocked"}
        /\ call.entry.prior = journal[c].prior
    BY <1>1, <1>2, Running
  <1>4. claim = c /\ \A k \in Card \ call.todo : Marked(k)
    BY <1>1, <1>2 DEF Correcting, Recording, Forwards
  <1>5. CASE \/ GoTo("raised") /\ UNCHANGED broker
             \/ GoTo("withdrawn") /\ UNCHANGED broker /\ ~Staged
    <2>1. PICK at \in {"raised", "withdrawn"} : GoTo(at) /\ (at = "withdrawn" => ~Staged)
      BY <1>5
    <2>2. /\ Goes(at, call.entry, call.todo, call.card)
          /\ Shape' /\ Chain' /\ Journaled' /\ Final' /\ Known'
      BY <1>2, <1>5, <2>1, PlaceFrame DEF Steps
    <2>3. Recording'
      BY <1>1, <1>2, <1>3, <1>4, <2>1, <2>2 DEF Recording, Goes, Forwards, Marked
    <2>4. QED
      BY <2>2, <2>3 DEF Correcting
  <1>6. CASE Withdrawable /\ Withdraw /\ GoTo("withdrawn")
    <2>1. /\ Goes("withdrawn", call.entry, call.todo, call.card)
          /\ Shape' /\ Chain' /\ Journaled' /\ Final' /\ Known'
          /\ broker'.prep[c] = "committed"
      BY <1>1, <1>2, <1>6, WithdrawKeeps
    <2>2. Recording'
      BY <1>1, <1>2, <1>3, <1>4, <2>1 DEF Recording, Goes, Marked, Forwards
    <2>3. QED
      BY <2>1, <2>2 DEF Correcting
  <1>7. QED
    BY <1>1, <1>5, <1>6 DEF CommitWithdrawal

(* The broker has committed, and its answer is lost.                         *)
LEMMA UnansweredKeeps == ASSUME Correcting, WithdrawalUnanswered PROVE Correcting'
  <1>1. PICK c \in Correction : c = call.c
    BY Running DEF WithdrawalUnanswered, At
  <1>2. /\ call.at = "impacting" /\ UNCHANGED <<journal, claim, superseded, card, mark>>
        /\ orphans' = orphans \cup {c}
        /\ Withdrawable /\ Withdraw /\ GoTo("raised")
    BY <1>1 DEF WithdrawalUnanswered, At
  <1>3. /\ call \in Call /\ journal[c].state \notin {"none", "committed", "blocked"}
        /\ call.entry.prior = journal[c].prior
    BY <1>1, <1>2, Running
  <1>4. claim = c
    BY <1>1, <1>2 DEF Correcting, Recording
  <1>5. /\ Goes("raised", call.entry, call.todo, call.card)
        /\ Shape' /\ Chain' /\ Journaled' /\ Final' /\ Known'
    BY <1>1, <1>2, WithdrawKeeps
  <1>6. Recording'
    BY <1>1, <1>2, <1>3, <1>4, <1>5 DEF Recording, Goes, Forwards
  <1>7. QED
    BY <1>5, <1>6 DEF Correcting

(* The preparation is cancelled, unless the approval is withdrawn.           *)
LEMMA CancelWithdrawalKeeps == ASSUME Correcting, CancelWithdrawal PROVE Correcting'
  <1>1. PICK c \in Correction : c = call.c
    BY Running DEF CancelWithdrawal, At
  <1>2. /\ call.at = "raised" /\ UNCHANGED <<journal, claim, superseded, card, mark, orphans>>
        /\ call' = [call EXCEPT !.at = "compensating", !.todo = call.entry.applied]
    BY DEF CancelWithdrawal, At
  <1>3. /\ call \in Call /\ journal[c].state \notin {"none", "committed", "blocked"}
        /\ call.entry.prior = journal[c].prior /\ call.entry \in Entry
    BY <1>1, <1>2, Running
  <1>4. claim \in {c, PriorOf[c]}
    BY <1>1, <1>2 DEF Correcting, Recording
  <1>5. Goes("compensating", call.entry, call.entry.applied, call.card)
    BY <1>2, <1>3 DEF Goes, Call, Steps, Entry
  <1>6. /\ broker' \in [revoked : BOOLEAN, reserved : BOOLEAN, prep : [Correction -> Preps]]
        /\ broker'.revoked = broker.revoked /\ broker'.reserved = broker.reserved
        /\ \A d \in Correction \ {c} : broker'.prep[d] = broker.prep[d]
        /\ broker'.prep[c] = "committed" => broker.revoked
    <2>1. CASE UNCHANGED broker
      BY <2>1 DEF Correcting, Shape, Final
    <2>2. CASE broker' = [broker EXCEPT !.prep[c] = "cancelled"]
      BY <2>2 DEF Correcting, Shape, Preps
    <2>3. QED
      BY <1>1, <2>1, <2>2 DEF CancelWithdrawal
  <1>7. Shape' /\ Chain' /\ Journaled' /\ Final' /\ Known'
    <2>1. broker.revoked => ~broker.reserved
      BY DEF Correcting, Final
    <2>2. QED
      BY <1>1, <1>2, <1>5, <1>6, <2>1, BrokerKeeps DEF Goes
  <1>8. \A k \in Card \ orphans : card[k] = c => k \in call.entry.applied
    BY <1>1 DEF Correcting, Known
  <1>9. Recording'
    BY <1>1, <1>2, <1>3, <1>4, <1>5, <1>8 DEF Recording, Goes, Forwards
  <1>10. QED
    BY <1>7, <1>9 DEF Correcting

(* An operation is reserved under the approval that is not withdrawn.        *)
LEMMA ReserveKeeps == ASSUME Correcting, ReserveOperation PROVE Correcting'
  <1>1. /\ UNCHANGED <<journal, claim, superseded, card, mark, call, orphans>>
        /\ broker' = [broker EXCEPT !.reserved = TRUE] /\ ~broker.revoked
    BY DEF ReserveOperation
  <1>2. /\ broker' \in [revoked : BOOLEAN, reserved : BOOLEAN, prep : [Correction -> Preps]]
        /\ broker'.prep = broker.prep /\ ~broker'.revoked
    BY <1>1 DEF Correcting, Shape
  <1>3. Shape' /\ Chain' /\ Journaled'
    BY <1>1, <1>2, ChainFrame DEF Correcting, Shape, Journaled, Superseded
  <1>4. Final' /\ Known'
    BY <1>1, <1>2 DEF Correcting, Final, Known, Superseded, Committed
  <1>5. Recording'
    BY <1>1, <1>2 DEF Correcting, Recording, Superseded, Marked
  <1>6. QED
    BY <1>3, <1>4, <1>5 DEF Correcting

-----------------------------------------------------------------------------
(* The board: a card that is not done changes, and no correction that does   *)
(* not own the call has put its block on it.                                 *)
LEMMA CardKeeps ==
  ASSUME Correcting, NEW k \in Card, NEW to \in {"open", "todo", "done"} \cup Correction,
         card' = [card EXCEPT ![k] = to], card[k] = "done" => to = "done",
         to \in Correction => to = call.c
  PROVE  /\ card' \in [Card -> {"open", "todo", "done"} \cup Correction]
         /\ \A j \in Card : card[j] = "done" => card'[j] = "done"
         /\ \A j \in Card, d \in Correction : card'[j] = d => card[j] = d \/ (j = k /\ to = d)
         /\ \A d \in Correction, j \in Card \ orphans :
               card'[j] = d /\ ~(j = k /\ to = d) =>
                  j \in IF call.c = d THEN call.entry.applied ELSE journal[d].applied
  <1>1. card \in [Card -> {"open", "todo", "done"} \cup Correction]
    BY DEF Correcting, Shape
  <1>2. card' \in [Card -> {"open", "todo", "done"} \cup Correction]
        /\ card'[k] = to /\ \A j \in Card \ {k} : card'[j] = card[j]
    BY <1>1
  <1>3. \A j \in Card, d \in Correction : card'[j] = d => card[j] = d \/ (j = k /\ to = d)
    BY <1>2
  <1>4. QED
    BY <1>2, <1>3 DEF Correcting, Known

(* Marks: what a committed correction has marked stays so.                   *)
LEMMA MarkKeeps ==
  ASSUME Correcting, call.at # "idle",
         UNCHANGED <<journal, claim, superseded, broker>>,
         \A d \in Correction \ {call.c} : mark'[d] = mark[d],
         \A j \in Card : card[j] = "done" => card'[j] = "done"
  PROVE  Chain' /\ Journaled' /\ Final'
  <1>1. journal[call.c].state # "committed"
    BY Running
  <1>2. Chain' /\ Journaled'
    BY ChainFrame DEF Correcting, Journaled, Superseded
  <1>3. Final'
    BY <1>1 DEF Correcting, Final, Superseded, Committed
  <1>4. QED
    BY <1>2, <1>3

(* The marker is put on a card before it is blocked.                         *)
LEMMA CommentKeeps == ASSUME Correcting, NEW k \in Card, CommentImpact(k) PROVE Correcting'
  <1>1. PICK c \in Correction : c = call.c
    BY Running DEF CommentImpact, At
  <1>2. /\ call.at = "impacting" /\ UNCHANGED <<journal, claim, superseded, card, broker, orphans>>
        /\ mark' = [mark EXCEPT ![c][k] = "applied"]
        /\ call' = [call EXCEPT !.at = "blocking", !.card = k]
    BY <1>1 DEF CommentImpact, At
  <1>3. /\ call \in Call /\ journal[c].state \notin {"none", "committed", "blocked"}
        /\ call.entry.prior = journal[c].prior
    BY <1>1, <1>2, Running
  <1>4. claim = c /\ \A j \in Card \ call.todo : Marked(j)
    BY <1>1, <1>2 DEF Correcting, Recording, Forwards
  <1>5. Goes("blocking", call.entry, call.todo, k)
    BY <1>2, <1>3 DEF Goes, Call, Steps, Forwards
  <1>6. mark \in [Correction -> [Card -> {"none", "applied", "rolled_back"}]]
    BY DEF Correcting, Shape
  <1>7. /\ mark' \in [Correction -> [Card -> {"none", "applied", "rolled_back"}]]
        /\ \A d \in Correction \ {c} : mark'[d] = mark[d]
        /\ mark'[c][k] = "applied" /\ \A j \in Card \ {k} : mark'[c][j] = mark[c][j]
    BY <1>2, <1>6
  <1>8. Shape'
    BY <1>2, <1>5, <1>7 DEF Correcting, Shape, Goes
  <1>9. Chain' /\ Journaled' /\ Final'
    BY <1>1, <1>2, <1>7, MarkKeeps
  <1>10. Known'
    BY <1>2, <1>5 DEF Correcting, Known, Goes
  <1>11. Recording'
    BY <1>1, <1>2, <1>3, <1>4, <1>5, <1>7 DEF Recording, Goes, Marked
  <1>12. QED
    BY <1>8, <1>9, <1>10, <1>11 DEF Correcting

(* The card is blocked, and the call knows it.                               *)
LEMMA BlockKeeps == ASSUME Correcting, BlockCard PROVE Correcting'
  <1>1. PICK c \in Correction : c = call.c
    BY Running DEF BlockCard, At
  <1>2. call.at = "blocking" /\ UNCHANGED <<journal, claim, superseded, mark, broker, orphans>>
    BY DEF BlockCard, At
  <1>3. PICK k \in Card : k = call.card /\ mark[c][k] = "applied"
    BY <1>1, <1>2 DEF Correcting, Recording
  <1>4. /\ card[k] # "done" /\ card' = [card EXCEPT ![k] = c]
        /\ call' = [call EXCEPT !.at = "blocked", !.entry.applied = call.entry.applied \cup {k}]
    BY <1>1, <1>3 DEF BlockCard
  <1>5. /\ call \in Call /\ journal[c].state \notin {"none", "committed", "blocked"}
        /\ call.entry.prior = journal[c].prior /\ call.entry \in Entry
    BY <1>1, <1>2, Running
  <1>6. claim = c /\ \A j \in Card \ call.todo : Marked(j)
    BY <1>1, <1>2 DEF Correcting, Recording, Forwards
  <1> DEFINE entry == [call.entry EXCEPT !.applied = call.entry.applied \cup {k}]
  <1>7. /\ entry \in Entry /\ entry.applied = call.entry.applied \cup {k}
        /\ entry.prior = call.entry.prior /\ entry.state = call.entry.state
    BY <1>5 DEF Entry
  <1>8. call' = [call EXCEPT !.entry = entry, !.at = "blocked"]
    BY <1>4, <1>5 DEF Call
  <1> HIDE DEF entry
  <1>9. Goes("blocked", entry, call.todo, k)
    BY <1>3, <1>5, <1>7, <1>8 DEF Goes, Call, Steps, Forwards
  <1>10. /\ card' \in [Card -> {"open", "todo", "done"} \cup Correction]
         /\ \A j \in Card : card[j] = "done" => card'[j] = "done"
         /\ \A d \in Correction, j \in Card \ orphans :
               card'[j] = d /\ ~(j = k /\ c = d) =>
                  j \in IF c = d THEN call.entry.applied ELSE journal[d].applied
    BY <1>1, <1>4, CardKeeps
  <1>11. Shape'
    BY <1>2, <1>9, <1>10 DEF Correcting, Shape, Goes
  <1>12. Chain' /\ Journaled' /\ Final'
    BY <1>2, <1>10, MarkKeeps
  <1>13. Known'
    BY <1>1, <1>2, <1>7, <1>9, <1>10 DEF Known, Goes
  <1>14. Recording'
    BY <1>1, <1>2, <1>3, <1>5, <1>6, <1>7, <1>9, <1>10 DEF Recording, Goes, Marked
  <1>15. QED
    BY <1>11, <1>12, <1>13, <1>14 DEF Correcting

(* The card is blocked by a command that then fails.                         *)
LEMMA BlockRaisesKeeps == ASSUME Correcting, BlockRaises PROVE Correcting'
  <1>1. PICK c \in Correction : c = call.c
    BY Running DEF BlockRaises, At
  <1>2. call.at = "blocking" /\ UNCHANGED <<journal, claim, superseded, mark, broker>>
    BY DEF BlockRaises, At
  <1>3. PICK k \in Card : k = call.card
    BY <1>1, <1>2 DEF Correcting, Recording
  <1>4. /\ card[k] # "done" /\ card' = [card EXCEPT ![k] = c]
        /\ orphans' = orphans \cup {k} /\ call' = [call EXCEPT !.at = "raised"]
    BY <1>1, <1>3 DEF BlockRaises, GoTo
  <1>5. /\ call \in Call /\ journal[c].state \notin {"none", "committed", "blocked"}
        /\ call.entry.prior = journal[c].prior
    BY <1>1, <1>2, Running
  <1>6. claim = c
    BY <1>1, <1>2 DEF Correcting, Recording
  <1>7. Goes("raised", call.entry, call.todo, k)
    BY <1>3, <1>4, <1>5 DEF Goes, Call, Steps
  <1>8. /\ card' \in [Card -> {"open", "todo", "done"} \cup Correction]
        /\ \A j \in Card : card[j] = "done" => card'[j] = "done"
        /\ \A d \in Correction, j \in Card \ orphans :
              card'[j] = d /\ ~(j = k /\ c = d) =>
                 j \in IF c = d THEN call.entry.applied ELSE journal[d].applied
    BY <1>1, <1>4, CardKeeps
  <1>9. Shape'
    BY <1>2, <1>4, <1>7, <1>8 DEF Correcting, Shape, Goes
  <1>10. Chain' /\ Journaled' /\ Final'
    BY <1>2, <1>8, MarkKeeps
  <1>11. Known'
    BY <1>1, <1>2, <1>4, <1>7, <1>8 DEF Known, Goes
  <1>12. Recording'
    BY <1>1, <1>2, <1>5, <1>6, <1>7 DEF Recording, Goes, Forwards
  <1>13. QED
    BY <1>9, <1>10, <1>11, <1>12 DEF Correcting

(* An impact is taken back.                                                  *)
LEMMA RollbackKeeps == ASSUME Correcting, NEW k \in Card, RollbackImpact(k) PROVE Correcting'
  <1>1. PICK c \in Correction : c = call.c
    BY Running DEF RollbackImpact, At
  <1> DEFINE to == IF card[k] = "done" THEN "done" ELSE "open"
  <1>2. /\ call.at = "compensating" /\ UNCHANGED <<journal, claim, superseded, broker, orphans>>
        /\ call' = [call EXCEPT !.todo = call.todo \ {k}]
        /\ card' = [card EXCEPT ![k] = to]
        /\ mark' = [mark EXCEPT ![c][k] = "rolled_back"]
    <2>1. card \in [Card -> {"open", "todo", "done"} \cup Correction]
      BY DEF Correcting, Shape
    <2>2. QED
      BY <1>1, <2>1 DEF RollbackImpact, At
  <1>3. /\ call \in Call /\ journal[c].state \notin {"none", "committed", "blocked"}
        /\ call.entry.prior = journal[c].prior
    BY <1>1, <1>2, Running
  <1>4. /\ claim \in {c, PriorOf[c]}
        /\ \A j \in Card \ orphans : card[j] = c => j \in call.todo
    BY <1>1, <1>2 DEF Correcting, Recording
  <1>5. Goes("compensating", call.entry, call.todo \ {k}, call.card)
    BY <1>2, <1>3 DEF Goes, Call
  <1>6. mark \in [Correction -> [Card -> {"none", "applied", "rolled_back"}]]
    BY DEF Correcting, Shape
  <1>7. /\ mark' \in [Correction -> [Card -> {"none", "applied", "rolled_back"}]]
        /\ \A d \in Correction \ {c} : mark'[d] = mark[d]
    BY <1>2, <1>6
  <1>8. to \in {"open", "done"} /\ (card[k] = "done" => to = "done") /\ to \notin Correction
    BY CardStatuses
  <1> HIDE DEF to
  <1>9. /\ card' \in [Card -> {"open", "todo", "done"} \cup Correction]
        /\ \A j \in Card : card[j] = "done" => card'[j] = "done"
        /\ \A j \in Card, d \in Correction : card'[j] = d => card[j] = d \/ (j = k /\ to = d)
        /\ \A d \in Correction, j \in Card \ orphans :
              card'[j] = d /\ ~(j = k /\ to = d) =>
                 j \in IF call.c = d THEN call.entry.applied ELSE journal[d].applied
    BY <1>2, <1>8, CardKeeps
  <1>10. card'[k] = to
    BY <1>2 DEF Correcting, Shape
  <1>11. Shape'
    BY <1>2, <1>5, <1>7, <1>9 DEF Correcting, Shape, Goes
  <1>12. Chain' /\ Journaled' /\ Final'
    BY <1>1, <1>2, <1>7, <1>9, MarkKeeps
  <1>13. Known'
    BY <1>2, <1>5, <1>8, <1>9 DEF Known, Goes
  <1>14. Recording'
    BY <1>1, <1>2, <1>3, <1>4, <1>5, <1>8, <1>9, <1>10 DEF Recording, Goes, Forwards
  <1>15. QED
    BY <1>11, <1>12, <1>13, <1>14 DEF Correcting

(* The owner of a card moves it.                                             *)
LEMMA MoveCardKeeps == ASSUME Correcting, NEW k \in Card, MoveCard(k) PROVE Correcting'
  <1>1. /\ UNCHANGED <<journal, claim, superseded, mark, broker, call, orphans>>
        /\ card[k] # "done"
        /\ \E to \in {"open", "todo", "done"} : card' = [card EXCEPT ![k] = to]
    BY DEF MoveCard
  <1>2. PICK to \in {"open", "todo", "done"} : card' = [card EXCEPT ![k] = to]
    BY <1>1
  <1>3. to \notin Correction
    BY CardStatuses
  <1>4. /\ card' \in [Card -> {"open", "todo", "done"} \cup Correction]
        /\ \A j \in Card : card[j] = "done" => card'[j] = "done"
        /\ \A j \in Card, d \in Correction : card'[j] = d => card[j] = d \/ (j = k /\ to = d)
        /\ \A d \in Correction, j \in Card \ orphans :
              card'[j] = d /\ ~(j = k /\ to = d) =>
                 j \in IF call.c = d THEN call.entry.applied ELSE journal[d].applied
    BY <1>1, <1>2, <1>3, CardKeeps
  <1>5. Shape'
    BY <1>1, <1>4 DEF Correcting, Shape
  <1>6. Chain' /\ Journaled'
    BY <1>1, ChainFrame DEF Correcting, Journaled, Superseded
  <1>7. Final'
    BY <1>1, <1>4 DEF Correcting, Final, Superseded, Committed
  <1>8. Known'
    BY <1>1, <1>3, <1>4 DEF Known
  <1>9. Recording'
    <2>1. CASE call.at = "idle"
      BY <1>1, <2>1 DEF Recording
    <2>2. CASE call.at # "idle"
      <3>1. call.c \in Correction
        BY <2>2, Running
      <3>2. \A j \in Card : card'[j] = call.c => card[j] = call.c
        BY <1>3, <1>4, <3>1
      <3>3. \A j \in Card : Marked(j) => Marked(j)'
        BY <1>1, <1>4 DEF Marked
      <3>4. QED
        BY <1>1, <2>2, <3>2, <3>3 DEF Correcting, Recording, Superseded
    <2>3. QED
      BY <2>1, <2>2
  <1>10. QED
    BY <1>5, <1>6, <1>7, <1>8, <1>9 DEF Correcting

-----------------------------------------------------------------------------
(* An adapter raises, or a card refuses: the call turns back.                *)
LEMMA RaiseKeeps == ASSUME Correcting, Raise \/ BlockRefused PROVE Correcting'
  <1>1. /\ call.at \in Forwards /\ GoTo("raised") /\ call.at # "idle"
        /\ UNCHANGED <<journal, claim, superseded, card, mark, broker, orphans>>
    BY DEF Raise, BlockRefused, At, Forwards
  <1>2. /\ Goes("raised", call.entry, call.todo, call.card)
        /\ Shape' /\ Chain' /\ Journaled' /\ Final' /\ Known'
    BY <1>1, PlaceFrame DEF Steps
  <1>3. claim \in {call.c, PriorOf[call.c]}
    BY <1>1 DEF Correcting, Recording, Forwards
  <1>4. journal[call.c].state \notin {"none", "committed", "blocked"}
        /\ call.entry.prior = journal[call.c].prior
    BY <1>1, Running
  <1>5. Recording'
    BY <1>1, <1>2, <1>3, <1>4 DEF Recording, Goes, Forwards
  <1>6. QED
    BY <1>2, <1>5 DEF Correcting

(* After the withdrawal, or while it compensates, the call gives up.         *)
LEMMA GiveUpKeeps == ASSUME Correcting, WithdrawalUnread \/ CompensationRaises PROVE Correcting'
  <1>1. /\ call.at # "idle" /\ GoTo("giving up")
        /\ UNCHANGED <<journal, claim, superseded, card, mark, broker, orphans>>
    BY DEF WithdrawalUnread, CompensationRaises, NoWayBack, At
  <1>2. /\ Goes("giving up", call.entry, call.todo, call.card)
        /\ Shape' /\ Chain' /\ Journaled' /\ Final' /\ Known'
    BY <1>1, PlaceFrame DEF Steps
  <1>3. journal[call.c].state \notin {"none", "committed", "blocked"}
        /\ call.entry.prior = journal[call.c].prior
    BY <1>1, Running
  <1>4. Recording'
    BY <1>1, <1>2, <1>3 DEF Recording, Goes, Forwards
  <1>5. QED
    BY <1>2, <1>4 DEF Correcting

(* Every step keeps the invariant.                                           *)
LEMMA NextCorrecting == Correcting /\ [Next]_vars => Correcting'
  <1> SUFFICES ASSUME Correcting, [Next]_vars PROVE Correcting'
    OBVIOUS
  <1>1. ASSUME NEW c \in Correction, Begin(c) PROVE Correcting'
    BY <1>1, BeginKeeps
  <1>2. CASE Forward
    <2>1. CASE PrepareWithdrawal \/ SavePreparation \/ SaveApplying \/ ApplyClaim \/ Readback
      BY <2>1, PrepareWithdrawalKeeps, SavePreparationKeeps, SaveApplyingKeeps, ApplyClaimKeeps,
         ReadbackKeeps
    <2>2. CASE \E k \in Card : SkipImpact(k) \/ CommentImpact(k)
      BY <2>2, SkipKeeps, CommentKeeps
    <2>3. CASE BlockCard \/ BlockRefused \/ SaveImpact \/ CommitWithdrawal \/ SaveCommitted
      BY <2>3, BlockKeeps, RaiseKeeps, SaveImpactKeeps, CommitWithdrawalKeeps, SaveCommittedKeeps
    <2>4. QED
      BY <1>2, <2>1, <2>2, <2>3 DEF Forward
  <1>3. CASE Backward
    BY <1>3, CancelWithdrawalKeeps, RollbackKeeps, RestoreClaimKeeps, SaveUndoneKeeps DEF Backward
  <1>4. CASE Fault
    BY <1>4, RaiseKeeps, BlockRaisesKeeps, UnansweredKeeps, GiveUpKeeps DEF Fault
  <1>5. CASE Crash
    BY <1>5, CrashKeeps
  <1>6. ASSUME NEW k \in Card, MoveCard(k) PROVE Correcting'
    BY <1>6, MoveCardKeeps
  <1>7. CASE ReserveOperation
    BY <1>7, ReserveKeeps
  <1>8. CASE UNCHANGED vars
    <2>1. UNCHANGED <<journal, claim, superseded, card, mark, broker, call, orphans>>
      BY <1>8 DEF vars
    <2>2. Shape' /\ Chain' /\ Journaled'
      BY <2>1, ChainFrame DEF Correcting, Shape, Journaled, Superseded
    <2>3. Final' /\ Known' /\ Recording'
      BY <2>1 DEF Correcting, Final, Known, Recording, Superseded, Committed, Marked
    <2>4. QED
      BY <2>2, <2>3 DEF Correcting
  <1>9. QED
    BY <1>1, <1>2, <1>3, <1>4, <1>5, <1>6, <1>7, <1>8 DEF Next

(* Journal, authority, board and broker stay consistent, whatever raises or  *)
(* dies on the way (record, _compensate).                                    *)
THEOREM CorrectingInvariant == Spec => []Correcting
  BY InitCorrecting, NextCorrecting, PTL DEF Spec

(* Under the invariant the types are right.                                  *)
LEMMA CorrectingTypes == Correcting => TypeOK
  <1> SUFFICES ASSUME Correcting PROVE TypeOK
    OBVIOUS
  <1>1. NoEntry \in Entry
    BY DEF NoEntry, Entry, States
  <1>2. NoCall \in [at : Steps \cup {"idle"}, c : Correction \cup {None}, entry : Entry,
                    todo : SUBSET Card, card : Card \cup {None}]
    BY <1>1 DEF NoCall
  <1>3. call \in [at : Steps \cup {"idle"}, c : Correction \cup {None}, entry : Entry,
                  todo : SUBSET Card, card : Card \cup {None}]
    BY <1>2 DEF Correcting, Shape, Call
  <1>4. Steps \cup {"idle"} = Forwards \cup {"idle", "withdrawn", "raised", "compensating",
                                           "restored", "giving up"}
    BY DEF Steps
  <1>5. QED
    BY <1>3, <1>4 DEF Correcting, Shape, Journaled, TypeOK, Preps

(* Journal, authority, cards and broker keep their shape; what is applied    *)
(* can be restored.                                                          *)
THEOREM TypeCorrect == Spec => []TypeOK
  BY CorrectingInvariant, CorrectingTypes, PTL

(* A committed correction reached everything it was to reach, also after a   *)
(* crash between the withdrawal and the journal (record,                     *)
(* commit_approval_revocation).                                              *)
THEOREM CommittedReachedAll == Spec => []CommittedIsComplete
  <1>1. Correcting => CommittedIsComplete
    BY DEF Correcting, Chain, Final, CommittedIsComplete
  <1>2. QED
    BY <1>1, CorrectingInvariant, PTL

(* A withdrawal that is final is in the journal, or its call is about to write *)
(* it there, or it is an orphan.                                             *)
OnRecord(d) ==
    \/ d \in orphans
    \/ journal[d].state \in {"committed", "blocked"}
    \/ call.c = d /\ call.at \in {"withdrawn", "giving up"}
Irrevocable == \A d \in Correction : broker.prep[d] = "committed" => OnRecord(d)

LEMMA InitIrrevocable == Init => Irrevocable
  BY DEF Init, Irrevocable

(* Writes: the call writes the entry of its own record, which is then        *)
(* committed or blocked if its withdrawal is final and no orphan.            *)
LEMMA WriteOnRecord ==
  ASSUME Correcting, Irrevocable, call.at # "idle", NEW entry, Write(entry),
         call.at \in {"withdrawn", "giving up"} => entry.state \in {"committed", "blocked"},
         UNCHANGED <<broker, orphans>>
  PROVE  Irrevocable'
  <1>1. call.c \in Correction /\ journal \in [Correction -> Entry]
        /\ journal[call.c].state \notin {"committed", "blocked"}
    BY Running
  <1>2. journal'[call.c] = entry /\ \A d \in Correction \ {call.c} : journal'[d] = journal[d]
    BY <1>1 DEF Write
  <1>3. QED
    BY <1>1, <1>2 DEF Irrevocable, OnRecord

(* Other steps: the journal stays, and the call stays where it must write.   *)
LEMMA StayOnRecord ==
  ASSUME Irrevocable, UNCHANGED <<journal, broker>>, orphans \subseteq orphans',
         call.at \in {"withdrawn", "giving up"} =>
             call'.c = call.c /\ call'.at \in {"withdrawn", "giving up"}
  PROVE  Irrevocable'
  BY DEF Irrevocable, OnRecord

(* Every step keeps what is final on record.                                 *)
LEMMA NextIrrevocable == Correcting /\ Irrevocable /\ [Next]_vars => Irrevocable'
  <1> SUFFICES ASSUME Correcting, Irrevocable, [Next]_vars PROVE Irrevocable'
    OBVIOUS
  <1>0. ASSUME NEW at, GoTo(at), call.at # "idle" PROVE call'.at = at /\ call'.c = call.c
    BY <1>0, Running DEF GoTo, Call
  <1>1. ASSUME NEW c \in Correction, Begin(c) PROVE Irrevocable'
    <2>1. /\ call.at = "idle" /\ UNCHANGED <<broker, orphans>>
          /\ journal[c].state \notin {"committed", "blocked"}
          /\ \A d \in Correction \ {c} : journal'[d] = journal[d]
      BY <1>1 DEF Begin, At, Correcting, Shape
    <2>2. ASSUME NEW d \in Correction, broker.prep[d] = "committed" PROVE OnRecord(d)'
      <3>1. d \in orphans \/ journal[d].state \in {"committed", "blocked"}
        BY <2>1, <2>2 DEF Irrevocable, OnRecord
      <3>2. QED
        BY <2>1, <3>1 DEF OnRecord
    <2>3. QED
      BY <2>1, <2>2 DEF Irrevocable
  <1>2. CASE SavePreparation \/ SaveApplying \/ SaveImpact
    BY <1>2, WriteOnRecord DEF SavePreparation, SaveApplying, SaveImpact, Save, At
  <1>3. CASE SaveCommitted \/ SaveRolledBack \/ SaveBlocked
    <2>1. call.entry \in Entry
      BY <1>3, Running DEF SaveCommitted, SaveRolledBack, SaveBlocked, At
    <2>2. /\ [call.entry EXCEPT !.state = "committed"].state = "committed"
          /\ [call.entry EXCEPT !.state = "blocked"].state = "blocked"
      BY <2>1 DEF Entry
    <2>3. QED
      BY <1>3, <2>2, WriteOnRecord DEF SaveCommitted, SaveRolledBack, SaveBlocked, At
  <1>4. CASE PrepareWithdrawal \/ CancelWithdrawal
    <2>1. PICK c \in Correction : c = call.c
      BY <1>4, Running DEF PrepareWithdrawal, CancelWithdrawal, At
    <2>2. /\ call.at \in {"preparing", "raised"} /\ UNCHANGED <<journal, orphans>>
          /\ \/ UNCHANGED broker
             \/ \E p \in {"prepared", "cancelled"} : broker' = [broker EXCEPT !.prep[c] = p]
      BY <1>4, <2>1 DEF PrepareWithdrawal, CancelWithdrawal, At
    <2>3. \A d \in Correction : broker'.prep[d] = "committed" => broker.prep[d] = "committed"
      BY <2>2 DEF Correcting, Shape
    <2>4. QED
      BY <2>2, <2>3 DEF Irrevocable, OnRecord
  <1>5. CASE ReserveOperation
    <2>1. broker'.prep = broker.prep /\ UNCHANGED <<journal, call, orphans>>
      BY <1>5 DEF ReserveOperation, Correcting, Shape
    <2>2. QED
      BY <2>1 DEF Irrevocable, OnRecord
  <1>6. CASE CommitWithdrawal \/ WithdrawalUnanswered
    <2>1. PICK c \in Correction : c = call.c
      BY <1>6, Running DEF CommitWithdrawal, WithdrawalUnanswered, At
    <2>2. /\ call.at = "impacting" /\ journal' = journal
          /\ \/ UNCHANGED <<broker, orphans>>
             \/ Withdraw /\ orphans' = orphans /\ GoTo("withdrawn")
             \/ Withdraw /\ orphans' = orphans \cup {c}
      BY <1>6, <2>1 DEF CommitWithdrawal, WithdrawalUnanswered, At
    <2>3. Withdraw => \A d \in Correction \ {c} : broker'.prep[d] = broker.prep[d]
      BY <2>1 DEF Withdraw, Correcting, Shape
    <2>4. ASSUME NEW d \in Correction \ {c}, broker'.prep[d] = "committed" PROVE OnRecord(d)'
      BY <2>1, <2>2, <2>3, <2>4 DEF Irrevocable, OnRecord
    <2>5. ASSUME broker'.prep[c] = "committed" PROVE OnRecord(c)'
      <3>1. CASE UNCHANGED <<broker, orphans>>
        BY <2>1, <2>2, <2>5, <3>1 DEF Irrevocable, OnRecord
      <3>2. CASE GoTo("withdrawn")
        BY <1>0, <2>1, <2>2, <3>2 DEF OnRecord
      <3>3. CASE orphans' = orphans \cup {c}
        BY <3>3 DEF OnRecord
      <3>4. QED
        BY <2>2, <3>1, <3>2, <3>3
    <2>6. QED
      BY <2>4, <2>5 DEF Irrevocable
  <1>7. CASE Crash
    <2>1. PICK c \in Correction : c = call.c
      BY <1>7, Running DEF Crash, At
    <2>2. /\ UNCHANGED <<journal, broker>> /\ orphans \subseteq orphans'
          /\ broker.prep[c] = "committed" => c \in orphans'
      BY <1>7, <2>1 DEF Crash
    <2>3. QED
      BY <2>1, <2>2 DEF Irrevocable, OnRecord
  <1>8. CASE WithdrawalUnread \/ CompensationRaises
    <2>1. /\ call.at # "idle" /\ GoTo("giving up") /\ UNCHANGED <<journal, broker, orphans>>
      BY <1>8 DEF WithdrawalUnread, CompensationRaises, NoWayBack, At
    <2>2. QED
      BY <1>0, <2>1, StayOnRecord
  <1>9. CASE \/ ApplyClaim \/ Readback \/ BlockCard \/ BlockRefused \/ Raise \/ BlockRaises
             \/ RestoreClaim
             \/ \E k \in Card : SkipImpact(k) \/ CommentImpact(k) \/ RollbackImpact(k)
    BY <1>9, StayOnRecord DEF ApplyClaim, Readback, BlockCard, BlockRefused, Raise, BlockRaises,
       RestoreClaim, SkipImpact, CommentImpact, RollbackImpact, At, Forwards
  <1>10. CASE UNCHANGED vars \/ \E k \in Card : MoveCard(k)
    BY <1>10, StayOnRecord DEF vars, MoveCard
  <1>11. QED
    BY <1>1, <1>2, <1>3, <1>4, <1>5, <1>6, <1>7, <1>8, <1>9, <1>10 DEF Next, Forward, Backward, Fault

(* A withdrawal that is final is committed or blocked in the journal as soon *)
(* as its call has ended, unless the call died or lost the broker's answer   *)
(* before it wrote that (commit_withdrawal, the except clause of record).    *)
THEOREM WithdrawalOnRecord == Spec => []Irrevocable
  BY CorrectingInvariant, InitIrrevocable, NextIrrevocable, PTL DEF Spec

(* A correction that was rolled back has neither its claim in force, nor     *)
(* blocks on cards but those its call did not live to record, nor a final    *)
(* withdrawal, unless the call died or lost the broker's answer between the  *)
(* withdrawal and the journal (record, _compensate).                         *)
THEOREM RolledBackUndone == Spec => []RolledBackIsClean
  <1>1. ASSUME Correcting, Irrevocable, NEW c \in Correction, journal[c].state = "rolled_back",
               call.c # c
        PROVE  /\ claim # c /\ \A k \in Card \ orphans : card[k] # c
               /\ broker.prep[c] = "committed" => c \in orphans
    <2>1. ~Superseded(c) /\ journal[c].applied = {}
      BY <1>1 DEF Correcting, Journaled, Ran
    <2>2. QED
      BY <1>1, <2>1, Prior DEF Correcting, Known, Irrevocable, OnRecord
  <1>2. Correcting /\ Irrevocable => RolledBackIsClean
    BY <1>1, CorrectingTypes DEF RolledBackIsClean
  <1>3. QED
    BY <1>2, CorrectingInvariant, WithdrawalOnRecord, PTL
===============================================================================
