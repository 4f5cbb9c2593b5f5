--------------------------- MODULE SecureDropProofs ---------------------------
(***************************************************************************)
(* Proofs about SecureDrop, for every number of clients, janitors,         *)
(* destinations, claims and crashes.                                       *)
(***************************************************************************)
EXTENDS SecureDrop, FiniteSetTheorems, TLAPS

(* A call that is about to claim or to write has a destination.              *)
CallsNamed == \A p \in Process : call[p].at \in {"consuming", "holding"} => call[p].path \in Path

Shape == TypeOK /\ CallsNamed

LEMMA NoCallTyped == NoCall \in Call
  BY DEF NoCall, Call, Stages

(* What becomes of the calls when one of them changes, ends, or goes on.       *)
LEMMA CallBecomes ==
  ASSUME Shape, NEW p \in Process, NEW x \in Call,
         x.at \in {"consuming", "holding"} => x.path \in Path,
         call' = [call EXCEPT ![p] = x]
  PROVE  call' \in [Process -> Call] /\ CallsNamed'
  <1>1. call \in [Process -> Call] /\ CallsNamed
    BY DEF Shape, TypeOK
  <1>2. QED
    BY <1>1 DEF CallsNamed

LEMMA CallEnds ==
  ASSUME Shape, NEW p \in Process, End(p)
  PROVE  call' \in [Process -> Call] /\ CallsNamed'
  <1>1. NoCall.at \notin {"consuming", "holding"}
    BY DEF NoCall
  <1>2. QED
    BY <1>1, NoCallTyped, CallBecomes DEF End

LEMMA CallGoesOn ==
  ASSUME Shape, NEW p \in Process, NEW s \in Stages \ {"consuming", "holding"}, GoTo(p, s)
  PROVE  call' \in [Process -> Call] /\ CallsNamed'
  <1> DEFINE x == [call[p] EXCEPT !.at = s]
  <1>1. call' = [call EXCEPT ![p] = x]
    BY DEF GoTo
  <1>2. x \in Call /\ x.at = s
    BY DEF Shape, TypeOK, Call
  <1> HIDE DEF x
  <1>3. QED
    BY <1>1, <1>2, CallBecomes

(* The row is one of a drop in its first state.                              *)
LEMMA InitShape == Init => Shape
  <1> SUFFICES ASSUME Init PROVE Shape
    OBVIOUS
  <1>1. call \in [Process -> Call]
    BY NoCallTyped DEF Init
  <1>2. CallsNamed
    BY DEF Init, CallsNamed, NoCall
  <1>3. state \in States /\ state \notin Wiped
    BY DEF Init, States, Wiped
  <1>4. QED
    BY <1>1, <1>2, <1>3 DEF Init, Shape, TypeOK

(* Wiping a drop leaves a well-formed row.                                   *)
LEMMA FinalizeShape ==
  ASSUME Shape, Finalize
  PROVE  /\ state' \in States /\ token' \in BOOLEAN /\ claim' \in Nat
         /\ destination' \in Path \cup {None} /\ claims' = claims
         /\ outbox' \in {"none", "queued", "delivered"}
         /\ state' \in Wiped
         /\ state' = "consumed" => claim' = 0 /\ destination' = None
         /\ ~token' /\ outbox' = "none"
  <1>1. CASE state = "deleted"
    BY <1>1 DEF Finalize, drop, Shape, TypeOK, States, Wiped
  <1>2. CASE state # "deleted"
    <2>1. /\ state' = "consumed" /\ claim' = 0 /\ destination' = None
          /\ outbox' = "none" /\ claims' = claims
      BY <1>2 DEF Finalize
    <2>2. token' \in BOOLEAN /\ ~token'
      BY <1>2 DEF Finalize
    <2>3. QED
      BY <2>1, <2>2 DEF States, Wiped
  <1>3. QED
    BY <1>1, <1>2

(* Every step leaves a well-formed state, with calls that name destinations. *)
LEMMA ShapeStep == Shape /\ [Next]_vars => Shape'
  <1> SUFFICES ASSUME Shape, [Next]_vars PROVE Shape'
    OBVIOUS
  <1> USE ConstantsAssumption
  <1>p. Client \subseteq Process /\ Janitor \subseteq Process
    BY DEF Process
  <1>s. Stages = {"idle", "clearing", "flushing", "flushed", "revealing", "consuming",
                  "holding", "failing", "misplaced", "delivered",
                  "recovering", "verified", "stale", "cleaning", "unlinking"}
    BY DEF Stages
  <1>1. ASSUME NEW p \in Client, Submit(p) PROVE Shape'
    <2>1. call' \in [Process -> Call] /\ CallsNamed'
      BY <1>1, <1>p, <1>s, CallEnds, CallGoesOn DEF Submit, Shape, TypeOK, CallsNamed
    <2>2. QED
      BY <1>1, <2>1 DEF Submit, Shape, TypeOK, clock, store, history, States, Wiped
  <1>2. ASSUME NEW p \in Client, ClearToken(p) PROVE Shape'
    BY ZenonT(60), <1>2, <1>p, CallEnds, CallGoesOn DEF ClearToken, Shape, TypeOK, clock, store, history, Wiped
  <1>3. ASSUME NEW p \in Client, FlushRead(p) PROVE Shape'
    BY <1>3, <1>p, <1>s, CallEnds, CallGoesOn DEF FlushRead, Shape, TypeOK, drop, clock, store, history
  <1>4. ASSUME NEW p \in Client, FlushWrite(p) PROVE Shape'
    BY <1>4, <1>p, <1>s, CallEnds, CallGoesOn DEF FlushWrite, Shape, TypeOK, drop, clock, history
  <1>5. ASSUME NEW p \in Client, FlushAcknowledge(p) PROVE Shape'
    BY ZenonT(60), <1>5, <1>p, CallEnds, CallGoesOn DEF FlushAcknowledge, Shape, TypeOK, clock, store, history, Wiped
  <1>6. ASSUME NEW p \in Client, Take(p) PROVE Shape'
    BY <1>6, <1>p, <1>s, CallEnds, CallGoesOn, FinalizeShape
       DEF Take, Shape, TypeOK, clock, store, history, Wiped
  <1>7. ASSUME NEW p \in Client, Reveal(p) PROVE Shape'
    BY <1>7, <1>p, CallEnds, CallGoesOn DEF Reveal, Shape, TypeOK, drop, clock, store
  <1>8. ASSUME NEW p \in Client, NEW path \in Path, ConsumeLookup(p, path) PROVE Shape'
    <2> DEFINE x == [call[p] EXCEPT !.at = "consuming", !.path = path]
    <2>1. x \in Call /\ x.path \in Path
      BY ZenonT(60), <1>p, <1>s DEF Shape, TypeOK, Call
    <2>2. call' \in [Process -> Call] /\ CallsNamed'
      <3>1. call' = [call EXCEPT ![p] = x]
        BY <1>8, <1>p DEF ConsumeLookup, Shape, TypeOK
      <3> HIDE DEF x
      <3>2. QED
        BY <1>p, <2>1, <3>1, CallBecomes
    <2>3. QED
      BY <1>8, <2>2 DEF ConsumeLookup, Shape, TypeOK, drop, clock, store, history
  <1>9. ASSUME NEW p \in Client, ConsumeClaim(p) PROVE Shape'
    <2>1. CASE ~Available
      BY <1>9, <1>p, <2>1, CallEnds, CallGoesOn
         DEF ConsumeClaim, Shape, TypeOK, clock, store, history
    <2>2. CASE Available
      <3> DEFINE x == [call[p] EXCEPT !.at = "holding", !.claim = claims + 1]
      <3>1. call[p] \in Call /\ call[p].path \in Path
        BY <1>9, <1>p DEF ConsumeClaim, At, Shape, TypeOK, CallsNamed
      <3>2. x \in Call /\ x.path \in Path
        <4>1. claims + 1 \in Nat /\ "holding" \in Stages
          BY <1>s DEF Shape, TypeOK
        <4>2. [call[p] EXCEPT !.at = "holding"] \in Call
              /\ [call[p] EXCEPT !.at = "holding"].path = call[p].path
          BY <3>1, <4>1 DEF Call
        <4>3. QED
          BY <3>1, <4>1, <4>2 DEF Call
      <3>3. call' = [call EXCEPT ![p] = x]
        BY <1>9, <1>p, <2>2 DEF ConsumeClaim, Shape, TypeOK
      <3>4. call' \in [Process -> Call] /\ CallsNamed'
        <4> HIDE DEF x
        <4>1. QED
          BY <1>p, <3>2, <3>3, CallBecomes
      <3>5. QED
        BY <1>9, <2>2, <3>1, <3>4
           DEF ConsumeClaim, Shape, TypeOK, clock, store, history, States, Wiped
    <2>3. QED
      BY <2>1, <2>2
  <1>10. ASSUME NEW p \in Client, At(p, "holding"), Deliver(p),
                GoTo(p, "delivered") \/ GoTo(p, "misplaced") PROVE Shape'
    <2>1. call[p].path \in Path
      BY <1>10, <1>p DEF At, Shape, CallsNamed
    <2>2. QED
      BY <1>10, <1>p, <1>s, <2>1, CallEnds, CallGoesOn DEF Deliver, Shape, TypeOK, drop, clock
  <1>11. ASSUME NEW p \in Client, WriteRaises(p) PROVE Shape'
    BY <1>11, <1>p, <1>s, CallEnds, CallGoesOn DEF WriteRaises, Shape, TypeOK, drop, clock, store, history
  <1>12. ASSUME NEW p \in Client, Unclaim(p) PROVE Shape'
    BY <1>12, <1>p, CallEnds, CallGoesOn
       DEF Unclaim, Mine, Reopen, Shape, TypeOK, drop, clock, store, States, Wiped
  <1>13. ASSUME NEW p \in Client, ConsumeFinalize(p) PROVE Shape'
    <2>1. CASE Mine(p)
      BY <1>13, <1>p, <2>1, CallEnds, CallGoesOn, FinalizeShape
         DEF ConsumeFinalize, Shape, TypeOK, clock, store, history, Wiped
    <2>2. CASE ~Mine(p)
      BY <1>13, <1>p, <2>2, CallEnds, CallGoesOn
         DEF ConsumeFinalize, Shape, TypeOK, drop, clock, store, history
    <2>3. QED
      BY <2>1, <2>2
  <1>14. ASSUME NEW p \in Client, FinalizeRaises(p) PROVE Shape'
    BY <1>14, <1>p, CallEnds, CallGoesOn DEF FinalizeRaises, Shape, TypeOK, drop, clock, store, history
  <1>15. ASSUME NEW j \in Janitor, RecoverRead(j) PROVE Shape'
    <2> DEFINE x == [call[j] EXCEPT !.at = "recovering", !.claim = claim, !.path = destination]
    <2>1. x \in Call /\ x.at = "recovering"
      BY <1>p, <1>s DEF Shape, TypeOK, Call
    <2>2. call' \in [Process -> Call] /\ CallsNamed'
      <3>1. call' = [call EXCEPT ![j] = x]
        BY <1>15, <1>p DEF RecoverRead, Shape, TypeOK
      <3> HIDE DEF x
      <3>2. QED
        BY <1>p, <2>1, <3>1, CallBecomes
    <2>3. QED
      BY <1>15, <2>2 DEF RecoverRead, Shape, TypeOK, drop, clock, store, history
  <1>16. ASSUME NEW j \in Janitor, RecoverCheck(j) PROVE Shape'
    <2>1. call' \in [Process -> Call] /\ CallsNamed'
      BY <1>16, <1>p, <1>s, CallEnds, CallGoesOn DEF RecoverCheck
    <2>2. QED
      BY <1>16, <2>1 DEF RecoverCheck, Shape, TypeOK, drop, clock, store, history
  <1>17. ASSUME NEW j \in Janitor, RecoverFinalize(j) PROVE Shape'
    BY <1>17, <1>p, CallEnds, CallGoesOn, FinalizeShape
       DEF RecoverFinalize, Shape, TypeOK, clock, store, history, Wiped
  <1>18. ASSUME NEW j \in Janitor, RecoverRelease(j) PROVE Shape'
    BY <1>18, <1>p, CallEnds, CallGoesOn
       DEF RecoverRelease, Releasable, Reopen, Shape, TypeOK, drop, clock, store, States, Wiped
  <1>19. ASSUME NEW j \in Janitor, CleanupSelect(j) PROVE Shape'
    <2> DEFINE x == [call[j] EXCEPT !.at = "cleaning", !.listed = Removable]
    <2>1. x \in Call /\ x.at = "cleaning"
      BY <1>p, <1>s DEF Shape, TypeOK, Call, Removable
    <2>2. call' \in [Process -> Call] /\ CallsNamed'
      <3>1. call' = [call EXCEPT ![j] = x]
        BY <1>19, <1>p DEF CleanupSelect, Shape, TypeOK
      <3> HIDE DEF x
      <3>2. QED
        BY <1>p, <2>1, <3>1, CallBecomes
    <2>3. QED
      BY <1>19, <2>2 DEF CleanupSelect, Shape, TypeOK, drop, clock, store, history
  <1>20. ASSUME NEW j \in Janitor, CleanupDelete(j) PROVE Shape'
    BY ZenonT(60), <1>20, <1>p, <1>s, CallEnds, CallGoesOn
       DEF CleanupDelete, Removable, Shape, TypeOK, clock, store, history, States, Wiped
  <1>21. ASSUME NEW j \in Janitor, CleanupUnlink(j) PROVE Shape'
    BY <1>21, <1>p, CallEnds, CallGoesOn DEF CleanupUnlink, Shape, TypeOK, drop, clock, history
  <1>22. ASSUME NEW p \in Process, Crash(p) PROVE Shape'
    BY <1>22, CallEnds, CallGoesOn DEF Crash, Shape, TypeOK, drop, clock, store
  <1>23. CASE Revoke
    BY <1>23 DEF Revoke, Shape, TypeOK, CallsNamed, clock, store, history, States, Wiped
  <1>24. CASE Expire
    BY <1>24 DEF Expire, Shape, TypeOK, CallsNamed, drop, store, history
  <1>25. ASSUME NEW c \in 1 .. MaxClaims, Age(c) PROVE Shape'
    BY <1>25 DEF Age, Shape, TypeOK, CallsNamed, drop, store, history
  <1>26. CASE UNCHANGED vars
    BY <1>26 DEF vars, Shape, TypeOK, CallsNamed, drop, clock, store, history
  <1>27. QED
    BY <1>1, <1>2, <1>3, <1>4, <1>5, <1>6, <1>7, <1>8, <1>9, <1>10, <1>11, <1>12, <1>13,
       <1>14, <1>15, <1>16, <1>17, <1>18, <1>19, <1>20, <1>21, <1>22, <1>23, <1>24, <1>25,
       <1>26
    DEF Next, Intake, Begin, Proceed, Recover, Cleanup, WriteFile, WriteRaisesLate

(* Every column keeps its type, and a claimed row names its claim and its      *)
(* destination, an unclaimed one neither, a wiped one keeps no link.           *)
THEOREM TypeCorrect == Spec => []TypeOK
  <1>1. Spec => []Shape
    BY InitShape, ShapeStep, PTL DEF Spec
  <1>2. Shape => TypeOK
    BY DEF Shape
  <1>3. QED
    BY <1>1, <1>2, PTL

-----------------------------------------------------------------------------
(* A drop that is wiped stays wiped.                                         *)
LEMMA WipedStep ==
  [Next]_vars => /\ state \in Wiped => state' \in Wiped
                 /\ state = "deleted" => state' = "deleted"
  <1> SUFFICES ASSUME [Next]_vars, state \in Wiped
               PROVE  state' \in Wiped /\ (state = "deleted" => state' = "deleted")
    BY DEF Wiped
  <1>1. ASSUME Finalize PROVE state' \in Wiped /\ (state = "deleted" => state' = "deleted")
    BY <1>1 DEF Finalize, drop, Wiped
  <1>2. ASSUME NEW p \in Client, Intake(p)
        PROVE  state' \in Wiped /\ (state = "deleted" => state' = "deleted")
    BY <1>2 DEF Intake, Submit, ClearToken, FlushRead, FlushWrite, FlushAcknowledge, drop, Wiped
  <1>3. ASSUME NEW p \in Client, Begin(p)
        PROVE  state' \in Wiped /\ (state = "deleted" => state' = "deleted")
    BY <1>3 DEF Begin, Take, Available, ConsumeLookup, Wiped
  <1>4. ASSUME NEW p \in Client, Proceed(p)
        PROVE  state' \in Wiped /\ (state = "deleted" => state' = "deleted")
    <2>1. CASE ConsumeFinalize(p)
      BY <1>1, <2>1 DEF ConsumeFinalize, drop, Wiped
    <2>2. CASE Unclaim(p)
      BY <2>2 DEF Unclaim, Mine, drop, Wiped
    <2>3. CASE ConsumeClaim(p)
      BY <2>3 DEF ConsumeClaim, Available, Wiped
    <2>4. CASE Reveal(p) \/ WriteFile(p) \/ WriteRaisesLate(p) \/ WriteRaises(p) \/ FinalizeRaises(p)
      BY <2>4 DEF Reveal, WriteFile, WriteRaisesLate, Deliver, WriteRaises, FinalizeRaises, drop, Wiped
    <2>5. QED
      BY <1>4, <2>1, <2>2, <2>3, <2>4 DEF Proceed
  <1>5. ASSUME NEW j \in Janitor, Recover(j)
        PROVE  state' \in Wiped /\ (state = "deleted" => state' = "deleted")
    <2>1. CASE RecoverFinalize(j)
      BY <1>1, <2>1 DEF RecoverFinalize
    <2>2. CASE RecoverRelease(j)
      BY <2>2 DEF RecoverRelease, Releasable, drop, Wiped
    <2>3. CASE RecoverRead(j) \/ RecoverCheck(j)
      BY <2>3 DEF RecoverRead, RecoverCheck, drop, Wiped
    <2>4. QED
      BY <1>5, <2>1, <2>2, <2>3 DEF Recover
  <1>6. ASSUME NEW j \in Janitor, Cleanup(j)
        PROVE  state' \in Wiped /\ (state = "deleted" => state' = "deleted")
    BY <1>6 DEF Cleanup, CleanupSelect, CleanupDelete, CleanupUnlink, drop, Wiped
  <1>7. ASSUME NEW p \in Process, Crash(p)
        PROVE  state' \in Wiped /\ (state = "deleted" => state' = "deleted")
    BY <1>7 DEF Crash, drop
  <1>8. CASE Revoke
    BY <1>8 DEF Revoke, Wiped
  <1>9. CASE Expire
    BY <1>9 DEF Expire, drop
  <1>10. ASSUME NEW c \in 1 .. MaxClaims, Age(c)
         PROVE  state' \in Wiped /\ (state = "deleted" => state' = "deleted")
    BY <1>10 DEF Age, drop
  <1>11. CASE UNCHANGED vars
    BY <1>11 DEF vars, drop
  <1>12. QED
    BY <1>2, <1>3, <1>4, <1>5, <1>6, <1>7, <1>8, <1>9, <1>10, <1>11 DEF Next

(* Whatever a recovery, an unclaim or a finalization that began before it still *)
(* does, a wiped drop never becomes readable again.                             *)
THEOREM WipedForGood == Spec => WipedStaysWiped
  <1>1. [Next]_vars => [/\ state \in Wiped => state' \in Wiped
                        /\ state = "deleted" => state' = "deleted"]_vars
    BY WipedStep
  <1>2. QED
    BY <1>1, PTL DEF Spec, WipedStaysWiped

-----------------------------------------------------------------------------
(* The calls that hold the plaintext.                                          *)

HolderStages == {"revealing", "holding", "failing"}

(* A change of one call adds that call to the holders, or takes it away.       *)
LEMMA HoldersChange ==
  ASSUME Shape, NEW p \in Process, NEW x \in Call, call' = [call EXCEPT ![p] = x]
  PROVE  Holders' = IF p \in Client /\ x.at \in HolderStages THEN Holders \cup {p}
                                                            ELSE Holders \ {p}
  <1>1. call \in [Process -> Call] /\ Client \subseteq Process
    BY DEF Shape, TypeOK, Process
  <1>2. call'[p] = x /\ \A q \in Process \ {p} : call'[q] = call[q]
    BY <1>1
  <1>3. ASSUME NEW q PROVE q \in Holders' <=> q \in Client /\ call'[q].at \in HolderStages
    BY DEF Holders, HolderStages
  <1>4. ASSUME NEW q PROVE q \in Holders <=> q \in Client /\ call[q].at \in HolderStages
    BY DEF Holders, HolderStages
  <1>5. QED
    BY <1>1, <1>2, <1>3, <1>4

LEMMA HoldersGoOn ==
  ASSUME Shape, NEW p \in Process, NEW s \in Stages, GoTo(p, s)
  PROVE  Holders' = IF p \in Client /\ s \in HolderStages THEN Holders \cup {p} ELSE Holders \ {p}
  <1> DEFINE x == [call[p] EXCEPT !.at = s]
  <1>1. call' = [call EXCEPT ![p] = x]
    BY DEF GoTo
  <1>2. x \in Call /\ x.at = s
    BY DEF Shape, TypeOK, Call
  <1> HIDE DEF x
  <1>3. QED
    BY <1>1, <1>2, HoldersChange

LEMMA HoldersEnd ==
  ASSUME Shape, NEW p \in Process, End(p)
  PROVE  Holders' = Holders \ {p}
  BY NoCallTyped, HoldersChange DEF End, NoCall, HolderStages

-----------------------------------------------------------------------------
(* What a step does to the copies of the plaintext.                            *)

Obtained(p) == Available /\ state' # "submitted" /\ state' # "open"
               /\ Holders' = Holders \cup {p} /\ UNCHANGED <<disclosed, lost>>

Disclosed(p) == p \in Holders /\ Holders' = Holders \ {p}
                /\ disclosed' = disclosed + 1 /\ UNCHANGED <<lost, state>>

GivenBack(p) == p \in Holders /\ Holders' = Holders \ {p} /\ UNCHANGED <<disclosed, lost>>

Lost == Holders' \subseteq Holders /\ lost' = lost + 1 /\ UNCHANGED disclosed

Quiet == Holders' \subseteq Holders /\ UNCHANGED <<disclosed, lost>>
         /\ (state' \in {"open", "submitted"} => state \in {"open", "submitted"})

(* There are no other steps than these.                                        *)
LEMMA CopySteps ==
  ASSUME Shape, [Next]_vars
  PROVE  (\E p \in Client : Obtained(p) \/ Disclosed(p) \/ GivenBack(p)) \/ Lost \/ Quiet
  <1> DEFINE Goal == (\E p \in Client : Obtained(p) \/ Disclosed(p) \/ GivenBack(p)) \/ Lost \/ Quiet
  <1>p. Client \subseteq Process /\ Janitor \subseteq Process /\ Client \cap Janitor = {}
    BY ConstantsAssumption DEF Process
  <1>s. /\ Stages = {"idle", "clearing", "flushing", "flushed", "revealing", "consuming",
                     "holding", "failing", "misplaced", "delivered",
                     "recovering", "verified", "stale", "cleaning", "unlinking"}
        /\ HolderStages = {"revealing", "holding", "failing"}
    BY DEF Stages, HolderStages
  <1>e. ASSUME NEW p \in Process, End(p) PROVE Holders' \subseteq Holders
    BY <1>e, HoldersEnd
  <1>g. ASSUME NEW p \in Process, NEW s \in Stages \ HolderStages, GoTo(p, s)
        PROVE  Holders' \subseteq Holders
    BY <1>g, HoldersGoOn
  <1>j. ASSUME NEW j \in Janitor, NEW x \in Call, call' = [call EXCEPT ![j] = x]
        PROVE  Holders' \subseteq Holders
    BY <1>j, <1>p, HoldersChange
  <1>h. ASSUME NEW p \in Client, call[p].at \in HolderStages PROVE p \in Holders
    BY <1>h DEF Holders, HolderStages
  <1>c. ASSUME UNCHANGED call PROVE Holders' = Holders
    BY <1>c DEF Holders
  <1>f. ASSUME Finalize PROVE state' \in {"open", "submitted"} => state \in {"open", "submitted"}
    BY <1>f DEF Finalize, drop
  <1>1. ASSUME NEW p \in Client, Submit(p) PROVE Quiet
    <2>1. Holders' \subseteq Holders
      BY <1>1, <1>c, <1>g, <1>p, <1>s DEF Submit
    <2>2. QED
      BY <1>1, <2>1 DEF Submit, Quiet, history
  <1>2. ASSUME NEW p \in Client, ClearToken(p) PROVE Quiet
    BY <1>2, <1>e, <1>p DEF ClearToken, Quiet, history
  <1>3. ASSUME NEW p \in Client, FlushRead(p) PROVE Quiet
    BY <1>3, <1>g, <1>p, <1>s DEF FlushRead, Quiet, history, drop
  <1>4. ASSUME NEW p \in Client, FlushWrite(p) PROVE Quiet
    BY <1>4, <1>g, <1>p, <1>s DEF FlushWrite, Quiet, history, drop
  <1>5. ASSUME NEW p \in Client, FlushAcknowledge(p) PROVE Quiet
    BY <1>5, <1>e, <1>p DEF FlushAcknowledge, Quiet, history
  <1>6. ASSUME NEW p \in Client, Take(p) PROVE Obtained(p)
    <2>1. Holders' = Holders \cup {p}
      BY <1>6, <1>p, <1>s, HoldersGoOn DEF Take
    <2>2. state' = "consumed"
      BY <1>6 DEF Take, Available, Finalize
    <2>3. QED
      BY <1>6, <2>1, <2>2 DEF Take, Obtained, history
  <1>7. ASSUME NEW p \in Client, Reveal(p) PROVE Disclosed(p)
    BY <1>7, <1>h, <1>p, <1>s, HoldersEnd DEF Reveal, At, Disclosed, drop
  <1>8. ASSUME NEW p \in Client, NEW path \in Path, ConsumeLookup(p, path) PROVE Quiet
    <2> DEFINE x == [call[p] EXCEPT !.at = "consuming", !.path = path]
    <2>1. x \in Call /\ x.at = "consuming"
      BY <1>p, <1>s DEF Shape, TypeOK, Call
    <2>2. call' = [call EXCEPT ![p] = x]
      BY <1>8, <1>p DEF ConsumeLookup
    <2>3. Holders' \subseteq Holders
      <3> HIDE DEF x
      <3>1. QED
        BY <1>p, <1>s, <2>1, <2>2, HoldersChange
    <2>4. QED
      BY <1>8, <2>3 DEF ConsumeLookup, Quiet, history, drop
  <1>9. ASSUME NEW p \in Client, ConsumeClaim(p) PROVE Obtained(p) \/ Quiet
    <2>1. CASE ~Available
      BY <1>9, <2>1, <1>e, <1>p DEF ConsumeClaim, Quiet, history
    <2>2. CASE Available
      <3> DEFINE x == [call[p] EXCEPT !.at = "holding", !.claim = claims + 1]
      <3>1. claims + 1 \in Nat /\ "holding" \in Stages
        BY <1>s DEF Shape, TypeOK
      <3>2. [call[p] EXCEPT !.at = "holding"] \in Call
            /\ [call[p] EXCEPT !.at = "holding"].at = "holding"
        BY <1>p, <3>1 DEF Call, Shape, TypeOK
      <3>3. x \in Call /\ x.at = "holding"
        BY <3>1, <3>2 DEF Call
      <3>4. call' = [call EXCEPT ![p] = x]
        BY <1>9, <1>p, <2>2 DEF ConsumeClaim
      <3>5. Holders' = Holders \cup {p}
        <4> HIDE DEF x
        <4>1. QED
          BY <1>p, <1>s, <3>3, <3>4, HoldersChange
      <3>6. QED
        BY <1>9, <2>2, <3>5 DEF ConsumeClaim, Obtained, history
    <2>3. QED
      BY <2>1, <2>2
  <1>10. ASSUME NEW p \in Client, At(p, "holding"), Deliver(p),
                GoTo(p, "delivered") \/ GoTo(p, "misplaced") PROVE Disclosed(p)
    <2>1. Holders' = Holders \ {p}
      BY <1>10, <1>p, <1>s, HoldersGoOn
    <2>2. QED
      BY <1>10, <1>h, <1>s, <2>1 DEF At, Deliver, Disclosed, drop
  <1>11. ASSUME NEW p \in Client, WriteRaises(p) PROVE Quiet
    <2>1. Holders' = Holders \cup {p} /\ p \in Holders
      BY <1>11, <1>h, <1>p, <1>s, HoldersGoOn DEF WriteRaises, At
    <2>2. QED
      BY <1>11, <2>1 DEF WriteRaises, Quiet, history, drop
  <1>12. ASSUME NEW p \in Client, Unclaim(p) PROVE GivenBack(p) \/ Lost \/ Quiet
    <2>1. Holders' = Holders \ {p} /\ disclosed' = disclosed
      BY <1>12, <1>p, HoldersEnd DEF Unclaim
    <2>2. CASE ~Mine(p)
      BY <1>12, <2>1, <2>2 DEF Unclaim, Quiet, drop
    <2>3. CASE Mine(p) /\ At(p, "misplaced")
      BY <1>12, <2>1, <2>3 DEF Unclaim, Lost
    <2>4. CASE Mine(p) /\ ~At(p, "misplaced")
      BY <1>12, <1>h, <1>s, <2>1, <2>4 DEF Unclaim, At, GivenBack
    <2>5. QED
      BY <2>2, <2>3, <2>4
  <1>13. ASSUME NEW p \in Client, ConsumeFinalize(p) PROVE Quiet
    BY <1>13, <1>e, <1>f, <1>p DEF ConsumeFinalize, Quiet, history, drop
  <1>14. ASSUME NEW p \in Client, FinalizeRaises(p) PROVE Quiet
    BY <1>14, <1>e, <1>p DEF FinalizeRaises, Quiet, history, drop
  <1>15. ASSUME NEW j \in Janitor, RecoverRead(j) PROVE Quiet
    <2> DEFINE x == [call[j] EXCEPT !.at = "recovering", !.claim = claim, !.path = destination]
    <2>1. x \in Call
      BY <1>p, <1>s DEF Shape, TypeOK, Call
    <2>2. call' = [call EXCEPT ![j] = x]
      BY <1>15, <1>p DEF RecoverRead
    <2>3. Holders' \subseteq Holders
      <3> HIDE DEF x
      <3>1. QED
        BY <1>j, <2>1, <2>2
    <2>4. QED
      BY <1>15, <2>3 DEF RecoverRead, Quiet, history, drop
  <1>16. ASSUME NEW j \in Janitor, RecoverCheck(j) PROVE Quiet
    BY <1>16, <1>e, <1>g, <1>p, <1>s DEF RecoverCheck, Quiet, history, drop
  <1>17. ASSUME NEW j \in Janitor, RecoverFinalize(j) PROVE Quiet
    BY <1>17, <1>e, <1>f, <1>p DEF RecoverFinalize, Quiet, history
  <1>18. ASSUME NEW j \in Janitor, RecoverRelease(j) PROVE Lost \/ Quiet
    BY <1>18, <1>e, <1>p DEF RecoverRelease, Lost, Quiet, drop
  <1>19. ASSUME NEW j \in Janitor, CleanupSelect(j) PROVE Quiet
    <2> DEFINE x == [call[j] EXCEPT !.at = "cleaning", !.listed = Removable]
    <2>1. x \in Call
      BY ZenonT(60), <1>p, <1>s DEF Shape, TypeOK, Call, Removable
    <2>2. call' = [call EXCEPT ![j] = x]
      BY <1>19, <1>p DEF CleanupSelect
    <2>3. Holders' \subseteq Holders
      <3> HIDE DEF x
      <3>1. QED
        BY <1>j, <2>1, <2>2
    <2>4. QED
      BY <1>19, <2>3 DEF CleanupSelect, Quiet, history, drop
  <1>20. ASSUME NEW j \in Janitor, CleanupDelete(j) PROVE Quiet
    BY <1>20, <1>g, <1>p, <1>s DEF CleanupDelete, Quiet, history
  <1>21. ASSUME NEW j \in Janitor, CleanupUnlink(j) PROVE Quiet
    BY <1>21, <1>e, <1>p DEF CleanupUnlink, Quiet, history, drop
  <1>22. ASSUME NEW p \in Process, Crash(p) PROVE Quiet
    BY <1>22, <1>e DEF Crash, Quiet, drop
  <1>23. CASE Revoke \/ Expire \/ (\E c \in 1 .. MaxClaims : Age(c)) \/ UNCHANGED vars
    <2>1. Holders' = Holders
      BY <1>23, <1>c DEF Revoke, Expire, Age, vars
    <2>2. QED
      BY <1>23, <2>1 DEF Revoke, Expire, Age, vars, Quiet, drop, history
  <1>24. QED
    BY <1>1, <1>2, <1>3, <1>4, <1>5, <1>6, <1>7, <1>8, <1>9, <1>10, <1>11, <1>12, <1>13,
       <1>14, <1>15, <1>16, <1>17, <1>18, <1>19, <1>20, <1>21, <1>22, <1>23
    DEF Next, Intake, Begin, Proceed, Recover, Cleanup, WriteFile, WriteRaisesLate

(* Each of them keeps the balance of copies, claims given back and the state.  *)
LEMMA CopiesStep == Shape /\ CopiesAccounted /\ [Next]_vars => CopiesAccounted'
  <1> SUFFICES ASSUME Shape, CopiesAccounted, [Next]_vars PROVE CopiesAccounted'
    OBVIOUS
  <1> DEFINE Share(s) == IF s \in {"open", "submitted"} THEN 0 ELSE 1
  <1>1. /\ IsFiniteSet(Holders) /\ Cardinality(Holders) \in Nat
        /\ disclosed \in Nat /\ lost \in Nat
        /\ disclosed + Cardinality(Holders) <= lost + Share(state)
    <2>1. Holders \subseteq Client
      BY DEF Holders
    <2>2. QED
      BY <2>1, ConstantsAssumption, FS_Subset, FS_CardinalityType DEF Shape, TypeOK, CopiesAccounted
  <1>2. ASSUME Holders' \subseteq Holders
        PROVE  Cardinality(Holders') \in Nat /\ Cardinality(Holders') <= Cardinality(Holders)
    BY <1>1, <1>2, FS_Subset, FS_CardinalityType
  <1>3. ASSUME NEW p \in Holders, Holders' = Holders \ {p}
        PROVE  Cardinality(Holders') = Cardinality(Holders) - 1
    BY <1>1, <1>3, FS_RemoveElement
  <1>4. ASSUME NEW p, Holders' = Holders \cup {p}
        PROVE  Cardinality(Holders') \in Nat /\ Cardinality(Holders') <= Cardinality(Holders) + 1
    <2>1. CASE p \in Holders
      <3>1. Holders' = Holders
        BY <1>4, <2>1
      <3>2. QED
        BY <1>1, <3>1
    <2>2. CASE p \notin Holders
      BY <1>1, <1>4, <2>2, FS_AddElement
    <2>3. QED
      BY <2>1, <2>2
  <1>5. ASSUME NEW p \in Client, Obtained(p) PROVE CopiesAccounted'
    BY <1>1, <1>4, <1>5 DEF Obtained, Available, CopiesAccounted
  <1>6. ASSUME NEW p \in Client, Disclosed(p) PROVE CopiesAccounted'
    <2>1. Cardinality(Holders') = Cardinality(Holders) - 1
      BY <1>3, <1>6 DEF Disclosed
    <2>2. QED
      BY <1>1, <1>6, <2>1 DEF Disclosed, CopiesAccounted
  <1>7. ASSUME NEW p \in Client, GivenBack(p) PROVE CopiesAccounted'
    <2>1. Cardinality(Holders') = Cardinality(Holders) - 1
      BY <1>3, <1>7 DEF GivenBack
    <2>2. QED
      BY <1>1, <1>7, <2>1 DEF GivenBack, CopiesAccounted
  <1>8. CASE Lost
    BY <1>1, <1>2, <1>8 DEF Lost, CopiesAccounted
  <1>9. CASE Quiet
    BY <1>1, <1>2, <1>9 DEF Quiet, CopiesAccounted
  <1>10. QED
    BY <1>5, <1>6, <1>7, <1>8, <1>9, CopySteps

(* A drop gives its plaintext away once, plus once for every claim that was    *)
(* given back though its plaintext may have got out.                           *)
THEOREM CopiesAreAccounted == Spec => []CopiesAccounted
  <1>1. Init => Shape /\ CopiesAccounted
    <2> SUFFICES ASSUME Init PROVE CopiesAccounted
      BY InitShape
    <2>1. Holders = {}
      BY DEF Init, Holders, NoCall, Process
    <2>2. QED
      BY <2>1, FS_EmptySet DEF Init, CopiesAccounted
  <1>2. Shape /\ CopiesAccounted /\ [Next]_vars => (Shape /\ CopiesAccounted)'
    BY ShapeStep, CopiesStep
  <1>3. QED
    BY <1>1, <1>2, PTL DEF Spec

(* Once a drop is wiped or expired nobody gets hold of its plaintext any more. *)
THEOREM NobodyComesLate == Spec => WipedDrains
  <1>1. Spec => []Shape
    BY InitShape, ShapeStep, PTL DEF Spec
  <1>2. Shape /\ [Next]_vars => [(state \in Wiped \/ expired) => Holders' \subseteq Holders]_vars
    <2> SUFFICES ASSUME Shape, [Next]_vars, state \in Wiped \/ expired
                 PROVE  Holders' \subseteq Holders
      OBVIOUS
    <2>1. ~Available
      BY DEF Available, Wiped
    <2>2. QED
      BY <2>1, CopySteps DEF Obtained, Disclosed, GivenBack, Lost, Quiet
  <1>3. QED
    BY <1>1, <1>2, PTL DEF Spec, WipedDrains
-----------------------------------------------------------------------------
(* The stage of the call that a step ends, or takes further; the other calls   *)
(* stay as they are.                                                           *)
LEMMA EndOfCall ==
  ASSUME Shape, NEW p \in Process, End(p)
  PROVE  /\ call'[p].at = "idle" /\ ~call'[p].listed
         /\ \A q \in Process \ {p} : call'[q] = call[q]
  BY DEF End, NoCall, Shape, TypeOK

LEMMA NextOfCall ==
  ASSUME Shape, NEW p \in Process, NEW s, GoTo(p, s)
  PROVE  /\ call'[p].at = s /\ call'[p].listed = call[p].listed
         /\ \A q \in Process \ {p} : call'[q] = call[q]
  <1>1. call \in [Process -> Call]
    BY DEF Shape, TypeOK
  <1> DEFINE x == [call[p] EXCEPT !.at = s]
  <1>2. call' = [call EXCEPT ![p] = x]
    BY DEF GoTo
  <1>3. x.at = s /\ x.listed = call[p].listed
    BY <1>1 DEF Call
  <1> HIDE DEF x
  <1>4. QED
    BY <1>1, <1>2, <1>3

(* The calls that begin, or go on, with more than a new stage.                 *)
LEMMA OtherCalls ==
  ASSUME Shape, NEW p \in Process
  PROVE  /\ \A path \in Path : ConsumeLookup(p, path) =>
              /\ call'[p].at = "consuming"
              /\ \A q \in Process \ {p} : call'[q] = call[q]
         /\ ConsumeClaim(p) =>
              /\ call'[p].at \in {"holding", "idle"}
              /\ \A q \in Process \ {p} : call'[q] = call[q]
         /\ RecoverRead(p) =>
              /\ call'[p].at = "recovering"
              /\ \A q \in Process \ {p} : call'[q] = call[q]
         /\ CleanupSelect(p) =>
              /\ call'[p].at = "cleaning" /\ call'[p].listed = Removable
              /\ \A q \in Process \ {p} : call'[q] = call[q]
  <1>1. call \in [Process -> Call] /\ call[p] \in Call
    BY DEF Shape, TypeOK
  <1>a. ASSUME NEW x, call' = [call EXCEPT ![p] = x]
        PROVE  call'[p] = x /\ \A q \in Process \ {p} : call'[q] = call[q]
    BY <1>1, <1>a
  <1>2. ASSUME NEW path \in Path, ConsumeLookup(p, path)
        PROVE  call'[p].at = "consuming" /\ \A q \in Process \ {p} : call'[q] = call[q]
    <2> DEFINE x == [call[p] EXCEPT !.at = "consuming", !.path = path]
    <2>1. x.at = "consuming" /\ call' = [call EXCEPT ![p] = x]
      BY <1>1, <1>2 DEF ConsumeLookup, Call
    <2> HIDE DEF x
    <2>2. QED
      BY <1>a, <2>1
  <1>3. ASSUME ConsumeClaim(p)
        PROVE  call'[p].at \in {"holding", "idle"} /\ \A q \in Process \ {p} : call'[q] = call[q]
    <2>1. CASE ~Available
      BY <1>3, <2>1, EndOfCall DEF ConsumeClaim
    <2>2. CASE Available
      <3> DEFINE x == [call[p] EXCEPT !.at = "holding", !.claim = claims + 1]
      <3>1. x.at = "holding" /\ call' = [call EXCEPT ![p] = x]
        BY <1>1, <1>3, <2>2 DEF ConsumeClaim, Call
      <3> HIDE DEF x
      <3>2. QED
        BY <1>a, <3>1
    <2>3. QED
      BY <2>1, <2>2
  <1>4. ASSUME RecoverRead(p)
        PROVE  call'[p].at = "recovering" /\ \A q \in Process \ {p} : call'[q] = call[q]
    <2> DEFINE x == [call[p] EXCEPT !.at = "recovering", !.claim = claim, !.path = destination]
    <2>1. x.at = "recovering" /\ call' = [call EXCEPT ![p] = x]
      BY <1>1, <1>4 DEF RecoverRead, Call
    <2> HIDE DEF x
    <2>2. QED
      BY <1>a, <2>1
  <1>5. ASSUME CleanupSelect(p)
        PROVE  /\ call'[p].at = "cleaning" /\ call'[p].listed = Removable
               /\ \A q \in Process \ {p} : call'[q] = call[q]
    <2> DEFINE x == [call[p] EXCEPT !.at = "cleaning", !.listed = Removable]
    <2>1. x.at = "cleaning" /\ x.listed = Removable /\ call' = [call EXCEPT ![p] = x]
      BY <1>1, <1>5 DEF CleanupSelect, Call
    <2> HIDE DEF x
    <2>2. QED
      BY <1>a, <2>1
  <1>6. QED
    BY <1>2, <1>3, <1>4, <1>5

-----------------------------------------------------------------------------
(* A consumed drop has given its plaintext away: who finalizes a claim has      *)
(* written the file, or has seen it.                                            *)

Witness(p) == /\ call[p].at \in {"delivered", "misplaced"} => disclosed > 0
              /\ call[p].at = "verified" => files # {}

Evident ==
    /\ files # {} => disclosed > 0
    /\ \A p \in Process : Witness(p)

EvidentInv == Shape /\ Evident /\ ConsumedWasDisclosed

(* What a step that discloses nothing must respect to keep the evidence.       *)
LEMMA EvidentKept ==
  ASSUME Shape, Evident, UNCHANGED <<files, disclosed>>, NEW p \in Process,
         call'[p].at \notin {"delivered", "misplaced", "verified"},
         \A q \in Process \ {p} : call'[q] = call[q]
  PROVE  Evident'
  BY DEF Evident, Witness

LEMMA EvidentStep == Shape /\ Evident /\ [Next]_vars => Evident'
  <1> SUFFICES ASSUME Shape, Evident, [Next]_vars PROVE Evident'
    OBVIOUS
  <1>p. Client \subseteq Process /\ Janitor \subseteq Process
    BY DEF Process
  <1>e. ASSUME NEW p \in Process, End(p), UNCHANGED <<files, disclosed>> PROVE Evident'
    BY <1>e, EndOfCall, EvidentKept
  <1>g. ASSUME NEW p \in Process, NEW s \in Stages \ {"delivered", "misplaced", "verified"},
               GoTo(p, s), UNCHANGED <<files, disclosed>>
        PROVE  Evident'
    BY <1>g, NextOfCall, EvidentKept
  <1>s. {"idle", "clearing", "flushing", "flushed", "revealing", "failing",
         "stale", "unlinking"} \subseteq Stages \ {"delivered", "misplaced", "verified"}
    BY DEF Stages
  <1>c. ASSUME UNCHANGED <<call, files, disclosed>> PROVE Evident'
    BY <1>c DEF Evident, Witness
  <1>1. ASSUME NEW p \in Client, Intake(p) PROVE Evident'
    BY <1>1, <1>c, <1>e, <1>g, <1>p, <1>s
       DEF Intake, Submit, ClearToken, FlushRead, FlushWrite, FlushAcknowledge, store, history
  <1>2. ASSUME NEW p \in Client, Take(p) PROVE Evident'
    BY <1>2, <1>g, <1>p, <1>s DEF Take, store, history
  <1>3. ASSUME NEW p \in Client, NEW path \in Path, ConsumeLookup(p, path) PROVE Evident'
    <2>1. UNCHANGED <<files, disclosed>>
      BY <1>3 DEF ConsumeLookup, store, history
    <2>2. QED
      BY <1>3, <1>p, <2>1, OtherCalls, EvidentKept
  <1>4. ASSUME NEW p \in Client, Reveal(p) PROVE Evident'
    <2>1. /\ call'[p].at = "idle" /\ disclosed' = disclosed + 1 /\ files' = files
          /\ \A q \in Process \ {p} : call'[q] = call[q]
      BY <1>4, <1>p, EndOfCall DEF Reveal, store
    <2>2. disclosed \in Nat
      BY DEF Shape, TypeOK
    <2>3. QED
      BY <1>p, <2>1, <2>2 DEF Evident, Witness
  <1>5. ASSUME NEW p \in Client, ConsumeClaim(p) PROVE Evident'
    <2>1. UNCHANGED <<files, disclosed>>
      BY <1>5 DEF ConsumeClaim, store, history
    <2>2. QED
      BY <1>5, <1>p, <2>1, OtherCalls, EvidentKept
  <1>6. ASSUME NEW p \in Client, Deliver(p), GoTo(p, "delivered") \/ GoTo(p, "misplaced")
        PROVE  Evident'
    <2>1. /\ disclosed' > 0 /\ files' # {}
      BY <1>6 DEF Deliver, Shape, TypeOK
    <2>2. \A q \in Process : Witness(q)'
      BY <2>1 DEF Witness
    <2>3. QED
      BY <2>1, <2>2 DEF Evident
  <1>7. ASSUME NEW p \in Client,
               WriteRaises(p) \/ Unclaim(p) \/ ConsumeFinalize(p) \/ FinalizeRaises(p)
        PROVE  Evident'
    BY <1>7, <1>e, <1>g, <1>p, <1>s
       DEF WriteRaises, Unclaim, ConsumeFinalize, FinalizeRaises, store, history
  <1>8. ASSUME NEW j \in Janitor, RecoverRead(j) PROVE Evident'
    <2>1. UNCHANGED <<files, disclosed>>
      BY <1>8 DEF RecoverRead, store, history
    <2>2. QED
      BY <1>8, <1>p, <2>1, OtherCalls, EvidentKept
  <1>9. ASSUME NEW j \in Janitor, RecoverCheck(j) PROVE Evident'
    <2>0. UNCHANGED <<files, disclosed>>
      BY <1>9 DEF RecoverCheck, store, history
    <2>1. CASE Verifiable(j)
      <3>1. files # {} /\ GoTo(j, "verified")
        BY <1>9, <2>1 DEF RecoverCheck, Verifiable
      <3>2. call'[j].at = "verified" /\ \A q \in Process \ {j} : call'[q] = call[q]
        BY <1>p, <3>1, NextOfCall
      <3>3. QED
        BY <1>p, <2>0, <3>1, <3>2 DEF Evident, Witness
    <2>2. CASE ~Verifiable(j)
      BY <1>9, <1>e, <1>g, <1>p, <1>s, <2>0, <2>2 DEF RecoverCheck
    <2>3. QED
      BY <2>1, <2>2
  <1>10. ASSUME NEW j \in Janitor, RecoverFinalize(j) \/ RecoverRelease(j) PROVE Evident'
    BY <1>10, <1>e, <1>p DEF RecoverFinalize, RecoverRelease, store, history
  <1>11. ASSUME NEW j \in Janitor, CleanupSelect(j) PROVE Evident'
    <2>1. UNCHANGED <<files, disclosed>>
      BY <1>11 DEF CleanupSelect, store, history
    <2>2. QED
      BY <1>11, <1>p, <2>1, OtherCalls, EvidentKept
  <1>12. ASSUME NEW j \in Janitor, CleanupDelete(j) \/ CleanupUnlink(j) PROVE Evident'
    BY <1>12, <1>e, <1>g, <1>p, <1>s DEF CleanupDelete, CleanupUnlink, store, history
  <1>13. ASSUME NEW p \in Process, Crash(p) PROVE Evident'
    BY <1>13, <1>e DEF Crash, store
  <1>14. CASE Revoke \/ Expire \/ (\E c \in 1 .. MaxClaims : Age(c)) \/ UNCHANGED vars
    BY <1>14, <1>c DEF Revoke, Expire, Age, vars, store, history
  <1>15. QED
    BY <1>1, <1>2, <1>3, <1>4, <1>5, <1>6, <1>7, <1>8, <1>9, <1>10, <1>11, <1>12, <1>13, <1>14
    DEF Next, Begin, Proceed, Recover, Cleanup, WriteFile, WriteRaisesLate

(* A step that wipes nothing and answers no reveal keeps what is known of a     *)
(* consumed drop.                                                               *)
LEMMA ConsumedKept ==
  ASSUME ConsumedWasDisclosed, state' = "consumed" => state = "consumed",
         UNCHANGED <<disclosed, vanished>>,
         \A p \in Client : At(p, "revealing") => At(p, "revealing")'
  PROVE  ConsumedWasDisclosed'
  BY DEF ConsumedWasDisclosed

LEMMA ConsumedStep == EvidentInv /\ [Next]_vars => ConsumedWasDisclosed'
  <1> SUFFICES ASSUME EvidentInv, [Next]_vars PROVE ConsumedWasDisclosed'
    OBVIOUS
  <1> USE DEF EvidentInv
  <1>p. Client \subseteq Process /\ Janitor \subseteq Process /\ Client \cap Janitor = {}
    BY ConstantsAssumption DEF Process
  <1>o. ASSUME NEW p \in Process, ~At(p, "revealing"), \A q \in Process \ {p} : call'[q] = call[q]
        PROVE  \A q \in Client : At(q, "revealing") => At(q, "revealing")'
    BY <1>o, <1>p DEF At
  <1>e. ASSUME NEW p \in Process, End(p), ~At(p, "revealing"), UNCHANGED <<disclosed, vanished>>,
               state' = "consumed" => state = "consumed"
        PROVE  ConsumedWasDisclosed'
    BY <1>e, <1>o, EndOfCall, ConsumedKept
  <1>g. ASSUME NEW p \in Process, NEW s, GoTo(p, s), ~At(p, "revealing"),
               UNCHANGED <<disclosed, vanished>>, state' = "consumed" => state = "consumed"
        PROVE  ConsumedWasDisclosed'
    BY <1>g, <1>o, NextOfCall, ConsumedKept
  <1>c. ASSUME UNCHANGED <<call, disclosed, vanished>>, state' = "consumed" => state = "consumed"
        PROVE  ConsumedWasDisclosed'
    BY <1>c DEF ConsumedWasDisclosed, At
  <1>d. ASSUME disclosed' > 0 PROVE ConsumedWasDisclosed'
    BY <1>d DEF ConsumedWasDisclosed
  <1>1. ASSUME NEW p \in Client, Submit(p) PROVE ConsumedWasDisclosed'
    BY <1>1, <1>c, <1>g, <1>p DEF Submit, At, history
  <1>2. ASSUME NEW p \in Client, ClearToken(p) \/ FlushAcknowledge(p) PROVE ConsumedWasDisclosed'
    BY <1>2, <1>e, <1>p DEF ClearToken, FlushAcknowledge, Acknowledgeable, At, history
  <1>3. ASSUME NEW p \in Client, FlushRead(p) \/ FlushWrite(p) PROVE ConsumedWasDisclosed'
    BY <1>3, <1>g, <1>p DEF FlushRead, FlushWrite, At, drop, history
  <1>4. ASSUME NEW p \in Client, Take(p) PROVE ConsumedWasDisclosed'
    <2>1. At(p, "revealing")'
      BY <1>4, <1>p, NextOfCall DEF Take, At
    <2>2. QED
      BY <2>1 DEF ConsumedWasDisclosed
  <1>5. ASSUME NEW p \in Client, Reveal(p) PROVE ConsumedWasDisclosed'
    BY <1>5, <1>d DEF Reveal, Shape, TypeOK
  <1>6. ASSUME NEW p \in Client, NEW path \in Path, ConsumeLookup(p, path)
        PROVE  ConsumedWasDisclosed'
    <2>1. ~At(p, "revealing") /\ UNCHANGED <<state, disclosed, vanished>>
      BY <1>6 DEF ConsumeLookup, At, drop, history
    <2>2. QED
      BY <1>6, <1>o, <1>p, <2>1, OtherCalls, ConsumedKept
  <1>7. ASSUME NEW p \in Client, ConsumeClaim(p) PROVE ConsumedWasDisclosed'
    <2>1. ~At(p, "revealing") /\ UNCHANGED <<disclosed, vanished>>
          /\ (state' = "consumed" => state = "consumed")
      BY <1>7 DEF ConsumeClaim, At, history
    <2>2. QED
      BY <1>7, <1>o, <1>p, <2>1, OtherCalls, ConsumedKept
  <1>8. ASSUME NEW p \in Client, Deliver(p) PROVE ConsumedWasDisclosed'
    BY <1>8, <1>d DEF Deliver, Shape, TypeOK
  <1>9. ASSUME NEW p \in Client, WriteRaises(p) PROVE ConsumedWasDisclosed'
    BY <1>9, <1>g, <1>p DEF WriteRaises, At, drop, history
  <1>10. ASSUME NEW p \in Client, Unclaim(p) PROVE ConsumedWasDisclosed'
    BY <1>10, <1>e, <1>p DEF Unclaim, Reopen, At, drop
  <1>11. ASSUME NEW p \in Client, ConsumeFinalize(p) \/ FinalizeRaises(p)
         PROVE  ConsumedWasDisclosed'
    <2>1. call[p].at = "delivered" /\ disclosed' = disclosed
      BY <1>11 DEF ConsumeFinalize, FinalizeRaises, At, history
    <2>2. disclosed > 0
      BY <1>p, <2>1 DEF Evident, Witness
    <2>3. QED
      BY <1>d, <2>1, <2>2
  <1>12. ASSUME NEW j \in Janitor, RecoverRead(j) PROVE ConsumedWasDisclosed'
    <2>1. ~At(j, "revealing") /\ UNCHANGED <<state, disclosed, vanished>>
      BY <1>12 DEF RecoverRead, At, drop, history
    <2>2. QED
      BY <1>12, <1>o, <1>p, <2>1, OtherCalls, ConsumedKept
  <1>13. ASSUME NEW j \in Janitor, RecoverCheck(j) PROVE ConsumedWasDisclosed'
    BY <1>13, <1>e, <1>g, <1>p DEF RecoverCheck, At, drop, history
  <1>14. ASSUME NEW j \in Janitor, RecoverFinalize(j) PROVE ConsumedWasDisclosed'
    <2>1. call[j].at = "verified" /\ disclosed' = disclosed
      BY <1>14 DEF RecoverFinalize, At, history
    <2>2. disclosed > 0
      BY <1>p, <2>1 DEF Evident, Witness
    <2>3. QED
      BY <1>d, <2>1, <2>2
  <1>15. ASSUME NEW j \in Janitor, RecoverRelease(j) PROVE ConsumedWasDisclosed'
    BY <1>15, <1>e, <1>p DEF RecoverRelease, Reopen, At, drop
  <1>16. ASSUME NEW j \in Janitor, CleanupSelect(j) PROVE ConsumedWasDisclosed'
    <2>1. ~At(j, "revealing") /\ UNCHANGED <<state, disclosed, vanished>>
      BY <1>16 DEF CleanupSelect, At, drop, history
    <2>2. QED
      BY <1>16, <1>o, <1>p, <2>1, OtherCalls, ConsumedKept
  <1>17. ASSUME NEW j \in Janitor, CleanupDelete(j) PROVE ConsumedWasDisclosed'
    BY <1>17, <1>g, <1>p DEF CleanupDelete, At, history
  <1>18. ASSUME NEW j \in Janitor, CleanupUnlink(j) PROVE ConsumedWasDisclosed'
    BY <1>18, <1>e, <1>p DEF CleanupUnlink, At, drop, history
  <1>19. ASSUME NEW p \in Process, Crash(p) PROVE ConsumedWasDisclosed'
    <2>1. CASE At(p, "revealing")
      BY <1>19, <2>1 DEF Crash, ConsumedWasDisclosed
    <2>2. CASE ~At(p, "revealing")
      <3>1. vanished' = vanished
        BY <1>19, <2>2 DEF Crash, Shape, TypeOK
      <3>2. QED
        BY <1>19, <1>e, <2>2, <3>1 DEF Crash, drop
    <2>3. QED
      BY <2>1, <2>2
  <1>20. CASE Revoke \/ Expire \/ (\E c \in 1 .. MaxClaims : Age(c)) \/ UNCHANGED vars
    BY <1>20, <1>c DEF Revoke, Expire, Age, vars, drop, history
  <1>21. QED
    BY <1>1, <1>2, <1>3, <1>4, <1>5, <1>6, <1>7, <1>8, <1>9, <1>10, <1>11, <1>12, <1>13,
       <1>14, <1>15, <1>16, <1>17, <1>18, <1>19, <1>20
    DEF Next, Intake, Begin, Proceed, Recover, Cleanup, WriteFile, WriteRaisesLate

(* The only way to wipe a secret nobody has received is the death of a reveal   *)
(* after its commit.                                                            *)
THEOREM ConsumedIsDisclosed == Spec => []ConsumedWasDisclosed
  <1>1. Init => EvidentInv
    <2> SUFFICES ASSUME Init PROVE Evident /\ ConsumedWasDisclosed
      BY InitShape DEF EvidentInv
    <2>1. files = {} /\ state = "open" /\ \A p \in Process : call[p].at = "idle"
      BY DEF Init, NoCall
    <2>2. QED
      BY <2>1 DEF Evident, Witness, ConsumedWasDisclosed
  <1>2. EvidentInv /\ [Next]_vars => EvidentInv'
    BY ShapeStep, EvidentStep, ConsumedStep DEF EvidentInv
  <1>3. EvidentInv => ConsumedWasDisclosed
    BY DEF EvidentInv
  <1>4. QED
    BY <1>1, <1>2, <1>3, PTL DEF Spec
-----------------------------------------------------------------------------
(* The way back to the recipient.  A flush that has written its file finds it   *)
(* in place, unless the row is gone; a cleanup that listed the row will not     *)
(* find it readable again, for a drop that has expired is never claimed.        *)

LinkCall(p) == /\ call[p].at = "clearing" => vault /\ state # "open"
               /\ call[p].at = "flushed" => record \/ state = "deleted"
               /\ call[p].at = "cleaning" /\ call[p].listed => expired /\ state # "claimed"
               /\ call[p].at = "unlinking" /\ call[p].listed => state = "deleted"

LinkInv ==
    /\ Shape
    /\ state = "open" => token /\ outbox = "none"
    /\ LinkReachable
    /\ \A p \in Process : LinkCall(p)

Readable == {"submitted", "claimed"}

(* What a step may do to the row and to the outbox file without cutting off     *)
(* anyone.                                                                      *)
RowKept ==
    /\ vault' = vault
    /\ state' = "open" => state = "open" /\ UNCHANGED <<token, outbox>>
    /\ state' = "claimed" => state = "claimed" \/ ~expired
    /\ state = "deleted" => state' = "deleted"
    /\ state' \in Readable => (state \in Readable \cup {"open"} /\ token' = token)
    /\ record' = record
    /\ expired => expired'

LEMMA LinkKept ==
  ASSUME LinkInv, Shape', RowKept,
         \A p \in Process : LinkCall(p)'
  PROVE  LinkInv'
  BY DEF LinkInv, LinkReachable, RowKept, Readable

(* The calls that a step leaves alone, and the one it takes further.            *)
LEMMA LinkCallKept ==
  ASSUME LinkInv, RowKept, NEW p \in Process, call'[p] = call[p]
  PROVE  LinkCall(p)'
  BY DEF LinkInv, LinkCall, RowKept

LEMMA LinkRest ==
  ASSUME LinkInv, Shape', RowKept, NEW p \in Process, LinkCall(p)',
         \A q \in Process \ {p} : call'[q] = call[q]
  PROVE  LinkInv'
  BY LinkKept, LinkCallKept

LEMMA LinkStep == LinkInv /\ [Next]_vars => LinkInv'
  <1> SUFFICES ASSUME LinkInv, [Next]_vars PROVE LinkInv'
    OBVIOUS
  <1>i. Shape /\ Shape'
    BY ShapeStep DEF LinkInv
  <1>p. Client \subseteq Process /\ Janitor \subseteq Process
    BY DEF Process
  <1>q. ASSUME NEW p \in Process, call'[p].at \notin {"clearing", "flushed", "cleaning", "unlinking"}
        PROVE  LinkCall(p)'
    BY <1>q DEF LinkCall
  <1>e. ASSUME NEW p \in Process, End(p), RowKept PROVE LinkInv'
    BY <1>e, <1>i, <1>q, EndOfCall, LinkRest
  <1>g. ASSUME NEW p \in Process, RowKept,
               NEW s \in Stages \ {"clearing", "flushed", "cleaning", "unlinking"}, GoTo(p, s)
        PROVE  LinkInv'
    BY <1>g, <1>i, <1>q, NextOfCall, LinkRest
  <1>s. {"idle", "flushing", "revealing", "failing", "misplaced", "delivered", "verified", "stale"}
           \subseteq Stages \ {"clearing", "flushed", "cleaning", "unlinking"}
    BY DEF Stages
  <1>r. ASSUME UNCHANGED <<vault, drop, expired, record>> PROVE RowKept
    BY <1>r DEF RowKept, drop, Readable
  <1>f. ASSUME Finalize, UNCHANGED <<vault, expired, record>> PROVE RowKept
    BY <1>f DEF RowKept, Finalize, drop, Readable
  <1>b. ASSUME Reopen, state = "claimed", UNCHANGED <<vault, expired, record>> PROVE RowKept
    BY <1>b DEF RowKept, Reopen, Readable
  <1>c. ASSUME UNCHANGED call, RowKept PROVE LinkInv'
    BY <1>c, <1>i, LinkCallKept, LinkKept
  <1>1. ASSUME NEW p \in Client, Submit(p) PROVE LinkInv'
    <2>1. RowKept
      BY <1>1 DEF Submit, RowKept, Readable, clock, store
    <2>2. CASE vault
      <3>1. GoTo(p, "clearing") /\ vault' /\ state' = "submitted"
        BY <1>1, <2>2 DEF Submit
      <3>2. call'[p].at = "clearing" /\ \A q \in Process \ {p} : call'[q] = call[q]
        BY <1>i, <1>p, <3>1, NextOfCall
      <3>3. LinkCall(p)'
        BY <3>1, <3>2 DEF LinkCall
      <3>4. QED
        BY <1>i, <1>p, <2>1, <3>2, <3>3, LinkRest
    <2>3. CASE ~vault
      BY <1>1, <1>c, <2>1, <2>3 DEF Submit
    <2>4. QED
      BY <2>2, <2>3
  <1>2. ASSUME NEW p \in Client, ClearToken(p) PROVE LinkInv'
    <2>1. /\ vault /\ state # "open" /\ UNCHANGED <<vault, state, outbox, expired, record>>
      BY <1>2, <1>p DEF ClearToken, At, LinkInv, LinkCall, clock, store
    <2>2. /\ call'[p].at = "idle" /\ \A q \in Process \ {p} : call'[q] = call[q]
      BY <1>2, <1>i, <1>p, EndOfCall DEF ClearToken
    <2>3. \A q \in Process : LinkCall(q)'
      BY <2>1, <2>2 DEF LinkCall, LinkInv
    <2>4. QED
      BY <1>i, <2>1, <2>3 DEF LinkInv, LinkReachable
  <1>3. ASSUME NEW p \in Client, FlushRead(p) PROVE LinkInv'
    BY <1>3, <1>g, <1>p, <1>r, <1>s DEF FlushRead, clock, store
  <1>4. ASSUME NEW p \in Client, FlushWrite(p) PROVE LinkInv'
    <2>1. record' /\ UNCHANGED <<vault, state, token, outbox, expired>>
      BY <1>4 DEF FlushWrite, drop, clock
    <2>2. /\ call'[p].at = "flushed" /\ \A q \in Process \ {p} : call'[q] = call[q]
      BY <1>4, <1>i, <1>p, NextOfCall DEF FlushWrite
    <2>3. \A q \in Process : LinkCall(q)'
      BY <2>1, <2>2 DEF LinkCall, LinkInv
    <2>4. QED
      BY <1>i, <2>1, <2>3 DEF LinkInv, LinkReachable
  <1>5. ASSUME NEW p \in Client, FlushAcknowledge(p) PROVE LinkInv'
    <2>1. /\ UNCHANGED <<vault, state, expired, record>>
          /\ record \/ state = "deleted"
          /\ \/ outbox = "queued"
             \/ UNCHANGED <<outbox, token>>
      BY <1>5, <1>p DEF FlushAcknowledge, Acknowledgeable, At, LinkInv, LinkCall, clock, store
    <2>2. /\ call'[p].at = "idle" /\ \A q \in Process \ {p} : call'[q] = call[q]
      BY <1>5, <1>i, <1>p, EndOfCall DEF FlushAcknowledge
    <2>3. \A q \in Process : LinkCall(q)'
      BY <2>1, <2>2 DEF LinkCall, LinkInv
    <2>4. state' = "open" => token' /\ outbox' = "none"
      BY <2>1 DEF LinkInv
    <2>5. LinkReachable'
      BY <2>1 DEF LinkInv, LinkReachable
    <2>6. QED
      BY <1>i, <2>3, <2>4, <2>5 DEF LinkInv
  <1>6. ASSUME NEW p \in Client, Take(p) PROVE LinkInv'
    BY <1>6, <1>f, <1>g, <1>p, <1>s DEF Take, clock, store
  <1>7. ASSUME NEW p \in Client, Reveal(p) PROVE LinkInv'
    BY <1>7, <1>e, <1>p, <1>r DEF Reveal, clock, store
  <1>8. ASSUME NEW p \in Client, NEW path \in Path, ConsumeLookup(p, path) PROVE LinkInv'
    <2>1. RowKept
      BY <1>8, <1>r DEF ConsumeLookup, clock, store
    <2>2. QED
      BY <1>8, <1>i, <1>p, <1>q, <2>1, OtherCalls, LinkRest
  <1>9. ASSUME NEW p \in Client, ConsumeClaim(p) PROVE LinkInv'
    <2>1. RowKept
      BY <1>9 DEF ConsumeClaim, Available, RowKept, Readable, clock, store
    <2>2. QED
      BY <1>9, <1>i, <1>p, <1>q, <2>1, OtherCalls, LinkRest
  <1>10. ASSUME NEW p \in Client, Deliver(p), GoTo(p, "delivered") \/ GoTo(p, "misplaced")
         PROVE  LinkInv'
    BY <1>10, <1>g, <1>p, <1>r, <1>s DEF Deliver, clock
  <1>11. ASSUME NEW p \in Client, WriteRaises(p) PROVE LinkInv'
    BY <1>11, <1>g, <1>p, <1>r, <1>s DEF WriteRaises, clock, store
  <1>12. ASSUME NEW p \in Client, Unclaim(p) PROVE LinkInv'
    BY <1>12, <1>b, <1>e, <1>p, <1>r DEF Unclaim, Mine, clock, store
  <1>13. ASSUME NEW p \in Client, ConsumeFinalize(p) \/ FinalizeRaises(p) PROVE LinkInv'
    BY <1>13, <1>e, <1>f, <1>p, <1>r DEF ConsumeFinalize, FinalizeRaises, clock, store
  <1>14. ASSUME NEW j \in Janitor, RecoverRead(j) PROVE LinkInv'
    <2>1. RowKept
      BY <1>14, <1>r DEF RecoverRead, clock, store
    <2>2. QED
      BY <1>14, <1>i, <1>p, <1>q, <2>1, OtherCalls, LinkRest
  <1>15. ASSUME NEW j \in Janitor, RecoverCheck(j) PROVE LinkInv'
    BY <1>15, <1>e, <1>g, <1>p, <1>r, <1>s DEF RecoverCheck, clock, store
  <1>16. ASSUME NEW j \in Janitor, RecoverFinalize(j) PROVE LinkInv'
    BY <1>16, <1>e, <1>f, <1>p DEF RecoverFinalize, clock, store
  <1>17. ASSUME NEW j \in Janitor, RecoverRelease(j) PROVE LinkInv'
    BY <1>17, <1>b, <1>e, <1>p, <1>r DEF RecoverRelease, Releasable, clock, store
  <1>18. ASSUME NEW j \in Janitor, CleanupSelect(j) PROVE LinkInv'
    <2>1. RowKept /\ UNCHANGED <<expired, state>>
      BY <1>18, <1>r DEF CleanupSelect, clock, drop, store
    <2>2. call'[j].at = "cleaning" /\ call'[j].listed = Removable
          /\ \A q \in Process \ {j} : call'[q] = call[q]
      BY <1>18, <1>i, <1>p, OtherCalls
    <2>3. LinkCall(j)'
      BY <2>1, <2>2 DEF LinkCall, Removable
    <2>4. QED
      BY <1>i, <1>p, <2>1, <2>2, <2>3, LinkRest
  <1>19. ASSUME NEW j \in Janitor, CleanupDelete(j) PROVE LinkInv'
    <2>1. RowKept
      BY <1>19 DEF CleanupDelete, RowKept, Readable, clock, store
    <2>2. /\ call'[j].at = "unlinking" /\ call'[j].listed = call[j].listed
          /\ \A q \in Process \ {j} : call'[q] = call[q]
      BY <1>19, <1>i, <1>p, NextOfCall DEF CleanupDelete
    <2>3. call[j].listed => state' = "deleted"
      <3>1. call[j].listed => expired /\ state # "claimed"
        BY <1>19, <1>p DEF CleanupDelete, At, LinkInv, LinkCall
      <3>2. QED
        BY <1>19, <3>1 DEF CleanupDelete, Removable
    <2>4. LinkCall(j)'
      BY <2>2, <2>3 DEF LinkCall
    <2>5. QED
      BY <1>i, <1>p, <2>1, <2>2, <2>4, LinkRest
  <1>20. ASSUME NEW j \in Janitor, CleanupUnlink(j) PROVE LinkInv'
    <2>1. UNCHANGED <<vault, state, token, outbox, expired>>
      BY <1>20 DEF CleanupUnlink, drop, clock
    <2>2. record' = record \/ state = "deleted"
      BY <1>20, <1>i, <1>p DEF CleanupUnlink, At, LinkInv, LinkCall, Shape, TypeOK
    <2>3. /\ call'[j].at = "idle" /\ \A q \in Process \ {j} : call'[q] = call[q]
      BY <1>20, <1>i, <1>p, EndOfCall DEF CleanupUnlink
    <2>4. \A q \in Process : LinkCall(q)'
      BY <2>1, <2>2, <2>3 DEF LinkCall, LinkInv
    <2>5. QED
      BY <1>i, <2>1, <2>2, <2>4 DEF LinkInv, LinkReachable
  <1>21. ASSUME NEW p \in Process, Crash(p) PROVE LinkInv'
    BY <1>21, <1>e, <1>r DEF Crash, clock, store
  <1>22. CASE Revoke
    <2>1. RowKept /\ UNCHANGED call
      BY <1>22 DEF Revoke, RowKept, Readable, clock, store
    <2>2. QED
      BY <1>c, <2>1
  <1>23. CASE Expire \/ (\E c \in 1 .. MaxClaims : Age(c)) \/ UNCHANGED vars
    <2>1. RowKept /\ UNCHANGED call
      BY <1>23 DEF Expire, Age, vars, RowKept, Readable, drop, clock, store
    <2>2. QED
      BY <1>c, <2>1
  <1>24. QED
    BY <1>1, <1>2, <1>3, <1>4, <1>5, <1>6, <1>7, <1>8, <1>9, <1>10, <1>11, <1>12, <1>13,
       <1>14, <1>15, <1>16, <1>17, <1>18, <1>19, <1>20, <1>21, <1>22, <1>23
    DEF Next, Intake, Begin, Proceed, Recover, Cleanup, WriteFile, WriteRaisesLate

(* Whoever submitted a secret can still be served: the sealed token or the      *)
(* outbox file is there as long as the drop can be read.                        *)
THEOREM LinkStaysReachable == Spec => []LinkReachable
  <1>1. Init => LinkInv
    <2> SUFFICES ASSUME Init PROVE LinkInv
      OBVIOUS
    <2>1. state = "open" /\ token /\ outbox = "none" /\ \A p \in Process : call[p].at = "idle"
      BY DEF Init, NoCall
    <2>2. QED
      BY <2>1, InitShape DEF LinkInv, LinkCall, LinkReachable
  <1>2. LinkInv /\ [Next]_vars => LinkInv'
    BY LinkStep
  <1>3. LinkInv => LinkReachable
    BY DEF LinkInv
  <1>4. QED
    BY <1>1, <1>2, <1>3, PTL DEF Spec
===============================================================================
