------------------------- MODULE ActionBrokerProofs -------------------------
(***************************************************************************)
(* Proofs about ActionBroker, for every number of workers, keys, intents,  *)
(* approvals, corrections and policies.                                    *)
(***************************************************************************)
EXTENDS ActionBrokerLedger, FiniteSetTheorems, TLAPS

(* What a session holds at each stage of its call. *)
SessionOK ==
    \A w \in Worker :
        LET s == session[w] IN
        /\ Fenced(w) => /\ s.intent \in Intent
                        /\ s.approval \in Approval
                        /\ s.digest \in Digest
                        /\ s.key = KeyOf[s.intent]
        /\ At(w, "reserved") => ~s.hit /\ s.effect = "unknown"
        /\ At(w, "publishing") => s.digest \in Digest
        /\ At(w, "issuing") => s.approval \in Approval /\ s.digest \in Digest
        /\ At(w, "reconciling") => s.key \in OpKey /\ Recorded(s.key)

(* The writer lock is held exactly by the worker inside the fence. *)
LockHolder == \A w \in Worker : Fenced(w) <=> writer = w

(* A row names an approval, an absent row none, and a use has its row. *)
RowsOK ==
    /\ \A k \in OpKey : Recorded(k) <=> operations[k].approval \in Approval
    /\ \A a \in Approval, k \in OpKey : <<a, k>> \in used => operations[k].approval = a

(* The key in the fence has no row. *)
FencedFresh == \A w \in Worker : Fenced(w) => ~Recorded(session[w].key)

(* Every dispatch was of a key in the scope of its approval. *)
ScopeRespected ==
    /\ \A w \in Worker : Fenced(w) => KeyInScope(session[w].intent, session[w].approval)
    /\ \A e \in effects : KeyInScope(e.intent, e.approval)

RetiredPublished == retired \subseteq published

(* The part of the invariant that makes the types inductive. *)
Shape ==
    /\ TypeOK
    /\ SessionOK
    /\ \A a \in Approval : approvals[a].scope = 2 => approvals[a].revoked

(* A session that is between two calls.                                        *)
LEMMA IdleInSession == Idle \in Session /\ Idle.at = "idle" /\ Idle.hit = FALSE
  BY DEF Idle, Session, Stages, Outcomes

(* A new database is well formed.                                              *)
LEMMA InitShape == Init => Shape
  <1> SUFFICES ASSUME Init PROVE Shape
    OBVIOUS
  <1> USE ConstantsAssumption, NamesAssumption, IdleInSession
  <1>1. TypeOK
    BY DEF Init, TypeOK, NoRow, Row, ApprovalRow, Outcomes
  <1>2. SessionOK
    BY DEF Init, SessionOK, Fenced, At
  <1>3. QED
    BY <1>1, <1>2 DEF Init, Shape

(* Ending a call keeps the sessions in shape, whatever else the step does to *)
(* the operations, as long as no row disappears.                             *)
LEMMA IdleKeepsSessions ==
  ASSUME NEW w \in Worker, Shape,
         session' = [session EXCEPT ![w] = Idle],
         \A k \in OpKey : Recorded(k) => Recorded(k)'
  PROVE  /\ session' \in [Worker -> Session]
         /\ SessionOK'
  <1>1. session' \in [Worker -> Session]
    BY IdleInSession DEF Shape, TypeOK
  <1>2. ASSUME NEW v \in Worker
        PROVE  session'[v] = IF v = w THEN Idle ELSE session[v]
    BY DEF Shape, TypeOK
  <1>3. SessionOK'
    BY <1>2, IdleInSession DEF Shape, SessionOK, Fenced, At
  <1>4. QED
    BY <1>1, <1>3

(* The rows and approval records the actions write are of their types.       *)
LEMMA CompletedRow ==
  ASSUME NEW row \in Row, NEW e \in Outcomes
  PROVE  [row EXCEPT !.state = "completed", !.effect = e, !.attempts = @ + 1] \in Row
  <1>1. [row EXCEPT !.attempts = @ + 1] \in Row
    BY DEF Row
  <1>2. \A r \in Row : [r EXCEPT !.effect = e] \in Row
    BY DEF Row
  <1>3. \A r \in Row : [r EXCEPT !.state = "completed"] \in Row
    BY DEF Row
  <1>4. QED
    BY <1>1, <1>2, <1>3 DEF Row

(* The record a revocation leaves: revoked, at the second scope_version.       *)
LEMMA RevokedTyped ==
  ASSUME NEW r \in ApprovalRow, r.scope = 2 => r.revoked, ~r.revoked
  PROVE  LET n == [r EXCEPT !.revoked = TRUE, !.scope = r.scope + 1]
         IN  n \in ApprovalRow /\ n.revoked
  <1>1. r.scope = 1
    BY DEF ApprovalRow
  <1>2. [r EXCEPT !.revoked = TRUE] \in ApprovalRow
    BY DEF ApprovalRow
  <1>3. \A q \in ApprovalRow : [q EXCEPT !.scope = 2] \in ApprovalRow
    BY DEF ApprovalRow
  <1> DEFINE q == [r EXCEPT !.revoked = TRUE]
  <1>4. q \in ApprovalRow /\ q.scope = 1 /\ q.revoked
    BY <1>1, <1>2 DEF ApprovalRow
  <1>5. [r EXCEPT !.revoked = TRUE, !.scope = r.scope + 1] = [q EXCEPT !.scope = 2]
    BY <1>1, <1>4 DEF ApprovalRow
  <1>6. [q EXCEPT !.scope = 2] \in ApprovalRow /\ [q EXCEPT !.scope = 2].revoked
    BY <1>3, <1>4 DEF ApprovalRow
  <1>7. QED
    BY <1>5, <1>6

(* The record issue_approval leaves.                                           *)
LEMMA IssuedTyped ==
  ASSUME NEW r \in ApprovalRow, NEW d \in Digest
  PROVE  LET n == [r EXCEPT !.issued = TRUE, !.digest = d]
         IN  n \in ApprovalRow /\ n.scope = r.scope /\ n.revoked = r.revoked
  <1>1. [r EXCEPT !.issued = TRUE] \in ApprovalRow
    BY DEF ApprovalRow
  <1>2. \A q \in ApprovalRow : [q EXCEPT !.digest = d] \in ApprovalRow
    BY DEF ApprovalRow
  <1>3. QED
    BY <1>1, <1>2 DEF ApprovalRow

(* Every step leaves tables and sessions well formed.                           *)
LEMMA ShapeStep == Shape /\ [Next]_vars => Shape'
  <1> SUFFICES ASSUME Shape, [Next]_vars PROVE Shape'
    OBVIOUS
  <1>a. /\ session \in [Worker -> Session]
        /\ current \in Digest /\ source \in Digest
        /\ KeyOf \in [Intent -> OpKey]
    BY ConstantsAssumption DEF Shape, TypeOK
  <1>b. \A w \in Worker : Fenced(w) => session[w].key \in OpKey
    BY <1>a DEF Shape, SessionOK
  <1>1. ASSUME NEW w \in Worker, Connect(w) PROVE Shape'
    <2>1. session' \in [Worker -> Session]
      BY <1>1, <1>a DEF Connect, Session, Stages
    <2>2. SessionOK'
      BY <1>1 DEF Connect, Shape, TypeOK, SessionOK, Fenced, At, Recorded, tables, effectTables
    <2>3. QED
      BY <1>1, <2>1, <2>2 DEF Connect, Shape, TypeOK, Recorded, tables, effectTables,
         policyTables, world
  <1>2. ASSUME NEW w \in Worker, Leave(w) PROVE Shape'
    <2>1. session' \in [Worker -> Session] /\ SessionOK'
      BY <1>2, IdleKeepsSessions DEF Leave, Recorded, tables, effectTables
    <2>2. QED
      BY <1>2, <2>1 DEF Leave, Shape, TypeOK, Recorded, tables, effectTables,
         policyTables, world
  <1>3. ASSUME NEW w \in Worker, NEW i \in Intent, NEW a \in Approval, Reserve(w, i, a)
        PROVE Shape'
    <2>1. session' \in [Worker -> Session]
      BY <1>3, <1>a DEF Reserve, Session, Stages, Idle, Outcomes
    <2>2. SessionOK'
      BY <1>3 DEF Reserve, Shape, TypeOK, SessionOK, Fenced, At, Recorded, Idle, tables, effectTables
    <2>3. QED
      BY <1>3, <2>1, <2>2 DEF Reserve, Shape, TypeOK, Recorded, tables, effectTables,
         policyTables, world
  <1>4. ASSUME NEW w \in Worker, DispatchConfirmed(w) PROVE Shape'
    <2>0. PICK hit \in BOOLEAN : session' = [session EXCEPT ![w] =
             [@ EXCEPT !.at = "returned", !.hit = hit, !.effect = "confirmed-success"]]
      BY <1>4 DEF DispatchConfirmed
    <2>1. session' \in [Worker -> Session]
      <3>1. [session[w] EXCEPT !.at = "returned", !.hit = hit] \in Session
        BY <1>a, <2>0 DEF Session, Stages
      <3>2. \A s \in Session : [s EXCEPT !.effect = "confirmed-success"] \in Session
        BY DEF Session, Outcomes
      <3>3. [session[w] EXCEPT !.at = "returned", !.hit = hit, !.effect = "confirmed-success"]
               \in Session
        BY <3>1, <3>2
      <3>4. QED
        BY <2>0, <3>3, <1>a
    <2>2. SessionOK'
      BY <1>4, <2>0 DEF DispatchConfirmed, Shape, TypeOK, SessionOK, Fenced, At, Recorded, tables, effectTables
    <2>3. applied' \in [OpKey -> Nat] /\ effects' \subseteq EffectRecord
      BY SMTT(40), <1>4, <1>b DEF DispatchConfirmed, Apply, Shape, TypeOK, SessionOK, Fenced, At, EffectRecord
    <2>4. QED
      BY <1>4, <2>1, <2>2, <2>3 DEF DispatchConfirmed, Shape, TypeOK, Recorded, tables,
         effectTables, policyTables
  <1>5. ASSUME NEW w \in Worker, DispatchUnconfirmed(w) PROVE Shape'
    <2>0. PICK hit \in BOOLEAN : session' = [session EXCEPT ![w] =
                                     [@ EXCEPT !.at = "returned", !.hit = hit]]
      BY <1>5 DEF DispatchUnconfirmed
    <2>1. session' \in [Worker -> Session]
      <3>1. [session[w] EXCEPT !.at = "returned", !.hit = hit] \in Session
        BY <1>a, <2>0 DEF Session, Stages
      <3>2. QED
        BY <2>0, <3>1, <1>a
    <2>2. SessionOK'
      BY <1>5, <2>0 DEF DispatchUnconfirmed, Shape, TypeOK, SessionOK, Fenced, At, Recorded, tables, effectTables
    <2>3. applied' \in [OpKey -> Nat] /\ effects' \subseteq EffectRecord
      BY <1>5, <1>b DEF DispatchUnconfirmed, Apply, Shape, TypeOK, SessionOK, Fenced, At, EffectRecord
    <2>4. QED
      BY <1>5, <2>1, <2>2, <2>3 DEF DispatchUnconfirmed, Shape, TypeOK, Recorded, tables,
         effectTables, policyTables
  <1>6. ASSUME NEW w \in Worker, HandlerRaises(w) PROVE Shape'
    <2>1. session' \in [Worker -> Session] /\ SessionOK'
      BY <1>6, IdleKeepsSessions DEF HandlerRaises, Recorded, tables, effectTables
    <2>2. /\ applied' \in [OpKey -> Nat]
          /\ lost' \in [OpKey -> Nat]
          /\ effects' \subseteq EffectRecord
      BY <1>6, <1>b DEF HandlerRaises, Apply, Shape, TypeOK, SessionOK, Fenced, At, EffectRecord
    <2>3. QED
      BY <1>6, <2>1, <2>2 DEF HandlerRaises, Shape, TypeOK, Recorded, tables,
         effectTables, policyTables
  <1>7. ASSUME NEW w \in Worker, CommitFence(w) PROVE Shape'
    <2> DEFINE s == session[w]
    <2>0. /\ s.approval \in Approval /\ s.intent \in Intent /\ s.key \in OpKey
          /\ s.effect \in Outcomes
      BY <1>7, <1>a, <1>b DEF CommitFence, Committable, Session, Shape, SessionOK, Fenced, At
    <2>1. operations' \in [OpKey -> Row]
      BY <1>7, <2>0 DEF CommitFence, Shape, TypeOK, Row
    <2>2. \A k \in OpKey : Recorded(k)' <=> (Recorded(k) \/ k = s.key)
      BY <1>7, <2>0 DEF CommitFence, Shape, TypeOK, Row, Recorded
    <2>3. session' \in [Worker -> Session] /\ SessionOK'
      BY <1>7, <2>2, IdleKeepsSessions DEF CommitFence
    <2>5. used' \subseteq Approval \X OpKey
      BY <1>7, <2>0 DEF CommitFence, Shape, TypeOK
    <2>6. QED
      BY <1>7, <2>1, <2>3, <2>5 DEF CommitFence, Shape, TypeOK, policyTables, world
  <1>8. ASSUME NEW w \in Worker, Crash(w) PROVE Shape'
    <2>1. session' \in [Worker -> Session] /\ SessionOK'
      BY <1>8, IdleKeepsSessions DEF Crash, Recorded, tables, effectTables
    <2>2. lost' \in [OpKey -> Nat] /\ crashes' \in Nat
      BY <1>8, <1>b DEF Crash, Shape, TypeOK, Fenced
    <2>3. QED
      BY <1>8, <2>1, <2>2 DEF Crash, Shape, TypeOK, Recorded, tables, effectTables,
         policyTables
  <1>9. ASSUME NEW w \in Worker, NEW k \in OpKey, ReconcileRead(w, k) PROVE Shape'
    <2>1. session' \in [Worker -> Session]
      BY ZenonT(60), <1>9, <1>a DEF ReconcileRead, Session, Stages
    <2>2. SessionOK'
      BY <1>9 DEF ReconcileRead, Reconcilable, Shape, TypeOK, SessionOK, Fenced, At, Recorded,
         tables, effectTables
    <2>3. QED
      BY <1>9, <2>1, <2>2 DEF ReconcileRead, Shape, TypeOK, Recorded, tables,
         effectTables, policyTables, world
  <1>10. ASSUME NEW w \in Worker, ReconcileMismatch(w) \/ ReconcileConfirm(w) PROVE Shape'
    <2> DEFINE old == operations[session[w].key]
    <2>2. session[w].key \in OpKey /\ Recorded(session[w].key) /\ old \in Row
      BY <1>10 DEF ReconcileMismatch, ReconcileConfirm, Settle, Shape, TypeOK, SessionOK
    <2>1. PICK row \in Row : Settle(w, row) /\ row.state # "absent"
      <3>1. CASE ReconcileMismatch(w)
        <4>1. [old EXCEPT !.attempts = @ + 1] \in Row
          BY <2>2 DEF Row
        <4>2. [old EXCEPT !.attempts = @ + 1].state = old.state
          BY <2>2 DEF Row
        <4>3. QED
          BY <3>1, <2>2, <4>1, <4>2 DEF ReconcileMismatch, Recorded
      <3>2. CASE ReconcileConfirm(w)
        <4>1. PICK e \in {"confirmed-success", "confirmed-failure"} :
                 Settle(w, [old EXCEPT !.state = "completed", !.effect = e, !.attempts = @ + 1])
          BY <3>2 DEF ReconcileConfirm
        <4>2. [old EXCEPT !.state = "completed", !.effect = e, !.attempts = @ + 1] \in Row
          BY <2>2, <4>1, CompletedRow DEF Outcomes
        <4>3. [old EXCEPT !.state = "completed", !.effect = e, !.attempts = @ + 1].state
                = "completed"
          BY <2>2 DEF Row
        <4>4. QED
          BY <4>1, <4>2, <4>3
      <3>3. QED
        BY <1>10, <3>1, <3>2
    <2>3. operations' \in [OpKey -> Row] /\ \A k \in OpKey : Recorded(k)' <=> Recorded(k)
      BY <2>1, <2>2 DEF Settle, Shape, TypeOK, Recorded
    <2>4. session' \in [Worker -> Session] /\ SessionOK'
      BY <2>1, <2>3, IdleKeepsSessions DEF Settle, Finish
    <2>5. QED
      BY <2>1, <2>3, <2>4 DEF Settle, Finish, Shape, TypeOK, policyTables, world
  <1>11. ASSUME NEW w \in Worker, NEW a \in Approval, IssueRead(w, a) PROVE Shape'
    <2>1. session' \in [Worker -> Session]
      BY ZenonT(60), <1>11, <1>a DEF IssueRead, Session, Stages
    <2>2. SessionOK'
      BY <1>11 DEF IssueRead, Shape, TypeOK, SessionOK, Fenced, At, Recorded, tables, effectTables
    <2>3. QED
      BY <1>11, <2>1, <2>2 DEF IssueRead, Shape, TypeOK, Recorded, tables,
         effectTables, policyTables, world
  <1>12. ASSUME NEW w \in Worker,
                \/ IssueInsert(w)
                \/ \E a \in Approval : RevokeApproval(w, a)
                \/ \E c \in Correction, a \in Approval :
                      \/ PrepareRevocation(w, c, a)
                      \/ CommitRevocation(w, c, a)
                      \/ CancelRevocation(w, c, a)
         PROVE Shape'
    <2>1. Finish(w) /\ UNCHANGED <<effectTables, acceptances, policyTables, blocked, world>>
      BY <1>12 DEF IssueInsert, RevokeApproval, PrepareRevocation, CommitRevocation,
         CancelRevocation
    <2>2. session' \in [Worker -> Session] /\ SessionOK'
      BY <2>1, IdleKeepsSessions DEF Finish, Recorded, effectTables
    <2>3. /\ approvals' \in [Approval -> ApprovalRow]
          /\ \A a \in Approval : approvals'[a].scope = 2 => approvals'[a].revoked
      <3>1. CASE IssueInsert(w)
        <4> DEFINE a == session[w].approval
                   r == [approvals[a] EXCEPT !.issued = TRUE, !.digest = session[w].digest]
        <4>1. /\ a \in Approval /\ session[w].digest \in Digest
              /\ approvals \in [Approval -> ApprovalRow]
              /\ approvals' = [approvals EXCEPT ![a] = r]
          BY <3>1 DEF IssueInsert, Shape, TypeOK, SessionOK
        <4>2. r \in ApprovalRow /\ r.scope = approvals[a].scope
                                /\ r.revoked = approvals[a].revoked
          BY <4>1, IssuedTyped
        <4>3. QED
          BY <4>1, <4>2 DEF Shape
      <3>2. ASSUME NEW a \in Approval, Live(a), approvals' = Revoked(a)
            PROVE  <2>3!:
        <4> DEFINE r == [approvals[a] EXCEPT !.revoked = TRUE, !.scope = approvals[a].scope + 1]
        <4>1. /\ approvals \in [Approval -> ApprovalRow]
              /\ approvals' = [approvals EXCEPT ![a] = r]
          BY <3>2 DEF Revoked, Shape, TypeOK
        <4>2. r \in ApprovalRow /\ r.revoked
          BY <3>2, <4>1, RevokedTyped DEF Live, Shape
        <4>3. QED
          BY <4>1, <4>2 DEF Shape
      <3>3. CASE UNCHANGED approvals
        BY <3>3 DEF Shape, TypeOK
      <3>4. QED
        BY <1>12, <3>1, <3>2, <3>3 DEF RevokeApproval, PrepareRevocation, CommitRevocation,
           CancelRevocation
    <2>4. preparations' \in [Correction \X Approval ->
                                {"none", "prepared", "cancelled", "committed"}]
      BY <1>12 DEF IssueInsert, RevokeApproval, PrepareRevocation, CommitRevocation,
         CancelRevocation, Shape, TypeOK
    <2>5. QED
      BY <2>1, <2>2, <2>3, <2>4 DEF Finish, Shape, TypeOK, Recorded, effectTables,
         policyTables, world
  <1>13. ASSUME NEW w \in Worker, PublishRead(w) PROVE Shape'
    <2>1. session' \in [Worker -> Session]
      BY ZenonT(60), <1>13, <1>a DEF PublishRead, Session, Stages
    <2>2. SessionOK'
      BY <1>13 DEF PublishRead, Shape, TypeOK, SessionOK, Fenced, At, Recorded, tables, effectTables
    <2>3. QED
      BY <1>13, <2>1, <2>2 DEF PublishRead, Shape, TypeOK, Recorded, tables,
         effectTables, policyTables, world
  <1>14. ASSUME NEW w \in Worker, PublishCommit(w) \/ \E d \in Digest : RevokePolicy(w, d)
         PROVE Shape'
    <2>1. Finish(w) /\ UNCHANGED <<effectTables, approvals, preparations, acceptances, blocked, world>>
      BY <1>14 DEF PublishCommit, RevokePolicy
    <2>2. session' \in [Worker -> Session] /\ SessionOK'
      BY <2>1, IdleKeepsSessions DEF Finish, Recorded, effectTables
    <2>3. published' \subseteq Digest /\ retired' \subseteq Digest /\ current' \in Digest
      BY <1>14 DEF PublishCommit, RevokePolicy, Shape, TypeOK, SessionOK
    <2>4. QED
      BY <2>1, <2>2, <2>3 DEF Finish, Shape, TypeOK, Recorded, effectTables, world
  <1>15. ASSUME World PROVE Shape'
    <2>1. UNCHANGED <<writer, session, effectTables, preparations, policyTables, applied, lost,
                      effects, crashes>>
      BY <1>15 DEF World, CancelTaskAuthority, IssueAcceptance, PrepareRollback, EditSource,
         TimePasses, tables, world
    <2>2. /\ approvals' \in [Approval -> ApprovalRow]
          /\ \A a \in Approval : approvals'[a].scope = 2 => approvals'[a].revoked
      <3>1. ASSUME NEW t \in Task, CancelTaskAuthority(t) PROVE <2>2!:
        <4>1. approvals \in [Approval -> ApprovalRow]
          BY DEF Shape, TypeOK
        <4>2. \A r \in ApprovalRow : [r EXCEPT !.revoked = TRUE] \in ApprovalRow
                                      /\ [r EXCEPT !.revoked = TRUE].revoked
          BY DEF ApprovalRow
        <4>3. QED
          BY <3>1, <4>1, <4>2 DEF CancelTaskAuthority, Shape
      <3>2. CASE UNCHANGED approvals
        BY <3>2 DEF Shape, TypeOK
      <3>3. QED
        BY <1>15, <3>1, <3>2 DEF World, IssueAcceptance, PrepareRollback, EditSource,
           TimePasses, tables
    <2>3. acceptances' \in [Intent -> Digest \cup {None}]
      BY <1>15 DEF World, CancelTaskAuthority, IssueAcceptance, PrepareRollback, EditSource,
         TimePasses, tables, Shape, TypeOK
    <2>4. blocked' \in BOOLEAN /\ source' \in Digest /\ late' \in BOOLEAN
      BY <1>15 DEF World, CancelTaskAuthority, IssueAcceptance, PrepareRollback, EditSource,
         TimePasses, tables, world, Shape, TypeOK
    <2>5. SessionOK'
      BY <2>1 DEF Shape, SessionOK, Fenced, At, Recorded, effectTables
    <2>6. QED
      BY <2>1, <2>2, <2>3, <2>4, <2>5 DEF Shape, TypeOK, effectTables, policyTables
  <1>16. CASE UNCHANGED vars
    BY <1>16 DEF vars, tables, effectTables, policyTables, world, Shape, TypeOK, SessionOK,
       Fenced, At, Recorded
  <1>17. QED
    BY <1>1, <1>2, <1>3, <1>4, <1>5, <1>6, <1>7, <1>8, <1>9, <1>10, <1>11, <1>12, <1>13, <1>14,
       <1>15, <1>16 DEF Next, Execute, Reconcile, Approve, Govern

(* Every table and session keeps its type.                                   *)
THEOREM TypeCorrect == Spec => []TypeOK
  <1>1. Spec => []Shape
    BY InitShape, ShapeStep, PTL DEF Spec
  <1>2. Shape => TypeOK
    BY DEF Shape
  <1>3. QED
    BY <1>1, <1>2, PTL

-----------------------------------------------------------------------------
(* The fence.  Seen from the fence a step is one of six: it leaves the fence,  *)
(* the operations and the provider alone, and the authority too while the     *)
(* fence is held; or it is Reserve, a dispatch, the loss of a transaction,    *)
(* CommitFence or the UPDATE of reconcile.                                    *)
Quiet ==
    /\ UNCHANGED <<writer, operations, used, applied, lost, effects>>
    /\ \A w \in Worker : Fenced(w) <=> Fenced(w)'
    /\ \A w \in Worker : Fenced(w) => session'[w] = session[w]
    /\ writer # None => UNCHANGED <<current, approvals, acceptances>>

Dispatch(w, hit) ==
    /\ At(w, "reserved")
    /\ Apply(w, hit)
    /\ session'[w].at = "returned" /\ session'[w].hit = hit
    /\ session'[w].intent = session[w].intent
    /\ session'[w].approval = session[w].approval
    /\ session'[w].digest = session[w].digest
    /\ session'[w].key = session[w].key
    /\ \A v \in Worker \ {w} : session'[v] = session[v]
    /\ UNCHANGED <<writer, operations, used, lost, current, approvals, acceptances>>

Lose(w) ==
    /\ Fenced(w)
    /\ \E hit \in BOOLEAN :
          /\ At(w, "returned") => hit = session[w].hit
          /\ At(w, "returned") => UNCHANGED <<applied, effects>>
          /\ At(w, "reserved") => Apply(w, hit) \/ (~hit /\ UNCHANGED <<applied, effects>>)
          /\ lost' = [lost EXCEPT ![session[w].key] = IF hit THEN @ + 1 ELSE @]
    /\ session' = [session EXCEPT ![w] = Idle]
    /\ writer' = None
    /\ UNCHANGED <<operations, used, current, approvals, acceptances>>

Update(w) ==
    /\ At(w, "reconciling")
    /\ LockFree
    /\ UNCHANGED <<writer, used, applied, lost, effects, current, approvals, acceptances>>
    /\ session' = [session EXCEPT ![w] = Idle]
    /\ \A k \in OpKey : Recorded(k)' <=> Recorded(k)
    /\ \A k \in OpKey :
          /\ operations'[k].approval = operations[k].approval
          /\ \/ operations'[k].effect = operations[k].effect
             \/ k = session[w].key /\ operations'[k].effect # "unknown"

(* Seen from the effect boundary, every step is one of six.                    *)
LEMMA FenceSteps ==
  ASSUME Shape, [Next]_vars
  PROVE  \/ Quiet
         \/ \E w \in Worker, i \in Intent, a \in Approval : Reserve(w, i, a)
         \/ \E w \in Worker, hit \in BOOLEAN : Dispatch(w, hit)
         \/ \E w \in Worker : Lose(w)
         \/ \E w \in Worker : CommitFence(w)
         \/ \E w \in Worker : Update(w)
  <1>a. session \in [Worker -> Session] /\ Idle.at = "idle"
    BY IdleInSession DEF Shape, TypeOK
  <1>1. ASSUME NEW w \in Worker, ~Fenced(w), ~Fenced(w)',
               \A v \in Worker \ {w} : session'[v] = session[v],
               UNCHANGED <<writer, operations, used, applied, lost, effects>>,
               \/ UNCHANGED <<current, approvals, acceptances>>
               \/ LockFree
        PROVE  Quiet
    BY <1>1 DEF Quiet, Fenced, LockFree
  <1>2. ASSUME NEW w \in Worker, Finish(w), ~Fenced(w),
               UNCHANGED <<operations, used, applied, lost, effects>>
        PROVE  Quiet
    <2>1. /\ \A v \in Worker \ {w} : session'[v] = session[v]
          /\ session'[w] = Idle
          /\ UNCHANGED writer /\ LockFree
      BY <1>a, <1>2 DEF Finish
    <2>2. ~Fenced(w)'
      BY <1>a, <2>1 DEF Fenced
    <2>3. QED
      BY <1>1, <1>2, <2>1, <2>2
  <1>3. ASSUME NEW w \in Worker,
               \/ Connect(w)
               \/ Leave(w)
               \/ \E k \in OpKey : ReconcileRead(w, k)
               \/ \E a \in Approval : IssueRead(w, a)
               \/ PublishRead(w)
        PROVE  Quiet
    <2>1. ~Fenced(w) /\ UNCHANGED <<writer, tables, world>>
      BY <1>3 DEF Connect, Leave, ReconcileRead, IssueRead, PublishRead, Fenced, At
    <2>2. \A v \in Worker \ {w} : session'[v] = session[v]
      BY <1>a, <1>3 DEF Connect, Leave, ReconcileRead, IssueRead, PublishRead
    <2>3. session'[w].at \in {"idle", "connected", "reconciling", "issuing", "publishing"}
      BY ZenonT(60), <1>a, <1>3 DEF Connect, Leave, ReconcileRead, IssueRead, PublishRead, Session
    <2>4. QED
      BY <1>1, <2>1, <2>2, <2>3 DEF Fenced, tables, world, effectTables, policyTables
  <1>4. ASSUME NEW w \in Worker,
               \/ IssueInsert(w)
               \/ \E a \in Approval : RevokeApproval(w, a)
               \/ \E c \in Correction, a \in Approval :
                     \/ PrepareRevocation(w, c, a)
                     \/ CommitRevocation(w, c, a)
                     \/ CancelRevocation(w, c, a)
               \/ PublishCommit(w)
               \/ \E d \in Digest : RevokePolicy(w, d)
        PROVE  Quiet
    <2>1. Finish(w) /\ ~Fenced(w) /\ UNCHANGED <<effectTables, world>>
      BY <1>4 DEF IssueInsert, RevokeApproval, PrepareRevocation, CommitRevocation,
         CancelRevocation, PublishCommit, RevokePolicy, Fenced, At
    <2>2. QED
      BY <1>2, <2>1 DEF effectTables, world
  <1>5. ASSUME NEW w \in Worker, DispatchConfirmed(w) \/ DispatchUnconfirmed(w)
        PROVE  \E hit \in BOOLEAN : Dispatch(w, hit)
    <2>1. CASE DispatchConfirmed(w)
      <3>1. PICK hit \in BOOLEAN :
               /\ Apply(w, hit)
               /\ session' = [session EXCEPT ![w] =
                     [@ EXCEPT !.at = "returned", !.hit = hit, !.effect = "confirmed-success"]]
        BY <2>1 DEF DispatchConfirmed
      <3>2. Dispatch(w, hit)
        BY ZenonT(60), <2>1, <3>1, <1>a DEF DispatchConfirmed, Dispatch, At, Session, tables, effectTables,
           policyTables
      <3>3. QED
        BY <3>2
    <2>2. CASE DispatchUnconfirmed(w)
      <3>1. PICK hit \in BOOLEAN :
               /\ Apply(w, hit)
               /\ session' = [session EXCEPT ![w] = [@ EXCEPT !.at = "returned", !.hit = hit]]
        BY <2>2 DEF DispatchUnconfirmed
      <3>2. Dispatch(w, hit)
        BY <2>2, <3>1, <1>a DEF DispatchUnconfirmed, Dispatch, At, Session, tables, effectTables,
           policyTables
      <3>3. QED
        BY <3>2
    <2>3. QED
      BY <1>5, <2>1, <2>2
  <1>6. ASSUME NEW w \in Worker, HandlerRaises(w)
        PROVE  Lose(w)
    BY <1>6 DEF HandlerRaises, Lose, Fenced, At, tables, effectTables, policyTables
  <1>7. ASSUME NEW w \in Worker, Crash(w)
        PROVE  Lose(w)
    BY <1>7, <1>a DEF Crash, Lose, Fenced, At, Shape, SessionOK, Session, tables, effectTables,
       policyTables
  <1>8. ASSUME NEW w \in Worker, ReconcileMismatch(w) \/ ReconcileConfirm(w)
        PROVE  Update(w)
    <2> DEFINE old == operations[session[w].key]
    <2>1. At(w, "reconciling") /\ session[w].key \in OpKey /\ Recorded(session[w].key)
          /\ operations \in [OpKey -> Row]
      BY <1>8 DEF ReconcileMismatch, ReconcileConfirm, Settle, Shape, TypeOK, SessionOK
    <2>2. PICK row : /\ Settle(w, row) /\ row.state # "absent" /\ row.approval = old.approval
                     /\ row.effect = old.effect \/ row.effect # "unknown"
      <3>1. CASE ReconcileMismatch(w)
        <4>1. /\ [old EXCEPT !.attempts = @ + 1].state = old.state
              /\ [old EXCEPT !.attempts = @ + 1].approval = old.approval
              /\ [old EXCEPT !.attempts = @ + 1].effect = old.effect
          BY <2>1 DEF Row
        <4>2. QED
          BY <3>1, <2>1, <4>1 DEF ReconcileMismatch, Recorded
      <3>2. CASE ReconcileConfirm(w)
        <4>1. PICK e \in {"confirmed-success", "confirmed-failure"} :
                 Settle(w, [old EXCEPT !.state = "completed", !.effect = e, !.attempts = @ + 1])
          BY <3>2 DEF ReconcileConfirm
        <4>2. LET n == [old EXCEPT !.state = "completed", !.effect = e, !.attempts = @ + 1]
              IN  n.state = "completed" /\ n.approval = old.approval /\ n.effect = e
          BY <2>1 DEF Row
        <4>3. QED
          BY <4>1, <4>2
      <3>3. QED
        BY <1>8, <3>1, <3>2
    <2>3. QED
      BY <2>1, <2>2 DEF Settle, Finish, Update, Recorded, policyTables, world
  <1>9. ASSUME World
        PROVE  Quiet
    <2>1. UNCHANGED <<writer, session, operations, used, applied, lost, effects>>
      BY <1>9 DEF World, CancelTaskAuthority, IssueAcceptance, PrepareRollback, EditSource,
         TimePasses, tables, effectTables, world
    <2>2. LockFree \/ UNCHANGED <<current, approvals, acceptances>>
      BY <1>9 DEF World, CancelTaskAuthority, IssueAcceptance, PrepareRollback, EditSource,
         TimePasses, tables, policyTables
    <2>3. QED
      BY <2>1, <2>2 DEF Quiet, Fenced, LockFree
  <1>10. CASE UNCHANGED vars
    BY <1>10 DEF vars, tables, effectTables, policyTables, world, Quiet, Fenced
  <1>11. QED
    BY <1>3, <1>4, <1>5, <1>6, <1>7, <1>8, <1>9, <1>10 DEF Next, Execute, Reconcile, Approve,
       Govern

(* The invariant of the fence: it is held by one worker, whose key has no row  *)
(* and whose authority is frozen, and what the provider applied is accounted.  *)
Fence ==
    /\ Shape
    /\ LockHolder
    /\ RowsOK
    /\ FencedFresh
    /\ FenceFreezesAuthority
    /\ EffectsAccounted

(* The writer lock admits one worker to the fence.                             *)
LEMMA FenceAlone ==
  ASSUME LockHolder, NEW w \in Worker, Fenced(w)
  PROVE  writer = w /\ \A v \in Worker : Fenced(v) => v = w
  BY DEF LockHolder

(* Nobody is in the fence while the writer lock is free.                       *)
LEMMA FreeUnfenced ==
  ASSUME LockHolder, LockFree
  PROVE  \A v \in Worker : ~Fenced(v)
  BY NamesAssumption DEF LockHolder, LockFree

(* Nothing is in the fence at first.                                           *)
LEMMA InitFence == Init => Fence
  <1> SUFFICES ASSUME Init PROVE Fence
    OBVIOUS
  <1>1. Shape
    BY InitShape
  <1>2. \A w \in Worker : ~Fenced(w)
    BY IdleInSession DEF Init, Fenced
  <1>3. LockHolder /\ FencedFresh /\ FenceFreezesAuthority
    BY <1>2, NamesAssumption DEF Init, LockHolder, FencedFresh, FenceFreezesAuthority
  <1>4. RowsOK
    BY NamesAssumption DEF Init, RowsOK, Recorded, NoRow
  <1>5. EffectsAccounted
    BY <1>1 DEF Init, EffectsAccounted
  <1>6. QED
    BY <1>1, <1>3, <1>4, <1>5 DEF Fence

(* The invariant of the effect boundary is inductive.                          *)
LEMMA FenceStep == Fence /\ [Next]_vars => Fence'
  <1> SUFFICES ASSUME Fence, [Next]_vars PROVE Fence'
    OBVIOUS
  <1>a. Shape /\ Shape'
    BY ShapeStep DEF Fence
  <1>b. /\ session \in [Worker -> Session] /\ session' \in [Worker -> Session]
        /\ operations \in [OpKey -> Row]
        /\ applied \in [OpKey -> Nat] /\ lost \in [OpKey -> Nat]
        /\ Idle.at = "idle"
    BY <1>a, IdleInSession DEF Shape, TypeOK
  <1>c. \A w \in Worker : Fenced(w) => /\ session[w].key \in OpKey
                                       /\ session[w].key = KeyOf[session[w].intent]
                                       /\ session[w].intent \in Intent
                                       /\ session[w].approval \in Approval
    BY <1>a, <1>b, ConstantsAssumption DEF Shape, SessionOK
  <1>1. CASE Quiet
    <2>1. LockHolder'
      BY <1>1 DEF Quiet, Fence, LockHolder
    <2>2. RowsOK'
      BY <1>1 DEF Quiet, Fence, RowsOK, Recorded
    <2>3. FencedFresh'
      BY <1>1 DEF Quiet, Fence, FencedFresh, Recorded
    <2>4. FenceFreezesAuthority'
      BY <1>1, NamesAssumption DEF Quiet, Fence, LockHolder, FenceFreezesAuthority, Live
    <2>5. EffectsAccounted'
      BY <1>1 DEF Quiet, Fence, EffectsAccounted, Remembered, Recorded
    <2>6. QED
      BY <1>a, <2>1, <2>2, <2>3, <2>4, <2>5 DEF Fence
  <1>2. ASSUME NEW w \in Worker, NEW i \in Intent, NEW a \in Approval, Reserve(w, i, a)
        PROVE  Fence'
    <2>1. /\ \A v \in Worker \ {w} : session'[v] = session[v]
          /\ session'[w].at = "reserved" /\ session'[w].intent = i /\ session'[w].approval = a
          /\ session'[w].digest = current /\ session'[w].key = KeyOf[i]
          /\ ~session'[w].hit
      BY <1>2, <1>b DEF Reserve, Idle
    <2>2. \A v \in Worker : ~Fenced(v)
      BY <1>2, FreeUnfenced DEF Reserve, Fence
    <2>3. \A v \in Worker : Fenced(v)' <=> v = w
      BY <2>1, <2>2 DEF Fenced
    <2>4. LockHolder'
      BY <1>2, <2>3 DEF Reserve, LockHolder
    <2>5. RowsOK'
      BY <1>2 DEF Reserve, Fence, RowsOK, Recorded, tables, effectTables
    <2>6. FencedFresh'
      BY <1>2, <2>1, <2>3 DEF Reserve, FencedFresh, NoRecord, Recorded, tables, effectTables
    <2>7. FenceFreezesAuthority'
      BY <1>2, <2>1, <2>3 DEF Reserve, Authorized, FenceFreezesAuthority, Live, tables, policyTables
    <2>8. EffectsAccounted'
      <3>1. \A k \in OpKey : Remembered(k) <=> Remembered(k)'
        BY <1>2, <2>1, <2>2, <2>3 DEF Reserve, Remembered, Recorded, tables, effectTables
      <3>2. QED
        BY <1>2, <3>1 DEF Reserve, Fence, EffectsAccounted, tables, world
    <2>9. QED
      BY <1>a, <2>4, <2>5, <2>6, <2>7, <2>8 DEF Fence
  <1>3. ASSUME NEW w \in Worker, NEW hit \in BOOLEAN, Dispatch(w, hit)
        PROVE  Fence'
    <2>1. \A v \in Worker : Fenced(v) <=> Fenced(v)'
      BY <1>3 DEF Dispatch, Fenced, At
    <2>2. \A v \in Worker : /\ session'[v].intent = session[v].intent
                            /\ session'[v].approval = session[v].approval
                            /\ session'[v].digest = session[v].digest
                            /\ session'[v].key = session[v].key
      BY <1>3 DEF Dispatch
    <2>3. LockHolder'
      BY <1>3, <2>1 DEF Dispatch, Fence, LockHolder
    <2>4. RowsOK'
      BY <1>3 DEF Dispatch, Fence, RowsOK, Recorded
    <2>5. FencedFresh'
      BY <1>3, <2>1, <2>2 DEF Dispatch, Fence, FencedFresh, Recorded
    <2>6. FenceFreezesAuthority'
      BY <1>3, <2>1, <2>2 DEF Dispatch, Fence, FenceFreezesAuthority, Live
    <2>7. EffectsAccounted'
      <3>1. Fenced(w) /\ ~session[w].hit /\ session[w].key \in OpKey
            /\ \A v \in Worker : Fenced(v) => v = w
        BY <1>3, <1>a, <1>c, FenceAlone DEF Dispatch, Fenced, At, Shape, SessionOK, Fence
      <3>2. \A k \in OpKey : applied[k] <= lost[k] + (IF Recorded(k) THEN 1 ELSE 0)
        BY <3>1 DEF Fence, EffectsAccounted, Remembered
      <3>3. ~Recorded(session[w].key)
        BY <3>1 DEF Fence, FencedFresh
      <3>4. \A k \in OpKey : Recorded(k)' <=> Recorded(k)
        BY <1>3 DEF Dispatch, Recorded
      <3>5. CASE hit
        <4>1. applied' = [applied EXCEPT ![session[w].key] = @ + 1] /\ lost' = lost
          BY <1>3, <3>5 DEF Dispatch, Apply
        <4>2. Fenced(w)' /\ session'[w].hit /\ session'[w].key = session[w].key
          BY <1>3, <2>1, <3>1, <3>5 DEF Dispatch
        <4>3. \A k \in OpKey : applied'[k] = IF k = session[w].key THEN applied[k] + 1
                                                                ELSE applied[k]
          BY <4>1, <1>b
        <4>4. \A k \in OpKey \ {session[w].key} :
                 applied'[k] <= lost'[k] + (IF Recorded(k)' THEN 1 ELSE 0)
          BY <3>2, <3>4, <4>1, <4>3
        <4>5. applied'[session[w].key] <= lost'[session[w].key] + 1
          BY <3>1, <3>2, <3>3, <4>1, <4>3, <1>b
        <4>6. \A k \in OpKey : Recorded(k)' \/ k = session[w].key => Remembered(k)'
          BY <4>2 DEF Remembered
        <4>7. \A k \in OpKey : applied'[k] \in Nat /\ lost'[k] \in Nat
          BY <1>a DEF Shape, TypeOK
        <4>8. QED
          BY <4>4, <4>5, <4>6, <4>7 DEF EffectsAccounted
      <3>6. CASE ~hit
        BY <1>3, <3>2, <3>4, <3>6, <1>b DEF Dispatch, Apply, EffectsAccounted, Remembered
      <3>7. QED
        BY <3>5, <3>6
    <2>8. QED
      BY <1>a, <2>3, <2>4, <2>5, <2>6, <2>7 DEF Fence
  <1>4. ASSUME NEW w \in Worker, Lose(w)
        PROVE  Fence'
    <2>1. session[w].key \in OpKey /\ writer = w /\ \A v \in Worker : Fenced(v) => v = w
      BY <1>4, <1>c, FenceAlone DEF Lose, Fence
    <2>2. \A v \in Worker : ~Fenced(v)'
      BY <1>4, <1>b, <2>1 DEF Lose, Fenced
    <2>3. LockHolder' /\ FencedFresh' /\ FenceFreezesAuthority'
      BY <1>4, <2>2, NamesAssumption DEF Lose, LockHolder, FencedFresh, FenceFreezesAuthority
    <2>4. RowsOK'
      BY <1>4 DEF Lose, Fence, RowsOK, Recorded
    <2>5. EffectsAccounted'
      <3> DEFINE key == session[w].key
      <3>1. ~Recorded(key) /\ \A k \in OpKey : Recorded(k)' <=> Recorded(k)
        BY <1>4 DEF Lose, Fence, FencedFresh, Recorded
      <3>2. \A k \in OpKey \ {key} :
               /\ applied'[k] = applied[k] /\ lost'[k] = lost[k]
               /\ applied[k] <= lost[k] + (IF Recorded(k) THEN 1 ELSE 0)
        <4>1. \A k \in OpKey \ {key} : applied[k] <= lost[k] + (IF Recorded(k) THEN 1 ELSE 0)
          BY <2>1 DEF Fence, EffectsAccounted, Remembered
        <4>2. \A k \in OpKey \ {key} : applied'[k] = applied[k] /\ lost'[k] = lost[k]
          BY <1>4, <1>b, <2>1 DEF Lose, Apply, Fenced, At
        <4>3. QED
          BY <4>1, <4>2
      <3>3. applied'[key] <= lost'[key]
        <4>1. applied[key] <= lost[key] + (IF session[w].hit THEN 1 ELSE 0)
          <5>1. Remembered(key) <=> session[w].hit
            BY <1>4, <2>1, <3>1 DEF Remembered, Lose
          <5>2. QED
            BY <5>1, <2>1 DEF Fence, EffectsAccounted
        <4>2. At(w, "reserved") => ~session[w].hit
          BY <1>a DEF Shape, SessionOK
        <4>3. PICK hit \in BOOLEAN :
                 /\ At(w, "returned") => hit = session[w].hit /\ applied' = applied
                 /\ At(w, "reserved") => Apply(w, hit) \/ (~hit /\ applied' = applied)
                 /\ lost' = [lost EXCEPT ![key] = IF hit THEN @ + 1 ELSE @]
          BY <1>4 DEF Lose
        <4>4. lost'[key] = lost[key] + (IF hit THEN 1 ELSE 0)
          BY <4>3, <2>1, <1>b
        <4>5. CASE At(w, "returned")
          BY <4>1, <4>3, <4>4, <4>5, <2>1, <1>b
        <4>6. CASE At(w, "reserved")
          <5>1. applied'[key] = applied[key] + (IF hit THEN 1 ELSE 0)
            BY <4>3, <4>6, <2>1, <1>b DEF Apply
          <5>2. QED
            BY <4>1, <4>2, <4>4, <4>6, <5>1, <2>1, <1>b
        <4>7. QED
          BY <1>4, <4>5, <4>6 DEF Lose, Fenced, At
      <3>4. QED
        BY <3>1, <3>2, <3>3, <2>1, <1>a DEF EffectsAccounted, Remembered, Shape, TypeOK
    <2>6. QED
      BY <1>a, <2>3, <2>4, <2>5 DEF Fence
  <1>5. ASSUME NEW w \in Worker, CommitFence(w)
        PROVE  Fence'
    <2> DEFINE s == session[w]
    <2>1. Fenced(w) /\ s.key \in OpKey /\ s.approval \in Approval /\ ~Recorded(s.key)
          /\ \A v \in Worker : Fenced(v) => v = w
      BY <1>5, <1>c, FenceAlone DEF CommitFence, Committable, Fenced, At, Fence, FencedFresh
    <2>2. \A v \in Worker : ~Fenced(v)'
      BY <1>5, <1>b, <2>1 DEF CommitFence, Fenced
    <2>3. LockHolder' /\ FencedFresh' /\ FenceFreezesAuthority'
      BY <1>5, <2>2, NamesAssumption DEF CommitFence, LockHolder, FencedFresh,
         FenceFreezesAuthority
    <2>4. \A k \in OpKey :
             /\ Recorded(k)' <=> (Recorded(k) \/ k = s.key)
             /\ operations'[k].approval = IF k = s.key THEN s.approval
                                                       ELSE operations[k].approval
      BY <1>5, <1>b, <2>1 DEF CommitFence, Recorded
    <2>5. RowsOK'
      <3>1. used' = used \cup {<<s.approval, s.key>>}
        BY <1>5 DEF CommitFence
      <3>2. \A a \in Approval : <<a, s.key>> \notin used
        BY <2>1 DEF Fence, RowsOK
      <3>3. QED
        BY <2>1, <2>4, <3>1, <3>2 DEF Fence, RowsOK
    <2>6. EffectsAccounted'
      <3>1. applied' = applied /\ lost' = lost
        BY <1>5 DEF CommitFence, world
      <3>2. \A k \in OpKey : applied[k] <= lost[k] + (IF Recorded(k)' THEN 1 ELSE 0)
        <4>1. \A k \in OpKey \ {s.key} : applied[k] <= lost[k] + (IF Recorded(k) THEN 1 ELSE 0)
          BY <2>1 DEF Fence, EffectsAccounted, Remembered
        <4>2. applied[s.key] <= lost[s.key] + 1
          BY <2>1, <1>b DEF Fence, EffectsAccounted
        <4>3. QED
          BY <4>1, <4>2, <2>1, <2>4
      <3>3. QED
        BY <2>2, <3>1, <3>2 DEF EffectsAccounted, Remembered
    <2>7. QED
      BY <1>a, <2>3, <2>5, <2>6 DEF Fence
  <1>6. ASSUME NEW w \in Worker, Update(w)
        PROVE  Fence'
    <2>1. \A v \in Worker : ~Fenced(v)
      BY <1>6, FreeUnfenced DEF Update, Fence
    <2>2. \A v \in Worker : ~Fenced(v)'
      BY <1>6, <1>b, <2>1 DEF Update, Fenced
    <2>3. LockHolder' /\ FencedFresh' /\ FenceFreezesAuthority'
      BY <1>6, <2>2, NamesAssumption DEF Update, LockFree, LockHolder, FencedFresh,
         FenceFreezesAuthority
    <2>4. RowsOK'
      BY <1>6 DEF Update, Fence, RowsOK
    <2>5. EffectsAccounted'
      BY <1>6, <2>1, <2>2 DEF Update, Fence, EffectsAccounted, Remembered
    <2>6. QED
      BY <1>a, <2>3, <2>4, <2>5 DEF Fence
  <1>7. QED
    BY <1>1, <1>2, <1>3, <1>4, <1>5, <1>6, FenceSteps, <1>a

(* The invariant of the effect boundary holds in every state.                  *)
LEMMA FenceInvariant == Spec => []Fence
  BY InitFence, FenceStep, PTL DEF Spec

(* A provider never applies the effect of a key more often than once plus once *)
(* for each transaction lost after the dispatch.                              *)
THEOREM EffectsAreAccounted == Spec => []EffectsAccounted
  <1>1. Fence => EffectsAccounted
    BY DEF Fence
  <1>2. QED
    BY <1>1, FenceInvariant, PTL

(* From reservation to commit the authority of a call is frozen.              *)
THEOREM AuthorityFrozen == Spec => []FenceFreezesAuthority
  <1>1. Fence => FenceFreezesAuthority
    BY DEF Fence
  <1>2. QED
    BY <1>1, FenceInvariant, PTL

-----------------------------------------------------------------------------
(* Revocation.  A step either raises the scope of one live approval without    *)
(* operations, perhaps committing one preparation of it, or keeps the scopes,   *)
(* the revocations and the committed preparations.                            *)
Revoke(a) ==
    /\ LockFree
    /\ Live(a)
    /\ ~Dispatched(a)
    /\ approvals' = Revoked(a)
    /\ UNCHANGED <<operations, used>>
    /\ \/ UNCHANGED preparations
       \/ \E c \in Correction :
             preparations' = [preparations EXCEPT ![<<c, a>>] = "committed"]

Keep ==
    /\ \A a \in Approval : /\ approvals'[a].scope = approvals[a].scope
                           /\ approvals[a].revoked => approvals'[a].revoked
    /\ \A p \in Correction \X Approval :
          preparations'[p] = "committed" <=> preparations[p] = "committed"

Revocations == RevocationExcludesOperation /\ OneCommittedRevocation

(* Seen from the revocations, every step keeps them or revokes one approval.   *)
LEMMA RevocationSteps ==
  ASSUME Fence, Revocations, [Next]_vars
  PROVE  Keep \/ \E a \in Approval : Revoke(a)
  <1>a. /\ approvals \in [Approval -> ApprovalRow]
        /\ preparations \in [Correction \X Approval ->
                                {"none", "prepared", "cancelled", "committed"}]
    BY DEF Fence, Shape, TypeOK
  <1>1. ASSUME UNCHANGED <<approvals, preparations>> PROVE Keep
    BY <1>1 DEF Keep
  <1>2. ASSUME NEW w \in Worker, IssueInsert(w) PROVE Keep
    <2> DEFINE a == session[w].approval
    <2>1. a \in Approval /\ session[w].digest \in Digest
      BY <1>2 DEF IssueInsert, Fence, Shape, SessionOK
    <2>2. /\ approvals' = [approvals EXCEPT ![a] =
                [approvals[a] EXCEPT !.issued = TRUE, !.digest = session[w].digest]]
          /\ UNCHANGED preparations
      BY <1>2 DEF IssueInsert
    <2>3. LET n == [approvals[a] EXCEPT !.issued = TRUE, !.digest = session[w].digest]
          IN  n.scope = approvals[a].scope /\ n.revoked = approvals[a].revoked
      BY <1>a, <2>1, IssuedTyped
    <2>4. QED
      BY <1>a, <2>1, <2>2, <2>3 DEF Keep
  <1>3. ASSUME NEW w \in Worker, NEW a \in Approval, RevokeApproval(w, a) PROVE Revoke(a)
    BY <1>3 DEF RevokeApproval, Finish, Revoke, effectTables
  <1>4. ASSUME NEW w \in Worker, NEW c \in Correction, NEW a \in Approval, CommitRevocation(w, c, a)
        PROVE Revoke(a)
    BY <1>4 DEF CommitRevocation, Finish, Revoke, effectTables
  <1>5. ASSUME NEW w \in Worker, NEW c \in Correction, NEW a \in Approval,
               PrepareRevocation(w, c, a) \/ CancelRevocation(w, c, a)
        PROVE Keep
    <2>1. preparations[<<c, a>>] # "committed"
      BY <1>5 DEF PrepareRevocation, CancelRevocation, Live, Revocations,
         RevocationExcludesOperation
    <2>2. approvals' = approvals
      BY <1>5 DEF PrepareRevocation, CancelRevocation
    <2>3. \E s \in {"prepared", "cancelled"} :
             preparations' = [preparations EXCEPT ![<<c, a>>] = s]
      BY <1>5 DEF PrepareRevocation, CancelRevocation
    <2>4. QED
      BY <1>a, <2>1, <2>2, <2>3 DEF Keep
  <1>6. ASSUME NEW t \in Task, CancelTaskAuthority(t) PROVE Keep
    <2>1. \A r \in ApprovalRow : /\ [r EXCEPT !.revoked = TRUE].scope = r.scope
                                 /\ [r EXCEPT !.revoked = TRUE].revoked
      BY SMTT(40) DEF ApprovalRow
    <2>2. QED
      BY <1>6, <1>a, <2>1 DEF CancelTaskAuthority, Keep
  <1>7. CASE \E w \in Worker : \/ Connect(w)
                               \/ Leave(w)
                               \/ Execute(w)
                               \/ Crash(w)
                               \/ Reconcile(w)
                               \/ Govern(w)
                               \/ \E a \in Approval : IssueRead(w, a)
    BY <1>1, <1>7 DEF Connect, Leave, Execute, Reserve, DispatchConfirmed, DispatchUnconfirmed,
       HandlerRaises, CommitFence, Crash, Reconcile, ReconcileRead, ReconcileMismatch,
       ReconcileConfirm, Settle, Govern, PublishRead, PublishCommit, RevokePolicy, IssueRead, tables
  <1>8. CASE \/ \E i \in Intent : IssueAcceptance(i)
             \/ PrepareRollback
             \/ \E d \in Digest : EditSource(d)
             \/ TimePasses
             \/ UNCHANGED vars
    BY <1>1, <1>8 DEF IssueAcceptance, PrepareRollback, EditSource, TimePasses, vars, tables
  <1>9. QED
    BY <1>2, <1>3, <1>4, <1>5, <1>6, <1>7, <1>8 DEF Next, Approve, World

(* The invariant of the revocations is inductive.                              *)
LEMMA RevocationsStep == Fence /\ Revocations /\ [Next]_vars => Revocations'
  <1> SUFFICES ASSUME Fence, Revocations, [Next]_vars PROVE Revocations'
    OBVIOUS
  <1>a. Fence'
    BY FenceStep
  <1>b. /\ approvals \in [Approval -> ApprovalRow] /\ approvals' \in [Approval -> ApprovalRow]
        /\ preparations \in [Correction \X Approval ->
                                {"none", "prepared", "cancelled", "committed"}]
    BY <1>a DEF Fence, Shape, TypeOK
  (* A row appears only for the live approval of the call in the fence. *)
  <1>c. \A a \in Approval : Dispatched(a)' => Dispatched(a) \/ Live(a)
    <2>1. CASE \E w \in Worker : CommitFence(w)
      <3>1. PICK w \in Worker : CommitFence(w)
        BY <2>1
      <3>2. Live(session[w].approval)
        BY <3>1 DEF Fence, FenceFreezesAuthority, CommitFence, Committable, Fenced, At
      <3>3. \A k \in OpKey : operations'[k].approval \in
                                {session[w].approval, operations[k].approval}
        BY <3>1 DEF CommitFence, Fence, Shape, TypeOK
      <3>4. QED
        BY <3>2, <3>3 DEF Dispatched
    <2>2. CASE \A k \in OpKey : operations'[k].approval = operations[k].approval
      BY <2>2 DEF Dispatched
    <2>3. QED
      BY <2>1, <2>2, FenceSteps DEF Fence, Quiet, Reserve, Dispatch, Lose, Update, tables,
         effectTables
  <1>1. CASE Keep
    <2>1. ASSUME NEW a \in Approval, approvals'[a].scope = 2
          PROVE  approvals'[a].revoked /\ ~Dispatched(a)' /\ \A k \in OpKey : <<a, k>> \notin used'
      <3>1. approvals[a].revoked /\ ~Dispatched(a) /\ approvals'[a].revoked
        BY <1>1, <2>1 DEF Keep, Revocations, RevocationExcludesOperation
      <3>2. ~Dispatched(a)'
        BY <1>c, <3>1 DEF Live
      <3>3. QED
        BY <1>a, <3>1, <3>2 DEF Dispatched, Fence, RowsOK
    <2>2. ASSUME NEW p \in Correction \X Approval, preparations'[p] = "committed"
          PROVE  approvals'[p[2]].scope = 2
      BY <1>1, <2>2 DEF Keep, Revocations, RevocationExcludesOperation
    <2>3. OneCommittedRevocation'
      BY <1>1 DEF Keep, Revocations, OneCommittedRevocation
    <2>4. QED
      BY <2>1, <2>2, <2>3 DEF Revocations, RevocationExcludesOperation
  <1>2. ASSUME NEW a \in Approval, Revoke(a) PROVE Revocations'
    <2>0. approvals[a].scope = 1 /\ ~approvals[a].revoked
      BY <1>2, <1>b DEF Revoke, Live, Fence, Shape, ApprovalRow
    <2>1. /\ approvals'[a].scope = 2 /\ approvals'[a].revoked
          /\ \A b \in Approval \ {a} : approvals'[b] = approvals[b]
      BY <1>2, <1>b, <2>0 DEF Revoke, Revoked, ApprovalRow
    <2>2. \A c \in Correction : preparations[<<c, a>>] # "committed"
      BY <2>0 DEF Revocations, RevocationExcludesOperation
    <2>3. \A b \in Approval : Dispatched(b)' <=> Dispatched(b)
      BY <1>2 DEF Revoke, Dispatched
    <2>4. ASSUME NEW b \in Approval, approvals'[b].scope = 2
          PROVE  approvals'[b].revoked /\ ~Dispatched(b)' /\ \A k \in OpKey : <<b, k>> \notin used'
      <3>1. approvals'[b].revoked /\ ~Dispatched(b)'
        BY <1>2, <2>1, <2>3, <2>4 DEF Revoke, Revocations, RevocationExcludesOperation
      <3>2. QED
        BY <1>a, <3>1 DEF Dispatched, Fence, RowsOK
    <2>5. ASSUME NEW p \in Correction \X Approval, preparations'[p] = "committed"
          PROVE  p[2] = a \/ preparations[p] = "committed"
      <3>1. CASE UNCHANGED preparations
        BY <2>5, <3>1
      <3>2. ASSUME NEW c \in Correction,
                   preparations' = [preparations EXCEPT ![<<c, a>>] = "committed"]
            PROVE  p[2] = a \/ preparations[p] = "committed"
        <4>1. p = <<c, a>> \/ preparations'[p] = preparations[p]
          BY <1>b, <3>2
        <4>2. <<c, a>>[2] = a
          OBVIOUS
        <4>3. QED
          BY <2>5, <4>1, <4>2
      <3>3. QED
        BY <1>2, <3>1, <3>2 DEF Revoke
    <2>6. \A p \in Correction \X Approval :
             preparations'[p] = "committed" => approvals'[p[2]].scope = 2
      BY <2>1, <2>5 DEF Revocations, RevocationExcludesOperation
    <2>7. OneCommittedRevocation'
      <3>1. CASE UNCHANGED preparations
        BY <3>1 DEF Revocations, OneCommittedRevocation
      <3>2. ASSUME NEW c \in Correction,
                   preparations' = [preparations EXCEPT ![<<c, a>>] = "committed"]
            PROVE  OneCommittedRevocation'
        <4>1. \A b \in Approval, d \in Correction :
                 preparations'[<<d, b>>] = "committed"
                    => (b = a /\ d = c) \/ (b # a /\ preparations[<<d, b>>] = "committed")
          BY <1>b, <2>2, <3>2
        <4>2. QED
          BY <4>1 DEF Revocations, OneCommittedRevocation
      <3>3. QED
        BY <1>2, <3>1, <3>2 DEF Revoke
    <2>8. QED
      BY <2>4, <2>6, <2>7 DEF Revocations, RevocationExcludesOperation
  <1>3. QED
    BY <1>1, <1>2, RevocationSteps

(* Nothing is revoked at first.                                                *)
LEMMA InitRevocations == Init => Revocations
  BY DEF Init, Revocations, RevocationExcludesOperation, OneCommittedRevocation

(* The invariant of the revocations holds in every state.                      *)
LEMMA RevocationInvariant == Spec => []Revocations
  BY FenceInvariant, InitRevocations, RevocationsStep, PTL DEF Spec

(* A committed revocation and an operation exclude each other.                *)
THEOREM RevocationExcludes == Spec => []RevocationExcludesOperation
  <1>1. Revocations => RevocationExcludesOperation
    BY DEF Revocations
  <1>2. QED
    BY <1>1, RevocationInvariant, PTL

(* The revocation of an approval is committed for one correction at most.     *)
THEOREM OneRevocation == Spec => []OneCommittedRevocation
  <1>1. Revocations => OneCommittedRevocation
    BY DEF Revocations
  <1>2. QED
    BY <1>1, RevocationInvariant, PTL

-----------------------------------------------------------------------------
(* One-off approvals.                                                        *)
LEMMA ScopeStep == Fence /\ ScopeRespected /\ [Next]_vars => ScopeRespected'
  <1> SUFFICES ASSUME Fence, ScopeRespected, [Next]_vars PROVE ScopeRespected'
    OBVIOUS
  <1>a. session \in [Worker -> Session] /\ Idle.at = "idle"
    BY IdleInSession DEF Fence, Shape, TypeOK
  <1>1. ASSUME \A w \in Worker : Fenced(w)' => /\ Fenced(w)
                                               /\ session'[w].intent = session[w].intent
                                               /\ session'[w].approval = session[w].approval,
               \A e \in effects' : e \in effects \/ \E w \in Worker :
                    Fenced(w) /\ e.intent = session[w].intent /\ e.approval = session[w].approval
        PROVE  ScopeRespected'
    BY <1>1 DEF ScopeRespected, KeyInScope
  <1>2. CASE Quiet
    BY <1>1, <1>2 DEF Quiet
  <1>3. ASSUME NEW w \in Worker, NEW i \in Intent, NEW a \in Approval, Reserve(w, i, a)
        PROVE  ScopeRespected'
    <2>1. /\ session'[w].intent = i /\ session'[w].approval = a
          /\ \A v \in Worker \ {w} : session'[v] = session[v]
      BY <1>3, <1>a DEF Reserve, Idle
    <2>2. \A v \in Worker \ {w} : Fenced(v)' => Fenced(v)
      BY <2>1 DEF Fenced
    <2>3. KeyInScope(i, a) /\ effects' = effects
      BY <1>3 DEF Reserve, Authorized, world
    <2>4. QED
      BY <2>1, <2>2, <2>3 DEF ScopeRespected, KeyInScope
  <1>4. ASSUME NEW w \in Worker, NEW hit \in BOOLEAN, Dispatch(w, hit)
        PROVE  ScopeRespected'
    <2>1. \A v \in Worker : Fenced(v)' => /\ Fenced(v)
                                          /\ session'[v].intent = session[v].intent
                                          /\ session'[v].approval = session[v].approval
      BY <1>4 DEF Dispatch, Fenced, At
    <2>2. Fenced(w)
      BY <1>4 DEF Dispatch, Fenced, At
    <2>3. QED
      BY <1>1, <1>4, <2>1, <2>2 DEF Dispatch, Apply
  <1>5. ASSUME NEW w \in Worker, Lose(w)
        PROVE  ScopeRespected'
    <2>1. \A v \in Worker : Fenced(v)' => Fenced(v) /\ session'[v] = session[v]
      BY <1>5, <1>a DEF Lose, Fenced
    <2>2. Fenced(w) /\ \A e \in effects' : e \in effects \/
             (e.intent = session[w].intent /\ e.approval = session[w].approval)
      <3>1. Fenced(w) /\ (effects' = effects \/ \E hit \in BOOLEAN : Apply(w, hit))
        BY <1>5 DEF Lose, Fenced, At
      <3>2. QED
        BY <3>1 DEF Apply
    <2>3. QED
      BY <1>1, <2>1, <2>2
  <1>6. ASSUME NEW w \in Worker, CommitFence(w) \/ Update(w)
        PROVE  ScopeRespected'
    <2>1. \A v \in Worker : Fenced(v)' => Fenced(v) /\ session'[v] = session[v]
      BY <1>6, <1>a DEF CommitFence, Update, Fenced
    <2>2. effects' = effects
      BY <1>6 DEF CommitFence, Update, world
    <2>3. QED
      BY <1>1, <2>1, <2>2
  <1>7. QED
    BY <1>2, <1>3, <1>4, <1>5, <1>6, FenceSteps DEF Fence

(* Every effect dispatched under a one-off approval is of the same key.       *)
THEOREM OneOffIsOneKey == Spec => []OneOffOneKey
  <1>1. Init => ScopeRespected
    BY IdleInSession DEF Init, ScopeRespected, Fenced
  <1>2. Fence /\ ScopeRespected => OneOffOneKey
    <2> SUFFICES ASSUME Fence, ScopeRespected, NEW e \in effects, NEW f \in effects,
                        e.approval = f.approval, AuthorityType[e.approval] = "one_off"
                 PROVE  KeyOf[e.intent] = KeyOf[f.intent]
      BY DEF OneOffOneKey
    <2>1. KeyInScope(e.intent, e.approval) /\ KeyInScope(f.intent, f.approval)
      BY DEF ScopeRespected
    <2>2. QED
      BY <2>1 DEF KeyInScope
  <1>3. QED
    BY <1>1, <1>2, ScopeStep, FenceInvariant, PTL DEF Spec

-----------------------------------------------------------------------------
(* Policy authority, redispatch, the rollback block and the attempt limit.    *)

(* The current policy version is published and not retired: the pointer always *)
(* names an authority.                                                        *)
THEOREM PolicyIsAuthoritative == Spec => []CurrentPolicyAuthoritative
  <1> DEFINE Inv == CurrentPolicyAuthoritative /\ RetiredPublished
  <1>1. Init => Inv
    BY DEF Init, CurrentPolicyAuthoritative, RetiredPublished
  <1>2. Inv /\ [Next]_vars => Inv'
    <2> SUFFICES ASSUME Inv, [Next]_vars PROVE Inv'
      OBVIOUS
    <2>1. ASSUME NEW w \in Worker, PublishCommit(w) PROVE Inv'
      BY <2>1 DEF PublishCommit, CurrentPolicyAuthoritative, RetiredPublished
    <2>2. ASSUME NEW w \in Worker, NEW d \in Digest, RevokePolicy(w, d) PROVE Inv'
      BY <2>2 DEF RevokePolicy, Revocable, CurrentPolicyAuthoritative, RetiredPublished
    <2>3. ASSUME UNCHANGED policyTables PROVE Inv'
      BY <2>3 DEF policyTables, CurrentPolicyAuthoritative, RetiredPublished
    <2>4. ASSUME NEW w \in Worker,
                 Connect(w) \/ Leave(w) \/ Execute(w) \/ Crash(w) \/ Reconcile(w)
                    \/ Approve(w) \/ PublishRead(w)
          PROVE  UNCHANGED policyTables
      <3>1. CASE Connect(w) \/ Leave(w) \/ Crash(w) \/ PublishRead(w)
        BY SMTT(40), <3>1 DEF Connect, Leave, Crash, PublishRead, tables
      <3>2. CASE Execute(w)
        BY <3>2 DEF Execute, Reserve, DispatchConfirmed, DispatchUnconfirmed, HandlerRaises,
           CommitFence, tables
      <3>3. CASE Reconcile(w)
        BY <3>3 DEF Reconcile, ReconcileRead, ReconcileMismatch, ReconcileConfirm, Settle, tables
      <3>4. CASE Approve(w)
        BY <3>4 DEF Approve, IssueRead, IssueInsert, RevokeApproval, PrepareRevocation,
           CommitRevocation, CancelRevocation, tables
      <3>5. QED
        BY <2>4, <3>1, <3>2, <3>3, <3>4
    <2>5. CASE World \/ UNCHANGED vars
      BY <2>3, <2>5 DEF World, CancelTaskAuthority, IssueAcceptance, PrepareRollback,
         EditSource, TimePasses, vars, tables
    <2>6. QED
      BY <2>1, <2>2, <2>3, <2>4, <2>5 DEF Next, Govern
  <1>3. QED
    BY <1>1, <1>2, PTL DEF Spec

(* A key with a row is never dispatched again, and its row never disappears.   *)
THEOREM NeverRedispatched == Spec => RecordedNeverRedispatched
  <1>1. Fence /\ [Next]_vars =>
           [\A k \in OpKey : Recorded(k) => Recorded(k)' /\ applied'[k] = applied[k]]_vars
    <2> SUFFICES ASSUME Fence, [Next]_vars, NEW k \in OpKey, Recorded(k)
                 PROVE  Recorded(k)' /\ applied'[k] = applied[k]
      OBVIOUS
    <2>a. applied \in [OpKey -> Nat] /\ operations \in [OpKey -> Row]
          /\ \A w \in Worker : Fenced(w) => session[w].key \in OpKey
      BY ConstantsAssumption DEF Fence, Shape, TypeOK, SessionOK
    <2>1. \A w \in Worker : Fenced(w) => session[w].key # k
      BY DEF Fence, FencedFresh
    <2>2. CASE Quiet \/ \E w \in Worker : Update(w)
      BY <2>2 DEF Quiet, Update, Recorded
    <2>3. ASSUME NEW w \in Worker, NEW i \in Intent, NEW a \in Approval, Reserve(w, i, a)
          PROVE  Recorded(k)' /\ applied'[k] = applied[k]
      BY <2>3 DEF Reserve, Recorded, tables, effectTables, world
    <2>4. ASSUME NEW w \in Worker, NEW hit \in BOOLEAN, Dispatch(w, hit)
          PROVE  Recorded(k)' /\ applied'[k] = applied[k]
      BY <2>a, <2>1, <2>4 DEF Dispatch, Apply, Recorded, Fenced, At
    <2>5. ASSUME NEW w \in Worker, Lose(w)
          PROVE  Recorded(k)' /\ applied'[k] = applied[k]
      <3>1. Fenced(w) /\ operations' = operations
            /\ (applied' = applied \/ \E hit \in BOOLEAN : Apply(w, hit))
        BY <2>5 DEF Lose, Fenced, At
      <3>2. QED
        BY <2>a, <2>1, <3>1 DEF Apply, Recorded
    <2>6. ASSUME NEW w \in Worker, CommitFence(w)
          PROVE  Recorded(k)' /\ applied'[k] = applied[k]
      <3>1. Fenced(w)
        BY <2>6 DEF CommitFence, Committable, Fenced, At
      <3>2. QED
        BY <2>a, <2>1, <2>6, <3>1 DEF CommitFence, Recorded, world
    <2>7. QED
      BY <2>2, <2>3, <2>4, <2>5, <2>6, FenceSteps DEF Fence
  <1>2. QED
    BY <1>1, FenceInvariant, PTL DEF Spec, RecordedNeverRedispatched

(* How a step moves a worker between the stages, and what it does to the rows  *)
(* reconcile counts in.                                                       *)
LEMMA StageSteps ==
  ASSUME Fence, [Next]_vars
  PROVE  \/ UNCHANGED <<session, operations>>
         \/ \E w \in Worker :
               /\ session' = [session EXCEPT ![w] = session'[w]]
               /\ \/ /\ UNCHANGED operations
                     /\ \/ session'[w].at \in {"idle", "issuing"}
                        \/ Unblocked /\ session'[w].at \in {"connected", "publishing"}
                        \/ At(w, "connected") /\ session'[w].at = "reserved"
                        \/ At(w, "reserved") /\ session'[w].at = "returned"
                  \/ \E k \in OpKey : ReconcileRead(w, k) /\ session'[w].key = k
                                      /\ session'[w].at = "reconciling"
                  \/ \E row \in Row : /\ Settle(w, row)
                                      /\ row.attempts = operations[session[w].key].attempts + 1
                  \/ CommitFence(w)
  <1>a. session \in [Worker -> Session] /\ operations \in [OpKey -> Row] /\ Idle.at = "idle"
    BY IdleInSession DEF Fence, Shape, TypeOK
  <1> DEFINE Moves(w) ==
               \/ session'[w].at \in {"idle", "issuing"}
               \/ Unblocked /\ session'[w].at \in {"connected", "publishing"}
               \/ At(w, "connected") /\ session'[w].at = "reserved"
               \/ At(w, "reserved") /\ session'[w].at = "returned"
             Sets(w) == session' = [session EXCEPT ![w] = session'[w]]
  <1>1. ASSUME NEW w \in Worker, Connect(w) \/ Leave(w) \/ PublishRead(w)
                                 \/ \E a \in Approval : IssueRead(w, a)
        PROVE  Sets(w) /\ Moves(w) /\ UNCHANGED operations
    <2>1. Sets(w) /\ UNCHANGED operations
      BY <1>1, <1>a DEF Connect, Leave, PublishRead, IssueRead, tables, effectTables
    <2>2. Moves(w)
      <3>1. CASE Connect(w)
        BY <3>1, <1>a DEF Connect, Session
      <3>2. CASE Leave(w)
        BY <3>2, <1>a DEF Leave
      <3>3. CASE PublishRead(w)
        BY <3>3, <1>a DEF PublishRead, Session
      <3>4. ASSUME NEW a \in Approval, IssueRead(w, a) PROVE Moves(w)
        BY <3>4, <1>a DEF IssueRead, Session
      <3>5. QED
        BY <1>1, <3>1, <3>2, <3>3, <3>4
    <2>3. QED
      BY <2>1, <2>2
  <1>2. ASSUME NEW w \in Worker, Finish(w), UNCHANGED operations
        PROVE  Sets(w) /\ Moves(w) /\ UNCHANGED operations
    BY <1>2, <1>a DEF Finish
  <1>3. ASSUME NEW w \in Worker,
               \/ IssueInsert(w)
               \/ \E a \in Approval : RevokeApproval(w, a)
               \/ \E c \in Correction, a \in Approval :
                     \/ PrepareRevocation(w, c, a)
                     \/ CommitRevocation(w, c, a)
                     \/ CancelRevocation(w, c, a)
               \/ PublishCommit(w)
               \/ \E d \in Digest : RevokePolicy(w, d)
        PROVE  Sets(w) /\ Moves(w) /\ UNCHANGED operations
    <2>1. Finish(w) /\ UNCHANGED operations
      BY <1>3 DEF IssueInsert, RevokeApproval, PrepareRevocation, CommitRevocation,
         CancelRevocation, PublishCommit, RevokePolicy, effectTables
    <2>2. QED
      BY <1>2, <2>1
  <1>4. ASSUME NEW w \in Worker, NEW i \in Intent, NEW a \in Approval, Reserve(w, i, a)
        PROVE  Sets(w) /\ Moves(w) /\ UNCHANGED operations
    BY <1>4, <1>a DEF Reserve, Idle, tables, effectTables
  <1>5. ASSUME NEW w \in Worker, DispatchConfirmed(w) \/ DispatchUnconfirmed(w)
        PROVE  Sets(w) /\ Moves(w) /\ UNCHANGED operations
    <2>1. At(w, "reserved") /\ UNCHANGED operations
      BY <1>5 DEF DispatchConfirmed, DispatchUnconfirmed, tables, effectTables
    <2>2. PICK hit \in BOOLEAN, e \in Outcomes : session' = [session EXCEPT ![w] =
                    [session[w] EXCEPT !.at = "returned", !.hit = hit, !.effect = e]]
      <3>1. CASE DispatchConfirmed(w)
        BY <3>1 DEF DispatchConfirmed, Outcomes
      <3>2. CASE DispatchUnconfirmed(w)
        <4>1. PICK hit \in BOOLEAN : session' = [session EXCEPT ![w] =
                                          [session[w] EXCEPT !.at = "returned", !.hit = hit]]
          BY <3>2 DEF DispatchUnconfirmed
        <4>2. session[w] \in Session
          BY <1>a
        <4>3. [session[w] EXCEPT !.at = "returned", !.hit = hit]
                = [session[w] EXCEPT !.at = "returned", !.hit = hit, !.effect = session[w].effect]
          BY <4>2 DEF Session
        <4>4. session[w].effect \in Outcomes
          BY <4>2 DEF Session
        <4>5. QED
          BY <4>1, <4>3, <4>4
      <3>3. QED
        BY <1>5, <3>1, <3>2
    <2>3. Sets(w) /\ session'[w].at = "returned"
      BY <2>2, <1>a DEF Session
    <2>4. QED
      BY <2>1, <2>2, <2>3
  <1>6. ASSUME NEW w \in Worker, HandlerRaises(w) \/ Crash(w)
        PROVE  Sets(w) /\ Moves(w) /\ UNCHANGED operations
    BY <1>6, <1>a DEF HandlerRaises, Crash, tables, effectTables
  <1>7. ASSUME NEW w \in Worker, CommitFence(w)
        PROVE  Sets(w)
    BY <1>7, <1>a DEF CommitFence
  <1>8. ASSUME NEW w \in Worker, NEW k \in OpKey, ReconcileRead(w, k)
        PROVE  Sets(w) /\ session'[w].key = k /\ session'[w].at = "reconciling"
    BY <1>8, <1>a DEF ReconcileRead, Session
  <1>9. ASSUME NEW w \in Worker, ReconcileMismatch(w) \/ ReconcileConfirm(w)
        PROVE  /\ Sets(w)
               /\ \E row \in Row : /\ Settle(w, row)
                                   /\ row.attempts = operations[session[w].key].attempts + 1
    <2> DEFINE old == operations[session[w].key]
    <2>1. session[w].key \in OpKey /\ old \in Row
      BY <1>9, <1>a DEF ReconcileMismatch, ReconcileConfirm, Settle, Fence, Shape, SessionOK
    <2>2. PICK row \in Row : Settle(w, row) /\ row.attempts = old.attempts + 1
      <3>1. CASE ReconcileMismatch(w)
        <4>1. LET n == [old EXCEPT !.attempts = @ + 1]
              IN  n \in Row /\ n.attempts = old.attempts + 1
          BY <2>1 DEF Row
        <4>2. QED
          BY <3>1, <4>1 DEF ReconcileMismatch
      <3>2. CASE ReconcileConfirm(w)
        <4>1. PICK e \in {"confirmed-success", "confirmed-failure"} :
                 Settle(w, [old EXCEPT !.state = "completed", !.effect = e, !.attempts = @ + 1])
          BY <3>2 DEF ReconcileConfirm
        <4> DEFINE n == [old EXCEPT !.state = "completed", !.effect = e, !.attempts = @ + 1]
        <4>2. n \in Row
          BY <2>1, <4>1, CompletedRow DEF Outcomes
        <4>3. n.attempts = old.attempts + 1
          BY <2>1 DEF Row
        <4>4. QED
          BY <4>1, <4>2, <4>3
      <3>3. QED
        BY <1>9, <3>1, <3>2
    <2>3. Sets(w)
      BY <2>2, <1>a DEF Settle, Finish
    <2>4. QED
      BY <2>2, <2>3
  <1>10. ASSUME World \/ UNCHANGED vars
         PROVE  UNCHANGED <<session, operations>>
    BY <1>10 DEF World, CancelTaskAuthority, IssueAcceptance, PrepareRollback, EditSource,
       TimePasses, vars, tables, effectTables
  <1>11. QED
    BY <1>1, <1>3, <1>4, <1>5, <1>6, <1>7, <1>8, <1>9, <1>10 DEF Next, Execute, Reconcile,
       Approve, Govern

(* Concurrent reconcilers overshoot the attempt limit of a key by less than    *)
(* one attempt each.                                                          *)
THEOREM OvershootIsBounded == Spec => []OvershootBounded
  <1>a. /\ Cardinality(Worker) \in Nat /\ Cardinality(Worker) > 0
        /\ MaxReconciliationAttempts \in Nat
    BY WorkersAssumption, ConstantsAssumption, FS_CardinalityType, FS_EmptySet
  <1>b. \A k \in OpKey : IsFiniteSet(Reconcilers(k)) /\ Cardinality(Reconcilers(k)) \in Nat
                         /\ Cardinality(Reconcilers(k)) <= Cardinality(Worker)
    BY WorkersAssumption, FS_Subset, FS_CardinalityType DEF Reconcilers
  <1>1. Init => OvershootBounded
    <2> SUFFICES ASSUME Init, NEW k \in OpKey
                 PROVE  operations[k].attempts + Cardinality(Reconcilers(k))
                           < MaxReconciliationAttempts + Cardinality(Worker)
      BY DEF OvershootBounded
    <2>1. Reconcilers(k) = {}
      BY IdleInSession DEF Init, Reconcilers, At
    <2>2. operations[k].attempts = 0
      BY DEF Init, NoRow
    <2>3. QED
      BY <1>a, <2>1, <2>2, FS_EmptySet
  <1>2. Fence /\ Fence' /\ OvershootBounded /\ [Next]_vars => OvershootBounded'
    <2> SUFFICES ASSUME Fence, Fence', OvershootBounded, [Next]_vars, NEW k \in OpKey
                 PROVE  operations'[k].attempts + Cardinality(Reconcilers(k)')
                           < MaxReconciliationAttempts + Cardinality(Worker)
      BY DEF OvershootBounded
    <2>a. /\ session \in [Worker -> Session] /\ Idle.at = "idle"
          /\ operations \in [OpKey -> Row] /\ operations' \in [OpKey -> Row]
          /\ operations[k].attempts \in Nat /\ operations'[k].attempts \in Nat
      BY IdleInSession DEF Fence, Shape, TypeOK, Row
    <2>b. operations[k].attempts + Cardinality(Reconcilers(k))
             < MaxReconciliationAttempts + Cardinality(Worker)
      BY DEF OvershootBounded
    <2>c. \A S : S \subseteq Reconcilers(k) =>
             Cardinality(S) \in Nat /\ Cardinality(S) <= Cardinality(Reconcilers(k))
      BY <1>b, FS_Subset, FS_CardinalityType
    <2>1. ASSUME operations'[k].attempts = operations[k].attempts,
                 Reconcilers(k)' \subseteq Reconcilers(k)
          PROVE  operations'[k].attempts + Cardinality(Reconcilers(k)')
                    < MaxReconciliationAttempts + Cardinality(Worker)
      BY <1>a, <1>b, <2>a, <2>b, <2>c, <2>1
    <2>2. CASE UNCHANGED <<session, operations>>
      BY <2>1, <2>2 DEF Reconcilers, At
    <2>3. ASSUME NEW w \in Worker, session' = [session EXCEPT ![w] = session'[w]],
                 UNCHANGED operations, session'[w].at # "reconciling"
          PROVE  operations'[k].attempts + Cardinality(Reconcilers(k)')
                    < MaxReconciliationAttempts + Cardinality(Worker)
      <3>1. Reconcilers(k)' \subseteq Reconcilers(k)
        BY <2>a, <2>3 DEF Reconcilers, At
      <3>2. QED
        BY <2>1, <2>3, <3>1
    <2>4. ASSUME NEW w \in Worker, session' = [session EXCEPT ![w] = session'[w]],
                 NEW j \in OpKey, ReconcileRead(w, j), session'[w].key = j
          PROVE  operations'[k].attempts + Cardinality(Reconcilers(k)')
                    < MaxReconciliationAttempts + Cardinality(Worker)
      <3>1. operations' = operations
        BY <2>4 DEF ReconcileRead, tables, effectTables
      <3>2. CASE j = k
        <4>1. operations[k].attempts < MaxReconciliationAttempts
          BY <2>4, <3>2 DEF ReconcileRead, AttemptsLeft
        <4>2. Cardinality(Reconcilers(k)') \in Nat
              /\ Cardinality(Reconcilers(k)') <= Cardinality(Worker)
          BY WorkersAssumption, FS_Subset, FS_CardinalityType DEF Reconcilers
        <4>3. QED
          BY <1>a, <2>a, <3>1, <4>1, <4>2
      <3>3. CASE j # k
        <4>1. Reconcilers(k)' \subseteq Reconcilers(k)
          BY <2>a, <2>4, <3>3 DEF Reconcilers, At
        <4>2. QED
          BY <2>1, <3>1, <4>1
      <3>4. QED
        BY <3>2, <3>3
    <2>5. ASSUME NEW w \in Worker, NEW row \in Row, Settle(w, row),
                 row.attempts = operations[session[w].key].attempts + 1
          PROVE  operations'[k].attempts + Cardinality(Reconcilers(k)')
                    < MaxReconciliationAttempts + Cardinality(Worker)
      <3>1. session' = [session EXCEPT ![w] = Idle] /\ At(w, "reconciling")
            /\ operations' = [operations EXCEPT ![session[w].key] = row]
        BY <2>5 DEF Settle, Finish
      <3>2. CASE session[w].key = k
        <4>1. w \in Reconcilers(k)
          BY <3>1, <3>2 DEF Reconcilers
        <4>2. Reconcilers(k)' = Reconcilers(k) \ {w}
          BY <2>a, <3>1 DEF Reconcilers, At
        <4>3. Cardinality(Reconcilers(k)') = Cardinality(Reconcilers(k)) - 1
          BY <1>b, <4>1, <4>2, FS_RemoveElement
        <4>4. operations'[k].attempts = operations[k].attempts + 1
          BY <2>a, <2>5, <3>1, <3>2
        <4>5. QED
          BY <1>a, <1>b, <2>a, <2>b, <4>3, <4>4
      <3>3. CASE session[w].key # k
        <4>1. Reconcilers(k)' \subseteq Reconcilers(k)
          BY <2>a, <3>1 DEF Reconcilers, At
        <4>2. operations'[k] = operations[k]
          BY <2>a, <3>1, <3>3
        <4>3. QED
          BY <2>1, <4>1, <4>2
      <3>4. QED
        BY <3>2, <3>3
    <2>6. ASSUME NEW w \in Worker, CommitFence(w)
          PROVE  operations'[k].attempts + Cardinality(Reconcilers(k)')
                    < MaxReconciliationAttempts + Cardinality(Worker)
      <3>1. Fenced(w)
        BY <2>6 DEF CommitFence, Committable, Fenced, At
      <3>2. Reconcilers(k)' \subseteq Reconcilers(k)
        BY <2>6, <2>a DEF CommitFence, Reconcilers, At
      <3>3. CASE session[w].key = k
        <4>1. ~Recorded(k)
          BY <3>1, <3>3 DEF Fence, FencedFresh
        <4>2. Reconcilers(k) = {}
          BY <4>1 DEF Reconcilers, Fence, Shape, SessionOK
        <4>3. Cardinality(Reconcilers(k)') = 0
          BY <3>2, <4>2, FS_EmptySet
        <4>4. operations'[k].attempts = 0
          BY <2>6, <2>a, <3>3 DEF CommitFence
        <4>5. QED
          BY <1>a, <4>3, <4>4
      <3>4. CASE session[w].key # k
        <4>1. operations'[k] = operations[k]
          BY <2>6, <2>a, <3>4 DEF CommitFence
        <4>2. QED
          BY <2>1, <3>2, <4>1
      <3>5. QED
        BY <3>3, <3>4
    <2>7. QED
      BY <2>2, <2>3, <2>4, <2>5, <2>6, StageSteps
  <1>3. QED
    BY <1>1, <1>2, FenceInvariant, PTL DEF Spec

(* After the rollback block no call joins the open ones, and once these have   *)
(* ended nothing is dispatched and no row changes.                            *)
THEOREM BlockDrains == Spec => BlockedDrains
  <1>1. ASSUME Fence, [Next]_vars, blocked
        PROVE  blocked'
    <2>1. CASE PrepareRollback
      BY <2>1 DEF PrepareRollback
    <2>2. ASSUME NEW w \in Worker,
                 Connect(w) \/ Leave(w) \/ Execute(w) \/ Crash(w) \/ Reconcile(w)
          PROVE  UNCHANGED blocked
      BY <2>2 DEF Connect, Leave, Execute, Reserve, DispatchConfirmed, DispatchUnconfirmed,
         HandlerRaises, CommitFence, Crash, Reconcile, ReconcileRead, ReconcileMismatch,
         ReconcileConfirm, Settle, tables
    <2>3. ASSUME NEW w \in Worker, Approve(w) \/ Govern(w)
          PROVE  UNCHANGED blocked
      BY <2>3 DEF Approve, IssueRead, IssueInsert, RevokeApproval, PrepareRevocation,
         CommitRevocation, CancelRevocation, Govern, PublishRead, PublishCommit, RevokePolicy,
         tables
    <2>4. CASE World \/ UNCHANGED vars
      BY <1>1, <2>1, <2>4 DEF World, CancelTaskAuthority, IssueAcceptance, EditSource,
         TimePasses, vars, tables
    <2>5. QED
      BY <1>1, <2>2, <2>3, <2>4 DEF Next
  <1>2. ASSUME Fence, [Next]_vars, blocked
        PROVE  Open' \subseteq Open
    <2>a. session \in [Worker -> Session]
      BY <1>2 DEF Fence, Shape, TypeOK
    <2>1. ASSUME NEW w \in Worker, session' = [session EXCEPT ![w] = session'[w]],
                 session'[w].at \in {"connected", "reserved", "returned", "reconciling"}
                    => session[w].at \in {"connected", "reserved", "returned", "reconciling"}
          PROVE  Open' \subseteq Open
      BY <2>1, <2>a DEF Open
    <2>2. ASSUME NEW w \in Worker, NEW k \in OpKey, ReconcileRead(w, k)
          PROVE  session[w].at = "connected"
      BY <2>2 DEF ReconcileRead, At
    <2>3. ASSUME NEW w \in Worker, NEW row \in Row, Settle(w, row)
          PROVE  session[w].at = "reconciling"
      BY <2>3 DEF Settle, At
    <2>4. ASSUME NEW w \in Worker, CommitFence(w)
          PROVE  session[w].at = "returned"
      BY <2>4 DEF CommitFence, Committable, At
    <2>5. CASE UNCHANGED session
      BY <2>5 DEF Open
    <2>6. QED
      BY <1>2, <2>1, <2>2, <2>3, <2>4, <2>5, StageSteps DEF Unblocked, At
  <1>3. ASSUME Fence, [Next]_vars, Open = {}
        PROVE  UNCHANGED <<operations, applied>>
    <2>1. \A w \in Worker : ~Fenced(w) /\ ~At(w, "connected") /\ ~At(w, "reconciling")
      BY <1>3 DEF Open, Fenced, At
    <2>2. QED
      BY <1>3, <2>1, FenceSteps DEF Fence, Quiet, Reserve, Dispatch, Lose, CommitFence,
         Committable, Update, Fenced, At
  <1>4. Fence /\ [Next]_vars =>
           [blocked => /\ blocked'
                       /\ Open' \subseteq Open
                       /\ Open = {} => UNCHANGED <<operations, applied>>]_vars
    BY <1>1, <1>2, <1>3
  <1>5. QED
    BY <1>4, FenceInvariant, PTL DEF Spec, BlockedDrains

-----------------------------------------------------------------------------
(* The broker implements the ledger.                                         *)

(* Where the entry of a key comes from: its row, or the one worker that holds  *)
(* the key.                                                                   *)
LEMMA EntryFacts ==
  ASSUME Fence, NEW k \in OpKey
  PROVE  /\ Recorded(k) => EntryOf(k) = IF operations[k].effect = "unknown"
                                        THEN "unknown" ELSE "settled"
         /\ \A w \in Worker : Holds(w, k) => /\ At(w, "reserved") => EntryOf(k) = "reserved"
                                             /\ At(w, "returned") => EntryOf(k) = "answered"
         /\ EntryOf(k) = "free" <=> ~Recorded(k) /\ \A w \in Worker : ~Holds(w, k)
         /\ EntryOf(k) \in {"reserved", "answered"} <=> \E w \in Worker : Holds(w, k)
  <1>1. \A w \in Worker : Holds(w, k) => ~Recorded(k) /\ \A v \in Worker : Holds(v, k) => v = w
    BY FenceAlone DEF Fence, FencedFresh, Holds
  <1>2. \A w \in Worker : ~(At(w, "reserved") /\ At(w, "returned"))
    BY DEF At
  <1>3. Recorded(k) => EntryOf(k) = IF operations[k].effect = "unknown"
                                    THEN "unknown" ELSE "settled"
    BY DEF EntryOf
  <1>4. \A w \in Worker : Holds(w, k) => /\ At(w, "reserved") => EntryOf(k) = "reserved"
                                         /\ At(w, "returned") => EntryOf(k) = "answered"
    BY <1>1, <1>2 DEF EntryOf
  <1>5. EntryOf(k) = "free" <=> ~Recorded(k) /\ \A w \in Worker : ~Holds(w, k)
    BY DEF EntryOf
  <1>6. EntryOf(k) \in {"reserved", "answered"} <=> \E w \in Worker : Holds(w, k)
    BY <1>1 DEF EntryOf
  <1>7. QED
    BY <1>3, <1>4, <1>5, <1>6

(* Every step of the broker is a step of the ledger, or leaves it as it is.    *)
LEMMA LedgerStep == Fence /\ Fence' /\ [Next]_vars => [Ledger!Next]_(Ledger!vars)
  <1> SUFFICES ASSUME Fence, Fence', [Next]_vars
               PROVE  Ledger!Next \/ UNCHANGED Ledger!vars
    OBVIOUS
  <1> DEFINE entry == [k \in OpKey |-> EntryOf(k)]
  <1>a. /\ session \in [Worker -> Session] /\ operations \in [OpKey -> Row]
        /\ applied \in [OpKey -> Nat] /\ Idle.at = "idle"
        /\ \A w \in Worker : Fenced(w) => session[w].key \in OpKey
    BY IdleInSession, ConstantsAssumption DEF Fence, Shape, TypeOK, SessionOK
  <1>1. ASSUME \A k \in OpKey : EntryOf(k)' = EntryOf(k), UNCHANGED applied
        PROVE  UNCHANGED Ledger!vars
    BY <1>1 DEF Ledger!vars
  <1>2. CASE Quiet
    <2>1. \A k \in OpKey, w \in Worker : /\ Holds(w, k)' <=> Holds(w, k)
                                         /\ Holds(w, k) => session'[w] = session[w]
      BY <1>2 DEF Quiet, Holds
    <2>2. \A k \in OpKey : EntryOf(k)' = EntryOf(k)
      BY <1>2, <2>1 DEF Quiet, EntryOf, Recorded, At
    <2>3. QED
      BY <1>1, <1>2, <2>2 DEF Quiet
  <1>3. ASSUME NEW w \in Worker, NEW i \in Intent, NEW a \in Approval, Reserve(w, i, a)
        PROVE  Ledger!Take(KeyOf[i])
    <2>0. KeyOf[i] \in OpKey
      BY ConstantsAssumption
    <2>1. /\ \A v \in Worker \ {w} : session'[v] = session[v]
          /\ session'[w].at = "reserved" /\ session'[w].key = KeyOf[i]
          /\ operations' = operations /\ applied' = applied
      BY <1>3, <1>a DEF Reserve, Idle, tables, effectTables, world
    <2>2. \A v \in Worker : ~Fenced(v)
      BY <1>3, FreeUnfenced DEF Reserve, Fence
    <2>3. \A v \in Worker, k \in OpKey : ~Holds(v, k) /\ (Holds(v, k)' <=> v = w /\ k = KeyOf[i])
      BY <2>1, <2>2 DEF Holds, Fenced
    <2>4. EntryOf(KeyOf[i]) = "free" /\ \A k \in OpKey : EntryOf(k) \notin {"reserved", "answered"}
      BY <1>3, <2>0, <2>3, EntryFacts DEF Reserve, NoRecord, Recorded
    <2>5. EntryOf(KeyOf[i])' = "reserved"
      BY <1>3, <2>0, <2>1, <2>3 DEF EntryOf, Reserve, NoRecord, Recorded, At
    <2>6. \A k \in OpKey \ {KeyOf[i]} : EntryOf(k)' = EntryOf(k)
      BY <2>1, <2>3 DEF EntryOf, Recorded
    <2>7. entry' = [entry EXCEPT ![KeyOf[i]] = "reserved"]
      BY <2>0, <2>5, <2>6
    <2>8. QED
      BY <2>0, <2>1, <2>4, <2>7 DEF Ledger!Take, Ledger!InFlight
  <1>4. ASSUME NEW w \in Worker, NEW hit \in BOOLEAN, Dispatch(w, hit)
        PROVE  \E k \in OpKey : Ledger!Answer(k)
    <2>0. PICK key \in OpKey : key = session[w].key
      BY <1>4, <1>a DEF Dispatch, Fenced, At
    <2>1. /\ Fenced(w) /\ At(w, "reserved") /\ key \in OpKey /\ At(w, "returned")'
          /\ \A v \in Worker : (Fenced(v)' <=> Fenced(v)) /\ session'[v].key = session[v].key
          /\ operations' = operations
      BY <1>4, <1>a, <2>0 DEF Dispatch, Fenced, At
    <2>2. \A v \in Worker, k \in OpKey : /\ Holds(v, k)' <=> Holds(v, k)
                                         /\ Holds(v, k) => v = w /\ k = key
      BY <2>0, <2>1, FenceAlone DEF Holds, Fence
    <2>3. Holds(w, key) /\ ~Recorded(key) /\ EntryOf(key) = "reserved"
      BY <2>0, <2>1, EntryFacts DEF Holds, Fence, FencedFresh
    <2>4. EntryOf(key)' = "answered"
      BY <2>1, <2>2, <2>3 DEF EntryOf, Recorded, At
    <2>5. \A k \in OpKey \ {key} : EntryOf(k)' = EntryOf(k)
      BY <2>1, <2>2 DEF EntryOf, Recorded
    <2>6. entry' = [entry EXCEPT ![key] = "answered"]
      BY <2>1, <2>4, <2>5
    <2>7. applied' = applied \/ applied' = [applied EXCEPT ![key] = @ + 1]
      BY <1>4, <2>0 DEF Dispatch, Apply
    <2>8. QED
      BY <2>1, <2>3, <2>6, <2>7 DEF Ledger!Answer, Ledger!Deliver
  <1>5. ASSUME NEW w \in Worker, Lose(w)
        PROVE  \E k \in OpKey : Ledger!Forget(k)
    <2>0. PICK key \in OpKey : key = session[w].key
      BY <1>5, <1>a DEF Lose
    <2>1. /\ Fenced(w) /\ Holds(w, key) /\ ~Recorded(key)
          /\ \A v \in Worker : Fenced(v) => v = w
          /\ operations' = operations
      BY <1>5, <1>a, <2>0, FenceAlone DEF Lose, Holds, Fence, FencedFresh
    <2>2. \A v \in Worker, k \in OpKey : ~Holds(v, k)' /\ (Holds(v, k) => k = key)
      BY <1>5, <1>a, <2>0, <2>1 DEF Lose, Holds, Fenced
    <2>3. EntryOf(key)' = "free" /\ \A k \in OpKey \ {key} : EntryOf(k)' = EntryOf(k)
      BY <2>1, <2>2 DEF EntryOf, Recorded
    <2>4. entry' = [entry EXCEPT ![key] = "free"]
      BY <2>1, <2>3
    <2>5. CASE At(w, "reserved")
      <3>1. EntryOf(key) = "reserved"
        BY <2>1, <2>5, EntryFacts
      <3>2. applied' = applied \/ applied' = [applied EXCEPT ![key] = @ + 1]
        BY <1>5, <2>0, <2>5 DEF Lose, Apply
      <3>3. QED
        BY <2>1, <2>4, <3>1, <3>2 DEF Ledger!Forget, Ledger!InFlight, Ledger!Deliver
    <2>6. CASE At(w, "returned")
      <3>1. EntryOf(key) = "answered"
        BY <2>1, <2>6, EntryFacts
      <3>2. applied' = applied
        BY <1>5, <2>6 DEF Lose
      <3>3. QED
        BY <2>1, <2>4, <3>1, <3>2 DEF Ledger!Forget, Ledger!InFlight
    <2>7. QED
      BY <2>1, <2>5, <2>6 DEF Fenced, At
  <1>6. ASSUME NEW w \in Worker, CommitFence(w)
        PROVE  \E k \in OpKey : Ledger!Record(k)
    <2>0. PICK key \in OpKey : key = session[w].key
      BY <1>6, <1>a DEF CommitFence, Committable, Fenced, At
    <2>1. /\ Fenced(w) /\ At(w, "returned") /\ Holds(w, key)
          /\ \A v \in Worker : Fenced(v) => v = w
          /\ applied' = applied
      BY <1>6, <1>a, <2>0, FenceAlone DEF CommitFence, Committable, Fenced, At, Holds, Fence, world
    <2>2. \A v \in Worker, k \in OpKey : ~Holds(v, k)' /\ (Holds(v, k) => k = key)
      BY <1>6, <1>a, <2>0, <2>1 DEF CommitFence, Holds, Fenced
    <2>3. EntryOf(key) = "answered"
      BY <2>1, EntryFacts
    <2>4. Recorded(key)' /\ \A k \in OpKey \ {key} : operations'[k] = operations[k]
      BY <1>6, <1>a, <2>0, <2>1 DEF CommitFence, Recorded
    <2>5. EntryOf(key)' \in {"unknown", "settled"}
      BY <2>4 DEF EntryOf
    <2>6. \A k \in OpKey \ {key} : EntryOf(k)' = EntryOf(k)
      BY <2>2, <2>4 DEF EntryOf, Recorded
    <2>7. entry' = [entry EXCEPT ![key] = EntryOf(key)']
      BY <2>1, <2>6
    <2>8. QED
      BY <2>1, <2>3, <2>5, <2>7 DEF Ledger!Record
  <1>7. ASSUME NEW w \in Worker, Update(w)
        PROVE  Ledger!Next \/ UNCHANGED Ledger!vars
    <2>0. PICK key \in OpKey : key = session[w].key
      BY <1>7 DEF Update, Fence, Shape, SessionOK
    <2>1. Recorded(key) /\ applied' = applied
      BY <1>7, <2>0 DEF Update, Fence, Shape, SessionOK
    <2>2. \A v \in Worker, k \in OpKey : ~Holds(v, k)' /\ ~Holds(v, k)
      <3>1. \A v \in Worker : ~Fenced(v)
        BY <1>7, FreeUnfenced DEF Update, Fence
      <3>2. QED
        BY <1>7, <1>a, <3>1 DEF Update, Holds, Fenced
    <2>3. \A k \in OpKey : operations'[k].effect = operations[k].effect => EntryOf(k)' = EntryOf(k)
      BY <1>7, <2>2 DEF Update, EntryOf
    <2>4. CASE \A k \in OpKey : operations'[k].effect = operations[k].effect
      BY <1>1, <2>1, <2>3, <2>4
    <2>5. CASE operations[key].effect = "unknown" /\ operations'[key].effect # "unknown"
      <3>1. EntryOf(key) = "unknown" /\ EntryOf(key)' = "settled"
        BY <1>7, <2>1, <2>5 DEF Update, EntryOf
      <3>2. \A k \in OpKey \ {key} : EntryOf(k)' = EntryOf(k)
        BY <1>7, <2>0, <2>3 DEF Update
      <3>3. entry' = [entry EXCEPT ![key] = "settled"]
        BY <2>1, <3>1, <3>2
      <3>4. Ledger!Reconcile(key)
        BY <2>1, <3>1, <3>3 DEF Ledger!Reconcile
      <3>5. QED
        BY <2>1, <3>4 DEF Ledger!Next
    <2>6. CASE operations[key].effect # "unknown" /\ operations'[key].effect # "unknown"
      <3>1. EntryOf(key) = "settled" /\ EntryOf(key)' = "settled"
        BY <1>7, <2>1, <2>6 DEF Update, EntryOf
      <3>2. \A k \in OpKey : EntryOf(k)' = EntryOf(k)
        BY <1>7, <2>0, <2>3, <3>1 DEF Update
      <3>3. QED
        BY <1>1, <2>1, <3>2
    <2>7. QED
      BY <1>7, <2>0, <2>1, <2>4, <2>5, <2>6 DEF Update
  <1>8. ASSUME NEW k \in OpKey,
               Ledger!Take(k) \/ Ledger!Answer(k) \/ Ledger!Forget(k) \/ Ledger!Record(k)
        PROVE  Ledger!Next
    BY <1>8 DEF Ledger!Next
  <1>9. ASSUME NEW i \in Intent PROVE KeyOf[i] \in OpKey
    BY <1>9, ConstantsAssumption
  <1>10. Shape
    BY DEF Fence
  <1>11. CASE \E w \in Worker, i \in Intent, a \in Approval : Reserve(w, i, a)
    BY <1>3, <1>8, <1>9, <1>11
  <1>12. CASE \E w \in Worker, hit \in BOOLEAN : Dispatch(w, hit)
    BY <1>4, <1>8, <1>12
  <1>13. CASE (\E w \in Worker : Lose(w)) \/ (\E w \in Worker : CommitFence(w))
    BY <1>5, <1>6, <1>8, <1>13
  <1>14. QED
    BY <1>2, <1>7, <1>10, <1>11, <1>12, <1>13, FenceSteps

(* The broker implements the ledger: a key on record is never dispatched again, *)
(* a key in flight is the only one, and its provider is called once at most.  *)
THEOREM BrokerImplementsLedger == Spec => Ledger!Spec
  <1>1. Init => Ledger!Init
    BY IdleInSession DEF Init, Ledger!Init, EntryOf, Recorded, NoRow, Holds, Fenced
  <1>2. QED
    BY <1>1, LedgerStep, FenceInvariant, PTL DEF Spec, Ledger!Spec
=============================================================================
