------------------------- MODULE ArtifactStorageProofs -------------------------
(***************************************************************************)
(* Proofs about ArtifactStorage, for every set of objects, contents,       *)
(* policies and keys, and every number of calls, failures and restarts.    *)
(***************************************************************************)
EXTENDS ArtifactStorage, TLAPS

(* Each adapter has its own means: the local one keeps no keys on disk and   *)
(* leaves nothing unknown, the other one has no call that is under way.      *)
Apart ==
    IF Local
    THEN /\ ~history.unsaved
         /\ \A k \in Key : /\ memory.unknown[k] = None
                           /\ journal.keys[k] = None /\ journal.unknown[k] = None
    ELSE call = Nobody

(* An upload under way has its bytes on disk, under a name nothing else uses. *)
Uploading ==
    call.at = "uploading" =>
        LET q == call.request IN
        /\ files[q.object] = q.content
        /\ history.sent[call.key] >= 1
        /\ \A k \in Key : memory.keys[k] # None => memory.keys[k].object # q.object

(* The tombstones in memory and on disk, between what was deleted and what   *)
(* was cut short.                                                            *)
Deleting(o) == IF call.at = "deleting" /\ call.request = o THEN 1 ELSE 0
Audited ==
    \A o \in Object :
        /\ history.deleted[o] + Deleting(o) <= memory.audit[o]
        /\ memory.audit[o] <= journal.audit[o]
        /\ journal.audit[o] <= history.deleted[o] + history.spurious[o] + Deleting(o)

(* What a key has sent beyond its answer was sent before a restart.          *)
Busy(k) == call.at = "uploading" /\ call.key = k
Restarts == IF Local THEN spent.crashes ELSE 0
Counted ==
    \A k \in Key : history.sent[k] <= Restarts + (IF Answered(k) \/ Busy(k) THEN 1 ELSE 0)

(* The inductive invariant.                                                  *)
Storing ==
    /\ TypeOK /\ Apart /\ Uploading /\ Audited /\ Counted
    /\ JournalIsCurrent /\ LocalAnswersHold

(* The invariant holds at first.                                             *)
LEMMA InitStoring == Init => Storing
  <1> SUFFICES ASSUME Init PROVE Storing
    OBVIOUS
  <1> USE DEF Init
  <1>1. Empty \in Contents
    BY DEF Empty, Contents
  <1>2. Nobody.at = "idle"
    BY DEF Nobody
  <1>3. 0 \in 0..MaxUploads /\ 0 \in 0..MaxIssues /\ 0 \in 0..MaxFaults /\ 0 \in 0..MaxCrashes
    BY ConstantsAssumption
  <1>4. TypeOK
    BY <1>1, <1>3 DEF TypeOK, History
  <1>5. Apart /\ Uploading /\ Audited
    BY <1>2 DEF Apart, Uploading, Audited, Deleting, Empty
  <1>6. Counted
    BY <1>3 DEF Counted, Restarts
  <1>7. JournalIsCurrent /\ LocalAnswersHold
    BY DEF JournalIsCurrent, LocalAnswersHold, Empty
  <1>8. QED
    BY <1>4, <1>5, <1>6, <1>7 DEF Storing

(* What the calls that are not under way are.                                *)
LEMMA NobodyIdle ==
  /\ Nobody.at = "idle"
  /\ TypeOK => /\ call.at = "uploading" =>
                     call.key \in Key /\ call.request \in Request /\ call.request # None
               /\ call.at = "deleting" => call.request \in Object
               /\ call.at \in {"idle", "uploading", "deleting"}
  BY ConstantsAssumption DEF Nobody, TypeOK

(* The numbers of what was spent.                                            *)
LEMMA SpentTyped ==
  ASSUME TypeOK
  PROVE  /\ spent.faults \in Nat /\ spent.crashes \in Nat
         /\ Fault => /\ spent' \in [uploads : 0..MaxUploads, issues : 0..MaxIssues,
                                     faults : 0..MaxFaults, crashes : 0..MaxCrashes]
                     /\ spent'.faults = spent.faults + 1 /\ spent'.crashes = spent.crashes
  <1>1. spent \in [uploads : 0..MaxUploads, issues : 0..MaxIssues,
                   faults : 0..MaxFaults, crashes : 0..MaxCrashes]
    BY DEF TypeOK
  <1>2. {MaxUploads, MaxIssues, MaxFaults, MaxCrashes} \subseteq Nat
    BY ConstantsAssumption
  <1>3. QED
    BY <1>1, <1>2 DEF Fault, Spend

(* A change of the synthetic adapter that its journal takes, or fails to.    *)
LEMMA NotedKeeps ==
  ASSUME Storing, ~Local, UNCHANGED <<adapter, policies, files, call>>,
         memory' \in Contents, memory'.audit = memory.audit,
         \/ journal' = memory'
         \/ journal' = journal /\ spent'.faults > spent.faults,
         spent' \in [uploads : 0..MaxUploads, issues : 0..MaxIssues,
                     faults : 0..MaxFaults, crashes : 0..MaxCrashes],
         NEW h \in History, Noted(h),
         h.deleted = history.deleted, h.spurious = history.spurious,
         \A k \in Key : h.sent[k] <= IF Answered(k)' THEN 1 ELSE 0
  PROVE  Storing'
  <1>1. /\ history' \in History /\ history'.sent = h.sent
        /\ history'.deleted = history.deleted /\ history'.spurious = history.spurious
        /\ journal' # memory' => history'.unsaved
    <2>1. (journal' # memory' /\ spent'.faults > spent.faults) \in BOOLEAN
      OBVIOUS
    <2>2. (IF journal' = memory' THEN {} ELSE h.denied) \in SUBSET Object
      BY DEF History
    <2>3. history' = [h EXCEPT !.unsaved = (journal' # memory' /\ spent'.faults > spent.faults),
                               !.denied = IF journal' = memory' THEN {} ELSE h.denied]
      BY DEF Noted
    <2>4. QED
      BY <2>1, <2>2, <2>3 DEF History
  <1>2. ~Local' /\ call' = Nobody /\ call'.at = "idle"
    BY NobodyIdle DEF Storing, Apart, Local
  <1>3. journal' \in Contents /\ journal'.audit = (IF journal' = memory' THEN memory.audit ELSE journal.audit)
    BY DEF Storing, TypeOK
  <1>4. TypeOK'
    BY <1>1, <1>3 DEF Storing, TypeOK
  <1>5. Apart' /\ Uploading' /\ LocalAnswersHold'
    BY <1>2 DEF Apart, Uploading, LocalAnswersHold
  <1>6. Audited'
    <2>1. \A o \in Object : /\ history.deleted[o] \in Nat /\ history.spurious[o] \in Nat
                            /\ memory.audit[o] \in Nat /\ journal.audit[o] \in Nat
      BY DEF Storing, TypeOK, History, Contents
    <2>2. \A o \in Object : Deleting(o) = 0 /\ Deleting(o)' = 0
      BY <1>2, NobodyIdle DEF Deleting
    <2>3. QED
      BY <1>1, <1>3, <2>1, <2>2 DEF Storing, Audited
  <1>7. Counted'
    <2>1. Restarts' = 0
      BY <1>2 DEF Restarts
    <2>2. \A k \in Key : h.sent[k] \in Nat
      BY DEF History
    <2>3. \A k \in Key : ~Busy(k)'
      BY <1>2 DEF Busy
    <2>4. QED
      BY <1>1, <2>1, <2>2, <2>3 DEF Counted
  <1>8. JournalIsCurrent'
    BY <1>1 DEF JournalIsCurrent
  <1>9. QED
    BY <1>4, <1>5, <1>6, <1>7, <1>8 DEF Storing

(* What a key of the synthetic adapter has sent.                             *)
LEMMA SentOfProvider ==
  ASSUME Storing, ~Local, NEW k \in Key
  PROVE  history.sent[k] \in Nat /\ history.sent[k] <= IF Answered(k) THEN 1 ELSE 0
  <1>1. history.sent[k] \in Nat
    BY DEF Storing, TypeOK, History
  <1>2. ~Busy(k) /\ Restarts = 0
    BY NobodyIdle DEF Storing, Apart, Busy, Restarts
  <1>3. QED
    BY <1>1, <1>2 DEF Storing, Counted

(* The record an upload makes, and the request it answers from then on.      *)
LEMMA RecordTyped ==
  ASSUME NEW q \in Request
  PROVE  /\ q.object \in Object /\ q.content \in Content /\ q.policy \in Policy
         /\ Record(q) \in Stored /\ Record(q) # None /\ q # None
         /\ Record(q).content = q.content /\ Record(q).policy = q.policy
  <1>1. q.object \in Object /\ q.content \in Content /\ q.policy \in Policy
    BY DEF Request
  <1>2. Record(q) \in Stored /\ Record(q).content = q.content /\ Record(q).policy = q.policy
    BY <1>1 DEF Stored, Record
  <1>3. QED
    BY <1>1, <1>2, ConstantsAssumption

(* What the memory is after an upload.                                       *)
LEMMA AcceptedTyped ==
  ASSUME TypeOK, NEW k \in Key, NEW q \in Request
  PROVE  /\ Accepted(k, q) \in Contents /\ Pending(k, q) \in Contents
         /\ Accepted(k, q).audit = memory.audit /\ Pending(k, q).audit = memory.audit
         /\ Accepted(k, q).unknown = memory.unknown /\ Pending(k, q).keys = memory.keys
         /\ Accepted(k, q).keys = [memory.keys EXCEPT ![k] = q]
         /\ Pending(k, q).unknown = [memory.unknown EXCEPT ![k] = q]
         /\ Accepted(k, q).records = [memory.records EXCEPT ![q.object] = Record(q)]
         /\ Pending(k, q).records = [memory.records EXCEPT ![q.object] = Record(q)]
  BY RecordTyped DEF TypeOK, Contents, Accepted, Pending

(* A new upload of the synthetic adapter that the authority allows.          *)
LEMMA AllowedUploadKeeps ==
  ASSUME Storing, NEW k \in Key, NEW q \in Request, ProviderUpload(k, q), Authorized(q)
  PROVE  Storing'
  <1>1. ~Local /\ UNCHANGED <<adapter, policies, files, call>> /\ ~Answered(k)
    BY DEF ProviderUpload, Local
  <1>2. PICK m \in {Accepted(k, q), Pending(k, q)} :
            /\ memory' = m
            /\ \/ journal' = m /\ Spend("uploads")
               \/ /\ spent.faults < MaxFaults
                  /\ spent' = [spent EXCEPT !.uploads = @ + 1, !.faults = @ + 1]
                  /\ UNCHANGED journal
            /\ Noted(Sent(k)) /\ spent.uploads < MaxUploads
    BY DEF ProviderUpload
  <1>3. TypeOK /\ history \in History
    BY DEF Storing, TypeOK
  <1>4. /\ spent' \in [uploads : 0..MaxUploads, issues : 0..MaxIssues,
                       faults : 0..MaxFaults, crashes : 0..MaxCrashes]
        /\ journal' = memory' \/ (journal' = journal /\ spent'.faults > spent.faults)
    <2>1. spent \in [uploads : 0..MaxUploads, issues : 0..MaxIssues,
                     faults : 0..MaxFaults, crashes : 0..MaxCrashes]
      BY <1>3 DEF TypeOK
    <2>2. {MaxUploads, MaxIssues, MaxFaults, MaxCrashes} \subseteq Nat
      BY ConstantsAssumption
    <2>3. CASE journal' = m /\ Spend("uploads")
      BY <1>2, <2>1, <2>2, <2>3 DEF Spend
    <2>4. CASE /\ spent.faults < MaxFaults /\ UNCHANGED journal
               /\ spent' = [spent EXCEPT !.uploads = @ + 1, !.faults = @ + 1]
      <3>1. spent.uploads + 1 \in 0..MaxUploads /\ spent.faults + 1 \in 0..MaxFaults
        BY <1>2, <2>1, <2>2, <2>4
      <3>2. spent' = [spent EXCEPT !.uploads = spent.uploads + 1, !.faults = spent.faults + 1]
        BY <2>4
      <3>3. spent'.faults = spent.faults + 1
        BY <2>1, <3>2
      <3>4. spent.faults \in Nat
        BY <2>1, <2>2
      <3>5. spent' \in [uploads : 0..MaxUploads, issues : 0..MaxIssues,
                        faults : 0..MaxFaults, crashes : 0..MaxCrashes]
        BY <2>1, <3>1, <3>2
      <3>6. spent'.faults > spent.faults
        BY <3>3, <3>4
      <3>7. QED
        BY <2>4, <3>5, <3>6
    <2>5. QED
      BY <1>2, <2>3, <2>4
  <1>5. /\ Sent(k) \in History /\ Sent(k).deleted = history.deleted
        /\ Sent(k).spurious = history.spurious
        /\ Sent(k).sent = [history.sent EXCEPT ![k] = history.sent[k] + 1]
    BY <1>3 DEF Sent, History
  <1>6. memory' \in Contents /\ memory'.audit = memory.audit /\ Answered(k)'
        /\ \A j \in Key \ {k} : Answered(j)' <=> Answered(j)
    <2>1. memory.keys \in [Key -> Request \cup {None}] /\ memory.unknown \in [Key -> Request \cup {None}]
      BY <1>3 DEF TypeOK, Contents
    <2>2. q # None
      BY RecordTyped
    <2>3. CASE m = Accepted(k, q)
      <3>1. /\ memory' \in Contents /\ memory'.audit = memory.audit
            /\ memory'.unknown = memory.unknown /\ memory'.keys = [memory.keys EXCEPT ![k] = q]
        BY <1>2, <1>3, <2>3, AcceptedTyped
      <3>2. QED
        BY <2>1, <2>2, <3>1 DEF Answered
    <2>4. CASE m = Pending(k, q)
      <3>1. /\ memory' \in Contents /\ memory'.audit = memory.audit
            /\ memory'.keys = memory.keys /\ memory'.unknown = [memory.unknown EXCEPT ![k] = q]
        BY <1>2, <1>3, <2>4, AcceptedTyped
      <3>2. QED
        BY <2>1, <2>2, <3>1 DEF Answered
    <2>5. QED
      BY <2>3, <2>4
  <1>7. \A j \in Key : Sent(k).sent[j] <= IF Answered(j)' THEN 1 ELSE 0
    <2>1. history.sent \in [Key -> Nat]
      BY <1>3 DEF History
    <2>2. history.sent[k] = 0
      BY <1>1, SentOfProvider
    <2>3. Sent(k).sent[k] = 1 /\ \A j \in Key \ {k} : Sent(k).sent[j] = history.sent[j]
      BY <1>5, <2>1, <2>2
    <2>4. QED
      BY <1>1, <1>6, <2>3, SentOfProvider
  <1>8. QED
    BY <1>1, <1>2, <1>4, <1>5, <1>6, <1>7, NotedKeeps

(* One that it does not allow changes the memory of one record.              *)
LEMMA DeniedUploadKeeps ==
  ASSUME Storing, NEW k \in Key, NEW q \in Request, ProviderUpload(k, q), ~Authorized(q)
  PROVE  Storing'
  <1>1. /\ ~Local /\ UNCHANGED <<adapter, policies, files, call, journal>>
        /\ memory' = [memory EXCEPT !.records[q.object] =
                          IF Missing(q.object) THEN Record(q) ELSE None]
        /\ Spend("uploads") /\ spent.uploads < MaxUploads
        /\ history' = [history EXCEPT !.denied = @ \cup {q.object}]
    BY DEF ProviderUpload, Local
  <1>2. TypeOK /\ history \in History /\ memory \in Contents /\ q.object \in Object
    BY RecordTyped DEF Storing, TypeOK
  <1>3. /\ history' \in History /\ history'.sent = history.sent
        /\ history'.deleted = history.deleted /\ history'.spurious = history.spurious
        /\ history'.denied = history.denied \cup {q.object} /\ history'.unsaved = history.unsaved
    BY <1>1, <1>2 DEF History
  <1>4. spent' \in [uploads : 0..MaxUploads, issues : 0..MaxIssues,
                    faults : 0..MaxFaults, crashes : 0..MaxCrashes]
    <2>1. {MaxUploads, MaxIssues, MaxFaults, MaxCrashes} \subseteq Nat
      BY ConstantsAssumption
    <2>2. QED
      BY <1>1, <1>2, <2>1 DEF TypeOK, Spend
  <1>5. /\ memory' \in Contents /\ memory'.keys = memory.keys /\ memory'.unknown = memory.unknown
        /\ memory'.audit = memory.audit
        /\ \A o \in Object \ {q.object} : memory'.records[o] = memory.records[o]
    BY <1>1, <1>2, RecordTyped DEF Contents
  <1>6. TypeOK'
    BY <1>1, <1>2, <1>3, <1>4, <1>5 DEF TypeOK
  <1>7. ~Local' /\ call' = Nobody /\ call'.at = "idle" /\ call.at = "idle"
    BY <1>1, NobodyIdle DEF Storing, Apart, Local
  <1>8. Apart' /\ Uploading' /\ LocalAnswersHold'
    BY <1>7 DEF Apart, Uploading, LocalAnswersHold
  <1>9. Audited'
    BY <1>1, <1>3, <1>5 DEF Storing, Audited, Deleting
  <1>10. Counted'
    BY <1>1, <1>3, <1>5, <1>7 DEF Storing, Counted, Restarts, Answered, Busy, Local
  <1>11. JournalIsCurrent'
    BY <1>1, <1>3, <1>5 DEF Storing, JournalIsCurrent
  <1>12. QED
    BY <1>6, <1>8, <1>9, <1>10, <1>11 DEF Storing

(* The decisions of the authority.                                           *)
LEMMA IssueKeeps ==
  ASSUME Storing, NEW o \in Object, NEW p \in Policy, IssuePolicy(o, p) PROVE Storing'
  <1>1. /\ policies' = [policies EXCEPT ![o] = p] /\ Spend("issues") /\ spent.issues < MaxIssues
        /\ UNCHANGED <<adapter, memory, journal, files, call, history>>
    BY DEF IssuePolicy
  <1>2. /\ spent' \in [uploads : 0..MaxUploads, issues : 0..MaxIssues,
                       faults : 0..MaxFaults, crashes : 0..MaxCrashes]
        /\ spent'.crashes = spent.crashes
    <2>1. {MaxUploads, MaxIssues, MaxFaults, MaxCrashes} \subseteq Nat
      BY ConstantsAssumption
    <2>2. QED
      BY <1>1, <2>1 DEF Storing, TypeOK, Spend
  <1>3. TypeOK'
    BY <1>1, <1>2 DEF Storing, TypeOK
  <1>4. Apart' /\ Uploading' /\ Audited'
    BY <1>1 DEF Storing, Apart, Uploading, Audited, Deleting, Local
  <1>5. Counted' /\ JournalIsCurrent' /\ LocalAnswersHold'
    BY <1>1, <1>2 DEF Storing, Counted, Restarts, Answered, Busy, JournalIsCurrent,
                      LocalAnswersHold, Local
  <1>6. QED
    BY <1>3, <1>4, <1>5 DEF Storing

(* What was unknown is reconciled: the key stays answered.                   *)
LEMMA ReconcileKeeps ==
  ASSUME Storing, NEW k \in Key, ReconcileUnknown(k) PROVE Storing'
  <1>1. /\ ~Local /\ UNCHANGED <<adapter, policies, files, call>> /\ memory.unknown[k] # None
        /\ memory' = [memory EXCEPT !.unknown[k] = None, !.keys[k] = memory.unknown[k]]
        /\ SaveJournal(memory') /\ Noted(history)
    BY DEF ReconcileUnknown, Local
  <1>2. TypeOK /\ history \in History /\ memory \in Contents
    BY DEF Storing, TypeOK
  <1>3. /\ memory' \in Contents /\ memory'.audit = memory.audit
        /\ memory'.keys = [memory.keys EXCEPT ![k] = memory.unknown[k]]
        /\ memory'.unknown = [memory.unknown EXCEPT ![k] = None]
    BY <1>1, <1>2 DEF Contents
  <1>4. \A j \in Key : Answered(j)' <=> Answered(j)
    BY <1>1, <1>2, <1>3 DEF Answered, Contents
  <1>5. /\ journal' = memory' \/ (journal' = journal /\ spent'.faults > spent.faults)
        /\ spent' \in [uploads : 0..MaxUploads, issues : 0..MaxIssues,
                       faults : 0..MaxFaults, crashes : 0..MaxCrashes]
    BY <1>1, <1>2, SpentTyped DEF SaveJournal, TypeOK
  <1>6. \A j \in Key : history.sent[j] <= IF Answered(j)' THEN 1 ELSE 0
    BY <1>1, <1>4, SentOfProvider
  <1>7. QED
    BY <1>1, <1>2, <1>3, <1>5, <1>6, NotedKeeps

(* A revocation marks the record that was read back.                         *)
LEMMA RevokeKeeps == ASSUME Storing, NEW o \in Object, Revoke(o) PROVE Storing'
  <1>1. /\ memory.records[o] # None /\ call.at = "idle"
        /\ memory' = [memory EXCEPT !.records[o].revoked = TRUE]
        /\ UNCHANGED <<adapter, policies, files, call>>
        /\ IF Local THEN UNCHANGED <<journal, spent, history>>
                    ELSE SaveJournal(memory') /\ Noted(history)
    BY DEF Revoke, Readable, Local, Storing, TypeOK
  <1>2. TypeOK /\ history \in History /\ memory \in Contents
    BY DEF Storing, TypeOK
  <1> DEFINE record == [memory.records[o] EXCEPT !.revoked = TRUE]
  <1>3. /\ record \in Stored /\ record.content = memory.records[o].content
        /\ record.policy = memory.records[o].policy
    BY <1>1, <1>2 DEF Contents, Stored
  <1>4. record # None
    BY <1>3, ConstantsAssumption
  <1>5. memory' = [memory EXCEPT !.records = [memory.records EXCEPT ![o] = record]]
    BY <1>1
  <1> HIDE DEF record
  <1>6. /\ memory' \in Contents /\ memory'.keys = memory.keys /\ memory'.unknown = memory.unknown
        /\ memory'.audit = memory.audit
        /\ memory'.records = [memory.records EXCEPT ![o] = record]
    BY <1>2, <1>3, <1>5 DEF Contents
  <1>7. CASE ~Local
    <2>1. /\ journal' = memory' \/ (journal' = journal /\ spent'.faults > spent.faults)
          /\ spent' \in [uploads : 0..MaxUploads, issues : 0..MaxIssues,
                         faults : 0..MaxFaults, crashes : 0..MaxCrashes]
      BY <1>1, <1>2, <1>7, SpentTyped DEF SaveJournal, TypeOK
    <2>2. \A j \in Key : Answered(j)' <=> Answered(j)
      BY <1>6 DEF Answered
    <2>3. \A j \in Key : history.sent[j] <= IF Answered(j)' THEN 1 ELSE 0
      BY <1>7, <2>2, SentOfProvider
    <2>4. QED
      BY <1>1, <1>2, <1>6, <1>7, <2>1, <2>3, NotedKeeps
  <1>8. CASE Local
    <2>1. UNCHANGED <<adapter, policies, files, call, journal, spent, history>>
      BY <1>1, <1>8
    <2>2. TypeOK'
      BY <1>2, <1>6, <2>1 DEF TypeOK
    <2>3. Apart' /\ Uploading' /\ Audited'
      BY <1>6, <2>1 DEF Storing, Apart, Uploading, Audited, Deleting, Local
    <2>4. Counted'
      BY <1>6, <2>1 DEF Storing, Counted, Restarts, Answered, Busy, Local
    <2>5. JournalIsCurrent'
      BY <1>8, <2>1 DEF JournalIsCurrent, Local
    <2>6. LocalAnswersHold'
      <3>1. memory.records \in [Object -> Stored \cup {None}]
        BY <1>2 DEF Contents
      <3>2. \A k \in Key : memory.keys[k] # None => memory.keys[k].object \in Object
        BY <1>2, RecordTyped DEF Contents
      <3>3. QED
        BY <1>3, <1>4, <1>6, <2>1, <3>1, <3>2 DEF Storing, LocalAnswersHold, Local
    <2>7. QED
      BY <2>2, <2>3, <2>4, <2>5, <2>6 DEF Storing
  <1>9. QED
    BY <1>7, <1>8

(* A deletion releases the keys that are bound to the object.                *)
LEMMA WithoutTyped ==
  ASSUME TypeOK, NEW o \in Object
  PROVE  /\ Without(memory, o) \in Contents
         /\ Without(memory, o).audit = memory.audit /\ Without(memory, o).unknown = memory.unknown
         /\ Without(memory, o).records = [memory.records EXCEPT ![o] = None]
         /\ Without(memory, o).keys = Unbound(memory, o)
         /\ Released(history.sent, memory, o) \in [Key -> Nat]
         /\ \A k \in Key :
               LET bound == memory.keys[k] # None /\ memory.keys[k].object = o
                   sent == Released(history.sent, memory, o)[k]
               IN  /\ bound => Without(memory, o).keys[k] = None /\ sent = 0
                   /\ ~bound => Without(memory, o).keys[k] = memory.keys[k]
                   /\ sent = history.sent[k] \/ sent = 0
  <1>1. memory \in Contents /\ history.sent \in [Key -> Nat]
    BY DEF TypeOK, History
  <1>2. Unbound(memory, o) \in [Key -> Request \cup {None}]
        /\ \A k \in Key : Unbound(memory, o)[k] =
               IF memory.keys[k] # None /\ memory.keys[k].object = o THEN None ELSE memory.keys[k]
    BY <1>1 DEF Contents, Unbound
  <1>3. Released(history.sent, memory, o) \in [Key -> Nat]
        /\ \A k \in Key : /\ \/ Released(history.sent, memory, o)[k] = history.sent[k]
                             \/ Released(history.sent, memory, o)[k] = 0
                          /\ memory.keys[k] # None /\ memory.keys[k].object = o =>
                                Released(history.sent, memory, o)[k] = 0
    BY <1>1 DEF Released
  <1>4. /\ Without(memory, o) \in Contents
        /\ Without(memory, o).audit = memory.audit /\ Without(memory, o).unknown = memory.unknown
        /\ Without(memory, o).records = [memory.records EXCEPT ![o] = None]
        /\ Without(memory, o).keys = Unbound(memory, o)
    BY <1>1, <1>2 DEF Contents, Without
  <1>5. QED
    BY <1>2, <1>3, <1>4

(* A deletion by the synthetic adapter, with its tombstone.                  *)
LEMMA ProviderDeleteKeeps ==
  ASSUME Storing, NEW o \in Object, ProviderDelete(o) PROVE Storing'
  <1>1. ~Local /\ UNCHANGED <<adapter, policies, files, call>>
    BY DEF ProviderDelete, Local
  <1>2. /\ TypeOK /\ history \in History /\ memory \in Contents
        /\ call' = Nobody /\ call'.at = "idle" /\ call.at = "idle" /\ ~Local'
    BY <1>1, NobodyIdle DEF Storing, TypeOK, Apart, Local
  <1>3. CASE Fault /\ UNCHANGED <<memory, journal, history>>
    <2>1. /\ spent' \in [uploads : 0..MaxUploads, issues : 0..MaxIssues,
                         faults : 0..MaxFaults, crashes : 0..MaxCrashes]
          /\ spent'.crashes = spent.crashes
      BY <1>2, <1>3, SpentTyped
    <2>2. TypeOK' /\ Apart' /\ Uploading' /\ Audited'
      BY <1>1, <1>2, <1>3, <2>1 DEF Storing, TypeOK, Apart, Uploading, Audited, Deleting
    <2>3. Counted' /\ JournalIsCurrent' /\ LocalAnswersHold'
      BY <1>1, <1>2, <1>3, <2>1 DEF Storing, Counted, Restarts, Answered, Busy, JournalIsCurrent,
                                    LocalAnswersHold
    <2>4. QED
      BY <2>2, <2>3 DEF Storing
  <1>4. CASE /\ memory' = Tombstone(Without(memory, o), o)
             /\ journal' = memory' /\ UNCHANGED spent
             /\ history' = [history EXCEPT !.deleted[o] = history.deleted[o] + 1, !.denied = {},
                                           !.unsaved = FALSE, !.sent = Released(@, memory, o)]
    <2> DEFINE m == Without(memory, o)
               sent == Released(history.sent, memory, o)
    <2>1. /\ m \in Contents /\ m.audit = memory.audit /\ m.unknown = memory.unknown
          /\ sent \in [Key -> Nat]
          /\ \A k \in Key : m.keys[k] = memory.keys[k] \/ sent[k] = 0
          /\ \A k \in Key : sent[k] = history.sent[k] \/ sent[k] = 0
      <3>1. /\ m \in Contents /\ m.audit = memory.audit /\ m.unknown = memory.unknown
            /\ sent \in [Key -> Nat]
        BY <1>2, WithoutTyped
      <3>2. ASSUME NEW k \in Key
            PROVE  /\ m.keys[k] = memory.keys[k] \/ sent[k] = 0
                   /\ sent[k] = history.sent[k] \/ sent[k] = 0
        BY <1>2, WithoutTyped
      <3>3. QED
        BY <3>1, <3>2
    <2>2. memory' = [m EXCEPT !.audit[o] = m.audit[o] + 1]
      BY <1>4 DEF Tombstone
    <2> DEFINE deleted == [history.deleted EXCEPT ![o] = history.deleted[o] + 1]
    <2>3. history' = [history EXCEPT !.deleted = deleted, !.denied = {}, !.unsaved = FALSE,
                                     !.sent = sent]
      BY <1>4
    <2>3a. deleted \in [Object -> Nat]
      BY <1>2 DEF History
    <2> HIDE DEF m, sent, deleted
    <2>4. /\ memory' \in Contents /\ memory'.keys = m.keys /\ memory'.unknown = memory.unknown
          /\ memory'.audit = [memory.audit EXCEPT ![o] = memory.audit[o] + 1]
      BY <2>1, <2>2 DEF Contents
    <2>5. /\ history' \in History /\ history'.sent = sent /\ history'.spurious = history.spurious
          /\ history'.deleted = [history.deleted EXCEPT ![o] = history.deleted[o] + 1]
      <3>1. history' \in History /\ history'.sent = sent /\ history'.spurious = history.spurious
            /\ history'.deleted = deleted
        BY <1>2, <2>1, <2>3, <2>3a DEF History
      <3>2. QED
        BY <3>1 DEF deleted
    <2>6. TypeOK'
      BY <1>1, <1>2, <1>4, <2>4, <2>5 DEF TypeOK
    <2>7. Apart' /\ Uploading' /\ LocalAnswersHold'
      BY <1>2 DEF Apart, Uploading, LocalAnswersHold
    <2>8. Audited'
      <3>1. \A p \in Object : /\ history.deleted[p] \in Nat /\ history.spurious[p] \in Nat
                              /\ memory.audit[p] \in Nat /\ journal.audit[p] \in Nat
        BY <1>2 DEF TypeOK, History, Contents
      <3>2. \A p \in Object : /\ Deleting(p) = 0 /\ Deleting(p)' = 0
                              /\ history.deleted[p] <= memory.audit[p]
                              /\ memory.audit[p] <= history.deleted[p] + history.spurious[p]
        BY <1>2, <3>1 DEF Storing, Audited, Deleting
      <3>3. /\ memory'.audit[o] = memory.audit[o] + 1 /\ history'.deleted[o] = history.deleted[o] + 1
            /\ \A p \in Object \ {o} : memory'.audit[p] = memory.audit[p]
                                      /\ history'.deleted[p] = history.deleted[p]
        BY <1>2, <2>4, <2>5 DEF History, Contents
      <3>4. QED
        BY <1>4, <2>5, <3>1, <3>2, <3>3 DEF Audited
    <2>9. Counted'
      <3>1. ASSUME NEW k \in Key PROVE sent[k] <= IF Answered(k)' THEN 1 ELSE 0
        <4>1. CASE sent[k] = 0
          BY <4>1
        <4>2. CASE sent[k] # 0
          <5>1. memory'.keys[k] = memory.keys[k] /\ sent[k] = history.sent[k]
            BY <2>1, <2>4, <4>2
          <5>2. Answered(k)' <=> Answered(k)
            BY <2>4, <5>1 DEF Answered
          <5>3. QED
            BY <1>1, <5>1, <5>2, SentOfProvider
        <4>3. QED
          BY <4>1, <4>2
      <3>2. Restarts' = 0 /\ \A k \in Key : ~Busy(k)'
        BY <1>2 DEF Restarts, Busy
      <3>3. QED
        BY <2>1, <2>5, <3>1, <3>2 DEF Counted
    <2>10. JournalIsCurrent'
      BY <1>4 DEF JournalIsCurrent
    <2>11. QED
      BY <2>6, <2>7, <2>8, <2>9, <2>10 DEF Storing
  <1>5. QED
    BY <1>3, <1>4 DEF ProviderDelete

(* What the local adapter's calls have in common.                            *)
LEMMA LocalTyped ==
  ASSUME Storing, Local
  PROVE  /\ TypeOK /\ memory \in Contents /\ journal \in Contents /\ history \in History
         /\ memory.keys \in [Key -> Request \cup {None}]
         /\ files \in [Object -> Content \cup {None}]
         /\ history.sent \in [Key -> Nat] /\ spent.crashes \in Nat
         /\ ~history.unsaved /\ Restarts = spent.crashes
         /\ \A k \in Key : /\ memory.unknown[k] = None
                           /\ journal.keys[k] = None /\ journal.unknown[k] = None
  <1>1. TypeOK /\ memory \in Contents /\ journal \in Contents /\ history \in History
    BY DEF Storing, TypeOK
  <1>2. memory.keys \in [Key -> Request \cup {None}] /\ history.sent \in [Key -> Nat]
    BY <1>1 DEF Contents, History
  <1>3. spent.crashes \in Nat /\ Restarts = spent.crashes
    BY <1>1, SpentTyped DEF Restarts
  <1>4. QED
    BY <1>1, <1>2, <1>3 DEF Storing, Apart, TypeOK

(* The bytes of an upload are put under a name no file has.                  *)
LEMMA StoreFileKeeps ==
  ASSUME Storing, NEW k \in Key, NEW q \in Request, StoreFile(k, q) PROVE Storing'
  <1>1. /\ Local /\ call.at = "idle" /\ ~Answered(k) /\ files[q.object] = None
        /\ files' = [files EXCEPT ![q.object] = q.content]
        /\ call' = [at |-> "uploading", key |-> k, request |-> q]
        /\ Spend("uploads") /\ spent.uploads < MaxUploads
        /\ history' = Sent(k)
        /\ UNCHANGED <<adapter, policies, memory, journal>>
    BY DEF StoreFile
  <1>2. q.object \in Object /\ q.content \in Content /\ q.content # None
    BY RecordTyped, ConstantsAssumption
  <1>3. /\ history' \in History /\ history'.sent = [history.sent EXCEPT ![k] = history.sent[k] + 1]
        /\ history'.deleted = history.deleted /\ history'.spurious = history.spurious
        /\ history'.unsaved = history.unsaved
    BY <1>1, LocalTyped DEF Sent, History
  <1>4. /\ spent' \in [uploads : 0..MaxUploads, issues : 0..MaxIssues,
                       faults : 0..MaxFaults, crashes : 0..MaxCrashes]
        /\ spent'.crashes = spent.crashes
    <2>1. {MaxUploads, MaxIssues, MaxFaults, MaxCrashes} \subseteq Nat
      BY ConstantsAssumption
    <2>2. QED
      BY <1>1, <2>1 DEF Storing, TypeOK, Spend
  <1>5. call'.at = "uploading" /\ call'.key = k /\ call'.request = q
    BY <1>1
  <1>6. TypeOK'
    BY <1>1, <1>2, <1>3, <1>4 DEF Storing, TypeOK
  <1>7. Local' /\ Apart'
    BY <1>1, <1>3, LocalTyped DEF Apart, Local
  <1>8. \A j \in Key : memory.keys[j] # None => memory.keys[j].object # q.object
    <2>1. ASSUME NEW j \in Key, memory.keys[j] # None PROVE memory.keys[j].object # q.object
      <3>1. memory.keys[j] \in Request
        BY <1>1, <2>1, LocalTyped
      <3>2. memory.keys[j].content # None
        BY <3>1, RecordTyped, ConstantsAssumption
      <3>3. files[memory.keys[j].object] = memory.keys[j].content
        BY <1>1, <2>1 DEF Storing, LocalAnswersHold
      <3>4. QED
        BY <1>1, <3>2, <3>3
    <2>2. QED
      BY <2>1
  <1>9. Uploading'
    BY <1>1, <1>2, <1>3, <1>5, <1>8, LocalTyped DEF Uploading
  <1>10. Audited'
    BY <1>1, <1>3, <1>5 DEF Storing, Audited, Deleting
  <1>11. Counted'
    <2>1. Restarts' = spent.crashes
      BY <1>4, <1>7 DEF Restarts
    <2>2. \A j \in Key : Answered(j)' <=> Answered(j)
      BY <1>1 DEF Answered
    <2>3. Busy(k)' /\ \A j \in Key : ~Busy(j)
      BY <1>1, <1>5 DEF Busy
    <2>4. QED
      BY <1>1, <1>3, <2>1, <2>2, <2>3, LocalTyped DEF Storing, Counted
  <1>12. JournalIsCurrent'
    BY <1>7 DEF JournalIsCurrent, Local
  <1>13. LocalAnswersHold'
    <2>1. \A j \in Key : memory.keys[j] # None => memory.keys[j].object \in Object
      BY <1>1, LocalTyped, RecordTyped
    <2>2. QED
      BY <1>1, <1>2, <1>8, <2>1, LocalTyped DEF Storing, LocalAnswersHold
  <1>14. QED
    BY <1>6, <1>7, <1>9, <1>10, <1>11, <1>12, <1>13 DEF Storing

(* An upload under way ends: its name is freed or its key answers.           *)
LEMMA EndedUploadKeeps ==
  ASSUME Storing, Local, call.at = "uploading", call' = Nobody,
         UNCHANGED <<adapter, policies, journal>>,
         memory' \in Contents, memory'.audit = memory.audit, memory'.unknown = memory.unknown,
         history' \in History, history'.deleted = history.deleted,
         history'.spurious = history.spurious, history'.unsaved = history.unsaved,
         files' \in [Object -> Content \cup {None}],
         spent' \in [uploads : 0..MaxUploads, issues : 0..MaxIssues,
                     faults : 0..MaxFaults, crashes : 0..MaxCrashes],
         spent'.crashes = spent.crashes,
         \A j \in Key \ {call.key} : history'.sent[j] = history.sent[j]
                                     /\ memory'.keys[j] = memory.keys[j],
         \/ history'.sent[call.key] = history.sent[call.key] - 1
         \/ history'.sent[call.key] = history.sent[call.key] /\ memory'.keys[call.key] # None,
         LocalAnswersHold'
  PROVE  Storing'
  <1>1. call'.at = "idle" /\ Local' /\ call.key \in Key
    BY NobodyIdle, LocalTyped DEF Local
  <1>2. TypeOK'
    BY LocalTyped DEF TypeOK
  <1>3. Apart' /\ Uploading' /\ JournalIsCurrent'
    BY <1>1, LocalTyped DEF Apart, Uploading, JournalIsCurrent, Local
  <1>4. Audited'
    BY <1>1 DEF Storing, Audited, Deleting
  <1>5. Counted'
    <2>1. Restarts' = spent.crashes
      BY <1>1 DEF Restarts
    <2>2. PICK k \in Key : k = call.key
      BY <1>1
    <2>3. \A j \in Key : ~Busy(j)' /\ (j # k => ~Busy(j))
      BY <1>1, <2>2 DEF Busy
    <2>4. \A j \in Key \ {k} : Answered(j)' <=> Answered(j)
      BY <2>2 DEF Answered
    <2>5. /\ history.sent[k] \in Nat /\ spent.crashes \in Nat
          /\ history.sent[k] <= spent.crashes + 1
      BY <1>1, <2>2, LocalTyped DEF Storing, Counted
    <2>6. history'.sent[k] <= spent.crashes + (IF Answered(k)' THEN 1 ELSE 0)
      <3>1. CASE history'.sent[k] = history.sent[k] - 1
        BY <2>5, <3>1
      <3>2. CASE history'.sent[k] = history.sent[k] /\ memory'.keys[k] # None
        <4>1. Answered(k)'
          BY <3>2 DEF Answered
        <4>2. QED
          BY <2>5, <3>2, <4>1
      <3>3. QED
        BY <2>2, <3>1, <3>2
    <2>7. ASSUME NEW j \in Key, j # k
          PROVE  history'.sent[j] <= spent.crashes + (IF Answered(j)' THEN 1 ELSE 0)
      <3>1. history.sent[j] <= spent.crashes + (IF Answered(j) THEN 1 ELSE 0)
        BY <2>3, <2>7, LocalTyped DEF Storing, Counted
      <3>2. QED
        BY <2>2, <2>4, <2>7, <3>1
    <2>8. \A j \in Key : history'.sent[j] <= spent.crashes + (IF Answered(j)' THEN 1 ELSE 0)
      BY <2>6, <2>7
    <2>9. QED
      BY <2>1, <2>3, <2>8 DEF Counted
  <1>6. QED
    BY <1>2, <1>3, <1>4, <1>5 DEF Storing

(* The end of an upload: undone, allowed, denied, or not decided.            *)
LEMMA FinishUploadKeeps == ASSUME Storing, FinishUpload PROVE Storing'
  <1>1. /\ call.at = "uploading" /\ call' = Nobody
        /\ UNCHANGED <<adapter, policies, journal>>
    BY DEF FinishUpload
  <1>2. Local
    BY <1>1, NobodyIdle DEF Storing, Apart
  <1>3. PICK k \in Key, q \in Request : k = call.key /\ q = call.request
    BY <1>1, <1>2, LocalTyped, NobodyIdle
  <1>4. /\ memory \in Contents /\ history \in History /\ history.sent \in [Key -> Nat]
        /\ memory.keys \in [Key -> Request \cup {None}]
        /\ files \in [Object -> Content \cup {None}]
        /\ TypeOK
    BY <1>2, LocalTyped
  <1>5. /\ q.object \in Object /\ q.content \in Content /\ q.policy \in Policy
        /\ Record(q) \in Stored /\ Record(q) # None /\ q # None
        /\ Record(q).content = q.content /\ Record(q).policy = q.policy
    BY RecordTyped
  <1>6. /\ files[q.object] = q.content /\ history.sent[k] >= 1
        /\ \A j \in Key : memory.keys[j] # None =>
              memory.keys[j].object # q.object /\ memory.keys[j].object \in Object
    BY <1>1, <1>3, <1>4, RecordTyped DEF Storing, Uploading
  <1> DEFINE undone == [history EXCEPT !.sent[k] = history.sent[k] - 1]
             freed == [files EXCEPT ![q.object] = None]
  <1>7. /\ undone \in History /\ undone.deleted = history.deleted
        /\ undone.spurious = history.spurious /\ undone.unsaved = history.unsaved
        /\ undone.sent = [history.sent EXCEPT ![k] = history.sent[k] - 1]
    BY <1>4, <1>6 DEF History
  <1>8. freed \in [Object -> Content \cup {None}]
        /\ \A o \in Object \ {q.object} : freed[o] = files[o]
    BY <1>4
  <1>9. /\ spent \in [uploads : 0..MaxUploads, issues : 0..MaxIssues,
                       faults : 0..MaxFaults, crashes : 0..MaxCrashes]
    BY <1>4 DEF TypeOK
  <1> HIDE DEF undone, freed
  <1>10. CASE /\ Fault /\ files' = freed /\ history' = undone /\ UNCHANGED memory
    <2>1. LocalAnswersHold'
      BY <1>1, <1>2, <1>6, <1>8, <1>10 DEF Storing, LocalAnswersHold, Local
    <2>2. /\ spent' \in [uploads : 0..MaxUploads, issues : 0..MaxIssues,
                         faults : 0..MaxFaults, crashes : 0..MaxCrashes]
          /\ spent'.crashes = spent.crashes
      BY <1>4, <1>10, SpentTyped
    <2>3. /\ \A j \in Key \ {k} : history'.sent[j] = history.sent[j]
          /\ history'.sent[k] = history.sent[k] - 1
      BY <1>4, <1>7, <1>10
    <2>4. QED
      BY <1>1, <1>2, <1>3, <1>4, <1>7, <1>8, <1>10, <2>1, <2>2, <2>3, EndedUploadKeeps
  <1>11. CASE /\ Authorized(q) /\ memory' = Accepted(k, q) /\ UNCHANGED <<files, spent, history>>
    <2>1. /\ memory' \in Contents /\ memory'.audit = memory.audit
          /\ memory'.unknown = memory.unknown
          /\ memory'.keys = [memory.keys EXCEPT ![k] = q]
          /\ memory'.records = [memory.records EXCEPT ![q.object] = Record(q)]
      BY <1>4, <1>11, AcceptedTyped
    <2>2. /\ memory'.keys[k] = q /\ memory'.records[q.object] = Record(q)
          /\ \A j \in Key \ {k} : memory'.keys[j] = memory.keys[j]
          /\ \A o \in Object \ {q.object} : memory'.records[o] = memory.records[o]
      BY <1>4, <1>5, <2>1 DEF Contents
    <2>3. LocalAnswersHold'
      BY <1>1, <1>2, <1>5, <1>6, <1>11, <2>2 DEF Storing, LocalAnswersHold, Local
    <2>4. QED
      BY <1>1, <1>2, <1>3, <1>4, <1>5, <1>9, <1>11, <2>1, <2>2, <2>3, EndedUploadKeeps
  <1>12. CASE /\ memory' = [memory EXCEPT !.records[q.object] = None]
              /\ files' = freed /\ history' = undone /\ UNCHANGED spent
    <2>1. /\ memory' \in Contents /\ memory'.audit = memory.audit
          /\ memory'.unknown = memory.unknown /\ memory'.keys = memory.keys
          /\ \A o \in Object \ {q.object} : memory'.records[o] = memory.records[o]
      BY <1>4, <1>12 DEF Contents
    <2>2. LocalAnswersHold'
      BY <1>1, <1>2, <1>6, <1>8, <1>12, <2>1 DEF Storing, LocalAnswersHold, Local
    <2>3. /\ \A j \in Key \ {k} : history'.sent[j] = history.sent[j]
          /\ history'.sent[k] = history.sent[k] - 1
      BY <1>4, <1>7, <1>12
    <2>4. QED
      BY <1>1, <1>2, <1>3, <1>7, <1>8, <1>9, <1>12, <2>1, <2>2, <2>3, EndedUploadKeeps
  <1>13. CASE /\ memory' = [memory EXCEPT !.records[q.object] = Record(q)]
              /\ history' = [undone EXCEPT !.denied = @ \cup {q.object}]
              /\ UNCHANGED <<files, spent>>
    <2>1. /\ memory' \in Contents /\ memory'.audit = memory.audit
          /\ memory'.unknown = memory.unknown /\ memory'.keys = memory.keys
          /\ \A o \in Object \ {q.object} : memory'.records[o] = memory.records[o]
      BY <1>4, <1>5, <1>13 DEF Contents
    <2>2. LocalAnswersHold'
      BY <1>1, <1>2, <1>6, <1>13, <2>1 DEF Storing, LocalAnswersHold, Local
    <2>3. /\ history' \in History /\ history'.deleted = undone.deleted
          /\ history'.spurious = undone.spurious /\ history'.unsaved = undone.unsaved
          /\ history'.sent = undone.sent
      BY <1>5, <1>7, <1>13 DEF History
    <2>4. /\ \A j \in Key \ {k} : history'.sent[j] = history.sent[j]
          /\ history'.sent[k] = history.sent[k] - 1
      BY <1>4, <1>7, <2>3
    <2>5. QED
      BY <1>1, <1>2, <1>3, <1>4, <1>7, <1>9, <1>13, <2>1, <2>2, <2>3, <2>4, EndedUploadKeeps
  <1>14. \/ Fault /\ Recalled(q) /\ history' = undone /\ UNCHANGED memory
         \/ Authorized(q) /\ memory' = Accepted(k, q) /\ UNCHANGED <<files, spent, history>>
         \/ /\ memory' = [memory EXCEPT !.records[q.object] = None]
            /\ Recalled(q) /\ history' = undone /\ UNCHANGED spent
         \/ /\ memory' = [memory EXCEPT !.records[q.object] = Record(q)]
            /\ history' = [undone EXCEPT !.denied = @ \cup {q.object}]
            /\ UNCHANGED <<files, spent>>
    BY <1>3 DEF FinishUpload, undone
  <1>15. QED
    BY <1>10, <1>11, <1>12, <1>13, <1>14 DEF Recalled, freed

(* The local adapter saves a tombstone before it deletes.                    *)
LEMMA SaveTombstoneKeeps == ASSUME Storing, NEW o \in Object, SaveTombstone(o) PROVE Storing'
  <1>1. Local /\ call.at = "idle" /\ UNCHANGED <<adapter, policies, files, history>>
    BY DEF SaveTombstone
  <1>2. /\ TypeOK /\ memory \in Contents /\ journal \in Contents /\ history \in History
        /\ spent.crashes \in Nat
    BY <1>1, LocalTyped
  <1>3. CASE Fault /\ UNCHANGED <<memory, journal, call>>
    <2>1. /\ spent' \in [uploads : 0..MaxUploads, issues : 0..MaxIssues,
                         faults : 0..MaxFaults, crashes : 0..MaxCrashes]
          /\ spent'.crashes = spent.crashes
      BY <1>2, <1>3, SpentTyped
    <2>2. TypeOK' /\ Apart' /\ Uploading' /\ Audited'
      BY <1>1, <1>3, <2>1 DEF Storing, TypeOK, Apart, Uploading, Audited, Deleting, Local
    <2>3. Counted' /\ JournalIsCurrent' /\ LocalAnswersHold'
      BY <1>1, <1>3, <2>1 DEF Storing, Counted, Restarts, Answered, Busy, JournalIsCurrent,
                              LocalAnswersHold, Local
    <2>4. QED
      BY <2>2, <2>3 DEF Storing
  <1>4. CASE /\ memory' = Tombstone(memory, o)
             /\ journal' = [journal EXCEPT !.audit = memory'.audit]
             /\ call' = [at |-> "deleting", key |-> None, request |-> o]
             /\ UNCHANGED spent
    <2>1. /\ memory' \in Contents /\ memory'.keys = memory.keys /\ memory'.unknown = memory.unknown
          /\ memory'.records = memory.records
          /\ memory'.audit = [memory.audit EXCEPT ![o] = memory.audit[o] + 1]
      BY <1>2, <1>4 DEF Contents, Tombstone
    <2>2. /\ journal' \in Contents /\ journal'.audit = memory'.audit
          /\ journal'.keys = journal.keys /\ journal'.unknown = journal.unknown
      BY <1>2, <1>4, <2>1 DEF Contents
    <2>3. /\ call'.at = "deleting" /\ call'.request = o
          /\ call' \in [at : {"deleting"}, key : {None}, request : Object]
      BY <1>4
    <2>4. TypeOK'
      BY <1>1, <1>2, <1>4, <2>1, <2>2, <2>3 DEF TypeOK
    <2>5. Apart' /\ Uploading' /\ JournalIsCurrent' /\ LocalAnswersHold'
      BY <1>1, <2>1, <2>2, <2>3 DEF Storing, Apart, Uploading, JournalIsCurrent, LocalAnswersHold, Local
    <2>6. Audited'
      <3>1. \A p \in Object : /\ history.deleted[p] \in Nat /\ history.spurious[p] \in Nat
                              /\ memory.audit[p] \in Nat /\ journal.audit[p] \in Nat
        BY <1>2 DEF History, Contents
      <3>2. \A p \in Object : /\ history.deleted[p] <= memory.audit[p]
                              /\ memory.audit[p] <= history.deleted[p] + history.spurious[p]
        BY <1>1, <3>1 DEF Storing, Audited, Deleting
      <3>3. \A p \in Object : Deleting(p)' = IF p = o THEN 1 ELSE 0
        BY <2>3 DEF Deleting
      <3>4. \A p \in Object : memory'.audit[p] = memory.audit[p] + IF p = o THEN 1 ELSE 0
        BY <1>2, <2>1, <3>1 DEF Contents
      <3>5. QED
        BY <1>1, <2>2, <3>1, <3>2, <3>3, <3>4 DEF Audited
    <2>7. Counted'
      BY <1>1, <1>4, <2>1, <2>3 DEF Storing, Counted, Restarts, Answered, Busy, Local
    <2>8. QED
      BY <2>4, <2>5, <2>6, <2>7 DEF Storing
  <1>5. QED
    BY <1>3, <1>4 DEF SaveTombstone

(* A deletion of the local adapter ends: done, or its tombstone taken back.  *)
LEMMA FinishDeleteKeeps == ASSUME Storing, FinishDelete PROVE Storing'
  <1>1. /\ call.at = "deleting" /\ call' = Nobody /\ call'.at = "idle"
        /\ UNCHANGED <<adapter, policies>>
    BY NobodyIdle DEF FinishDelete
  <1>2. Local /\ Local'
    BY <1>1, NobodyIdle DEF Storing, Apart, Local
  <1>3. PICK o \in Object : o = call.request
    BY <1>1, <1>2, LocalTyped, NobodyIdle
  <1>4. /\ TypeOK /\ memory \in Contents /\ journal \in Contents /\ history \in History
        /\ history.sent \in [Key -> Nat] /\ memory.keys \in [Key -> Request \cup {None}]
        /\ files \in [Object -> Content \cup {None}]
        /\ spent.crashes \in Nat /\ Restarts = spent.crashes
    BY <1>2, LocalTyped
  <1>5. \A p \in Object : /\ history.deleted[p] \in Nat /\ history.spurious[p] \in Nat
                          /\ memory.audit[p] \in Nat /\ journal.audit[p] \in Nat
    BY <1>4 DEF History, Contents
  <1>6. \A p \in Object : /\ Deleting(p) = (IF p = o THEN 1 ELSE 0) /\ Deleting(p)' = 0
    BY <1>1, <1>3 DEF Deleting
  <1>7. CASE /\ files' = [files EXCEPT ![o] = None]
             /\ memory' = Without(memory, o)
             /\ history' = [history EXCEPT !.deleted[o] = history.deleted[o] + 1,
                                           !.sent = Released(@, memory, o), !.denied = @ \ {o}]
             /\ UNCHANGED <<journal, spent>>
    <2> DEFINE sent == Released(history.sent, memory, o)
               deleted == [history.deleted EXCEPT ![o] = history.deleted[o] + 1]
    <2>1. /\ memory' \in Contents /\ memory'.audit = memory.audit
          /\ memory'.unknown = memory.unknown /\ sent \in [Key -> Nat]
          /\ memory'.records = [memory.records EXCEPT ![o] = None]
      BY <1>4, <1>7, WithoutTyped
    <2>2. ASSUME NEW k \in Key
          PROVE  /\ \/ /\ memory.keys[k] # None /\ memory.keys[k].object = o
                       /\ memory'.keys[k] = None /\ sent[k] = 0
                    \/ /\ memory.keys[k] # None => memory.keys[k].object # o
                       /\ memory'.keys[k] = memory.keys[k]
                 /\ sent[k] = history.sent[k] \/ sent[k] = 0
      BY <1>4, <1>7, WithoutTyped
    <2>3. deleted \in [Object -> Nat] /\ history.denied \ {o} \in SUBSET Object
      BY <1>4 DEF History
    <2>4. history' = [history EXCEPT !.deleted = deleted, !.sent = sent,
                                     !.denied = history.denied \ {o}]
      BY <1>7
    <2> HIDE DEF sent
    <2>5. /\ history' \in History /\ history'.sent = sent /\ history'.spurious = history.spurious
          /\ history'.unsaved = history.unsaved
          /\ \A p \in Object : history'.deleted[p] = history.deleted[p] + IF p = o THEN 1 ELSE 0
      <3>1. \A p \in Object : deleted[p] = history.deleted[p] + IF p = o THEN 1 ELSE 0
        BY <1>4, <1>5 DEF History
      <3> HIDE DEF deleted
      <3>2. QED
        BY <1>4, <2>1, <2>3, <2>4, <3>1 DEF History
    <2>6. TypeOK'
      BY <1>1, <1>4, <1>7, <2>1, <2>5 DEF TypeOK
    <2>7. Apart' /\ Uploading' /\ JournalIsCurrent'
      BY <1>1, <1>2, <1>7, <2>1, <2>5, LocalTyped DEF Apart, Uploading, JournalIsCurrent, Local
    <2>8. Audited'
      BY <1>5, <1>6, <1>7, <2>1, <2>5 DEF Storing, Audited
    <2>9. Counted'
      <3>1. Restarts' = spent.crashes /\ \A k \in Key : ~Busy(k) /\ ~Busy(k)'
        BY <1>1, <1>2, <1>7 DEF Restarts, Busy
      <3>2. ASSUME NEW k \in Key
            PROVE  sent[k] <= spent.crashes + (IF Answered(k)' THEN 1 ELSE 0)
        <4>1. CASE sent[k] = 0
          BY <1>4, <4>1
        <4>2. CASE sent[k] # 0
          <5>1. memory'.keys[k] = memory.keys[k] /\ sent[k] = history.sent[k]
            BY <2>2, <4>2
          <5>2. Answered(k)' <=> Answered(k)
            BY <2>1, <5>1 DEF Answered
          <5>3. QED
            BY <1>4, <3>1, <5>1, <5>2 DEF Storing, Counted
        <4>3. QED
          BY <4>1, <4>2
      <3>3. QED
        BY <2>5, <3>1, <3>2 DEF Counted
    <2>10. LocalAnswersHold'
      <3>1. memory.records \in [Object -> Stored \cup {None}]
        BY <1>4 DEF Contents
      <3>2. \A k \in Key : memory'.keys[k] # None =>
                /\ memory'.keys[k] = memory.keys[k]
                /\ memory.keys[k].object # o /\ memory.keys[k].object \in Object
        BY <1>4, <2>2, RecordTyped
      <3>3. QED
        BY <1>2, <1>4, <1>7, <2>1, <3>1, <3>2 DEF Storing, LocalAnswersHold, Local
    <2>11. QED
      BY <2>6, <2>7, <2>8, <2>9, <2>10 DEF Storing
  <1>8. CASE /\ Fault
             /\ memory' = [memory EXCEPT !.audit[o] = memory.audit[o] - 1]
             /\ \/ journal' = [journal EXCEPT !.audit = memory'.audit] /\ UNCHANGED history
                \/ /\ history' = [history EXCEPT !.spurious[o] = history.spurious[o] + 1]
                   /\ UNCHANGED journal
             /\ UNCHANGED files
    <2>1. memory.audit[o] >= 1
      BY <1>5, <1>6 DEF Storing, Audited
    <2>2. /\ memory' \in Contents /\ memory'.keys = memory.keys /\ memory'.unknown = memory.unknown
          /\ memory'.records = memory.records
          /\ memory'.audit = [memory.audit EXCEPT ![o] = memory.audit[o] - 1]
      BY <1>4, <1>8, <2>1 DEF Contents
    <2>3. \A p \in Object : memory'.audit[p] = memory.audit[p] - IF p = o THEN 1 ELSE 0
      BY <1>4, <1>5, <2>2 DEF Contents
    <2>4. /\ spent' \in [uploads : 0..MaxUploads, issues : 0..MaxIssues,
                         faults : 0..MaxFaults, crashes : 0..MaxCrashes]
          /\ spent'.crashes = spent.crashes
      BY <1>4, <1>8, SpentTyped
    <2>5. /\ journal' \in Contents /\ journal'.keys = journal.keys
          /\ journal'.unknown = journal.unknown
          /\ history' \in History /\ history'.sent = history.sent
          /\ history'.deleted = history.deleted /\ history'.unsaved = history.unsaved
          /\ \/ journal'.audit = memory'.audit /\ history'.spurious = history.spurious
             \/ /\ journal'.audit = journal.audit
                /\ history'.spurious = [history.spurious EXCEPT ![o] = history.spurious[o] + 1]
      <3>1. CASE journal' = [journal EXCEPT !.audit = memory'.audit] /\ UNCHANGED history
        BY <1>4, <2>2, <3>1 DEF Contents
      <3>2. CASE /\ history' = [history EXCEPT !.spurious[o] = history.spurious[o] + 1]
                 /\ UNCHANGED journal
        BY <1>4, <3>2 DEF History
      <3>3. QED
        BY <1>8, <3>1, <3>2
    <2>6. TypeOK'
      BY <1>1, <1>4, <1>8, <2>2, <2>4, <2>5 DEF TypeOK
    <2>7. Apart' /\ Uploading' /\ JournalIsCurrent'
      BY <1>1, <1>2, <2>2, <2>5, LocalTyped DEF Apart, Uploading, JournalIsCurrent, Local
    <2>8. LocalAnswersHold'
      BY <1>2, <1>8, <2>2 DEF Storing, LocalAnswersHold, Local
    <2>9. Audited'
      <3>1. CASE journal'.audit = memory'.audit /\ history'.spurious = history.spurious
        BY <1>5, <1>6, <2>3, <2>5, <3>1 DEF Storing, Audited
      <3>2. CASE /\ journal'.audit = journal.audit
                 /\ history'.spurious = [history.spurious EXCEPT ![o] = history.spurious[o] + 1]
        <4>1. \A p \in Object : history'.spurious[p] = history.spurious[p] + IF p = o THEN 1 ELSE 0
          BY <1>4, <1>5, <3>2 DEF History
        <4>2. QED
          BY <1>5, <1>6, <2>3, <2>5, <3>2, <4>1 DEF Storing, Audited
      <3>3. QED
        BY <2>5, <3>1, <3>2
    <2>10. Counted'
      BY <1>1, <1>2, <2>2, <2>4, <2>5 DEF Storing, Counted, Restarts, Answered, Busy
    <2>11. QED
      BY <2>6, <2>7, <2>8, <2>9, <2>10 DEF Storing
  <1>9. QED
    BY <1>3, <1>7, <1>8 DEF FinishDelete

(* A restart finds what the journal says: all of it, for the synthetic       *)
(* adapter, unless a write had failed.                                       *)
LEMMA RestartKeeps == ASSUME Storing, Restart PROVE Storing'
  <1>1. /\ spent.crashes < MaxCrashes /\ Spend("crashes")
        /\ memory' = journal /\ call' = Nobody /\ call'.at = "idle"
        /\ UNCHANGED <<adapter, policies, journal, files>>
    BY NobodyIdle DEF Restart
  <1> DEFINE spurious == [o \in Object |-> IF call.at = "deleting" /\ call.request = o
                                          THEN history.spurious[o] + 1 ELSE history.spurious[o]]
             lost(k) == /\ history.unsaved
                        /\ <<memory.keys[k], memory.unknown[k]>> #
                               <<journal.keys[k], journal.unknown[k]>>
             sent == [k \in Key |-> IF lost(k) THEN 0 ELSE history.sent[k]]
             denied == IF Local THEN history.denied ELSE {}
  <1>2. history' = [history EXCEPT !.spurious = spurious, !.sent = sent, !.denied = denied,
                                   !.unsaved = FALSE]
    BY DEF Restart
  <1>3. TypeOK /\ memory \in Contents /\ journal \in Contents /\ history \in History
    BY DEF Storing, TypeOK
  <1>4. /\ spurious \in [Object -> Nat] /\ sent \in [Key -> Nat] /\ denied \in SUBSET Object
        /\ \A k \in Key : sent[k] = IF lost(k) THEN 0 ELSE history.sent[k]
        /\ \A o \in Object : spurious[o] = history.spurious[o] + Deleting(o)
    BY <1>3 DEF History, Deleting
  <1> HIDE DEF spurious, sent, denied
  <1>5. /\ history' \in History /\ history'.sent = sent /\ history'.spurious = spurious
        /\ history'.deleted = history.deleted /\ ~history'.unsaved
    BY <1>2, <1>3, <1>4 DEF History
  <1>6. spent.crashes \in Nat /\ spent'.crashes = spent.crashes + 1
        /\ spent' \in [uploads : 0..MaxUploads, issues : 0..MaxIssues,
                       faults : 0..MaxFaults, crashes : 0..MaxCrashes]
    <2>1. {MaxUploads, MaxIssues, MaxFaults, MaxCrashes} \subseteq Nat
      BY ConstantsAssumption
    <2>2. QED
      BY <1>1, <1>3, <2>1 DEF TypeOK, Spend
  <1>7. TypeOK'
    BY <1>1, <1>3, <1>5, <1>6 DEF TypeOK
  <1>8. Local' <=> Local
    BY <1>1 DEF Local
  <1>9. Apart' /\ Uploading'
    BY <1>1, <1>5, <1>8 DEF Storing, Apart, Uploading
  <1>10. JournalIsCurrent'
    BY <1>1 DEF JournalIsCurrent
  <1>11. LocalAnswersHold'
    BY <1>1, <1>8, LocalTyped DEF LocalAnswersHold
  <1>12. Audited'
    <2>1. \A o \in Object : /\ history.deleted[o] \in Nat /\ history.spurious[o] \in Nat
                            /\ memory.audit[o] \in Nat /\ journal.audit[o] \in Nat
                            /\ Deleting(o) \in Nat
      BY <1>3 DEF History, Contents, Deleting
    <2>2. \A o \in Object : Deleting(o)' = 0
      BY <1>1 DEF Deleting
    <2>3. QED
      BY <1>1, <1>4, <1>5, <2>1, <2>2 DEF Storing, Audited
  <1>13. Counted'
    <2>1. \A k \in Key : history.sent[k] \in Nat /\ ~Busy(k)'
      BY <1>1, <1>3 DEF History, Busy
    <2>2. CASE Local
      <3>1. Restarts = spent.crashes /\ Restarts' = spent.crashes + 1
        BY <1>6, <1>8, <2>2 DEF Restarts
      <3>2. \A k \in Key : sent[k] <= spent.crashes + 1
        BY <1>4, <1>6, <2>1, <3>1 DEF Storing, Counted
      <3>3. QED
        BY <1>4, <1>5, <1>6, <3>1, <3>2 DEF Counted
    <2>3. CASE ~Local
      <3>1. Restarts' = 0
        BY <1>8, <2>3 DEF Restarts
      <3>2. ASSUME NEW k \in Key PROVE sent[k] <= IF Answered(k)' THEN 1 ELSE 0
        <4>1. CASE lost(k)
          BY <1>4, <4>1
        <4>2. CASE ~lost(k)
          <5>1. memory.keys[k] = journal.keys[k] /\ memory.unknown[k] = journal.unknown[k]
            BY <2>3, <4>2, <1>3 DEF Storing, JournalIsCurrent, Local, TypeOK
          <5>2. Answered(k)' <=> Answered(k)
            BY <1>1, <5>1 DEF Answered
          <5>3. QED
            BY <1>4, <2>3, <4>2, <5>2, SentOfProvider
        <4>3. QED
          BY <4>1, <4>2
      <3>3. QED
        BY <1>4, <1>5, <2>1, <3>1, <3>2 DEF Counted
    <2>4. QED
      BY <2>2, <2>3
  <1>14. QED
    BY <1>7, <1>9, <1>10, <1>11, <1>12, <1>13 DEF Storing

(* Every step keeps the invariant.                                           *)
LEMMA NextStoring == Storing /\ [Next]_vars => Storing'
  <1> SUFFICES ASSUME Storing, [Next]_vars PROVE Storing'
    OBVIOUS
  <1>1. ASSUME NEW o \in Object, NEW p \in Policy, IssuePolicy(o, p) PROVE Storing'
    BY <1>1, IssueKeeps
  <1>2. ASSUME NEW k \in Key, NEW q \in Request, Upload(k, q) PROVE Storing'
    BY <1>2, AllowedUploadKeeps, DeniedUploadKeeps, StoreFileKeeps DEF Upload
  <1>3. ASSUME NEW k \in Key, ReconcileUnknown(k) PROVE Storing'
    BY <1>3, ReconcileKeeps
  <1>4. ASSUME NEW o \in Object, Revoke(o) \/ Delete(o) PROVE Storing'
    BY <1>4, RevokeKeeps, ProviderDeleteKeeps, SaveTombstoneKeeps DEF Delete
  <1>5. CASE FinishUpload \/ FinishDelete \/ Restart
    BY <1>5, FinishUploadKeeps, FinishDeleteKeeps, RestartKeeps
  <1>6. CASE UNCHANGED vars
    BY <1>6 DEF vars, Storing, TypeOK, Apart, Local, Uploading, Audited, Deleting, Counted,
                Restarts, Answered, Busy, JournalIsCurrent, LocalAnswersHold
  <1>7. QED
    BY <1>1, <1>2, <1>3, <1>4, <1>5, <1>6 DEF Next

(* Memory, journal, files and history of either adapter fit together in every *)
(* reachable state (upload, delete, _save_journal).                          *)
THEOREM StoringInvariant == Spec => []Storing
  BY InitStoring, NextStoring, PTL DEF Spec

(* A key has one effect that stands, whatever is retried, fails to be written *)
(* or is made again after a restart; the local adapter, which keeps no keys, *)
(* has at most one more for each restart (upload, reconcile_unknown).        *)
THEOREM UploadsTakeEffectOnce == Spec => []EffectOnce
  <1>1. Storing => EffectOnce
    <2> SUFFICES ASSUME Storing, NEW k \in Key
                 PROVE  history.sent[k] <= IF Local THEN 1 + spent.crashes ELSE 1
      BY DEF EffectOnce, Storing
    <2>1. history.sent[k] \in Nat /\ spent.crashes \in Nat
      BY SpentTyped DEF Storing, TypeOK, History
    <2>2. QED
      BY <2>1 DEF Storing, Counted, Restarts
  <1>2. QED
    BY <1>1, StoringInvariant, PTL

(* Every deletion has its tombstone on disk, and every tombstone a deletion  *)
(* that happened or was cut short (delete, _deletion_audit_event).           *)
THEOREM DeletionsOnRecord == Spec => []TombstonesAccounted
  <1>1. Storing => TombstonesAccounted
    <2>1. ASSUME Storing, NEW o \in Object
          PROVE  /\ history.deleted[o] \in Nat /\ history.spurious[o] \in Nat
                 /\ memory.audit[o] \in Nat /\ journal.audit[o] \in Nat
      BY <2>1 DEF Storing, TypeOK, History, Contents
    <2>2. QED
      BY <2>1 DEF Storing, Audited, Deleting, TombstonesAccounted
  <1>2. QED
    BY <1>1, StoringInvariant, PTL

(* The synthetic adapter answers from what a restart would find              *)
(* (_save_journal, _load_journal).                                           *)
THEOREM AnswersAreDurable == Spec => []JournalIsCurrent
  BY StoringInvariant, PTL DEF Storing

(* A retry under a key the local adapter knows gets the record and the bytes *)
(* of its own upload (LocalFilesystemAdapter.upload).                        *)
THEOREM LocalRetriesHold == Spec => []LocalAnswersHold
  BY StoringInvariant, PTL DEF Storing
===============================================================================
