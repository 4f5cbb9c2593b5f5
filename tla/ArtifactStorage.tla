--------------------------- MODULE ArtifactStorage ---------------------------
(***************************************************************************)
(* The storage adapters of tools/artifact-storage/artifact_storage.py: the *)
(* synthetic provider, which keeps everything it knows in one journal      *)
(* file, and the local filesystem adapter, which keeps stored files and a  *)
(* journal of deletions and forgets its records and keys with the process. *)
(* A behaviour is the life of one adapter of either kind and of the policy *)
(* authority, another process.  A write that fails leaves the old file:    *)
(* the fsync of the directory, after the replacement, does not fail.       *)
(***************************************************************************)
EXTENDS Naturals, FiniteSets

CONSTANTS
    Object,      \* names of stored objects
    Content,     \* contents of source files, told apart by their digest
    Policy,      \* permission scope and retention
    Key,         \* idempotency keys
    None,
    MaxUploads,  \* bound: calls of upload
    MaxIssues,   \* bound: policy decisions
    MaxFaults,   \* bound: file operations that fail
    MaxCrashes   \* bound: restarts of the adapter

\* UploadRequest without its key; operation_key digests exactly these.
Request == [object : Object, content : Content, policy : Policy]
\* ObjectRecord, with its entry of _policies
Stored == [content : Content, policy : Policy, revoked : BOOLEAN]

ASSUME ConstantsAssumption ==
    /\ None \notin Object \cup Content \cup Policy \cup Key \cup Request \cup Stored
    /\ {MaxUploads, MaxIssues, MaxFaults, MaxCrashes} \subseteq Nat

VARIABLES
    adapter,     \* the class of the adapter
    policies,    \* [Object -> Policy], the signed record of the authority
    memory,      \* [records, keys, unknown, audit], the adapter's attributes
    journal,     \* the same on disk; the local adapter only saves the audit
    files,       \* [Object -> Content], stored files (local)
    call,        \* the upload or delete under way (local)
    spent,       \* [uploads, issues, faults, crashes]
    history      \* what happened to keys and objects (see History)

vars == <<adapter, policies, memory, journal, files, call, spent, history>>

\* What happened, for the properties: effects of a key that still stand,
\* deletions, tombstones left by a deletion that did not finish, objects a
\* denied upload touched, and changes whose journal write failed.
History == [sent : [Key -> Nat], deleted : [Object -> Nat], spurious : [Object -> Nat],
            denied : SUBSET Object, unsaved : BOOLEAN]

Nobody == [at |-> "idle", key |-> None, request |-> None]
Empty == [records |-> [o \in Object |-> None], keys |-> [k \in Key |-> None],
          unknown |-> [k \in Key |-> None], audit |-> [o \in Object |-> 0]]

Init ==
    /\ adapter \in {"local", "synthetic"}
    /\ policies = [o \in Object |-> None]
    /\ memory = Empty
    /\ journal = Empty
    /\ files = [o \in Object |-> None]
    /\ call = Nobody
    /\ spent = [uploads |-> 0, issues |-> 0, faults |-> 0, crashes |-> 0]
    /\ history = [sent |-> [k \in Key |-> 0], deleted |-> [o \in Object |-> 0],
                  spurious |-> [o \in Object |-> 0], denied |-> {}, unsaved |-> FALSE]

Spend(what) == spent' = [spent EXCEPT ![what] = @ + 1]
Fault == spent.faults < MaxFaults /\ Spend("faults")

\* Faulty variant: the keys of a deleted object stay bound.
Unbound_Kept(m, o) == m.keys

\* The keys bound to an object go with it; unresolved ones stay.
Unbound(m, o) == [k \in Key |-> IF m.keys[k] # None /\ m.keys[k].object = o THEN None ELSE m.keys[k]]
Released(sent, m, o) ==
    [k \in Key |-> IF \E q \in {m.keys[k], m.unknown[k]} : q # None /\ q.object = o
                   THEN 0 ELSE sent[k]]
Without(m, o) == [m EXCEPT !.records[o] = None, !.keys = Unbound(m, o)]

\* Faulty variant: a deletion leaves no tombstone.
Tombstone_Missing(m, o) == m

Tombstone(m, o) == [m EXCEPT !.audit[o] = m.audit[o] + 1]

-----------------------------------------------------------------------------
(* The policy authority *)

\* StoragePolicyAuthority.issue: the newest decision replaces the record of
\* the object; the others are kept.
IssuePolicy(o, p) ==
    /\ spent.issues < MaxIssues /\ Spend("issues")
    /\ policies' = [policies EXCEPT ![o] = p]
    /\ UNCHANGED <<adapter, memory, journal, files, call, history>>

\* ProtectedPolicyResolver.get raises for an object without a decision.
Missing(o) == policies[o] = None
Authorized(request) == policies[request.object] = request.policy

-----------------------------------------------------------------------------
(* SyntheticProviderAdapter.  A call is one step: the provider is the
   adapter's memory, and a process that dies before the journal is replaced
   leaves what it would have left before the call. *)

Record(q) == [content |-> q.content, policy |-> q.policy, revoked |-> FALSE]

\* Faulty variant: the change is kept in memory only.
SaveJournal_Skipped(m) == UNCHANGED <<journal, spent>>

\* _save_journal replaces the file with all of memory, or raises.
SaveJournal(m) ==
    \/ journal' = m /\ UNCHANGED spent
    \/ Fault /\ UNCHANGED journal

\* The history after a call that wanted the journal to hold what memory holds.
Noted(h) == history' = [h EXCEPT !.unsaved = journal' # memory' /\ spent'.faults > spent.faults,
                                 !.denied = IF journal' = memory' THEN {} ELSE @]

\* Faulty variant: only settled uploads answer a retry.
Answered_Settled(k) == memory.keys[k] # None

Answered(k) == memory.unknown[k] # None \/ memory.keys[k] # None
Sent(k) == [history EXCEPT !.sent[k] = history.sent[k] + 1]
Accepted(k, q) == [memory EXCEPT !.records[q.object] = Record(q), !.keys[k] = q]
Pending(k, q) == [memory EXCEPT !.records[q.object] = Record(q), !.unknown[k] = q]

\* upload under a key nothing is known of: the record is made first, the
\* policy read after.  A missing decision raises and leaves the record; one
\* that differs takes the object's record out of memory.
ProviderUpload(k, q) ==
    /\ adapter = "synthetic" /\ spent.uploads < MaxUploads
    /\ ~Answered(k)
    /\ \/ /\ Authorized(q)
          /\ \E m \in {Accepted(k, q), Pending(k, q)} :
                /\ memory' = m
                /\ \/ journal' = m /\ Spend("uploads")
                   \/ /\ spent.faults < MaxFaults
                      /\ spent' = [spent EXCEPT !.uploads = @ + 1, !.faults = @ + 1]
                      /\ UNCHANGED journal
          /\ Noted(Sent(k))
       \/ /\ ~Authorized(q)
          /\ memory' = [memory EXCEPT !.records[q.object] =
                            IF Missing(q.object) THEN Record(q) ELSE None]
          /\ Spend("uploads")
          /\ history' = [history EXCEPT !.denied = @ \cup {q.object}]
          /\ UNCHANGED journal
    /\ UNCHANGED <<adapter, policies, files, call>>

\* reconcile_unknown binds the key to the upload whose effect was unknown.
ReconcileUnknown(k) ==
    /\ adapter = "synthetic" /\ memory.unknown[k] # None
    /\ memory' = [memory EXCEPT !.unknown[k] = None, !.keys[k] = memory.unknown[k]]
    /\ SaveJournal(memory')
    /\ Noted(history)
    /\ UNCHANGED <<adapter, policies, files, call>>

\* readback, whose answer revoke and the owner act on
Readable(o) == memory.records[o] # None /\ policies[o] = memory.records[o].policy

\* revoke; the local adapter marks its record in memory only.
Revoke(o) ==
    /\ Readable(o) /\ ~memory.records[o].revoked
    /\ call.at = "idle"
    /\ adapter = "local" => files[o] = memory.records[o].content
    /\ memory' = [memory EXCEPT !.records[o].revoked = TRUE]
    /\ IF adapter = "synthetic" THEN SaveJournal(memory') /\ Noted(history)
                                ELSE UNCHANGED <<journal, spent, history>>
    /\ UNCHANGED <<adapter, policies, files, call>>

\* delete: the tombstone and the removal are saved together, and a failed
\* save puts memory back.
ProviderDelete(o) ==
    /\ adapter = "synthetic" /\ memory.records[o] # None
    /\ \/ /\ memory' = Tombstone(Without(memory, o), o)
          /\ journal' = memory'
          /\ history' = [history EXCEPT !.deleted[o] = history.deleted[o] + 1, !.denied = {}, !.unsaved = FALSE,
                                        !.sent = Released(@, memory, o)]
          /\ UNCHANGED spent
       \/ Fault /\ UNCHANGED <<memory, journal, history>>
    /\ UNCHANGED <<adapter, policies, files, call>>

-----------------------------------------------------------------------------
(* LocalFilesystemAdapter *)

Local == adapter = "local"

\* upload up to its bytes on disk: a file of that name is never replaced.
StoreFile(k, q) ==
    /\ Local /\ call.at = "idle" /\ spent.uploads < MaxUploads
    /\ ~Answered(k)
    /\ files[q.object] = None
    /\ files' = [files EXCEPT ![q.object] = q.content]
    /\ call' = [at |-> "uploading", key |-> k, request |-> q]
    /\ Spend("uploads")
    /\ history' = Sent(k)
    /\ UNCHANGED <<adapter, policies, memory, journal>>

Recalled(q) == files' = [files EXCEPT ![q.object] = None]

\* The rest of upload: the source changed or the bytes differ; the authority
\* allows it; it does not; or it has no decision, which raises before the
\* clean-up.
FinishUpload ==
    /\ call.at = "uploading"
    /\ call' = Nobody
    /\ LET q == call.request
           k == call.key
           undone == [history EXCEPT !.sent[k] = history.sent[k] - 1]
       IN  \/ /\ Fault /\ Recalled(q) /\ history' = undone
              /\ UNCHANGED memory
           \/ /\ Authorized(q)
              /\ memory' = Accepted(k, q)
              /\ UNCHANGED <<files, spent, history>>
           \/ /\ ~Authorized(q) /\ ~Missing(q.object)
              /\ memory' = [memory EXCEPT !.records[q.object] = None]
              /\ Recalled(q) /\ history' = undone
              /\ UNCHANGED spent
           \/ /\ Missing(q.object)
              /\ memory' = [memory EXCEPT !.records[q.object] = Record(q)]
              /\ history' = [undone EXCEPT !.denied = @ \cup {q.object}]
              /\ UNCHANGED <<files, spent>>
    /\ UNCHANGED <<adapter, policies, journal>>

\* delete up to the saved tombstone, or its failure
SaveTombstone(o) ==
    /\ Local /\ call.at = "idle" /\ memory.records[o] # None
    /\ \/ /\ memory' = Tombstone(memory, o)
          /\ journal' = [journal EXCEPT !.audit = memory'.audit]
          /\ call' = [at |-> "deleting", key |-> None, request |-> o]
          /\ UNCHANGED spent
       \/ Fault /\ UNCHANGED <<memory, journal, call>>
    /\ UNCHANGED <<adapter, policies, files, history>>

\* The rest of delete: the file goes with its record and keys; or unlink
\* fails and the tombstone is taken back, if that write does not fail too.
FinishDelete ==
    /\ call.at = "deleting"
    /\ call' = Nobody
    /\ LET o == call.request
       IN  \/ /\ files' = [files EXCEPT ![o] = None]
              /\ memory' = Without(memory, o)
              /\ history' = [history EXCEPT !.deleted[o] = history.deleted[o] + 1,
                                            !.sent = Released(@, memory, o), !.denied = @ \ {o}]
              /\ UNCHANGED <<journal, spent>>
           \/ /\ Fault
              /\ memory' = [memory EXCEPT !.audit[o] = memory.audit[o] - 1]
              /\ \/ journal' = [journal EXCEPT !.audit = memory'.audit] /\ UNCHANGED history
                 \/ history' = [history EXCEPT !.spurious[o] = history.spurious[o] + 1] /\ UNCHANGED journal
              /\ UNCHANGED files
    /\ UNCHANGED <<adapter, policies>>

-----------------------------------------------------------------------------
\* The process ends, in the middle of a call or between two, and another
\* adapter is made over what is on disk.
Restart ==
    /\ spent.crashes < MaxCrashes /\ Spend("crashes")
    /\ memory' = journal
    /\ call' = Nobody
    /\ history' = [history EXCEPT
          !.spurious = [o \in Object |-> IF call.at = "deleting" /\ call.request = o
                                         THEN history.spurious[o] + 1 ELSE history.spurious[o]],
          !.sent = [k \in Key |-> IF /\ history.unsaved
                                     /\ <<memory.keys[k], memory.unknown[k]>> #
                                            <<journal.keys[k], journal.unknown[k]>>
                                  THEN 0 ELSE history.sent[k]],
          !.denied = IF Local THEN @ ELSE {},
          !.unsaved = FALSE]
    /\ UNCHANGED <<adapter, policies, journal, files>>

Upload(k, q) == ProviderUpload(k, q) \/ StoreFile(k, q)
Delete(o) == ProviderDelete(o) \/ SaveTombstone(o)

Next ==
    \/ \E o \in Object, p \in Policy : IssuePolicy(o, p)
    \/ \E k \in Key, q \in Request : Upload(k, q)
    \/ \E k \in Key : ReconcileUnknown(k)
    \/ \E o \in Object : Revoke(o) \/ Delete(o)
    \/ FinishUpload \/ FinishDelete
    \/ Restart

Spec == Init /\ [][Next]_vars

-----------------------------------------------------------------------------
(* Properties *)

\* Every variable has its type: what is stored, journalled and counted.
Contents ==
    [records : [Object -> Stored \cup {None}], keys : [Key -> Request \cup {None}],
     unknown : [Key -> Request \cup {None}], audit : [Object -> Nat]]
TypeOK ==
    /\ adapter \in {"local", "synthetic"}
    /\ policies \in [Object -> Policy \cup {None}]
    /\ memory \in Contents
    /\ journal \in Contents
    /\ files \in [Object -> Content \cup {None}]
    /\ call \in {Nobody} \cup [at : {"uploading"}, key : Key, request : Request]
                         \cup [at : {"deleting"}, key : {None}, request : Object]
    /\ spent \in [uploads : 0..MaxUploads, issues : 0..MaxIssues,
                  faults : 0..MaxFaults, crashes : 0..MaxCrashes]
    /\ history \in History

\* The types are right, and one key has at most one effect that stands: an
\* upload that was answered, or whose outcome was unknown, is not made again
\* by a retry or after a restart, as long as the journal was written.  The
\* local adapter forgets its keys with the process, so that a key may have
\* one more effect after each restart.
EffectOnce ==
    /\ TypeOK
    /\ \A k \in Key : history.sent[k] <= IF Local THEN 1 + spent.crashes ELSE 1

\* Every deletion is on the durable record, and the record holds no more
\* than the deletions and the ones that were cut short after their tombstone
\* was saved: a failed delete takes its tombstone back.
TombstonesAccounted ==
    \A o \in Object :
        /\ history.deleted[o] <= journal.audit[o]
        /\ journal.audit[o] <= history.deleted[o] + history.spurious[o]
                               + (IF call.at = "deleting" /\ call.request = o THEN 1 ELSE 0)

\* What the synthetic adapter answers from is what a restart would find:
\* memory and journal differ only after a failed write, or in the record of an
\* object that a denied upload put in or took out.
JournalIsCurrent ==
    adapter = "synthetic" /\ ~history.unsaved =>
        /\ <<memory.keys, memory.unknown, memory.audit>> =
               <<journal.keys, journal.unknown, journal.audit>>
        /\ \A o \in Object \ history.denied : memory.records[o] = journal.records[o]

\* A retry under a key the local adapter knows is answered with the upload's
\* own record, and the stored file still has those bytes.
LocalAnswersHold ==
    \A k \in Key : Local /\ memory.keys[k] # None =>
        LET q == memory.keys[k]
        IN  /\ memory.records[q.object] # None
            /\ memory.records[q.object].policy = q.policy
            /\ memory.records[q.object].content = q.content
            /\ files[q.object] = q.content
=============================================================================
