------------------------------- MODULE DailyUse -------------------------------
(***************************************************************************)
(* The calendar and daily-brief engines (tools/operator-state/daily_use.py)*)
(* and their operation journal.  An engine journals its intent as unknown, *)
(* calls the provider once, reads the effect back and journals what it     *)
(* found; what stays unknown is settled by reconcile.                      *)
(*                                                                         *)
(* OperationStore reads its file when it is made and writes all of it at   *)
(* every put: the journal of an engine is its memory, which a process that *)
(* dies and starts again takes from the file.                              *)
(***************************************************************************)
EXTENDS Naturals, FiniteSets

CONSTANTS
    Engine,     \* processes with an engine over one file
    Request,    \* exact approved requests
    Key,        \* operation keys
    KeyOf,      \* [Request -> Key]
    Brief,      \* keys of daily briefs, the others are calendar writes
    Earlier,    \* briefs the provider delivered before this journal began
    Clash,      \* pairs of keys whose events are at the same time for the same people
    NoRequest,
    MaxCrashes  \* bound: processes that die

ASSUME DailyAssumption ==
    /\ KeyOf \in [Request -> Key]
    /\ Brief \subseteq Key
    /\ Earlier \subseteq Brief
    /\ Clash \subseteq Key \X Key
    /\ NoRequest \notin Request
    /\ MaxCrashes \in Nat

VARIABLES
    file,       \* [Key -> Record], the journal on disk
    memory,     \* [Engine -> [Key -> Record]], the records of its store
    call,       \* [Engine -> [at, key]], the call in progress
    provider,   \* [Key -> outcome], what the provider knows of an operation
    sends,      \* [Key -> Nat], how often the provider was called for it
    crashes

dailyVars == <<file, memory, call, provider, sends, crashes>>

Results == {"unknown", "confirmed-success", "confirmed-failure"}
Record == [bound : Request \cup {NoRequest}, result : Results \cup {"none"}]
NoRecord == [bound |-> NoRequest, result |-> "none"]
Idle == [at |-> "idle", key |-> NoRequest]

DailyInit ==
    /\ file = [k \in Key |-> NoRecord]
    /\ memory = [e \in Engine |-> file]
    /\ call = [e \in Engine |-> Idle]
    /\ provider = [k \in Key |-> IF k \in Earlier THEN "done" ELSE "absent"]
    /\ sends = [k \in Key |-> 0]
    /\ crashes = 0

-----------------------------------------------------------------------------
\* OperationStore.put
Put(e, k, record) ==
    /\ memory' = [memory EXCEPT ![e][k] = record]
    /\ file' = memory'[e]

Goes(e, at, k) == call' = [call EXCEPT ![e] = [at |-> at, key |-> k]]
Ends(e) == call' = [call EXCEPT ![e] = Idle]

\* Faulty variant: an unknown outcome is dispatched again.
Fresh_OrUnknown(e, k) == memory[e][k].result \in {"none", "unknown"}
\* Faulty variant: a key whose operation failed is free for another request.
Fresh_OrFailed(e, k) == memory[e][k].result \in {"none", "confirmed-failure"}
\* A record, of this request or of another, answers the call.
Fresh(e, k) == memory[e][k].result = "none"

\* conflicts: events at the provider only.
Conflict(k) == k \notin Brief /\ \E other \in Key : <<k, other>> \in Clash /\ provider[other] = "done"
Preexisting(k) == k \in Brief /\ provider[k] \in {"done", "failed"}

\* apply and run, up to the intent.
Intend(e, r) ==
    LET k == KeyOf[r] IN
    /\ call[e] = Idle
    /\ Fresh(e, k) /\ ~Conflict(k) /\ ~Preexisting(k)
    /\ Put(e, k, [bound |-> r, result |-> "unknown"])
    /\ Goes(e, "intended", k)
    /\ UNCHANGED <<provider, sends, crashes>>

\* Faulty variant: what is not found is taken for delivered.
Found_Assumed(k) == IF provider[k] = "failed" THEN {"confirmed-failure"} ELSE {"confirmed-success"}
\* What the readback says; a mismatch, or an event that is not found, stays unknown.
Found(k) == CASE provider[k] = "done" -> {"confirmed-success", "unknown"}
              [] provider[k] = "failed" -> {"confirmed-failure", "unknown"}
              [] OTHER -> {"unknown"}

\* run: the provider knows the brief although the journal does not.
AdoptPreexisting(e, r) ==
    LET k == KeyOf[r] IN
    /\ call[e] = Idle
    /\ Fresh(e, k) /\ Preexisting(k)
    /\ \E found \in Found(k) : Put(e, k, [bound |-> r, result |-> found])
    /\ UNCHANGED <<call, provider, sends, crashes>>

\* write and send: done, done or lost with UnknownEffect, or not done yet.
Dispatch(e) ==
    LET k == call[e].key IN
    /\ call[e].at = "intended"
    /\ \E outcome \in {"done", "pending"} :
            provider' = [provider EXCEPT ![k] = IF @ = "done" THEN @ ELSE outcome]
    /\ sends' = [sends EXCEPT ![k] = @ + 1]
    /\ Goes(e, "dispatched", k)
    /\ UNCHANGED <<file, memory, crashes>>

\* _verify, _reconcile_known: the result is journaled, or the intent stays as it is.
Settle(e, k) == \E found \in Found(k) :
    IF found = "unknown" THEN UNCHANGED <<file, memory>>
    ELSE Put(e, k, [memory[e][k] EXCEPT !.result = found])

Readback(e) ==
    /\ call[e].at = "dispatched"
    /\ Settle(e, call[e].key)
    /\ Ends(e)
    /\ UNCHANGED <<provider, sends, crashes>>

Reconcile(e, k) ==
    /\ call[e] = Idle
    /\ memory[e][k].result = "unknown"
    /\ Settle(e, k)
    /\ UNCHANGED <<call, provider, sends, crashes>>

\* A process dies; the next one reads the file.
Restart(e) ==
    /\ crashes < MaxCrashes
    /\ memory' = [memory EXCEPT ![e] = file]
    /\ Ends(e)
    /\ crashes' = crashes + 1
    /\ UNCHANGED <<file, provider, sends>>

\* The provider gets to a request that is pending, or refuses it for good.
Arrive(k) ==
    /\ provider[k] = "pending"
    /\ \E outcome \in {"done", "failed"} : provider' = [provider EXCEPT ![k] = outcome]
    /\ UNCHANGED <<file, memory, call, sends, crashes>>

DailyNext ==
    \/ \E e \in Engine, r \in Request : Intend(e, r) \/ AdoptPreexisting(e, r)
    \/ \E e \in Engine : Dispatch(e) \/ Readback(e) \/ Restart(e)
    \/ \E e \in Engine, k \in Key : Reconcile(e, k)
    \/ \E k \in Key : Arrive(k)

DailySpec == DailyInit /\ [][DailyNext]_dailyVars

-----------------------------------------------------------------------------
(* Properties *)

\* The variables keep their types, and a record has a result exactly when it is bound.
DailyTypeOK ==
    /\ file \in [Key -> Record]
    /\ \A k \in Key : file[k].result = "none" <=> file[k].bound = NoRequest
    /\ memory \in [Engine -> [Key -> Record]]
    /\ call \in [Engine -> [at : {"idle", "intended", "dispatched"}, key : Key \cup {NoRequest}]]
    /\ provider \in [Key -> {"absent", "pending", "done", "failed"}]
    /\ sends \in [Key -> Nat]
    /\ crashes \in Nat

\* An operation is sent once, whatever dies, comes late or is repeated (apply and run after
\* an unknown outcome), a brief of an earlier journal not again.  It needs the engine to be
\* the only one of its file.
SentOnce == \A k \in Key : sends[k] <= IF k \in Earlier THEN 0 ELSE 1

\* The types are right; a confirmed result in the journal is what the provider did with the
\* operation, and what was sent is in the journal (apply, run, reconcile, _exact).
JournalIsTrue ==
    /\ DailyTypeOK
    /\ \A k \in Key :
          /\ file[k].result = "confirmed-success" => provider[k] = "done"
          /\ file[k].result = "confirmed-failure" => provider[k] = "failed"
          /\ sends[k] > 0 => file[k].result # "none"

\* What is on record stays: a key never changes the request it was bound to, and a confirmed
\* result never changes, whichever request comes for the key, whatever dies and whatever an
\* engine had in memory (the answer from prior in apply and run, OperationStore.put).
RecordsKept ==
    [][\A k \in Key : file[k].bound # NoRequest =>
          /\ file'[k].bound = file[k].bound
          /\ file[k].result # "unknown" => file'[k] = file[k]]_file
===============================================================================
