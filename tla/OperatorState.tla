----------------------------- MODULE OperatorState -----------------------------
(***************************************************************************)
(* The operator database (tools/operator-state/operator_state.py): the     *)
(* statuses of commitments, the focus stack, the append-only events, and   *)
(* backup and restore of the whole file.                                   *)
(*                                                                         *)
(* A call on the database is one BEGIN IMMEDIATE ... COMMIT, hence one     *)
(* action.  restore_database takes no lock of the database: other calls    *)
(* run between its steps.                                                  *)
(***************************************************************************)
EXTENDS Integers, FiniteSets

CONSTANTS
    Commitment,
    Asked,       \* the statuses calls ask for
    NoDb,
    MaxChanges,  \* bound: committed calls
    MaxRestores, \* bound: restores
    MaxRestoreFaults  \* bound: crashes of a restore and reads of it that fail

Terminal == {"done", "superseded", "dropped"}
Unfocusable == Terminal \cup {"hold", "waiting", "blocked"}
Statuses == Unfocusable \cup {"focused", "active", "parked", "partial"}

ASSUME DbAssumption ==
    /\ IsFiniteSet(Commitment)
    /\ Asked \subseteq Statuses
    /\ MaxChanges \in Nat /\ MaxRestores \in Nat /\ MaxRestoreFaults \in Nat

VARIABLES
    live,      \* the database at the path
    backup,    \* the file of the last backup command
    safety,    \* the file <path>.pre-restore.db
    restore,   \* the restore in progress: [at, candidate, saved]
    restores,  \* restores begun
    changes,   \* calls committed so far; each is one event
    around,    \* history: commitments whose status was written around the focus stack
    dropped,   \* history: the events the last restore took from the path, its own apart
    late,      \* history: the events that came after the safety copy of the last restore
    faults

dbVars == <<live, backup, safety, restore, restores, changes, around, dropped, late, faults>>
history == <<around, dropped, late>>

\* A database: position 0 is a commitment outside the stack.
Db == [status : [Commitment -> Statuses \cup {"absent"}],
       position : [Commitment -> 0..Cardinality(Commitment)],
       events : SUBSET (1..MaxChanges)]
Empty == [status |-> [c \in Commitment |-> "absent"],
          position |-> [c \in Commitment |-> 0], events |-> {}]
NoRestore == [at |-> "idle", candidate |-> NoDb, saved |-> FALSE]

Stacked(db) == {c \in Commitment : db.position[c] > 0}
Top(db) == {c \in Commitment : db.position[c] = 1}

\* _validate_database_readonly: the focus order.
Valid(db) ==
    /\ {db.position[c] : c \in Stacked(db)} = 1..Cardinality(Stacked(db))
    /\ {c \in Commitment : db.status[c] = "focused"} = Top(db)
    /\ \A c \in Stacked(db) \ Top(db) : db.status[c] = "parked"

\* Commitments may have been made and focused before, and a restore may have left its copy.
DbInit ==
    /\ \E status \in [Commitment -> {"absent", "active", "focused", "parked"}],
          position \in [Commitment -> 0..Cardinality(Commitment)] :
          /\ live = [status |-> status, position |-> position, events |-> {}]
          /\ Valid(live)
    /\ backup = NoDb
    /\ safety \in {NoDb, Empty}
    /\ restore = NoRestore
    /\ restores = 0 /\ changes = 0
    /\ around = {} /\ dropped = {} /\ late = {}
    /\ faults = 0

-----------------------------------------------------------------------------
(* The calls *)

\* connect: an absent database is made.
Opened == IF live = NoDb THEN Empty ELSE live

\* transaction, event: a call commits db with its event; written are the commitments whose
\* status has been written around the stack.
Commit(db, written) ==
    /\ changes < MaxChanges
    /\ changes' = changes + 1
    /\ live' = [db EXCEPT !.events = @ \cup {changes'}]
    /\ around' = written
    /\ late' = IF restore.at \in {"saved", "replaced"} THEN late \cup {changes'} ELSE late
    /\ UNCHANGED <<backup, safety, restore, restores, dropped, faults>>

Upsertable(status) == status \notin Terminal

\* upsert_commitment, with the workstream it needs.
Upsert(c, status) ==
    /\ Upsertable(status)
    /\ Commit([Opened EXCEPT !.status[c] = status], around \cup {c})

\* add_checkpoint: steps are left, all are done, or none is.
CheckpointStatus(status, completed, remaining) ==
    CASE status \in Terminal \cup {"hold"} -> status
      [] completed /\ remaining -> "partial"
      [] completed /\ ~remaining -> "done"
      [] OTHER -> status
Checkpoint(c, completed, remaining) ==
    LET before == Opened.status[c]
        after == CheckpointStatus(before, completed, remaining) IN
    /\ before # "absent"
    /\ Commit([Opened EXCEPT !.status[c] = after],
              IF after = before THEN around ELSE around \cup {c})

Focusable(status) == status \notin Unfocusable \cup {"absent"}

\* Places of the others in the order of their positions, the first one at from.
Renumbered(db, others, from) ==
    [c \in Commitment |-> IF c \notin others THEN 0
        ELSE Cardinality({d \in others : db.position[d] < db.position[c]}) + from]

Parked(db, others) == {d \in others : db.status[d] \in {"focused", "active", "partial"}}

Focus(c) ==
    LET db == Opened
        others == Stacked(db) \ {c} IN
    /\ Focusable(db.status[c])
    /\ Commit([db EXCEPT !.position = [Renumbered(db, others, 2) EXCEPT ![c] = 1],
                         !.status = [d \in Commitment |-> IF d = c THEN "focused"
                             ELSE IF d \in Parked(db, others) THEN "parked" ELSE @[d]]],
              around \ (Parked(db, others) \cup {c}))

\* Faulty variant: whatever is on top is focused.
Resumed_Any(status) == TRUE
Resumed(status) == status = "parked"
\* Faulty variant: the gap stays.
Normalized_Gap(db) == db
\* normalize_focus
Normalized(db) ==
    LET dense == [db EXCEPT !.position = Renumbered(db, Stacked(db), 1)] IN
    [dense EXCEPT !.status = [c \in Commitment |->
        IF c \in Top(dense) /\ Resumed(@[c]) THEN "focused" ELSE @[c]]]

SetStatus(c, status) ==
    LET written == [Opened EXCEPT !.status[c] = status] IN
    /\ Opened.status[c] # "absent"
    /\ IF status = "focused" THEN Commit(written, around \cup {c})
       ELSE Commit(Normalized([written EXCEPT !.position[c] = 0]), around \ {c})

-----------------------------------------------------------------------------
(* Backup and restore *)

\* backup_database to the given output.
Backup ==
    /\ backup' = Opened
    /\ live' = Opened
    /\ UNCHANGED <<safety, restore, restores, changes, history, faults>>

\* restore_database: the candidate is validated, copied and validated again.
RestoreCopy ==
    /\ restore.at = "idle"
    /\ restores < MaxRestores /\ restores' = restores + 1
    /\ backup # NoDb /\ Valid(backup)
    /\ restore' = [at |-> "copied", candidate |-> backup, saved |-> FALSE]
    /\ UNCHANGED <<live, backup, safety, changes, history, faults>>

\* Faulty variant: the safety copy is made once.
Saved_Once == IF live = NoDb \/ safety # NoDb THEN safety ELSE live
Saved == IF live = NoDb THEN safety ELSE live
RestoreSave ==
    /\ restore.at = "copied"
    /\ safety' = Saved
    /\ restore' = [restore EXCEPT !.at = "saved", !.saved = live # NoDb]
    /\ dropped' = {} /\ late' = {}
    /\ UNCHANGED <<live, backup, restores, changes, around, faults>>

Events(db) == IF db = NoDb THEN {} ELSE db.events
\* os.replace by a database that has been validated, or unlink.
Replaced(db) ==
    /\ live' = db
    /\ dropped' = dropped \cup (Events(live) \ (Events(db) \cup Events(restore.candidate)))
    /\ around' = {}

RestoreReplace ==
    /\ restore.at = "saved"
    /\ Replaced(restore.candidate)
    /\ restore' = [restore EXCEPT !.at = "replaced"]
    /\ UNCHANGED <<backup, safety, restores, changes, late, faults>>

RestoreDone ==
    /\ restore.at = "replaced"
    /\ live # NoDb /\ Valid(live)
    /\ restore' = NoRestore
    /\ UNCHANGED <<live, backup, safety, restores, changes, history, faults>>

\* The verification fails, by a change since or by a fault: the copy is put back, if it is
\* valid; a database that did not exist is removed.
RestoreUndo ==
    /\ restore.at = "replaced"
    /\ IF live # NoDb /\ Valid(live)
       THEN faults < MaxRestoreFaults /\ faults' = faults + 1
       ELSE UNCHANGED faults
    /\ restore' = NoRestore
    /\ CASE ~restore.saved -> Replaced(NoDb)
         [] restore.saved /\ Valid(safety) -> Replaced(safety)
         [] OTHER -> UNCHANGED <<live, dropped, around>>
    /\ UNCHANGED <<backup, safety, restores, changes, late>>

RestoreCrash ==
    /\ restore.at # "idle"
    /\ faults < MaxRestoreFaults
    /\ restore' = NoRestore
    /\ faults' = faults + 1
    /\ UNCHANGED <<live, backup, safety, restores, changes, history>>

\* The file at the path is lost, what a backup is for.
Lose ==
    /\ live # NoDb /\ restore.at = "idle"
    /\ faults < MaxRestoreFaults
    /\ faults' = faults + 1
    /\ live' = NoDb
    /\ around' = {} /\ dropped' = {} /\ late' = {}
    /\ UNCHANGED <<backup, safety, restore, restores, changes>>

Call(c) ==
    \/ \E status \in Asked : Upsert(c, status) \/ SetStatus(c, status)
    \/ \E completed, remaining \in BOOLEAN : Checkpoint(c, completed, remaining)
    \/ Focus(c)
Restore == RestoreCopy \/ RestoreSave \/ RestoreReplace \/ RestoreDone \/ RestoreUndo \/ RestoreCrash
DbNext == (\E c \in Commitment : Call(c)) \/ Backup \/ Restore \/ Lose

DbSpec == DbInit /\ [][DbNext]_dbVars

-----------------------------------------------------------------------------
(* Properties *)

\* The files are databases of the schema, and a copy is put back only when it was made.
DbTypeOK ==
    /\ live \in Db \cup {NoDb} /\ backup \in Db \cup {NoDb} /\ safety \in Db \cup {NoDb}
    /\ restore.at \in {"idle", "copied", "saved", "replaced"}
    /\ restore.candidate \in Db \cup {NoDb}
    /\ restore.saved => safety # NoDb
    /\ restores \in Nat /\ changes \in Nat /\ faults \in Nat
    /\ around \subseteq Commitment

\* The types are right; over any calls, restores and crashes the positions of the stack are
\* dense, and only a status that was written around the stack (upsert_commitment,
\* add_checkpoint, set_status to focused) can disagree with it; a restore leaves no
\* disagreement (focus, set_status, normalize_focus, restore_database).
FocusConsistent ==
    /\ DbTypeOK
    /\ live # NoDb =>
          /\ {live.position[c] : c \in Stacked(live)} = 1..Cardinality(Stacked(live))
          /\ \A c \in Commitment \ around :
                /\ live.status[c] = "focused" <=> c \in Top(live)
                /\ c \in Stacked(live) \ Top(live) => live.status[c] = "parked"

\* Work that is held, waiting, blocked or closed becomes the focus only by a call that names
\* it and asks for that, never by another commitment making room (focus, normalize_focus).
NoAccidentalFocus ==
    [][live # NoDb /\ live' # NoDb => \A c \in Commitment :
          live.status[c] \in Unfocusable /\ live'.status[c] = "focused" =>
              Upsert(c, "focused") \/ SetStatus(c, "focused") \/ RestoreReplace \/ RestoreUndo]_dbVars

\* What a restore took from the path is in the safety copy, whatever crashed or failed, but
\* for the calls that ran between the copy and the end of the restore (restore_database).
DroppedIsSaved ==
    dropped \subseteq late \cup Events(safety)
===============================================================================
