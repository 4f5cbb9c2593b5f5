--------------------------- MODULE ProfileInstaller ---------------------------
(***************************************************************************)
(* The installer (scripts/install_blueprint.py): apply, which installs or  *)
(* updates one Hermes profile, and rollback, which deletes a profile that  *)
(* a run created, under the lock file of that profile.  A lock whose owner *)
(* is dead is removed and taken over.  Each file operation of the lock is  *)
(* a step, and each native Hermes command, which another program runs.     *)
(***************************************************************************)
EXTENDS Naturals, FiniteSets

CONSTANTS
    Proc,       \* installer processes, each runs one command under its own pid
    Inode,      \* inode numbers the file system gives to lock files
    Version,    \* distribution versions of the checkouts the processes run from
    None,
    MaxEdits,   \* bound: changes the owner or Hermes makes to the profile
    MaxDeaths,  \* bound: processes that die
    MaxFaults   \* bound: native commands and checks that fail

Lockfiles == [inode : Inode, owner : Proc, written : BOOLEAN]
Profiles == [version : Version, complete : BOOLEAN, marker : Proc \cup {None}, edits : 0..MaxEdits]

ASSUME ConstantsAssumption ==
    /\ None \notin Proc \cup Inode \cup Version \cup Lockfiles \cup Profiles
    /\ {MaxEdits, MaxDeaths, MaxFaults} \subseteq Nat

VARIABLES
    pc,       \* [Proc -> where its command stands]
    work,     \* [Proc -> [op, version, target, seen, judged, backup, edits]]
    lock,     \* the lock file: [inode, owner, written], or None
    profile,  \* the profile: [version, complete, marker, edits], or None
    reports,  \* [Proc -> version it reported as created, or None]
    spent,    \* [edits, deaths, faults]
    raced     \* a takeover removed a lock other than the one it had judged

vars == <<pc, work, lock, profile, reports, spent, raced>>

NoWork == [op |-> None, version |-> None, target |-> None, seen |-> None,
           judged |-> None, backup |-> None, edits |-> 0]

Init ==
    /\ pc = [p \in Proc |-> "new"]
    /\ work = [p \in Proc |-> NoWork]
    /\ lock = None
    /\ profile = None
    /\ reports = [p \in Proc |-> None]
    /\ spent = [edits |-> 0, deaths |-> 0, faults |-> 0]
    /\ raced = FALSE

\* Where a command is between the creation of its lock file, which it keeps
\* open, and the end of its turn.
Holding == {"created", "install", "update", "native", "check", "delete", "kanban", "mark",
            "rollback", "leave", "report"}

Goto(p, there) == pc' = [pc EXCEPT ![p] = there]
Spend(what) == spent' = [spent EXCEPT ![what] = @ + 1]
Fault == spent.faults < MaxFaults /\ Spend("faults")
Alive(p) == pc[p] # "dead"

\* The command line: apply in either mode, or rollback with the report of
\* the run that created the profile.
Begin(p) ==
    /\ pc[p] = "new"
    /\ \E v \in Version, op \in {"install", "update", "rollback"}, r \in Proc \cup {None} :
          /\ op = "rollback" <=> r # None
          /\ r # None => reports[r] # None
          /\ work' = [work EXCEPT ![p].op = op, ![p].version = v, ![p].target = r]
    /\ Goto(p, "open")
    /\ UNCHANGED <<lock, profile, reports, spent, raced>>

-----------------------------------------------------------------------------
(* profile_lock *)

\* O_CREAT | O_EXCL: a new file under any inode number that is free, which
\* that of a removed file is once nobody has it open.
CreateLock(p) ==
    /\ pc[p] \in {"open", "reopen"} /\ lock = None
    /\ \E i \in Inode \ {work[q].seen : q \in {r \in Proc : pc[r] \in Holding}} :
          /\ lock' = [inode |-> i, owner |-> p, written |-> FALSE]
          /\ work' = [work EXCEPT ![p].seen = i]
    /\ Goto(p, "created")
    /\ UNCHANGED <<profile, reports, spent, raced>>

\* The file exists: the first attempt looks at it, the second is refused.
LockExists(p) ==
    /\ pc[p] \in {"open", "reopen"} /\ lock # None
    /\ Goto(p, IF pc[p] = "open" THEN "look" ELSE "refused")
    /\ UNCHANGED <<work, lock, profile, reports, spent, raced>>

Refused(p) == Goto(p, "refused") /\ UNCHANGED work

\* before = path.lstat()
LookAtLock(p) ==
    /\ pc[p] = "look"
    /\ \/ lock = None /\ Refused(p)
       \/ /\ lock # None
          /\ work' = [work EXCEPT ![p].seen = lock.inode]
          /\ Goto(p, "judge")
    /\ UNCHANGED <<lock, profile, reports, spent, raced>>

\* Faulty variant: any lock whose payload can be read is stale.
Stale_Always == lock # None /\ lock.written

\* The payload names a process that is gone, by its pid and birth token.
Stale == lock # None /\ lock.written /\ ~Alive(lock.owner)

\* The payload is read; a lock that is not stale, or not written yet, is
\* left alone.
JudgeLock(p) ==
    /\ pc[p] = "judge"
    /\ \/ ~Stale /\ Refused(p)
       \/ Stale /\ Goto(p, "confirm") /\ work' = [work EXCEPT ![p].judged = lock.owner]
    /\ UNCHANGED <<lock, profile, reports, spent, raced>>

\* after = path.lstat() must be the file that was looked at.
ConfirmLock(p) ==
    /\ pc[p] = "confirm"
    /\ Goto(p, IF lock # None /\ lock.inode = work[p].seen THEN "remove" ELSE "refused")
    /\ UNCHANGED <<work, lock, profile, reports, spent, raced>>

\* path.unlink(), of whatever lock file is there by now
RemoveLock(p) ==
    /\ pc[p] = "remove"
    /\ Goto(p, IF lock = None THEN "refused" ELSE "reopen")
    /\ raced' = (raced \/ (lock # None /\ lock.owner # work[p].judged))
    /\ lock' = None
    /\ UNCHANGED <<work, profile, reports, spent>>

WriteLock(p) ==
    /\ pc[p] = "created"
    /\ lock' = IF lock # None /\ lock.owner = p THEN [lock EXCEPT !.written = TRUE] ELSE lock
    /\ Goto(p, work[p].op)
    /\ UNCHANGED <<work, profile, reports, spent, raced>>

\* finally: the file of that name is removed, if there is one.
Unlock(p) ==
    /\ pc[p] \in {"leave", "report"}
    /\ lock' = None
    /\ Goto(p, IF pc[p] = "leave" THEN "done" ELSE "filing")
    /\ UNCHANGED <<work, profile, reports, spent, raced>>

-----------------------------------------------------------------------------
(* apply *)

Here(p, at) == pc[p] = at
Only(p, there) == Goto(p, there) /\ UNCHANGED <<work, profile, spent>>
KeepLock == UNCHANGED <<lock, reports, raced>>

Installed(v) == [version |-> v, complete |-> TRUE, marker |-> None, edits |-> 0]

\* A fresh install of a profile that is not there.  The native command may
\* fail with nothing or with half a profile made.
Install(p) ==
    /\ Here(p, "install")
    /\ \/ profile # None /\ Only(p, "leave")
       \/ /\ profile = None
          /\ \/ /\ profile' = Installed(work[p].version)
                /\ Goto(p, "check")
                /\ UNCHANGED <<work, spent>>
             \/ /\ Fault /\ Goto(p, "leave")
                /\ profile' \in {None, [Installed(work[p].version) EXCEPT !.complete = FALSE]}
                /\ UNCHANGED work
    /\ KeepLock

\* _secure_config_digest, of what the owner may have changed
Digested == profile.edits

\* Faulty variant: an update goes ahead without an export.
Export_None(p) == UNCHANGED work

\* _backup_profile, and the digest of the owner's config
Export(p) == work' = [work EXCEPT ![p].backup = profile, ![p].edits = Digested]

\* An update exports the profile first; an export that fails, or a config
\* that is unsafe, ends it.
BackUp(p) ==
    /\ Here(p, "update")
    /\ \/ profile = None /\ Only(p, "leave")
       \/ profile # None /\ Export(p) /\ Goto(p, "native") /\ UNCHANGED <<profile, spent>>
       \/ profile # None /\ Fault /\ Goto(p, "leave") /\ UNCHANGED <<work, profile>>
    /\ KeepLock

\* hermes profile update keeps what the owner changed, or fails half-way.
Update(p) ==
    /\ Here(p, "native")
    /\ \/ profile = None /\ Only(p, "leave")
       \/ /\ profile # None
          /\ profile' = [profile EXCEPT !.version = work[p].version, !.complete = TRUE]
          /\ Goto(p, "check") /\ UNCHANGED <<work, spent>>
       \/ /\ profile # None /\ Fault
          /\ profile' \in {profile, [profile EXCEPT !.complete = FALSE]}
          /\ Goto(p, "leave") /\ UNCHANGED work
    /\ KeepLock

\* _distribution_checks: the distribution is there, as this checkout has it.
Checked(p) == profile # None /\ profile.complete /\ profile.version = work[p].version

\* Nobody has changed the profile since the digest, or since the install; a
\* change may be one of a file that is checked, or of another one.
Unchanged(p) == Digested = work[p].edits

\* _profile_is_pristine, with the marker of run r or without one
Pristine(p, r) ==
    /\ profile # None /\ profile.complete /\ profile.version = work[p].version
    /\ profile.edits = 0 /\ profile.marker = r

\* Checks that fail block an update, and undo an install that is pristine.
Check(p) ==
    /\ Here(p, "check")
    /\ \/ Checked(p) /\ Only(p, "kanban")
       \/ /\ IF ~Checked(p) \/ ~Unchanged(p) THEN UNCHANGED spent ELSE Fault
          /\ Goto(p, IF work[p].op = "install" /\ Pristine(p, None) THEN "delete" ELSE "leave")
          /\ UNCHANGED <<work, profile>>
    /\ KeepLock

\* hermes profile delete, after a failed install or for a rollback
Delete(p) ==
    /\ Here(p, "delete")
    /\ Goto(p, "leave")
    /\ \/ profile' = None /\ UNCHANGED spent
       \/ Fault /\ UNCHANGED profile
    /\ UNCHANGED work
    /\ KeepLock

\* configure_kanban; when it fails a new profile is kept, reported as
\* created, without a marker.
Kanban(p) ==
    /\ Here(p, "kanban")
    /\ LET created == work[p].op = "install"
       IN  \/ Goto(p, IF created THEN "mark" ELSE "leave") /\ UNCHANGED spent
           \/ Goto(p, IF created THEN "report" ELSE "leave") /\ Fault
    /\ UNCHANGED <<work, profile>>
    /\ KeepLock

\* _write_install_marker, into the profile as it is by now
Mark(p) ==
    /\ Here(p, "mark")
    /\ IF profile = None THEN Only(p, "leave")
       ELSE /\ profile' = [profile EXCEPT !.marker = p]
            /\ Goto(p, "report") /\ UNCHANGED <<work, spent>>
    /\ KeepLock

\* main writes the report when the command has returned.
Report(p) ==
    /\ Here(p, "filing")
    /\ reports' = [reports EXCEPT ![p] = work[p].version]
    /\ Goto(p, "done")
    /\ UNCHANGED <<work, lock, profile, spent, raced>>

-----------------------------------------------------------------------------
\* Faulty variant: rollback does not compare the marker with its report.
Undoable_AnyRun(p) == Pristine(p, IF profile = None THEN None ELSE profile.marker)

\* What rollback demands: the marker of the run in its report, the reported
\* manifest, and nothing but the distribution in the profile.
Undoable(p) ==
    /\ Pristine(p, work[p].target)
    /\ profile.version = reports[work[p].target]

Rollback(p) ==
    /\ Here(p, "rollback")
    /\ Only(p, IF Undoable(p) THEN "delete" ELSE "leave")
    /\ KeepLock

-----------------------------------------------------------------------------
\* The owner, or Hermes running the profile, changes it at any time.
Edit ==
    /\ profile # None /\ spent.edits < MaxEdits /\ Spend("edits")
    /\ profile' = [profile EXCEPT !.edits = @ + 1]
    /\ UNCHANGED <<pc, work, lock, reports, raced>>

\* A process dies with what it had open; its lock file stays.
Die(p) ==
    /\ pc[p] \notin {"new", "done", "refused", "dead"}
    /\ spent.deaths < MaxDeaths /\ Spend("deaths")
    /\ Goto(p, "dead")
    /\ UNCHANGED <<work, lock, profile, reports, raced>>

TakeLock(p) ==
    \/ CreateLock(p) \/ LockExists(p) \/ LookAtLock(p) \/ JudgeLock(p)
    \/ ConfirmLock(p) \/ RemoveLock(p) \/ WriteLock(p)
Apply(p) == Install(p) \/ BackUp(p) \/ Update(p) \/ Check(p) \/ Kanban(p) \/ Mark(p)

Next ==
    \/ \E p \in Proc : \/ Begin(p) \/ TakeLock(p) \/ Apply(p) \/ Rollback(p)
                       \/ Delete(p) \/ Unlock(p) \/ Report(p) \/ Die(p)
    \/ Edit

Spec == Init /\ [][Next]_vars

-----------------------------------------------------------------------------
(* Properties *)

\* Every variable has its type: where commands stand, the lock, the profile.
TypeOK ==
    /\ pc \in [Proc -> Holding \cup {"new", "open", "look", "judge", "confirm", "remove",
                                     "reopen", "refused", "filing", "done", "dead"}]
    /\ work \in [Proc -> [op : {"install", "update", "rollback", None},
                          version : Version \cup {None}, target : Proc \cup {None},
                          seen : Inode \cup {None}, judged : Proc \cup {None},
                          backup : Profiles \cup {None}, edits : 0..MaxEdits]]
    /\ lock \in {None} \cup Lockfiles
    /\ profile \in {None} \cup Profiles
    /\ reports \in [Proc -> Version \cup {None}]
    /\ spent \in [edits : 0..MaxEdits, deaths : 0..MaxDeaths, faults : 0..MaxFaults]
    /\ raced \in BOOLEAN

\* The types are right, and one operator at a time works on the profile,
\* after a takeover too, unless a takeover removed a lock it had not judged;
\* and the lock file that is there is that operator's (profile_lock).
LockExcludes ==
    /\ TypeOK
    /\ ~raced => \A p \in Proc : pc[p] \in Holding =>
          /\ \A q \in Proc \ {p} : pc[q] \notin Holding
          /\ lock # None /\ lock.owner = p

\* The promise of the lock without the exception: a lock whose owner lives
\* is never taken over (profile_lock, path.unlink).
LiveLockKept == [][\A p \in Proc : RemoveLock(p) /\ lock # None => ~Alive(lock.owner)]_vars

\* A profile is only ever deleted by the run that created it, or by a
\* rollback with that run's report; one that has lost the race of two
\* takeovers aside (apply, rollback).
OwnProfileDeleted ==
    [][\A p \in Proc : ~raced /\ Delete(p) /\ profile' = None =>
          profile.marker = (IF work[p].op = "rollback" THEN work[p].target ELSE None)]_vars

\* An update that has begun to change the profile has an export of it: the
\* version, the marker and the owner's changes up to then (_backup_profile).
UpdateIsBackedUp ==
    [][\A p \in Proc : ~raced /\ Update(p) /\ profile' # profile =>
          /\ work[p].backup # None
          /\ work[p].backup.version = profile.version
          /\ work[p].backup.marker = profile.marker
          /\ work[p].backup.edits <= profile.edits]_vars
=============================================================================
