--------------------------- MODULE StandaloneProofs ---------------------------
(***************************************************************************)
(* Proofs about the three programs that run on their own, each over files  *)
(* of the machine: the installer of the profile, the engine of the daily   *)
(* operations and the operator database.  They share no state; what they   *)
(* have in common is that a command may die, or another one may run,       *)
(* between any two of their steps on the files.                            *)
(***************************************************************************)
EXTENDS ProfileInstaller, DailyUse, OperatorState, FiniteSetTheorems, TLAPS

-----------------------------------------------------------------------------
(* The profile and its lock (scripts/install_blueprint.py), for every number *)
(* of processes, inode numbers, versions, changes, deaths and failures.      *)

Commands == {"install", "update", "rollback"}
Places == Holding \cup {"new", "open", "look", "judge", "confirm", "remove",
                        "reopen", "refused", "filing", "done", "dead"}
Task == [op : {"install", "update", "rollback", None},
         version : Version \cup {None}, target : Proc \cup {None},
         seen : Inode \cup {None}, judged : Proc \cup {None},
         backup : Profiles \cup {None}, edits : 0..MaxEdits]
Spending == [edits : 0..MaxEdits, deaths : 0..MaxDeaths, faults : 0..MaxFaults]

(* A process that has begun has a command and a checkout to run it from.     *)
Started ==
    \A p \in Proc : pc[p] # "new" => work[p].op \in Commands /\ work[p].version \in Version

(* The profile carries no more changes than its owner has made.              *)
EditsCounted == profile # None => profile.edits <= spent.edits

Shape == TypeOK /\ Started /\ EditsCounted

(* Whoever is about to remove a lock has judged one of a process that is     *)
(* dead, and stays so.                                                       *)
JudgedDead ==
    \A p \in Proc : pc[p] \in {"confirm", "remove"} =>
        work[p].judged \in Proc /\ pc[work[p].judged] = "dead"

(* Until a takeover goes wrong the lock file is that of the only operator.   *)
Exclusive ==
    ~raced => \A p \in Proc : pc[p] \in Holding =>
        /\ \A q \in Proc \ {p} : pc[q] \notin Holding
        /\ lock # None /\ lock.owner = p

(* Who is about to roll back was told to.                                    *)
RollbackCommanded == \A p \in Proc : pc[p] = "rollback" => work[p].op = "rollback"

(* What is about to be deleted is the run's own, unmarked after a failed     *)
(* install and marked by the run a rollback undoes.                          *)
OwnAtDelete ==
    ~raced => \A p \in Proc : pc[p] = "delete" =>
        /\ profile # None
        /\ profile.marker = (IF work[p].op = "rollback" THEN work[p].target ELSE None)

(* What is about to be updated is the profile that was exported, but for     *)
(* later changes.                                                            *)
SavedAtUpdate ==
    ~raced => \A p \in Proc : pc[p] = "native" =>
        /\ profile # None /\ work[p].backup # None
        /\ work[p].backup.version = profile.version
        /\ work[p].backup.marker = profile.marker
        /\ work[p].backup.edits <= profile.edits

(* The inductive invariant.                                                  *)
Operating ==
    Shape /\ JudgedDead /\ Exclusive /\ RollbackCommanded /\ OwnAtDelete /\ SavedAtUpdate

(* Changing one field of a task leaves a task with the other fields as they  *)
(* were.                                                                     *)
LEMMA TaskFields ==
  ASSUME NEW x \in Task
  PROVE  /\ \A i \in Inode : [x EXCEPT !.seen = i] \in Task
         /\ \A q \in Proc : [x EXCEPT !.judged = q] \in Task
         /\ \A b \in Profiles, n \in 0..MaxEdits :
                [x EXCEPT !.backup = b, !.edits = n] \in Task
         /\ \A o \in Commands, v \in Version, r \in Proc \cup {None} :
                [x EXCEPT !.op = o, !.version = v, !.target = r] \in Task
  BY DEF Task, Commands

(* Changing one field of a profile leaves a profile.                         *)
LEMMA ProfileFields ==
  /\ \A v \in Version : Installed(v) \in Profiles /\ [Installed(v) EXCEPT !.complete = FALSE] \in Profiles
  /\ \A x \in Profiles :
        /\ \A v \in Version : [x EXCEPT !.version = v, !.complete = TRUE] \in Profiles
        /\ [x EXCEPT !.complete = FALSE] \in Profiles
        /\ \A p \in Proc : [x EXCEPT !.marker = p] \in Profiles
        /\ \A n \in 0..MaxEdits : [x EXCEPT !.edits = n] \in Profiles
  <1>1. ASSUME NEW v \in Version
        PROVE  Installed(v) \in Profiles /\ [Installed(v) EXCEPT !.complete = FALSE] \in Profiles
    <2>1. 0 \in 0..MaxEdits
      BY ConstantsAssumption
    <2>2. Installed(v) \in Profiles
      BY <2>1 DEF Installed, Profiles
    <2>3. QED
      BY <2>2 DEF Profiles
  <1>2. ASSUME NEW x \in Profiles
        PROVE  /\ \A v \in Version : [x EXCEPT !.version = v, !.complete = TRUE] \in Profiles
               /\ [x EXCEPT !.complete = FALSE] \in Profiles
               /\ \A p \in Proc : [x EXCEPT !.marker = p] \in Profiles
               /\ \A n \in 0..MaxEdits : [x EXCEPT !.edits = n] \in Profiles
    BY <1>2 DEF Profiles
  <1>3. QED
    BY <1>1, <1>2

(* What is left of the bounds only shrinks.                                  *)
LEMMA SpendTyped ==
  ASSUME spent \in Spending
  PROVE  /\ spent.edits < MaxEdits /\ Spend("edits") =>
                spent' \in Spending /\ spent'.edits = spent.edits + 1
         /\ spent.deaths < MaxDeaths /\ Spend("deaths") =>
                spent' \in Spending /\ spent'.edits = spent.edits
         /\ Fault => spent' \in Spending /\ spent'.edits = spent.edits
  BY ConstantsAssumption DEF Spending, Spend, Fault

(* The types, read through the names of this module.                         *)
LEMMA TypesNamed ==
  TypeOK <=> /\ pc \in [Proc -> Places]
             /\ work \in [Proc -> Task]
             /\ lock \in {None} \cup Lockfiles
             /\ profile \in {None} \cup Profiles
             /\ reports \in [Proc -> Version \cup {None}]
             /\ spent \in Spending
             /\ raced \in BOOLEAN
  BY DEF TypeOK, Places, Task, Spending

(* The same of the next state.                                               *)
LEMMA ShapeNext ==
  ASSUME pc' \in [Proc -> Places], work' \in [Proc -> Task],
         lock' \in {None} \cup Lockfiles,
         profile' \in {None} \cup Profiles,
         reports' \in [Proc -> Version \cup {None}],
         spent' \in Spending, raced' \in BOOLEAN,
         Started', EditsCounted'
  PROVE  Shape'
  BY DEF Shape, TypeOK, Places, Task, Spending

(* Nobody has begun at first, and there is neither a lock nor a profile.     *)
LEMMA InitOperating == Init => Operating
  <1> SUFFICES ASSUME Init PROVE Operating
    OBVIOUS
  <1> USE ConstantsAssumption
  <1>1. TypeOK
    <2>1. 0 \in 0..MaxEdits /\ 0 \in 0..MaxDeaths /\ 0 \in 0..MaxFaults
      OBVIOUS
    <2>2. NoWork \in Task
      BY <2>1 DEF NoWork, Task
    <2>3. [edits |-> 0, deaths |-> 0, faults |-> 0] \in Spending
      BY <2>1 DEF Spending
    <2>4. QED
      BY <2>2, <2>3, TypesNamed DEF Init, Places
  <1>2. Started /\ EditsCounted /\ JudgedDead /\ RollbackCommanded
    BY DEF Init, Started, EditsCounted, JudgedDead, RollbackCommanded
  <1>3. Exclusive /\ OwnAtDelete /\ SavedAtUpdate
    BY DEF Init, Exclusive, OwnAtDelete, SavedAtUpdate, Holding
  <1>4. QED
    BY <1>1, <1>2, <1>3 DEF Operating, Shape

(* A process that moves on, with its task as it was or with one that has     *)
(* a command and a version.                                                  *)
LEMMA MoveTyped ==
  ASSUME Shape, NEW p \in Proc, NEW there \in Places, Goto(p, there),
         \/ work' = work /\ pc[p] # "new"
         \/ \E y \in Task : /\ work' = [work EXCEPT ![p] = y]
                            /\ y.op \in Commands /\ y.version \in Version
  PROVE  pc' \in [Proc -> Places] /\ work' \in [Proc -> Task] /\ Started'
  <1>1. pc \in [Proc -> Places] /\ work \in [Proc -> Task]
    BY TypesNamed DEF Shape
  <1>2. pc' \in [Proc -> Places]
    BY <1>1 DEF Goto
  <1>3. CASE work' = work /\ pc[p] # "new"
    BY <1>1, <1>2, <1>3 DEF Goto, Shape, Started
  <1>4. ASSUME NEW y \in Task, work' = [work EXCEPT ![p] = y],
               y.op \in Commands, y.version \in Version
        PROVE  work' \in [Proc -> Task] /\ Started'
    BY <1>1, <1>2, <1>4 DEF Goto, Shape, Started
  <1>5. QED
    BY <1>2, <1>3, <1>4

(* The lock protocol keeps the types.                                        *)
LEMMA TakeLockTyped ==
  ASSUME Shape, NEW p \in Proc, TakeLock(p)
  PROVE  Shape'
  <1> USE TypesNamed, ShapeNext DEF Shape, Lockfiles
  <1>1. work[p] \in Task
    OBVIOUS
  <1>2. ASSUME NEW y \in Task, y.op = work[p].op, y.version = work[p].version,
               work' = [work EXCEPT ![p] = y], pc[p] # "new",
               NEW there \in Places, Goto(p, there)
        PROVE  pc' \in [Proc -> Places] /\ work' \in [Proc -> Task] /\ Started'
    BY <1>2, MoveTyped DEF Started
  <1>3. CASE CreateLock(p)
    <2>1. PICK i \in Inode : /\ lock' = [inode |-> i, owner |-> p, written |-> FALSE]
                             /\ work' = [work EXCEPT ![p] = [work[p] EXCEPT !.seen = i]]
      BY <1>3 DEF CreateLock
    <2>2. [work[p] EXCEPT !.seen = i] \in Task
      BY <1>1, TaskFields
    <2>3. pc[p] # "new" /\ Goto(p, "created") /\ "created" \in Places
      BY <1>3 DEF CreateLock, Places, Holding
    <2>4. [work[p] EXCEPT !.seen = i].op = work[p].op
          /\ [work[p] EXCEPT !.seen = i].version = work[p].version
      BY <1>1 DEF Task
    <2>5. pc' \in [Proc -> Places] /\ work' \in [Proc -> Task] /\ Started'
      BY <2>1, <2>2, <2>3, <2>4, <1>2
    <2>6. QED
      BY <1>3, <2>1, <2>5 DEF CreateLock, EditsCounted
  <1>4. CASE LockExists(p)
    <2>1. pc' \in [Proc -> Places] /\ work' \in [Proc -> Task] /\ Started'
      BY <1>4, MoveTyped DEF LockExists, Places
    <2>2. QED
      BY <1>4, <2>1 DEF LockExists, EditsCounted
  <1>5. CASE LookAtLock(p)
    <2>1. pc[p] # "new" /\ UNCHANGED <<lock, profile, reports, spent, raced>>
      BY <1>5 DEF LookAtLock
    <2>2. CASE Refused(p)
      BY <2>1, <2>2, MoveTyped DEF Refused, Places, EditsCounted
    <2>3. CASE lock # None /\ work' = [work EXCEPT ![p].seen = lock.inode] /\ Goto(p, "judge")
      <3> DEFINE y == [work[p] EXCEPT !.seen = lock.inode]
      <3>1. y \in Task /\ lock.inode \in Inode
        BY <1>1, <2>3, TaskFields
      <3>2. y.op = work[p].op /\ y.version = work[p].version
        BY <1>1 DEF Task
      <3>3. pc' \in [Proc -> Places] /\ work' \in [Proc -> Task] /\ Started'
        BY <2>1, <2>3, <3>1, <3>2, <1>2 DEF Places
      <3>4. QED
        BY <2>1, <3>3 DEF EditsCounted
    <2>4. QED
      BY <1>5, <2>2, <2>3 DEF LookAtLock
  <1>6. CASE JudgeLock(p)
    <2>1. pc[p] # "new" /\ UNCHANGED <<lock, profile, reports, spent, raced>>
      BY <1>6 DEF JudgeLock
    <2>2. CASE Refused(p)
      BY <2>1, <2>2, MoveTyped DEF Refused, Places, EditsCounted
    <2>3. CASE Stale /\ work' = [work EXCEPT ![p].judged = lock.owner] /\ Goto(p, "confirm")
      <3> DEFINE y == [work[p] EXCEPT !.judged = lock.owner]
      <3>1. y \in Task /\ lock.owner \in Proc
        BY <1>1, <2>3, TaskFields DEF Stale
      <3>2. y.op = work[p].op /\ y.version = work[p].version
        BY <1>1 DEF Task
      <3>3. pc' \in [Proc -> Places] /\ work' \in [Proc -> Task] /\ Started'
        BY <2>1, <2>3, <3>1, <3>2, <1>2 DEF Places
      <3>4. QED
        BY <2>1, <3>3 DEF EditsCounted
    <2>4. QED
      BY <1>6, <2>2, <2>3 DEF JudgeLock
  <1>7. CASE ConfirmLock(p)
    <2>1. pc' \in [Proc -> Places] /\ work' \in [Proc -> Task] /\ Started'
      BY <1>7, MoveTyped DEF ConfirmLock, Places
    <2>2. QED
      BY <1>7, <2>1 DEF ConfirmLock, EditsCounted
  <1>8. CASE RemoveLock(p)
    <2>1. pc' \in [Proc -> Places] /\ work' \in [Proc -> Task] /\ Started'
      BY <1>8, MoveTyped DEF RemoveLock, Places
    <2>2. QED
      BY <1>8, <2>1 DEF RemoveLock, EditsCounted
  <1>9. CASE WriteLock(p)
    <2>1. work[p].op \in Places /\ pc[p] # "new"
      BY <1>9 DEF WriteLock, Started, Commands, Places, Holding
    <2>2. pc' \in [Proc -> Places] /\ work' \in [Proc -> Task] /\ Started'
      BY <1>9, <2>1, MoveTyped DEF WriteLock
    <2>3. QED
      BY <1>9, <2>2 DEF WriteLock, EditsCounted
  <1>10. QED
    BY <1>3, <1>4, <1>5, <1>6, <1>7, <1>8, <1>9 DEF TakeLock

(* What the commands do to the profile keeps the types.                      *)
LEMMA CommandTyped ==
  ASSUME Shape, NEW p \in Proc, Apply(p) \/ Delete(p) \/ Rollback(p)
  PROVE  Shape'
  <1> USE TypesNamed, ShapeNext DEF Shape
  <1>1. work[p] \in Task
    OBVIOUS
  <1>2. ASSUME NEW there \in Places, Goto(p, there), work' = work, pc[p] \in Holding
        PROVE  pc' \in [Proc -> Places] /\ work' \in [Proc -> Task] /\ Started'
    BY <1>2, MoveTyped DEF Holding
  <1>3. pc[p] \in Holding /\ pc[p] # "new" /\ UNCHANGED <<lock, reports, raced>>
    BY DEF Apply, Install, BackUp, Update, Check, Kanban, Mark, Delete, Rollback, KeepLock,
           Here, Holding
  <1>4. work[p].version \in Version
    BY <1>3 DEF Started
  <1>5. "leave" \in Places /\ "check" \in Places /\ "native" \in Places /\ "kanban" \in Places
        /\ "delete" \in Places /\ "mark" \in Places /\ "report" \in Places
    BY DEF Places, Holding
  <1>6. ASSUME NEW there \in Places, Goto(p, there), work' = work, profile' = profile,
               spent' = spent \/ Fault
        PROVE  Shape'
    <2>1. spent' \in Spending /\ spent'.edits = spent.edits
      BY <1>6, SpendTyped
    <2>2. QED
      BY <1>2, <1>3, <1>6, <2>1 DEF EditsCounted
  <1>7. ASSUME NEW there \in Places, Goto(p, there), work' = work,
               profile' = None \/ (profile' \in Profiles /\ profile'.edits <= spent.edits),
               spent' = spent \/ Fault
        PROVE  Shape'
    <2>1. spent' \in Spending /\ spent'.edits = spent.edits
      BY <1>7, SpendTyped
    <2>2. QED
      BY <1>2, <1>3, <1>7, <2>1 DEF EditsCounted
  <1>8. 0 <= spent.edits
    BY DEF Spending
  <1>9. CASE Install(p)
    <2>1. CASE Only(p, "leave")
      BY <2>1, <1>5, <1>6 DEF Only
    <2>2. CASE profile' = Installed(work[p].version) /\ Goto(p, "check") /\ UNCHANGED <<work, spent>>
      BY <2>2, <1>4, <1>5, <1>7, <1>8, ProfileFields DEF Installed
    <2>3. CASE /\ Fault /\ Goto(p, "leave") /\ work' = work
               /\ profile' \in {None, [Installed(work[p].version) EXCEPT !.complete = FALSE]}
      <3>1. [Installed(work[p].version) EXCEPT !.complete = FALSE].edits = 0
        BY DEF Installed
      <3>2. QED
        BY <2>3, <3>1, <1>4, <1>5, <1>7, <1>8, ProfileFields
    <2>4. QED
      BY <1>9, <2>1, <2>2, <2>3 DEF Install
  <1>10. CASE BackUp(p)
    <2>1. CASE Only(p, "leave")
      BY <2>1, <1>5, <1>6 DEF Only
    <2>2. CASE /\ profile # None /\ Export(p) /\ Goto(p, "native")
               /\ UNCHANGED <<profile, spent>>
      <3> DEFINE y == [work[p] EXCEPT !.backup = profile, !.edits = profile.edits]
      <3>1. profile \in Profiles /\ profile.edits \in 0..MaxEdits
        BY <2>2 DEF Profiles
      <3>2. y \in Task
        BY <1>1, <3>1, TaskFields
      <3>3. y.op = work[p].op /\ y.version = work[p].version
        BY <1>1 DEF Task
      <3>4. work' = [work EXCEPT ![p] = y]
        BY <2>2 DEF Export, Digested
      <3>5. y.op \in Commands /\ y.version \in Version
        BY <3>3, <1>3 DEF Started
      <3> HIDE DEF y
      <3>6. pc' \in [Proc -> Places] /\ work' \in [Proc -> Task] /\ Started'
        BY <2>2, <3>2, <3>4, <3>5, <1>5, MoveTyped
      <3>7. QED
        BY <2>2, <3>6, <1>3 DEF EditsCounted
    <2>3. CASE Fault /\ Goto(p, "leave") /\ UNCHANGED <<work, profile>>
      BY <2>3, <1>5, <1>6
    <2>4. QED
      BY <1>10, <2>1, <2>2, <2>3 DEF BackUp
  <1>11. CASE Update(p)
    <2>1. CASE Only(p, "leave")
      BY <2>1, <1>5, <1>6 DEF Only
    <2>2. CASE /\ profile # None
               /\ profile' = [profile EXCEPT !.version = work[p].version, !.complete = TRUE]
               /\ Goto(p, "check") /\ UNCHANGED <<work, spent>>
      <3>1. profile' \in Profiles
        BY <2>2, <1>4, ProfileFields
      <3>2. profile'.edits = profile.edits
        BY <2>2 DEF Profiles
      <3>3. QED
        BY <2>2, <3>1, <3>2, <1>5, <1>7 DEF EditsCounted
    <2>3. CASE /\ profile # None /\ Fault
               /\ profile' \in {profile, [profile EXCEPT !.complete = FALSE]}
               /\ Goto(p, "leave") /\ work' = work
      <3>1. profile' \in Profiles
        BY <2>3, ProfileFields
      <3>2. profile'.edits = profile.edits
        BY <2>3 DEF Profiles
      <3>3. QED
        BY <2>3, <3>1, <3>2, <1>5, <1>7 DEF EditsCounted
    <2>4. QED
      BY <1>11, <2>1, <2>2, <2>3 DEF Update
  <1>12. CASE Check(p)
    BY <1>12, <1>5, <1>6 DEF Check, Only
  <1>13. CASE Delete(p)
    BY <1>13, <1>5, <1>6, <1>7 DEF Delete
  <1>14. CASE Kanban(p)
    BY <1>14, <1>5, <1>6 DEF Kanban
  <1>15. CASE Mark(p)
    <2>1. CASE Only(p, "leave")
      BY <2>1, <1>5, <1>6 DEF Only
    <2>2. CASE /\ profile # None /\ profile' = [profile EXCEPT !.marker = p]
               /\ Goto(p, "report") /\ UNCHANGED <<work, spent>>
      <3>1. profile' \in Profiles
        BY <2>2, ProfileFields
      <3>2. profile'.edits = profile.edits
        BY <2>2 DEF Profiles
      <3>3. QED
        BY <2>2, <3>1, <3>2, <1>5, <1>7 DEF EditsCounted
    <2>3. QED
      BY <1>15, <2>1, <2>2 DEF Mark
  <1>16. CASE Rollback(p)
    BY <1>16, <1>5, <1>6 DEF Rollback, Only
  <1>17. QED
    BY <1>9, <1>10, <1>11, <1>12, <1>13, <1>14, <1>15, <1>16 DEF Apply

(* Every step leaves well-typed variables.                                   *)
LEMMA ShapeStep == Shape /\ [Next]_vars => Shape'
  <1> SUFFICES ASSUME Shape, [Next]_vars PROVE Shape'
    OBVIOUS
  <1> USE TypesNamed, ShapeNext DEF Shape
  <1>1. ASSUME NEW p \in Proc, Begin(p) PROVE Shape'
    <2>1. PICK v \in Version, op \in Commands, r \in Proc \cup {None} :
              work' = [work EXCEPT ![p].op = op, ![p].version = v, ![p].target = r]
      BY <1>1 DEF Begin, Commands
    <2> DEFINE y == [work[p] EXCEPT !.op = op, !.version = v, !.target = r]
    <2>2. y \in Task
      BY TaskFields
    <2>3. y.op = op /\ y.version = v
      BY DEF Task
    <2>4. work' = [work EXCEPT ![p] = y]
      BY <2>1
    <2> HIDE DEF y
    <2>5. Goto(p, "open") /\ "open" \in Places
      BY <1>1 DEF Begin, Places
    <2>6. pc' \in [Proc -> Places] /\ work' \in [Proc -> Task] /\ Started'
      BY <2>2, <2>3, <2>4, <2>5, MoveTyped
    <2>7. QED
      BY <1>1, <2>6 DEF Begin, EditsCounted
  <1>2. ASSUME NEW p \in Proc, Unlock(p) PROVE Shape'
    <2>1. pc' \in [Proc -> Places] /\ work' \in [Proc -> Task] /\ Started'
      BY <1>2, MoveTyped DEF Unlock, Places
    <2>2. QED
      BY <1>2, <2>1 DEF Unlock, EditsCounted
  <1>3. ASSUME NEW p \in Proc, Report(p) PROVE Shape'
    <2>1. pc' \in [Proc -> Places] /\ work' \in [Proc -> Task] /\ Started'
      BY <1>3, MoveTyped DEF Report, Here, Places
    <2>2. work[p].version \in Version
      BY <1>3 DEF Report, Here, Started
    <2>3. QED
      BY <1>3, <2>1, <2>2 DEF Report, EditsCounted
  <1>4. ASSUME NEW p \in Proc, Die(p) PROVE Shape'
    <2>1. pc' \in [Proc -> Places] /\ work' \in [Proc -> Task] /\ Started'
      BY <1>4, MoveTyped DEF Die, Places
    <2>2. spent' \in Spending /\ spent'.edits = spent.edits
      BY <1>4, SpendTyped DEF Die
    <2>3. QED
      BY <1>4, <2>1, <2>2 DEF Die, EditsCounted
  <1>5. CASE Edit
    <2>1. spent' \in Spending /\ spent'.edits = spent.edits + 1
      BY <1>5, SpendTyped DEF Edit
    <2>2. /\ profile \in Profiles /\ profile' = [profile EXCEPT !.edits = profile.edits + 1]
          /\ UNCHANGED <<pc, work, lock, reports, raced>>
      BY <1>5 DEF Edit
    <2>3. /\ profile.edits \in Nat /\ profile.edits + 1 \in 0..MaxEdits
          /\ profile.edits <= spent.edits
      <3>1. profile # None /\ spent.edits < MaxEdits
        BY <1>5 DEF Edit
      <3>2. profile.edits <= spent.edits
        BY <3>1 DEF EditsCounted
      <3>3. profile.edits \in Nat /\ spent.edits \in Nat
        BY <2>2, ConstantsAssumption DEF Profiles, Spending
      <3>4. QED
        BY <3>1, <3>2, <3>3, ConstantsAssumption
    <2>4. profile' \in Profiles /\ profile'.edits = profile.edits + 1
      BY <2>2, <2>3, ProfileFields DEF Profiles
    <2>5. EditsCounted'
      <3>1. spent.edits \in Nat
        BY DEF Spending
      <3>2. QED
        BY <2>1, <2>3, <2>4, <3>1 DEF EditsCounted
    <2>6. QED
      BY <2>1, <2>2, <2>4, <2>5 DEF Started
  <1>6. CASE UNCHANGED vars
    BY <1>6 DEF vars, Started, EditsCounted
  <1>7. QED
    BY <1>1, <1>2, <1>3, <1>4, <1>5, <1>6, TakeLockTyped, CommandTyped DEF Next

-----------------------------------------------------------------------------
(* A process that moves was alive, and the others stay where they are with   *)
(* the tasks they had.                                                       *)
Moves(p, there) ==
    /\ Goto(p, there) /\ pc[p] # "dead"
    /\ \A q \in Proc \ {p} : work'[q] = work[q]

(* A process that does not go on to remove a lock leaves the judgements of   *)
(* the others as they were: who is dead stays dead.                          *)
LEMMA MoveJudged ==
  ASSUME Shape, JudgedDead, NEW p \in Proc, NEW there, Moves(p, there),
         there \notin {"confirm", "remove"}
  PROVE  JudgedDead'
  <1>1. pc \in [Proc -> Places]
    BY TypesNamed DEF Shape
  <1>2. pc' = [pc EXCEPT ![p] = there] /\ pc[p] # "dead"
    BY DEF Moves, Goto
  <1>3. \A q \in Proc : pc[q] = "dead" => pc'[q] = "dead"
    BY <1>1, <1>2
  <1>4. \A q \in Proc : pc'[q] \in {"confirm", "remove"} => q # p /\ pc[q] = pc'[q]
    BY <1>1, <1>2
  <1>5. QED
    BY <1>3, <1>4 DEF Moves, JudgedDead

(* The judgements of a process that reads a lock, and confirms it.           *)
LEMMA TakeoverJudged ==
  ASSUME Shape, JudgedDead, NEW p \in Proc, JudgeLock(p) \/ ConfirmLock(p)
  PROVE  JudgedDead'
  <1>1. pc \in [Proc -> Places] /\ work \in [Proc -> Task]
        /\ lock \in {None} \cup Lockfiles
    BY TypesNamed DEF Shape
  <1>2. CASE Refused(p) /\ pc[p] = "judge"
    BY <1>2, MoveJudged DEF Refused, Moves
  <1>3. CASE /\ Stale /\ Goto(p, "confirm") /\ pc[p] = "judge"
             /\ work' = [work EXCEPT ![p].judged = lock.owner]
    <2>1. lock.owner \in Proc /\ pc[lock.owner] = "dead"
      BY <1>1, <1>3 DEF Stale, Alive, Lockfiles
    <2>2. pc' = [pc EXCEPT ![p] = "confirm"] /\ work'[p].judged = lock.owner
          /\ \A q \in Proc \ {p} : work'[q] = work[q]
      BY <1>1, <1>3 DEF Goto, Task
    <2>3. QED
      BY <1>1, <1>3, <2>1, <2>2 DEF JudgedDead
  <1>4. CASE ConfirmLock(p)
    <2>1. pc[p] = "confirm" /\ work' = work
          /\ pc' = [pc EXCEPT ![p] = IF lock # None /\ lock.inode = work[p].seen
                                     THEN "remove" ELSE "refused"]
      BY <1>4 DEF ConfirmLock, Goto
    <2>2. \A q \in Proc : /\ pc[q] = "dead" => pc'[q] = "dead"
                          /\ pc'[q] \in {"confirm", "remove"} => pc[q] \in {"confirm", "remove"}
      BY <1>1, <2>1
    <2>3. QED
      BY <1>1, <2>1, <2>2 DEF JudgedDead
  <1>5. QED
    BY <1>2, <1>3, <1>4 DEF JudgeLock

(* A process that does not hold the lock and does not come to, the lock file *)
(* being as it was.                                                          *)
LEMMA OutsiderExcluded ==
  ASSUME Shape, Exclusive, NEW p \in Proc, NEW there, Goto(p, there),
         pc[p] \notin Holding, there \notin Holding, lock' = lock, raced' = raced
  PROVE  Exclusive'
  <1>1. pc \in [Proc -> Places] /\ pc' = [pc EXCEPT ![p] = there]
    BY TypesNamed DEF Shape, Goto
  <1>2. \A q \in Proc : pc'[q] \in Holding <=> pc[q] \in Holding
    BY <1>1
  <1>3. QED
    BY <1>2 DEF Exclusive

(* The operator goes on, or ends, with a lock that stays its own.            *)
LEMMA HolderExcludes ==
  ASSUME Shape, Exclusive, NEW p \in Proc, NEW there, Goto(p, there),
         pc[p] \in Holding, raced' = raced,
         lock' = lock \/ (lock # None /\ lock' = [lock EXCEPT !.written = TRUE])
  PROVE  Exclusive'
  <1>1. pc \in [Proc -> Places] /\ pc' = [pc EXCEPT ![p] = there]
        /\ lock \in {None} \cup Lockfiles
    BY TypesNamed DEF Shape, Goto
  <1>2. \A q \in Proc : pc'[q] \in Holding => pc[q] \in Holding
    BY <1>1
  <1>3. lock # None => lock' # None /\ lock'.owner = lock.owner
    <2>1. CASE lock' = lock
      BY <2>1
    <2>2. CASE lock # None /\ lock' = [lock EXCEPT !.written = TRUE]
      <3>1. lock' \in Lockfiles /\ lock'.owner = lock.owner
        BY <1>1, <2>2 DEF Lockfiles
      <3>2. QED
        BY <3>1, ConstantsAssumption
    <2>3. QED
      BY <2>1, <2>2
  <1>4. QED
    BY <1>2, <1>3 DEF Exclusive

(* The three steps that change who holds the lock: its file is created when  *)
(* nobody holds it, removed when its owner is dead, and given up.            *)
LEMMA LockChangesHands ==
  ASSUME Shape, JudgedDead, Exclusive, NEW p \in Proc,
         CreateLock(p) \/ RemoveLock(p) \/ Unlock(p)
  PROVE  Exclusive'
  <1>1. pc \in [Proc -> Places] /\ lock \in {None} \cup Lockfiles /\ raced \in BOOLEAN
    BY TypesNamed DEF Shape
  <1>2. CASE CreateLock(p)
    <2>1. PICK i \in Inode : lock' = [inode |-> i, owner |-> p, written |-> FALSE]
      BY <1>2 DEF CreateLock
    <2>2. lock = None /\ raced' = raced /\ pc' = [pc EXCEPT ![p] = "created"]
      BY <1>2 DEF CreateLock, Goto
    <2>3. lock' \in Lockfiles /\ lock'.owner = p /\ lock' # None
      <3>1. lock' \in Lockfiles /\ lock'.owner = p
        BY <2>1 DEF Lockfiles
      <3>2. QED
        BY <3>1, ConstantsAssumption
    <2>4. ~raced => \A q \in Proc \ {p} : pc'[q] \notin Holding
      BY <1>1, <2>2 DEF Exclusive
    <2>5. QED
      BY <1>1, <2>2, <2>3, <2>4 DEF Exclusive
  <1>3. CASE RemoveLock(p)
    <2>1. /\ pc[p] = "remove" /\ lock' = None
          /\ raced' = (raced \/ (lock # None /\ lock.owner # work[p].judged))
          /\ pc' = [pc EXCEPT ![p] = IF lock = None THEN "refused" ELSE "reopen"]
      BY <1>3 DEF RemoveLock, Goto
    <2>2. work[p].judged \in Proc /\ pc[work[p].judged] = "dead"
      BY <2>1 DEF JudgedDead
    <2>3. \A q \in Proc : pc'[q] \in Holding => pc[q] \in Holding
      BY <1>1, <2>1 DEF Holding
    <2>4. ~raced' => ~raced /\ \A q \in Proc : pc[q] \notin Holding
      BY <1>1, <2>1, <2>2 DEF Exclusive, Holding
    <2>5. QED
      BY <2>3, <2>4 DEF Exclusive
  <1>4. CASE Unlock(p)
    <2>1. /\ pc[p] \in Holding /\ raced' = raced
          /\ pc' = [pc EXCEPT ![p] = IF pc[p] = "leave" THEN "done" ELSE "filing"]
      BY <1>4 DEF Unlock, Goto, Holding
    <2>2. pc'[p] \notin Holding /\ \A q \in Proc \ {p} : pc'[q] = pc[q]
      BY <1>1, <2>1 DEF Holding
    <2>3. QED
      BY <2>1, <2>2 DEF Exclusive
  <1>5. QED
    BY <1>2, <1>3, <1>4

(* Every step of a command is taken by a process that holds the lock.        *)
LEMMA CommandHolds ==
  ASSUME NEW p \in Proc, Apply(p) \/ Delete(p) \/ Rollback(p)
  PROVE  /\ pc[p] \in Holding
         /\ UNCHANGED <<lock, reports, raced>>
         /\ \A q \in Proc \ {p} : Shape => work'[q] = work[q]
         /\ \E there \in {"check", "leave", "native", "kanban", "delete", "mark", "report"} :
                Goto(p, there)
  <1>1. pc[p] \in Holding /\ UNCHANGED <<lock, reports, raced>>
    BY DEF Apply, Install, BackUp, Update, Check, Kanban, Mark, Delete, Rollback, KeepLock,
           Here, Holding
  <1>2. work' = work \/ Export(p)
    BY DEF Apply, Install, BackUp, Update, Check, Kanban, Mark, Delete, Rollback, Only
  <1>3. \A q \in Proc \ {p} : Shape => work'[q] = work[q]
    <2>1. Shape => work \in [Proc -> Task]
      BY TypesNamed DEF Shape
    <2>2. QED
      BY <1>2, <2>1 DEF Export
  <1>4. \E there \in {"check", "leave", "native", "kanban", "delete", "mark", "report"} :
            Goto(p, there)
    BY DEF Apply, Install, BackUp, Update, Check, Kanban, Mark, Delete, Rollback, Only
  <1>5. QED
    BY <1>1, <1>3, <1>4

(* Every step keeps the judgements and the exclusion.                        *)
LEMMA LockStep == Shape /\ JudgedDead /\ Exclusive /\ [Next]_vars => JudgedDead' /\ Exclusive'
  <1> SUFFICES ASSUME Shape, JudgedDead, Exclusive, [Next]_vars
               PROVE  JudgedDead' /\ Exclusive'
    OBVIOUS
  <1>0. work \in [Proc -> Task] /\ pc \in [Proc -> Places]
    BY TypesNamed DEF Shape
  <1>1. ASSUME NEW p \in Proc, Begin(p) PROVE JudgedDead' /\ Exclusive'
    <2>1. Moves(p, "open") /\ pc[p] = "new" /\ lock' = lock /\ raced' = raced
      BY <1>1, <1>0 DEF Begin, Moves
    <2>2. QED
      BY <2>1, MoveJudged, OutsiderExcluded DEF Moves, Holding
  <1>2. ASSUME NEW p \in Proc, CreateLock(p) PROVE JudgedDead' /\ Exclusive'
    <2>1. Moves(p, "created")
      BY <1>2, <1>0 DEF CreateLock, Moves
    <2>2. QED
      BY <1>2, <2>1, MoveJudged, LockChangesHands
  <1>3. ASSUME NEW p \in Proc, LockExists(p) PROVE JudgedDead' /\ Exclusive'
    <2>1. /\ Moves(p, IF pc[p] = "open" THEN "look" ELSE "refused")
          /\ pc[p] \in {"open", "reopen"} /\ lock' = lock /\ raced' = raced
      BY <1>3, <1>0 DEF LockExists, Moves
    <2>2. QED
      BY <2>1, MoveJudged, OutsiderExcluded DEF Moves, Holding
  <1>4. ASSUME NEW p \in Proc, LookAtLock(p) PROVE JudgedDead' /\ Exclusive'
    <2>1. pc[p] = "look" /\ lock' = lock /\ raced' = raced
      BY <1>4 DEF LookAtLock
    <2>2. PICK there \in {"refused", "judge"} : Moves(p, there)
      BY <1>4, <1>0 DEF LookAtLock, Refused, Moves
    <2>3. QED
      BY <2>1, <2>2, MoveJudged, OutsiderExcluded DEF Moves, Holding
  <1>5. ASSUME NEW p \in Proc, JudgeLock(p) \/ ConfirmLock(p) PROVE JudgedDead' /\ Exclusive'
    <2>1. PICK there \in {"refused", "confirm", "remove"} : Goto(p, there)
      BY <1>5 DEF JudgeLock, ConfirmLock, Refused
    <2>2. pc[p] \in {"judge", "confirm"} /\ lock' = lock /\ raced' = raced
      BY <1>5 DEF JudgeLock, ConfirmLock
    <2>3. QED
      BY <1>5, <2>1, <2>2, TakeoverJudged, OutsiderExcluded DEF Holding
  <1>6. ASSUME NEW p \in Proc, RemoveLock(p) PROVE JudgedDead' /\ Exclusive'
    <2>1. Moves(p, IF lock = None THEN "refused" ELSE "reopen")
      BY <1>6 DEF RemoveLock, Moves
    <2>2. QED
      BY <1>6, <2>1, MoveJudged, LockChangesHands
  <1>7. ASSUME NEW p \in Proc, WriteLock(p) PROVE JudgedDead' /\ Exclusive'
    <2>1. Moves(p, work[p].op) /\ pc[p] = "created" /\ raced' = raced
          /\ (lock' = lock \/ (lock # None /\ lock' = [lock EXCEPT !.written = TRUE]))
      BY <1>7 DEF WriteLock, Moves
    <2>2. work[p].op \in Commands
      BY <2>1 DEF Shape, Started
    <2>3. QED
      BY <2>1, <2>2, MoveJudged, HolderExcludes DEF Moves, Holding, Commands
  <1>8. ASSUME NEW p \in Proc, Apply(p) \/ Delete(p) \/ Rollback(p)
        PROVE  JudgedDead' /\ Exclusive'
    <2>1. PICK there \in {"check", "leave", "native", "kanban", "delete", "mark", "report"} :
              Goto(p, there)
      BY <1>8, CommandHolds
    <2>2. Moves(p, there) /\ pc[p] \in Holding /\ lock' = lock /\ raced' = raced
      BY <1>8, <2>1, CommandHolds DEF Moves, Holding
    <2>3. QED
      BY <2>1, <2>2, MoveJudged, HolderExcludes
  <1>9. ASSUME NEW p \in Proc, Unlock(p) PROVE JudgedDead' /\ Exclusive'
    <2>1. Moves(p, IF pc[p] = "leave" THEN "done" ELSE "filing")
      BY <1>9 DEF Unlock, Moves
    <2>2. QED
      BY <1>9, <2>1, MoveJudged, LockChangesHands
  <1>10. ASSUME NEW p \in Proc, Report(p) PROVE JudgedDead' /\ Exclusive'
    <2>1. Moves(p, "done") /\ pc[p] = "filing" /\ lock' = lock /\ raced' = raced
      BY <1>10 DEF Report, Here, Moves
    <2>2. QED
      BY <2>1, MoveJudged, OutsiderExcluded DEF Moves, Holding
  <1>11. ASSUME NEW p \in Proc, Die(p) PROVE JudgedDead' /\ Exclusive'
    <2>1. Moves(p, "dead") /\ lock' = lock /\ raced' = raced
      BY <1>11 DEF Die, Moves
    <2>2. CASE pc[p] \in Holding
      BY <2>1, <2>2, MoveJudged, HolderExcludes DEF Moves
    <2>3. CASE pc[p] \notin Holding
      BY <2>1, <2>3, MoveJudged, OutsiderExcluded DEF Moves, Holding
    <2>4. QED
      BY <2>2, <2>3
  <1>12. CASE Edit \/ UNCHANGED vars
    BY <1>12 DEF Edit, vars, JudgedDead, Exclusive
  <1>13. QED
    BY <1>1, <1>2, <1>3, <1>4, <1>5, <1>6, <1>7, <1>8, <1>9, <1>10, <1>11, <1>12
       DEF Next, TakeLock

-----------------------------------------------------------------------------
(* A process that leaves the profile alone, and does not begin to delete or  *)
(* to update it, keeps what the operator relies on.                          *)
LEMMA BystanderKeeps ==
  ASSUME Operating, NEW p \in Proc, NEW there, Moves(p, there),
         there \notin {"delete", "native"}, profile' = profile, raced' = FALSE => raced = FALSE,
         there = "rollback" => work'[p].op = "rollback"
  PROVE  RollbackCommanded' /\ OwnAtDelete' /\ SavedAtUpdate'
  <1>1. pc \in [Proc -> Places] /\ pc' = [pc EXCEPT ![p] = there] /\ raced \in BOOLEAN
    BY TypesNamed DEF Operating, Shape, Moves, Goto
  <1>2. \A q \in Proc : pc'[q] \in {"delete", "native"} =>
            pc[q] = pc'[q] /\ work'[q] = work[q]
    BY <1>1 DEF Moves
  <1>3. ~raced' => ~raced
    BY <1>1
  <1>4. OwnAtDelete'
    BY <1>2, <1>3 DEF Operating, OwnAtDelete
  <1>5. SavedAtUpdate'
    BY <1>2, <1>3 DEF Operating, SavedAtUpdate
  <1>6. RollbackCommanded'
    BY <1>1 DEF Moves, Operating, RollbackCommanded
  <1>7. QED
    BY <1>4, <1>5, <1>6

(* A step of a command is a step of the only operator: what it relies on is  *)
(* what the step itself leaves.                                              *)
LEMMA CommandKeeps ==
  ASSUME Operating, NEW p \in Proc, Apply(p) \/ Delete(p) \/ Rollback(p)
  PROVE  RollbackCommanded' /\ OwnAtDelete' /\ SavedAtUpdate'
  <1> USE DEF Operating
  <1>1. /\ pc \in [Proc -> Places] /\ work \in [Proc -> Task]
        /\ profile \in {None} \cup Profiles
    BY TypesNamed DEF Shape
  <1>2. /\ pc[p] \in Holding /\ raced' = raced
        /\ \A q \in Proc \ {p} : work'[q] = work[q]
    BY CommandHolds
  <1>3. PICK there \in {"check", "leave", "native", "kanban", "delete", "mark", "report"} :
            pc' = [pc EXCEPT ![p] = there]
    BY CommandHolds DEF Goto
  <1>4. ~raced' => \A q \in Proc : pc'[q] \in {"delete", "native"} => q = p
    BY <1>1, <1>2, <1>3 DEF Exclusive, Holding
  <1>0. RollbackCommanded'
    BY <1>1, <1>2, <1>3 DEF RollbackCommanded
  <1>5. CASE there \notin {"delete", "native"}
    BY <1>0, <1>1, <1>3, <1>4, <1>5 DEF OwnAtDelete, SavedAtUpdate
  <1>6. CASE there = "native"
    <2>1. pc'[p] = "native"
      BY <1>1, <1>3, <1>6
    <2>2. BackUp(p)
      BY <1>1, <2>1 DEF Apply, Install, BackUp, Update, Check, Kanban, Mark, Delete, Rollback,
                        Only, Goto
    <2>3. profile # None /\ Export(p) /\ profile' = profile
      BY <1>1, <2>1, <2>2 DEF BackUp, Only, Goto
    <2>4. work'[p].backup = profile
      BY <1>1, <2>3 DEF Export, Task
    <2>5. profile.edits <= profile.edits
      BY <1>1, <2>3, ConstantsAssumption DEF Profiles
    <2>6. SavedAtUpdate'
      BY <1>4, <2>3, <2>4, <2>5 DEF SavedAtUpdate
    <2>7. OwnAtDelete'
      BY <1>4, <2>1 DEF OwnAtDelete
    <2>8. QED
      BY <1>0, <2>6, <2>7
  <1>7. CASE there = "delete"
    <2>1. pc'[p] = "delete"
      BY <1>1, <1>3, <1>7
    <2>2. Check(p) \/ Rollback(p)
      BY <1>1, <2>1 DEF Apply, Install, BackUp, Update, Check, Kanban, Mark, Delete, Rollback,
                        Only, Goto
    <2>3. work' = work /\ profile' = profile
      BY <2>2 DEF Check, Rollback, Only
    <2>4. profile # None
          /\ profile.marker = (IF work[p].op = "rollback" THEN work[p].target ELSE None)
      <3>1. CASE Check(p)
        <4>1. work[p].op = "install" /\ Pristine(p, None)
          BY <1>1, <2>1, <3>1 DEF Check, Only, Goto
        <4>2. QED
          BY <4>1 DEF Pristine
      <3>2. CASE Rollback(p)
        <4>1. Pristine(p, work[p].target) /\ work[p].op = "rollback"
          BY <1>1, <2>1, <3>2 DEF Rollback, Here, Only, Goto, Undoable, RollbackCommanded
        <4>2. QED
          BY <4>1 DEF Pristine
      <3>3. QED
        BY <2>2, <3>1, <3>2
    <2>5. OwnAtDelete'
      BY <1>4, <2>3, <2>4 DEF OwnAtDelete
    <2>6. SavedAtUpdate'
      BY <1>4, <2>1 DEF SavedAtUpdate
    <2>7. QED
      BY <1>0, <2>5, <2>6
  <1>8. QED
    BY <1>5, <1>6, <1>7

(* Every step keeps what the operator relies on.                             *)
LEMMA PromiseStep ==
  Operating /\ [Next]_vars => RollbackCommanded' /\ OwnAtDelete' /\ SavedAtUpdate'
  <1> SUFFICES ASSUME Operating, [Next]_vars
               PROVE  RollbackCommanded' /\ OwnAtDelete' /\ SavedAtUpdate'
    OBVIOUS
  <1> DEFINE Kept == RollbackCommanded' /\ OwnAtDelete' /\ SavedAtUpdate'
  <1>0. /\ work \in [Proc -> Task] /\ pc \in [Proc -> Places]
        /\ profile \in {None} \cup Profiles /\ raced \in BOOLEAN
    BY TypesNamed DEF Operating, Shape
  <1>1. ASSUME NEW p \in Proc, Begin(p) \/ TakeLock(p) \/ Unlock(p) \/ Report(p) \/ Die(p),
               ~WriteLock(p)
        PROVE  Kept
    <2>1. PICK there \in {"open", "created", "look", "refused", "judge", "confirm", "remove",
                          "reopen", "done", "filing", "dead"} : Moves(p, there)
      BY <1>0, <1>1 DEF Begin, TakeLock, CreateLock, LockExists, LookAtLock, JudgeLock,
         ConfirmLock, RemoveLock, Refused, Unlock, Report, Here, Die, Moves
    <2>2. profile' = profile /\ (raced' = FALSE => raced = FALSE)
      BY <1>0, <1>1 DEF Begin, TakeLock, CreateLock, LockExists, LookAtLock, JudgeLock,
         ConfirmLock, RemoveLock, Unlock, Report, Die
    <2>3. QED
      BY <2>1, <2>2, BystanderKeeps
  <1>2. ASSUME NEW p \in Proc, WriteLock(p) PROVE Kept
    <2>1. /\ Moves(p, work[p].op) /\ pc[p] = "created" /\ work' = work
          /\ profile' = profile /\ raced' = raced
      BY <1>2 DEF WriteLock, Moves
    <2>2. work[p].op \in Commands
      BY <2>1 DEF Operating, Shape, Started
    <2>3. QED
      BY <2>1, <2>2, BystanderKeeps DEF Commands
  <1>3. ASSUME NEW p \in Proc, Apply(p) \/ Delete(p) \/ Rollback(p) PROVE Kept
    BY <1>3, CommandKeeps
  <1>4. CASE Edit
    <2>1. /\ profile \in Profiles /\ profile' = [profile EXCEPT !.edits = profile.edits + 1]
          /\ spent.edits < MaxEdits /\ pc' = pc /\ work' = work /\ raced' = raced
      BY <1>0, <1>4 DEF Edit
    <2>2. profile.edits \in Nat /\ profile.edits + 1 \in 0..MaxEdits
      <3>1. profile.edits <= spent.edits /\ profile.edits \in Nat /\ spent.edits \in Nat
        <4>1. spent \in Spending /\ profile # None
          BY <1>4, TypesNamed DEF Operating, Shape, Edit
        <4>2. profile.edits \in Nat /\ spent.edits \in Nat
          BY <2>1, <4>1 DEF Profiles, Spending
        <4>3. QED
          BY <4>1, <4>2 DEF Operating, Shape, EditsCounted
      <3>2. QED
        BY <2>1, <3>1, ConstantsAssumption
    <2>3. profile' \in Profiles
      BY <2>1, <2>2, ProfileFields
    <2>4. /\ profile' # None /\ profile'.version = profile.version
          /\ profile'.marker = profile.marker /\ profile'.edits = profile.edits + 1
      <3>1. profile' # None
        BY <2>3, ConstantsAssumption
      <3>2. QED
        BY <2>1, <3>1 DEF Profiles
    <2>5. RollbackCommanded' /\ OwnAtDelete'
      BY <2>1, <2>4 DEF Operating, OwnAtDelete, RollbackCommanded
    <2>6. SavedAtUpdate'
      <3>1. SUFFICES ASSUME ~raced, NEW p \in Proc, pc[p] = "native"
                     PROVE  /\ work[p].backup # None
                            /\ work[p].backup.version = profile'.version
                            /\ work[p].backup.marker = profile'.marker
                            /\ work[p].backup.edits <= profile'.edits
        BY <2>1, <2>4 DEF SavedAtUpdate
      <3>2. /\ work[p].backup # None
            /\ work[p].backup.version = profile.version
            /\ work[p].backup.marker = profile.marker
            /\ work[p].backup.edits <= profile.edits
        BY <3>1 DEF Operating, SavedAtUpdate
      <3>3. work[p].backup.edits \in Nat
        BY <1>0, <3>2 DEF Task, Profiles
      <3>4. QED
        BY <2>2, <2>4, <3>2, <3>3
    <2>7. QED
      BY <2>5, <2>6
  <1>5. CASE UNCHANGED vars
    BY <1>5 DEF vars, Operating, RollbackCommanded, OwnAtDelete, SavedAtUpdate
  <1>6. QED
    BY <1>1, <1>2, <1>3, <1>4, <1>5 DEF Next

-----------------------------------------------------------------------------
(* Lock file, profile and commands fit together in every reachable state,    *)
(* whichever process died (profile_lock, apply, rollback).                   *)
THEOREM OperatingInvariant == Spec => []Operating
  <1>1. Operating /\ [Next]_vars => Operating'
    BY ShapeStep, LockStep, PromiseStep DEF Operating
  <1>2. QED
    BY InitOperating, <1>1, PTL DEF Spec

(* The lock, the profile and every command keep their types (profile_lock,   *)
(* apply, rollback).                                                         *)
THEOREM TypeCorrect == Spec => []TypeOK
  BY OperatingInvariant, PTL DEF Operating, Shape

(* One operator at a time: until a takeover removes a lock it has not        *)
(* judged, nobody works on a profile whose lock file is another's            *)
(* (profile_lock).                                                           *)
THEOREM LockIsExclusive == Spec => []LockExcludes
  <1>1. Operating => LockExcludes
    BY DEF Operating, Shape, Exclusive, LockExcludes
  <1>2. QED
    BY <1>1, OperatingInvariant, PTL

(* A run deletes the profile it made, or the one its report names, and no    *)
(* other, as long as no takeover removed a lock it had not judged (apply,    *)
(* rollback).                                                                *)
THEOREM DeletesItsOwn == Spec => OwnProfileDeleted
  <1> DEFINE Own == \A p \in Proc : ~raced /\ Delete(p) /\ profile' = None =>
          profile.marker = (IF work[p].op = "rollback" THEN work[p].target ELSE None)
  <1>1. Operating => Own
    BY DEF Operating, OwnAtDelete, Delete, Here
  <1>2. Operating /\ [Next]_vars => [Own]_vars
    BY <1>1
  <1>3. QED
    BY <1>2, OperatingInvariant, PTL DEF Spec, OwnProfileDeleted

(* Nothing of a profile is updated before it is exported, as long as no      *)
(* takeover removed a lock it had not judged (apply, _backup_profile).       *)
THEOREM ExportsBeforeUpdate == Spec => UpdateIsBackedUp
  <1> DEFINE Backed == \A p \in Proc : ~raced /\ Update(p) /\ profile' # profile =>
          /\ work[p].backup # None
          /\ work[p].backup.version = profile.version
          /\ work[p].backup.marker = profile.marker
          /\ work[p].backup.edits <= profile.edits
  <1>1. Operating => Backed
    BY DEF Operating, SavedAtUpdate, Update, Here
  <1>2. Operating /\ [Next]_vars => [Backed]_vars
    BY <1>1
  <1>3. QED
    BY <1>2, OperatingInvariant, PTL DEF Spec, UpdateIsBackedUp

-----------------------------------------------------------------------------
(* The journal of daily operations (tools/operator-state/daily_use.py), for  *)
(* every set of requests and keys and every number of crashes, as long as    *)
(* one engine has the file to itself: two engines would both send.           *)

Alone == \E e \in Engine : Engine = {e}

(* A call in progress has a key, whose outcome the journal still calls unknown. *)
Underway ==
    \A e \in Engine : call[e].at # "idle" =>
        call[e].key \in Key /\ file[call[e].key].result = "unknown"

(* A call that has not reached the provider is the first one of its key.        *)
Unsent ==
    \A e \in Engine : call[e].at = "intended" =>
        sends[call[e].key] = 0 /\ call[e].key \notin Earlier

(* A result in the journal is the provider's, which never takes it back.        *)
Settled ==
    \A k \in Key :
        /\ file[k].result = "confirmed-success" => provider[k] = "done"
        /\ file[k].result = "confirmed-failure" => provider[k] = "failed"

(* The inductive invariant: what engine, journal and provider know of a key.    *)
Journaled ==
    /\ DailyTypeOK
    /\ \A e \in Engine : memory[e] = file
    /\ Underway
    /\ Unsent
    /\ Settled
    /\ \A k \in Key : file[k].result = "none" => sends[k] = 0
    /\ \A k \in Earlier : provider[k] = "done"
    /\ SentOnce

(* The faces of a record the actions write.                                     *)
LEMMA RecordsTyped ==
  /\ NoRecord \in Record
  /\ Results \subseteq {"unknown", "confirmed-success", "confirmed-failure"}
  /\ "none" \notin Results
  /\ \A r \in Request, x \in Results : [bound |-> r, result |-> x] \in Record
  BY DEF NoRecord, Record, Results

(* Nothing is journaled or sent at first.                                       *)
LEMMA InitJournaled == DailyInit => Journaled
  <1> SUFFICES ASSUME DailyInit PROVE Journaled
    OBVIOUS
  <1> USE DailyAssumption
  <1>1. DailyTypeOK
    BY RecordsTyped DEF DailyInit, DailyTypeOK, Idle, NoRecord
  <1>2. Underway /\ Unsent /\ Settled
    BY DEF DailyInit, Underway, Unsent, Settled, Idle, NoRecord
  <1>3. SentOnce
    BY DEF DailyInit, SentOnce
  <1>4. QED
    BY <1>1, <1>2, <1>3 DEF DailyInit, Journaled, NoRecord

(* What a readback finds is what the provider has decided.                      *)
LEMMA FoundIsTrue ==
  ASSUME NEW k \in Key, NEW found \in Found(k)
  PROVE  /\ found \in Results
         /\ found = "confirmed-success" => provider[k] = "done"
         /\ found = "confirmed-failure" => provider[k] = "failed"
  BY DEF Found, Results

(* A put changes one record, in memory and on disk alike.                       *)
LEMMA PutOne ==
  ASSUME Journaled, Alone, NEW e \in Engine, NEW k \in Key, NEW x \in Record,
         x.result = "none" <=> x.bound = NoRequest,
         Put(e, k, x)
  PROVE  /\ file' = [file EXCEPT ![k] = x]
         /\ file' \in [Key -> Record]
         /\ memory' \in [Engine -> [Key -> Record]]
         /\ \A d \in Engine : memory'[d] = file'
         /\ \A j \in Key : file'[j].result = "none" <=> file'[j].bound = NoRequest
  <1>1. memory[e] = file /\ file \in [Key -> Record] /\ memory \in [Engine -> [Key -> Record]]
    BY DEF Journaled, DailyTypeOK
  <1>2. memory' = [memory EXCEPT ![e] = [memory[e] EXCEPT ![k] = x]] /\ file' = memory'[e]
    BY DEF Put
  <1>3. file' = [file EXCEPT ![k] = x]
    BY <1>1, <1>2
  <1>4. \A d \in Engine : d = e
    BY DEF Alone
  <1>5. \A j \in Key : file[j].result = "none" <=> file[j].bound = NoRequest
    BY DEF Journaled, DailyTypeOK
  <1>6. QED
    BY <1>1, <1>2, <1>3, <1>4, <1>5

(* A key without a result gets one for the request that names it.               *)
LEMMA BindKeeps ==
  ASSUME Journaled, Alone, NEW e \in Engine, NEW r \in Request, NEW found \in Results,
         file[KeyOf[r]].result = "none",
         Put(e, KeyOf[r], [bound |-> r, result |-> found]),
         found = "confirmed-success" => provider[KeyOf[r]] = "done",
         found = "confirmed-failure" => provider[KeyOf[r]] = "failed",
         provider' = provider, sends' = sends, crashes' = crashes
  PROVE  /\ file' \in [Key -> Record]
         /\ memory' \in [Engine -> [Key -> Record]]
         /\ \A d \in Engine : memory'[d] = file'
         /\ \A j \in Key : file'[j].result = "none" <=> file'[j].bound = NoRequest
         /\ file' = [file EXCEPT ![KeyOf[r]] = [bound |-> r, result |-> found]]
         /\ Settled'
         /\ \A j \in Key : file'[j].result = "none" => sends'[j] = 0
         /\ \A j \in Earlier : provider'[j] = "done"
         /\ SentOnce'
  <1> DEFINE k == KeyOf[r]
             x == [bound |-> r, result |-> found]
  <1>1. k \in Key /\ r # NoRequest
    BY DailyAssumption
  <1>2. x \in Record /\ x.result # "none" /\ x.bound # NoRequest /\ x.result = found /\ x.bound = r
    BY <1>1, RecordsTyped
  <1>3. /\ file' = [file EXCEPT ![k] = x]
        /\ file' \in [Key -> Record]
        /\ memory' \in [Engine -> [Key -> Record]]
        /\ \A d \in Engine : memory'[d] = file'
        /\ \A j \in Key : file'[j].result = "none" <=> file'[j].bound = NoRequest
    <2> HIDE DEF k, x
    <2>1. Put(e, k, x)
      BY DEF k, x
    <2>2. QED
      BY <1>1, <1>2, <2>1, PutOne
  <1>4. Settled'
    BY <1>1, <1>2, <1>3 DEF Journaled, Settled, DailyTypeOK
  <1>5. \A j \in Key : file'[j].result = "none" => sends'[j] = 0
    BY <1>1, <1>2, <1>3 DEF Journaled, DailyTypeOK
  <1>6. (\A j \in Earlier : provider'[j] = "done") /\ SentOnce'
    BY DEF Journaled, SentOnce
  <1>7. QED
    BY <1>3, <1>4, <1>5, <1>6

(* An intent is journaled for a key nothing was sent for.                       *)
LEMMA IntendKeeps ==
  ASSUME Journaled, Alone, NEW e \in Engine, NEW r \in Request, Intend(e, r)
  PROVE  Journaled'
  <1> DEFINE k == KeyOf[r]
  <1>1. /\ call[e] = Idle /\ memory[e][k].result = "none" /\ ~Preexisting(k)
        /\ Put(e, k, [bound |-> r, result |-> "unknown"])
        /\ call' = [call EXCEPT ![e] = [at |-> "intended", key |-> k]]
        /\ provider' = provider /\ sends' = sends /\ crashes' = crashes
    BY DEF Intend, Fresh, Goes
  <1>2. k \in Key /\ file[k].result = "none" /\ sends[k] = 0
    BY <1>1, DailyAssumption DEF Journaled
  <1>3. k \notin Earlier
    BY <1>1, DailyAssumption DEF Journaled, Preexisting
  <1>4. /\ file' \in [Key -> Record]
        /\ memory' \in [Engine -> [Key -> Record]]
        /\ \A d \in Engine : memory'[d] = file'
        /\ \A j \in Key : file'[j].result = "none" <=> file'[j].bound = NoRequest
        /\ file' = [file EXCEPT ![k] = [bound |-> r, result |-> "unknown"]]
        /\ Settled'
        /\ \A j \in Key : file'[j].result = "none" => sends'[j] = 0
        /\ \A j \in Earlier : provider'[j] = "done"
        /\ SentOnce'
    BY <1>1, <1>2, BindKeeps DEF Results
  <1>5. \A d \in Engine : d = e
    BY DEF Alone
  <1>6. /\ call'[e] = [at |-> "intended", key |-> k]
        /\ call' \in [Engine -> [at : {"idle", "intended", "dispatched"}, key : Key \cup {NoRequest}]]
    BY <1>1, <1>2 DEF Journaled, DailyTypeOK
  <1>7. DailyTypeOK'
    BY <1>1, <1>4, <1>6 DEF Journaled, DailyTypeOK
  <1>8. Underway'
    BY <1>2, <1>4, <1>5, <1>6 DEF Underway, Journaled, DailyTypeOK
  <1>9. Unsent'
    BY <1>1, <1>2, <1>3, <1>5, <1>6 DEF Unsent
  <1>10. QED
    BY <1>4, <1>7, <1>8, <1>9 DEF Journaled

(* A brief the provider knows of is journaled with what the provider says.      *)
LEMMA AdoptKeeps ==
  ASSUME Journaled, Alone, NEW e \in Engine, NEW r \in Request, AdoptPreexisting(e, r)
  PROVE  Journaled'
  <1> DEFINE k == KeyOf[r]
  <1>1. PICK found \in Found(k) : Put(e, k, [bound |-> r, result |-> found])
    BY DEF AdoptPreexisting
  <1>2. /\ call[e] = Idle /\ memory[e][k].result = "none"
        /\ call' = call /\ provider' = provider /\ sends' = sends /\ crashes' = crashes
    BY DEF AdoptPreexisting, Fresh
  <1>3. k \in Key /\ file[k].result = "none"
    BY <1>2, DailyAssumption DEF Journaled
  <1>4. /\ found \in Results
        /\ found = "confirmed-success" => provider[k] = "done"
        /\ found = "confirmed-failure" => provider[k] = "failed"
    BY <1>3, FoundIsTrue
  <1>5. /\ file' \in [Key -> Record]
        /\ memory' \in [Engine -> [Key -> Record]]
        /\ \A d \in Engine : memory'[d] = file'
        /\ \A j \in Key : file'[j].result = "none" <=> file'[j].bound = NoRequest
        /\ Settled'
        /\ \A j \in Key : file'[j].result = "none" => sends'[j] = 0
        /\ \A j \in Earlier : provider'[j] = "done"
        /\ SentOnce'
    BY <1>1, <1>2, <1>3, <1>4, BindKeeps
  <1>6. DailyTypeOK'
    BY <1>2, <1>5 DEF Journaled, DailyTypeOK
  <1>7. Underway' /\ Unsent'
    BY <1>2 DEF Alone, Idle, Underway, Unsent
  <1>8. QED
    BY <1>5, <1>6, <1>7 DEF Journaled

(* The provider is called once for an intent.                                   *)
LEMMA DispatchKeeps ==
  ASSUME Journaled, Alone, NEW e \in Engine, Dispatch(e)
  PROVE  Journaled'
  <1> DEFINE k == call[e].key
  <1>1. PICK outcome \in {"done", "pending"} :
            provider' = [provider EXCEPT ![k] = IF @ = "done" THEN @ ELSE outcome]
    BY DEF Dispatch
  <1>2. /\ call[e].at = "intended"
        /\ sends' = [sends EXCEPT ![k] = @ + 1]
        /\ call' = [call EXCEPT ![e] = [at |-> "dispatched", key |-> k]]
        /\ file' = file /\ memory' = memory /\ crashes' = crashes
    BY DEF Dispatch, Goes
  <1>3. k \in Key /\ file[k].result = "unknown" /\ sends[k] = 0 /\ k \notin Earlier
    BY <1>2 DEF Journaled, Underway, Unsent
  <1>4. \A d \in Engine : d = e
    BY DEF Alone
  <1>5. /\ call'[e] = [at |-> "dispatched", key |-> k]
        /\ call' \in [Engine -> [at : {"idle", "intended", "dispatched"}, key : Key \cup {NoRequest}]]
    BY <1>2, <1>3 DEF Journaled, DailyTypeOK
  <1>6. DailyTypeOK'
    BY <1>1, <1>2, <1>3, <1>5 DEF Journaled, DailyTypeOK
  <1>7. Underway' /\ Unsent'
    BY <1>2, <1>3, <1>4, <1>5 DEF Underway, Unsent
  <1>8. Settled' /\ \A j \in Earlier : provider'[j] = "done"
    BY <1>1, <1>2, <1>3, DailyAssumption DEF Journaled, DailyTypeOK, Settled
  <1>9. SentOnce' /\ \A j \in Key : file'[j].result = "none" => sends'[j] = 0
    BY <1>2, <1>3 DEF Journaled, DailyTypeOK, SentOnce
  <1>10. QED
    BY <1>2, <1>6, <1>7, <1>8, <1>9 DEF Journaled

(* A settled operation keeps its request; an engine that has no call any more   *)
(* leaves nothing under way.                                                    *)
LEMMA SettleKeeps ==
  ASSUME Journaled, Alone, NEW e \in Engine, NEW k \in Key,
         file[k].result = "unknown", Settle(e, k),
         call' \in [Engine -> [at : {"idle", "intended", "dispatched"}, key : Key \cup {NoRequest}]],
         call'[e] = Idle,
         provider' = provider, sends' = sends, crashes' = crashes
  PROVE  Journaled'
  <1> DEFINE Written(x) == [file[k] EXCEPT !.result = x]
  <1>0. \A d \in Engine : call'[d] = Idle
    BY DEF Alone
  <1>1. Underway' /\ Unsent'
    BY <1>0 DEF Idle, Underway, Unsent
  <1>2. PICK found \in Found(k) :
            IF found = "unknown" THEN UNCHANGED <<file, memory>>
            ELSE Put(e, k, [memory[e][k] EXCEPT !.result = found])
    BY DEF Settle
  <1>3. CASE found = "unknown"
    BY <1>1, <1>2, <1>3 DEF Journaled, DailyTypeOK, Settled, SentOnce
  <1>4. CASE found # "unknown"
    <2> DEFINE x == Written(found)
    <2>1. Put(e, k, x)
      BY <1>2, <1>4 DEF Journaled
    <2>2. /\ found \in Results /\ found # "none"
          /\ found = "confirmed-success" => provider[k] = "done"
          /\ found = "confirmed-failure" => provider[k] = "failed"
      BY FoundIsTrue, RecordsTyped
    <2>3. /\ x \in Record /\ x.result = found /\ x.bound = file[k].bound
          /\ x.bound # NoRequest
      BY <2>2 DEF Journaled, DailyTypeOK, Record
    <2> HIDE DEF x
    <2>4. /\ file' = [file EXCEPT ![k] = x]
          /\ file' \in [Key -> Record]
          /\ memory' \in [Engine -> [Key -> Record]]
          /\ \A d \in Engine : memory'[d] = file'
          /\ \A j \in Key : file'[j].result = "none" <=> file'[j].bound = NoRequest
      BY <2>1, <2>2, <2>3, PutOne
    <2>5. DailyTypeOK'
      BY <2>4 DEF Journaled, DailyTypeOK
    <2>6. Settled'
      BY <2>2, <2>3, <2>4 DEF Journaled, DailyTypeOK, Settled
    <2>7. \A j \in Key : file'[j].result = "none" => sends'[j] = 0
      BY <2>2, <2>3, <2>4 DEF Journaled, DailyTypeOK
    <2>8. (\A j \in Earlier : provider'[j] = "done") /\ SentOnce'
      BY DEF Journaled, SentOnce
    <2>9. QED
      BY <1>1, <2>4, <2>5, <2>6, <2>7, <2>8 DEF Journaled
  <1>5. QED
    BY <1>3, <1>4

(* A process that dies forgets its call; its successor has what is on disk.     *)
LEMMA RestartKeeps ==
  ASSUME Journaled, Alone, NEW e \in Engine, Restart(e)
  PROVE  Journaled'
  <1>1. /\ memory' = [memory EXCEPT ![e] = file]
        /\ call' = [call EXCEPT ![e] = Idle]
        /\ crashes' = crashes + 1
        /\ file' = file /\ provider' = provider /\ sends' = sends
    BY DEF Restart, Ends
  <1>2. DailyTypeOK' /\ \A d \in Engine : memory'[d] = file'
    BY <1>1 DEF Journaled, DailyTypeOK, Idle
  <1>3. \A d \in Engine : call'[d] = Idle
    BY <1>1 DEF Alone, Journaled, DailyTypeOK
  <1>4. Underway' /\ Unsent'
    BY <1>3 DEF Idle, Underway, Unsent
  <1>5. QED
    BY <1>1, <1>2, <1>4 DEF Journaled, Settled, SentOnce

(* The provider decides what is pending, which no result in the journal is of.  *)
LEMMA ArriveKeeps ==
  ASSUME Journaled, NEW k \in Key, Arrive(k)
  PROVE  Journaled'
  <1>1. PICK outcome \in {"done", "failed"} : provider' = [provider EXCEPT ![k] = outcome]
    BY DEF Arrive
  <1>2. /\ provider[k] = "pending"
        /\ file' = file /\ memory' = memory /\ call' = call
        /\ sends' = sends /\ crashes' = crashes
    BY DEF Arrive
  <1>3. DailyTypeOK'
    BY <1>1, <1>2 DEF Journaled, DailyTypeOK
  <1>4. Settled' /\ \A j \in Earlier : provider'[j] = "done"
    BY <1>1, <1>2, DailyAssumption DEF Journaled, DailyTypeOK, Settled
  <1>5. Underway' /\ Unsent' /\ SentOnce'
    BY <1>2 DEF Journaled, Underway, Unsent, SentOnce
  <1>6. QED
    BY <1>2, <1>3, <1>4, <1>5 DEF Journaled

(* Every step keeps the invariant.                                              *)
LEMMA NextJournaled == Alone /\ Journaled /\ [DailyNext]_dailyVars => Journaled'
  <1> SUFFICES ASSUME Alone, Journaled, [DailyNext]_dailyVars PROVE Journaled'
    OBVIOUS
  <1>1. ASSUME NEW e \in Engine, NEW r \in Request, Intend(e, r) \/ AdoptPreexisting(e, r)
        PROVE  Journaled'
    BY <1>1, IntendKeeps, AdoptKeeps
  <1>2. ASSUME NEW e \in Engine, Dispatch(e) \/ Restart(e) PROVE Journaled'
    BY <1>2, DispatchKeeps, RestartKeeps
  <1>3. ASSUME NEW e \in Engine, Readback(e) PROVE Journaled'
    <2>1. /\ call[e].at = "dispatched" /\ Settle(e, call[e].key)
          /\ call' = [call EXCEPT ![e] = Idle]
          /\ provider' = provider /\ sends' = sends /\ crashes' = crashes
      BY <1>3 DEF Readback, Ends
    <2>2. call[e].key \in Key /\ file[call[e].key].result = "unknown"
      BY <2>1 DEF Journaled, Underway
    <2>3. /\ call' \in [Engine -> [at : {"idle", "intended", "dispatched"},
                                   key : Key \cup {NoRequest}]]
          /\ call'[e] = Idle
      BY <2>1 DEF Journaled, DailyTypeOK, Idle
    <2>4. QED
      BY <2>1, <2>2, <2>3, SettleKeeps
  <1>4. ASSUME NEW e \in Engine, NEW k \in Key, Reconcile(e, k) PROVE Journaled'
    <2>1. /\ call[e] = Idle /\ memory[e][k].result = "unknown" /\ Settle(e, k)
          /\ call' = call /\ provider' = provider /\ sends' = sends /\ crashes' = crashes
      BY <1>4 DEF Reconcile
    <2>2. call' \in [Engine -> [at : {"idle", "intended", "dispatched"},
                               key : Key \cup {NoRequest}]]
      BY <2>1 DEF Journaled, DailyTypeOK
    <2>3. file[k].result = "unknown"
      BY <2>1 DEF Journaled
    <2>4. QED
      BY <2>1, <2>2, <2>3, SettleKeeps
  <1>5. ASSUME NEW k \in Key, Arrive(k) PROVE Journaled'
    BY <1>5, ArriveKeeps
  <1>6. CASE UNCHANGED dailyVars
    BY <1>6 DEF dailyVars, Journaled, DailyTypeOK, Underway, Unsent, Settled, SentOnce
  <1>7. QED
    BY <1>1, <1>2, <1>3, <1>4, <1>5, <1>6 DEF DailyNext

(* With one engine, journal, engine and provider agree in every reachable state *)
(* (OperationStore, apply, run, reconcile).                                     *)
THEOREM JournalingInvariant == Alone /\ DailySpec => []Journaled
  <1>1. Alone => Alone'
    BY DEF Alone
  <1>2. QED
    BY <1>1, InitJournaled, NextJournaled, PTL DEF DailySpec

(* No operation reaches the provider twice, however often its process dies and  *)
(* whatever becomes of the answer, and no brief that was delivered earlier does *)
(* (apply, run).                                                                *)
THEOREM OperationsSentOnce == Alone /\ DailySpec => []SentOnce
  BY JournalingInvariant, PTL DEF Journaled

(* The journal tells the truth: a confirmed result is the provider's, and       *)
(* nothing is sent that is not journaled (OperationStore.put, _verify,          *)
(* reconcile).                                                                  *)
THEOREM JournalTellsTheTruth == Alone /\ DailySpec => []JournalIsTrue
  <1>1. Journaled => JournalIsTrue
    BY DEF Journaled, JournalIsTrue, DailyTypeOK, Settled
  <1>2. QED
    BY <1>1, JournalingInvariant, PTL

(* A record of the journal is written over only while its outcome is unknown,   *)
(* and then for the same request.                                               *)
Kept ==
    \A k \in Key : file[k].bound # NoRequest =>
        /\ file'[k].bound = file[k].bound
        /\ file[k].result # "unknown" => file'[k] = file[k]

(* One record changes, and the others are kept.                                 *)
LEMMA PutKept ==
  ASSUME Journaled, Alone, NEW e \in Engine, NEW k \in Key, NEW x \in Record,
         x.result # "none", x.bound # NoRequest, Put(e, k, x),
         \/ file[k].bound = NoRequest
         \/ file[k].result = "unknown" /\ x.bound = file[k].bound
  PROVE  Kept
  <1>1. file' = [file EXCEPT ![k] = x] /\ file \in [Key -> Record]
    BY PutOne DEF Journaled, DailyTypeOK
  <1>2. file'[k] = x /\ \A j \in Key \ {k} : file'[j] = file[j]
    BY <1>1
  <1>3. QED
    BY <1>2 DEF Kept

(* A request writes to its key if nothing is on record for it (apply, run).     *)
LEMMA BindKept ==
  ASSUME Journaled, Alone, NEW e \in Engine, NEW r \in Request, Fresh(e, KeyOf[r]),
         NEW found \in Results, Put(e, KeyOf[r], [bound |-> r, result |-> found])
  PROVE  Kept
  <1> DEFINE x == [bound |-> r, result |-> found]
  <1>1. KeyOf[r] \in Key /\ r # NoRequest
    BY DailyAssumption
  <1>2. file[KeyOf[r]].bound = NoRequest
    BY <1>1 DEF Fresh, Journaled, DailyTypeOK
  <1>3. x \in Record /\ x.result # "none" /\ x.bound # NoRequest /\ Put(e, KeyOf[r], x)
    BY <1>1, RecordsTyped
  <1> HIDE DEF x
  <1>4. QED
    BY <1>1, <1>2, <1>3, PutKept

(* A readback writes a result to the record it settles (_verify, reconcile).    *)
LEMMA SettleKept ==
  ASSUME Journaled, Alone, NEW e \in Engine, NEW k \in Key,
         file[k].result = "unknown", Settle(e, k)
  PROVE  Kept
  <1>1. PICK found \in Found(k) :
            IF found = "unknown" THEN UNCHANGED <<file, memory>>
            ELSE Put(e, k, [memory[e][k] EXCEPT !.result = found])
    BY DEF Settle
  <1>2. CASE found = "unknown"
    BY <1>1, <1>2 DEF Kept
  <1>3. CASE found # "unknown"
    <2> DEFINE x == [file[k] EXCEPT !.result = found]
    <2>1. Put(e, k, x)
      BY <1>1, <1>3 DEF Journaled
    <2>2. found \in Results /\ found # "none"
      BY FoundIsTrue, RecordsTyped
    <2>3. x \in Record /\ x.result # "none" /\ x.bound = file[k].bound /\ x.bound # NoRequest
      BY <2>2 DEF Journaled, DailyTypeOK, Record
    <2> HIDE DEF x
    <2>4. QED
      BY <2>1, <2>3, PutKept
  <1>4. QED
    BY <1>2, <1>3

(* With one engine, what is on record stays: a key keeps the request it was     *)
(* bound to and a confirmed result is final, over calls with other requests,    *)
(* deaths and restarts (apply, run, reconcile, OperationStore).                 *)
THEOREM RecordsAreKept == Alone /\ DailySpec => RecordsKept
  <1>1. Alone /\ Journaled /\ [DailyNext]_dailyVars => [Kept]_file
    <2> SUFFICES ASSUME Alone, Journaled, [DailyNext]_dailyVars, file' # file PROVE Kept
      OBVIOUS
    <2>1. ASSUME NEW e \in Engine, NEW r \in Request, Intend(e, r) PROVE Kept
      BY <2>1, BindKept DEF Intend, Results
    <2>2. ASSUME NEW e \in Engine, NEW r \in Request, AdoptPreexisting(e, r) PROVE Kept
      <3>1. PICK found \in Found(KeyOf[r]) : Put(e, KeyOf[r], [bound |-> r, result |-> found])
        BY <2>2 DEF AdoptPreexisting
      <3>2. found \in Results
        BY DailyAssumption, FoundIsTrue
      <3>3. QED
        BY <2>2, <3>1, <3>2, BindKept DEF AdoptPreexisting
    <2>3. ASSUME NEW e \in Engine, Readback(e) PROVE Kept
      <3>1. call[e].key \in Key /\ file[call[e].key].result = "unknown"
        BY <2>3 DEF Readback, Journaled, Underway
      <3>2. QED
        BY <2>3, <3>1, SettleKept DEF Readback
    <2>4. ASSUME NEW e \in Engine, NEW k \in Key, Reconcile(e, k) PROVE Kept
      <3>1. file[k].result = "unknown"
        BY <2>4 DEF Reconcile, Journaled
      <3>2. QED
        BY <2>4, <3>1, SettleKept DEF Reconcile
    <2>5. ASSUME NEW e \in Engine, Dispatch(e) \/ Restart(e) PROVE FALSE
      BY <2>5 DEF Dispatch, Restart
    <2>6. ASSUME NEW k \in Key, Arrive(k) PROVE FALSE
      BY <2>6 DEF Arrive
    <2>7. QED
      BY <2>1, <2>2, <2>3, <2>4, <2>5, <2>6 DEF DailyNext, dailyVars
  <1>2. RecordsKept <=> [][Kept]_file
    BY PTL DEF RecordsKept, Kept
  <1>3. Alone => Alone'
    BY DEF Alone
  <1>4. QED
    BY <1>1, <1>2, <1>3, JournalingInvariant, PTL DEF DailySpec

-----------------------------------------------------------------------------
(* The operator database (tools/operator-state/operator_state.py), for every *)
(* finite set of commitments and every number of calls, restores and faults. *)

(* The places of a stack: all of them from the top on are taken.             *)
Dense(pos, S) ==
    /\ \A d \in S : pos[d] \in 1..Cardinality(S)
    /\ \A v \in 1..Cardinality(S) : \E d \in S : pos[d] = v

Distinct(pos, S) == \A c, d \in S : pos[c] = pos[d] => c = d

(* These commitments are the stack, its places dense.                        *)
Fills(place, S) ==
    /\ place \in [Commitment -> 0..Cardinality(Commitment)]
    /\ \A c \in Commitment : place[c] > 0 <=> c \in S
    /\ Dense(place, S)

(* Places that are dense are taken once each.                                *)
LEMMA DensePlaces ==
  ASSUME NEW pos \in [Commitment -> Nat], NEW S \in SUBSET Commitment,
         Dense(pos, S)
  PROVE  /\ IsFiniteSet(S) /\ Cardinality(S) \in Nat
         /\ \A c, d \in S : pos[c] = pos[d] => c = d
  <1>1. IsFiniteSet(S) /\ Cardinality(S) \in Nat
    BY DbAssumption, FS_Subset, FS_CardinalityType
  <1> DEFINE n == Cardinality(S)
             f == [c \in S |-> pos[c]]
  <1>2. Cardinality(1..n) = n
    BY <1>1, FS_Interval
  <1>3. f \in Surjection(S, 1..n)
    <2>1. f \in [S -> 1..n]
      BY DEF Dense
    <2>2. \A t \in 1..n : \E c \in S : f[c] = t
      BY DEF Dense
    <2>3. QED
      BY <2>1, <2>2 DEF Surjection
  <1>4. f \in Injection(S, 1..n)
    <2> HIDE DEF f, n
    <2>1. Cardinality(S) = Cardinality(1..n)
      BY <1>2 DEF n
    <2>2. QED
      BY <1>1, <1>3, <2>1, FS_SurjSameCardinalityImpliesInj
  <1>5. QED
    BY <1>1, <1>4 DEF Injection, IsInjective

(* Numbered in the order of their places, the others take the places from    *)
(* the top on, once each, and the first stays first.                         *)
LEMMA Ranks ==
  ASSUME NEW pos \in [Commitment -> Nat], NEW others \in SUBSET Commitment,
         \A c, d \in others : pos[c] = pos[d] => c = d,
         NEW rank, rank = [c \in others |-> Cardinality({d \in others : pos[d] < pos[c]}) + 1]
  PROVE  /\ rank \in [others -> 1..Cardinality(others)]
         /\ \A v \in 1..Cardinality(others) : \E c \in others : rank[c] = v
         /\ \A c \in others : (\A d \in others : pos[d] >= pos[c]) => rank[c] = 1
         /\ IsFiniteSet(others) /\ Cardinality(others) \in Nat
  <1>1. IsFiniteSet(others) /\ Cardinality(others) \in Nat
    BY DbAssumption, FS_Subset, FS_CardinalityType
  <1> DEFINE before(c) == {d \in others : pos[d] < pos[c]}
  <1>2. ASSUME NEW c \in others
        PROVE  /\ IsFiniteSet(before(c)) /\ Cardinality(before(c)) \in Nat
               /\ Cardinality(before(c)) + 1 <= Cardinality(others)
    <2>1. before(c) \in SUBSET others /\ before(c) # others
      OBVIOUS
    <2> HIDE DEF before
    <2>2. IsFiniteSet(before(c)) /\ Cardinality(before(c)) \in Nat
      BY <1>1, <2>1, FS_Subset, FS_CardinalityType
    <2>3. Cardinality(before(c)) <= Cardinality(others) /\ Cardinality(before(c)) # Cardinality(others)
      BY <1>1, <2>1, FS_Subset
    <2>4. QED
      BY <1>1, <2>2, <2>3
  <1>3. ASSUME NEW c \in others, NEW d \in others, pos[c] < pos[d]
        PROVE  Cardinality(before(c)) # Cardinality(before(d))
    <2>1. before(c) \in SUBSET before(d) /\ c \in before(d) /\ c \notin before(c)
      BY <1>3
    <2> HIDE DEF before
    <2>2. QED
      BY <1>2, <2>1, FS_Subset
  <1>4. /\ rank = [c \in others |-> Cardinality(before(c)) + 1]
        /\ \A c \in others : rank[c] = Cardinality(before(c)) + 1
    OBVIOUS
  <1>5. ASSUME NEW c \in others, \A d \in others : pos[d] >= pos[c] PROVE rank[c] = 1
    <2>1. before(c) = {}
      BY <1>5
    <2> HIDE DEF before
    <2>2. rank[c] = Cardinality(before(c)) + 1
      BY <1>4
    <2>3. QED
      BY <2>1, <2>2, FS_EmptySet
  <1> HIDE DEF before
  <1>6. rank \in [others -> 1..Cardinality(others)]
    BY <1>1, <1>2, <1>4
  <1>7. ASSUME NEW c \in others, NEW d \in others, rank[c] = rank[d] PROVE c = d
    <2>1. Cardinality(before(c)) = Cardinality(before(d))
      <3>1. Cardinality(before(c)) + 1 = Cardinality(before(d)) + 1
        BY <1>4, <1>7
      <3>2. Cardinality(before(c)) \in Nat /\ Cardinality(before(d)) \in Nat
        BY <1>2
      <3>3. QED
        BY <3>1, <3>2
    <2>2. pos[c] = pos[d]
      BY <1>3, <2>1
    <2>3. QED
      BY <2>2
  <1>8. rank \in Injection(others, 1..Cardinality(others))
    BY <1>6, <1>7 DEF Injection, IsInjective
  <1>9. IsFiniteSet(1..Cardinality(others)) /\ Cardinality(1..Cardinality(others)) = Cardinality(others)
    BY <1>1, FS_Interval
  <1>10. rank \in Surjection(others, 1..Cardinality(others))
    BY <1>8, <1>9, FS_Injection
  <1>11. QED
    BY <1>1, <1>5, <1>6, <1>10 DEF Surjection

(* The others have the n places from the given one on, those not among them  *)
(* none, and the first is still the first.                                   *)
Lined(pos, others, place, from, n) ==
    /\ n = Cardinality(others) /\ IsFiniteSet(others)
    /\ place \in [Commitment -> Nat]
    /\ \A c \in Commitment : c \notin others => place[c] = 0
    /\ \A c \in others : place[c] >= from /\ place[c] <= n + from - 1
    /\ \A v \in 1..n : \E c \in others : place[c] = v + from - 1
    /\ \A c \in others : (\A d \in others : pos[d] >= pos[c]) => place[c] = from

(* The others are renumbered behind the place before from.                   *)
LEMMA Renumbering ==
  ASSUME NEW pos \in [Commitment -> Nat], NEW others \in SUBSET Commitment,
         \A c, d \in others : pos[c] = pos[d] => c = d,
         NEW db, db.position = pos, NEW from \in {1, 2},
         NEW place, place = Renumbered(db, others, from)
  PROVE  \E n \in Nat : Lined(pos, others, place, from, n)
  <1>1. PICK rank : rank = [c \in others |-> Cardinality({d \in others : pos[d] < pos[c]}) + 1]
    OBVIOUS
  <1>2. /\ rank \in [others -> 1..Cardinality(others)]
        /\ \A v \in 1..Cardinality(others) : \E c \in others : rank[c] = v
        /\ \A c \in others : (\A d \in others : pos[d] >= pos[c]) => rank[c] = 1
        /\ IsFiniteSet(others) /\ Cardinality(others) \in Nat
    BY <1>1, Ranks
  <1>3. PICK n \in Nat : n = Cardinality(others)
    BY <1>2
  <1>4. \A c \in others : Cardinality({d \in others : pos[d] < pos[c]}) \in Nat
    <2>1. ASSUME NEW c \in others PROVE Cardinality({d \in others : pos[d] < pos[c]}) \in Nat
      <3>1. {d \in others : pos[d] < pos[c]} \in SUBSET others
        OBVIOUS
      <3>2. QED
        BY <1>2, <3>1, FS_Subset, FS_CardinalityType
    <2>2. QED
      BY <2>1
  <1>5. /\ place = [c \in Commitment |-> IF c \notin others THEN 0
                      ELSE Cardinality({d \in others : pos[d] < pos[c]}) + from]
    BY DEF Renumbered
  <1>6. \A c \in others : place[c] = rank[c] + from - 1
    BY <1>1, <1>4, <1>5
  <1>7. \A c \in Commitment : c \notin others => place[c] = 0
    BY <1>5
  <1>8. place \in [Commitment -> Nat]
    BY <1>4, <1>5
  <1>9. \A c \in others : rank[c] \in 1..n
    BY <1>2, <1>3
  <1>10. /\ \A c \in others : place[c] >= from /\ place[c] <= n + from - 1
         /\ \A v \in 1..n : \E c \in others : place[c] = v + from - 1
         /\ \A c \in others : (\A d \in others : pos[d] >= pos[c]) => place[c] = from
    BY <1>2, <1>3, <1>6, <1>9
  <1>11. QED
    BY <1>2, <1>3, <1>7, <1>8, <1>10 DEF Lined

Raised(behind, c) == [behind EXCEPT ![c] = 1]

(* One has moved to the top, the others behind it.                           *)
LEMMA MovedUp ==
  ASSUME NEW pos \in [Commitment -> Nat], NEW others \in SUBSET Commitment,
         Distinct(pos, others),
         NEW c \in Commitment, c \notin others, NEW db, db.position = pos,
         NEW place, place = Raised(Renumbered(db, others, 2), c)
  PROVE  /\ Fills(place, others \cup {c})
         /\ \A d \in Commitment : place[d] = 1 <=> d = c
  <1>1. PICK behind : behind = Renumbered(db, others, 2)
    OBVIOUS
  <1>2. PICK n \in Nat : Lined(pos, others, behind, 2, n)
    <2>1. 2 \in {1, 2}
      OBVIOUS
    <2>2. QED
      BY <1>1, <2>1, Renumbering DEF Distinct
  <1>3. Cardinality(others \cup {c}) = n + 1
    BY <1>2, FS_AddElement DEF Lined
  <1>4. n + 1 <= Cardinality(Commitment) /\ Cardinality(Commitment) \in Nat
    <2>1. others \cup {c} \in SUBSET Commitment
      OBVIOUS
    <2>2. QED
      BY <1>3, <2>1, DbAssumption, FS_Subset, FS_CardinalityType
  <1>5. /\ place \in [Commitment -> Nat] /\ place[c] = 1
        /\ \A d \in Commitment : d # c => place[d] = behind[d]
    BY <1>1, <1>2 DEF Lined, Raised
  <1>6. \A d \in Commitment : place[d] \in Nat /\ place[d] <= n + 1
    BY <1>2, <1>5 DEF Lined
  <1>7. /\ \A d \in Commitment : place[d] > 0 <=> d \in others \cup {c}
        /\ \A d \in Commitment : place[d] = 1 <=> d = c
    BY <1>2, <1>5 DEF Lined
  <1>8. ASSUME NEW v \in 1..n + 1 PROVE \E d \in others \cup {c} : place[d] = v
    <2>1. CASE v = 1
      BY <1>5, <2>1
    <2>2. CASE v > 1
      <3>1. PICK u \in 1..n : u = v - 1
        BY <2>2
      <3>2. PICK d \in others : behind[d] = u + 2 - 1
        BY <1>2 DEF Lined
      <3>3. place[d] = v
        BY <1>5, <3>1, <3>2
      <3>4. QED
        BY <3>3
    <2>3. QED
      BY <2>1, <2>2
  <1>9. Dense(place, others \cup {c})
    <2>1. ASSUME NEW d \in others \cup {c} PROVE place[d] \in 1..n + 1
      <3>1. CASE d = c
        BY <1>5, <3>1
      <3>2. CASE d # c
        BY <1>2, <1>5, <3>2 DEF Lined
      <3>3. QED
        BY <3>1, <3>2
    <2>2. QED
      BY <1>3, <1>8, <2>1 DEF Dense
  <1>10. \A d \in Commitment : place[d] \in 0..Cardinality(Commitment)
    BY <1>4, <1>6
  <1>11. place \in [Commitment -> 0..Cardinality(Commitment)]
    BY <1>5, <1>10
  <1>12. QED
    <2>1. Fills(place, others \cup {c})
      BY <1>7, <1>9, <1>11 DEF Fills
    <2>2. QED
      BY <1>7, <2>1

(* One has left, the others close up.                                        *)
LEMMA ClosedUp ==
  ASSUME NEW pos \in [Commitment -> Nat], NEW others \in SUBSET Commitment,
         Distinct(pos, others),
         NEW db, db.position = pos,
         NEW place, place = Renumbered(db, others, 1)
  PROVE  /\ Fills(place, others)
         /\ \A c \in others : (\A d \in others : pos[d] >= pos[c]) => place[c] = 1
  <1>1. PICK n \in Nat : Lined(pos, others, place, 1, n)
    <2>1. 1 \in {1, 2}
      OBVIOUS
    <2>2. QED
      BY <2>1, Renumbering DEF Distinct
  <1>2. n <= Cardinality(Commitment) /\ Cardinality(Commitment) \in Nat
    BY <1>1, DbAssumption, FS_Subset, FS_CardinalityType DEF Lined
  <1>3. \A d \in Commitment : place[d] \in Nat /\ place[d] <= n
    BY <1>1 DEF Lined
  <1>4. Dense(place, others)
    BY <1>1 DEF Dense, Lined
  <1>5. \A d \in Commitment : place[d] \in 0..Cardinality(Commitment)
    BY <1>2, <1>3
  <1>6. QED
    BY <1>1, <1>4, <1>5 DEF Lined, Fills

(* What a database says of the focus, but for some statuses.                 *)
Agrees(db, free) ==
    /\ Dense(db.position, Stacked(db))
    /\ \A c \in Commitment \ free :
          /\ db.status[c] = "focused" <=> c \in Top(db)
          /\ c \in Stacked(db) \ Top(db) => db.status[c] = "parked"

(* A restore puts only a valid database in place, and knows where to find    *)
(* what it takes away.                                                       *)
Restores == [at : {"idle", "copied", "saved", "replaced"}, candidate : Db \cup {NoDb},
             saved : BOOLEAN]
Replacing ==
    /\ restore.at \in {"copied", "saved"} => restore.candidate \in Db /\ Valid(restore.candidate)
    /\ restore.at = "saved" => Events(live) \subseteq late \cup Events(safety)
    /\ restore.at = "replaced" => Events(live) \subseteq late \cup Events(restore.candidate)

(* The inductive invariant.                                                  *)
Keeping ==
    /\ DbTypeOK /\ restore \in Restores
    /\ live # NoDb => Agrees(live, around)
    /\ Replacing
    /\ DroppedIsSaved

(* A database that was just made has no stack and no events.                 *)
LEMMA EmptyDb ==
  /\ Empty \in Db /\ Empty.events = {} /\ Events(Empty) = {}
  /\ \A free : Agrees(Empty, free)
  <1>1. Cardinality(Commitment) \in Nat
    BY DbAssumption, FS_CardinalityType
  <1>2. Empty \in Db /\ Empty.events = {}
    BY <1>1 DEF Empty, Db
  <1>3. /\ \A c \in Commitment : Empty.position[c] = 0 /\ Empty.status[c] = "absent"
        /\ Stacked(Empty) = {} /\ Top(Empty) = {}
    BY DEF Empty, Stacked, Top
  <1>4. Dense(Empty.position, Stacked(Empty))
    BY <1>3, FS_EmptySet DEF Dense
  <1>5. QED
    BY <1>2, <1>3, <1>4 DEF Agrees, Events

(* What a valid database says of the focus, and the other way round.         *)
LEMMA ValidAgrees ==
  ASSUME NEW db \in Db
  PROVE  /\ Valid(db) => Agrees(db, {})
         /\ Dense(db.position, Stacked(db)) <=>
               {db.position[c] : c \in Stacked(db)} = 1..Cardinality(Stacked(db))
  <1>1. Dense(db.position, Stacked(db)) <=>
               {db.position[c] : c \in Stacked(db)} = 1..Cardinality(Stacked(db))
    BY DEF Dense
  <1>2. QED
    BY <1>1 DEF Valid, Agrees, Top

(* What a call finds at the path.                                            *)
LEMMA OpenedDb ==
  ASSUME Keeping
  PROVE  /\ Opened \in Db /\ Agrees(Opened, around)
         /\ Opened.events \subseteq Events(live) /\ Events(Opened) \subseteq Events(live)
         /\ Opened.status \in [Commitment -> Statuses \cup {"absent"}]
         /\ Opened.position \in [Commitment -> 0..Cardinality(Commitment)]
  <1>1. Opened \in Db
    BY EmptyDb DEF Opened, Keeping, DbTypeOK
  <1>2. Agrees(Opened, around)
    BY EmptyDb DEF Opened, Keeping
  <1>3. Opened.events \subseteq Events(live) /\ Events(Opened) \subseteq Events(live)
    BY EmptyDb DEF Opened, Events
  <1>4. QED
    BY <1>1, <1>2, <1>3 DEF Db

(* A call that commits.                                                      *)
LEMMA CommitKeeps ==
  ASSUME Keeping, NEW db \in Db, db.events = Opened.events,
         NEW written \in SUBSET Commitment, Agrees(db, written), Commit(db, written)
  PROVE  Keeping' /\ live'.status = db.status
  <1>1. /\ changes < MaxChanges /\ changes' = changes + 1
        /\ live' = [db EXCEPT !.events = db.events \cup {changes'}]
        /\ around' = written
        /\ late' = IF restore.at \in {"saved", "replaced"} THEN late \cup {changes'} ELSE late
        /\ UNCHANGED <<backup, safety, restore, restores, dropped, faults>>
    BY DEF Commit
  <1>2. changes \in Nat /\ MaxChanges \in Nat /\ changes' \in 1..MaxChanges
    BY <1>1, DbAssumption DEF Keeping, DbTypeOK
  <1>3. /\ live' \in Db /\ live'.events = db.events \cup {changes'}
        /\ live'.position = db.position /\ live'.status = db.status
    BY <1>1, <1>2 DEF Db
  <1>4. Agrees(live', around')
    BY <1>1, <1>3 DEF Agrees, Stacked, Top
  <1>5. DbTypeOK' /\ restore' \in Restores
    BY <1>1, <1>2, <1>3 DEF Keeping, DbTypeOK
  <1>6. Events(live') \subseteq Events(live) \cup {changes'}
    BY <1>3, OpenedDb DEF Events
  <1>7. Replacing'
    BY <1>1, <1>6 DEF Keeping, Replacing, Events
  <1>8. DroppedIsSaved'
    BY <1>1 DEF Keeping, DroppedIsSaved, Events
  <1>9. QED
    BY <1>3, <1>4, <1>5, <1>7, <1>8 DEF Keeping

(* A status that is written around the stack.                                *)
LEMMA WriteKeeps ==
  ASSUME Keeping, NEW c \in Commitment, NEW status \in Statuses \cup {"absent"},
         NEW written \in SUBSET Commitment,
         written = around \cup {c} \/ (written = around /\ status = Opened.status[c]),
         NEW db, db = [Opened EXCEPT !.status[c] = status],
         Commit(db, written)
  PROVE  Keeping' /\ live'.status = [Opened.status EXCEPT ![c] = status]
  <1>1. db = [Opened EXCEPT !.status = [Opened.status EXCEPT ![c] = status]]
    OBVIOUS
  <1>2. /\ db \in Db /\ db.events = Opened.events /\ db.position = Opened.position
        /\ db.status = [Opened.status EXCEPT ![c] = status]
    BY <1>1, OpenedDb DEF Db
  <1>3. \A d \in Commitment \ written : db.status[d] = Opened.status[d]
    BY <1>2, OpenedDb
  <1>4. Agrees(db, written)
    <2>1. Stacked(db) = Stacked(Opened) /\ Top(db) = Top(Opened)
      BY <1>2 DEF Stacked, Top
    <2>2. around \subseteq written
      OBVIOUS
    <2>3. Agrees(Opened, around)
      BY OpenedDb
    <2>4. QED
      BY <1>2, <1>3, <2>1, <2>2, <2>3 DEF Agrees
  <1>5. QED
    BY <1>2, <1>4, CommitKeeps

(* It is not made the focus while it is held, waiting, blocked or closed.    *)
Spared(c) == live'.status[c] = "focused" => Opened.status[c] \notin Unfocusable

(* A commitment is made or changed.                                          *)
LEMMA UpsertKeeps ==
  ASSUME Keeping, NEW c \in Commitment, NEW status \in Asked, Upsert(c, status)
  PROVE  Keeping' /\ \A d \in Commitment : Spared(d) \/ (d = c /\ status = "focused")
  <1>1. PICK db, written : /\ db = [Opened EXCEPT !.status[c] = status]
                           /\ written = around \cup {c}
    OBVIOUS
  <1>2. Commit(db, written)
    BY <1>1 DEF Upsert, Commit
  <1>3. written \in SUBSET Commitment
    BY <1>1 DEF Keeping, DbTypeOK
  <1>4. Keeping' /\ live'.status = [Opened.status EXCEPT ![c] = status]
    BY <1>1, <1>2, <1>3, WriteKeeps, DbAssumption
  <1>5. QED
    BY <1>4, OpenedDb DEF Spared, Unfocusable, Terminal

(* A checkpoint is added to one.                                             *)
LEMMA CheckpointKeeps ==
  ASSUME Keeping, NEW c \in Commitment, NEW completed \in BOOLEAN, NEW remaining \in BOOLEAN,
         Checkpoint(c, completed, remaining)
  PROVE  Keeping' /\ \A d \in Commitment : Spared(d)
  <1>1. PICK after, db, written :
            /\ after = CheckpointStatus(Opened.status[c], completed, remaining)
            /\ db = [Opened EXCEPT !.status[c] = after]
            /\ written = IF after = Opened.status[c] THEN around ELSE around \cup {c}
    OBVIOUS
  <1>2. Commit(db, written)
    BY <1>1 DEF Checkpoint, Commit
  <1>3. after \in Statuses \cup {"absent"}
    BY <1>1, OpenedDb DEF CheckpointStatus, Statuses, Unfocusable, Terminal
  <1>4. written \in SUBSET Commitment
    BY <1>1 DEF Keeping, DbTypeOK
  <1>5. Keeping' /\ live'.status = [Opened.status EXCEPT ![c] = after]
    BY <1>1, <1>2, <1>3, <1>4, WriteKeeps
  <1>6. after = "focused" => Opened.status[c] = "focused"
    BY <1>1 DEF CheckpointStatus
  <1>7. QED
    BY <1>5, <1>6, OpenedDb DEF Spared, Unfocusable, Terminal

(* One becomes the focus: no other is focused, and those it displaces are    *)
(* parked unless their status was written around the stack.                  *)
LEMMA FocusKeeps ==
  ASSUME Keeping, NEW c \in Commitment, Focus(c)
  PROVE  Keeping' /\ \A d \in Commitment : Spared(d)
  <1>1. PICK old, others, parked, place, status, db, written :
            /\ old = Opened
            /\ others = Stacked(old) \ {c}
            /\ parked = Parked(old, others)
            /\ place = [Renumbered(old, others, 2) EXCEPT ![c] = 1]
            /\ status = [d \in Commitment |-> IF d = c THEN "focused"
                             ELSE IF d \in parked THEN "parked" ELSE old.status[d]]
            /\ db = [old EXCEPT !.position = place, !.status = status]
            /\ written = around \ (parked \cup {c})
    OBVIOUS
  <1>2. Commit(db, written)
    BY <1>1 DEF Focus, Commit
  <1>3. /\ old \in Db /\ Agrees(old, around)
        /\ old.status \in [Commitment -> Statuses \cup {"absent"}]
        /\ old.position \in [Commitment -> 0..Cardinality(Commitment)]
    BY <1>1, OpenedDb
  <1>4. Cardinality(Commitment) \in Nat
    BY DbAssumption, FS_CardinalityType
  <1>5. others \in SUBSET Commitment /\ c \notin others /\ others \cup {c} = Stacked(old) \cup {c}
    BY <1>1 DEF Stacked
  <1>6. PICK pos \in [Commitment -> Nat] : pos = old.position
    BY <1>3, <1>4
  <1>7. Distinct(pos, others)
    <2>1. Dense(pos, Stacked(old)) /\ Stacked(old) \in SUBSET Commitment
      BY <1>3, <1>6 DEF Agrees, Stacked
    <2>2. QED
      BY <1>1, <2>1, DensePlaces DEF Distinct
  <1>8. /\ Fills(place, others \cup {c})
        /\ \A d \in Commitment : place[d] = 1 <=> d = c
    <2>1. old.position = pos /\ place = Raised(Renumbered(old, others, 2), c)
      BY <1>1, <1>6 DEF Raised
    <2>2. QED
      BY <1>5, <1>7, <2>1, MovedUp
  <1>9. status \in [Commitment -> Statuses \cup {"absent"}]
    BY <1>1, <1>3 DEF Statuses
  <1>10. /\ db \in Db /\ db.position = place /\ db.status = status /\ db.events = old.events
    BY <1>1, <1>3, <1>8, <1>9 DEF Db, Fills
  <1>11. Stacked(db) = others \cup {c} /\ Top(db) = {c}
    <2>1. Stacked(db) = others \cup {c}
      BY <1>5, <1>8, <1>10 DEF Stacked, Fills
    <2>2. Top(db) = {c}
      BY <1>8, <1>10 DEF Top
    <2>3. QED
      BY <2>1, <2>2
  <1>12. ASSUME NEW d \in Commitment \ written
         PROVE  /\ status[d] = "focused" <=> d = c
                /\ d \in others => status[d] = "parked"
    <2>1. CASE d = c
      BY <1>1, <1>5, <2>1
    <2>2. CASE d \in parked /\ d # c
      BY <1>1, <2>2
    <2>3. CASE d \notin parked /\ d # c
      <3>1. d \notin around /\ status[d] = old.status[d]
        BY <1>1, <2>3
      <3>2. d \in others => old.status[d] # "focused"
        BY <1>1, <2>3 DEF Parked
      <3>3. /\ old.status[d] = "focused" <=> d \in Top(old)
            /\ d \in Stacked(old) \ Top(old) => old.status[d] = "parked"
        BY <1>3, <3>1 DEF Agrees
      <3>4. Top(old) \subseteq Stacked(old)
        BY <1>3, <1>4 DEF Top, Stacked
      <3>5. d \in others <=> d \in Stacked(old)
        BY <1>1, <2>3
      <3>6. QED
        BY <2>3, <3>1, <3>2, <3>3, <3>4, <3>5
    <2>4. QED
      BY <2>1, <2>2, <2>3
  <1>13. Agrees(db, written)
    BY <1>8, <1>10, <1>11, <1>12 DEF Agrees, Fills
  <1>14. written \in SUBSET Commitment
    BY <1>1 DEF Keeping, DbTypeOK
  <1>15. Keeping' /\ live'.status = db.status
    BY <1>1, <1>2, <1>10, <1>13, <1>14, CommitKeeps
  <1>16. Opened.status[c] \notin Unfocusable
    BY DEF Focus, Focusable
  <1>17. \A d \in Commitment : status[d] = "focused" => d = c \/ old.status[d] = "focused"
    BY <1>1
  <1>18. QED
    BY <1>1, <1>10, <1>15, <1>16, <1>17 DEF Spared, Unfocusable, Terminal

(* One leaves the stack: the others close up, and who comes first is         *)
(* focused if it is parked.                                                  *)
LEMMA SetStatusKeeps ==
  ASSUME Keeping, NEW c \in Commitment, NEW status \in Asked, SetStatus(c, status)
  PROVE  Keeping' /\ \A d \in Commitment : Spared(d) \/ (d = c /\ status = "focused")
  <1>1. CASE status = "focused"
    <2>1. PICK db, written : /\ db = [Opened EXCEPT !.status[c] = status]
                             /\ written = around \cup {c}
      OBVIOUS
    <2>2. Commit(db, written)
      BY <1>1, <2>1 DEF SetStatus, Commit
    <2>3. written \in SUBSET Commitment
      BY <2>1 DEF Keeping, DbTypeOK
    <2>4. Keeping' /\ live'.status = [Opened.status EXCEPT ![c] = status]
      BY <2>1, <2>2, <2>3, WriteKeeps, DbAssumption
    <2>5. QED
      BY <1>1, <2>4, OpenedDb DEF Spared, Unfocusable, Terminal
  <1>2. CASE status # "focused"
    <2>1. PICK old, out, place, db, written :
              /\ old = Opened
              /\ out = [[old EXCEPT !.status[c] = status] EXCEPT !.position[c] = 0]
              /\ place = Renumbered(out, Stacked(out), 1)
              /\ db = Normalized(out)
              /\ written = around \ {c}
      OBVIOUS
    <2>2. Commit(db, written)
      BY <1>2, <2>1 DEF SetStatus, Commit
    <2>3. /\ old \in Db /\ Agrees(old, around)
          /\ old.status \in [Commitment -> Statuses \cup {"absent"}]
          /\ old.position \in [Commitment -> 0..Cardinality(Commitment)]
      BY <2>1, OpenedDb
    <2>4. Cardinality(Commitment) \in Nat
      BY DbAssumption, FS_CardinalityType
    <2>5. /\ out \in Db /\ out.events = old.events
          /\ out.status = [old.status EXCEPT ![c] = status]
          /\ out.position = [old.position EXCEPT ![c] = 0]
      <3>1. PICK mid : mid = [old EXCEPT !.status[c] = status]
        OBVIOUS
      <3>2. mid = [old EXCEPT !.status = [old.status EXCEPT ![c] = status]]
        BY <3>1
      <3>3. /\ mid \in Db /\ mid.events = old.events /\ mid.position = old.position
            /\ mid.status = [old.status EXCEPT ![c] = status]
        BY <2>3, <3>2, DbAssumption DEF Db
      <3>4. out = [mid EXCEPT !.position = [mid.position EXCEPT ![c] = 0]]
        BY <2>1, <3>1
      <3>5. [old.position EXCEPT ![c] = 0] \in [Commitment -> 0..Cardinality(Commitment)]
        BY <2>3, <2>4
      <3>6. QED
        BY <3>3, <3>4, <3>5 DEF Db
    <2>a. out.position \in [Commitment -> Nat] /\ Stacked(out) \in SUBSET Commitment
      <3>1. out.position \in [Commitment -> 0..Cardinality(Commitment)]
        BY <2>5 DEF Db
      <3>2. QED
        BY <2>4, <3>1 DEF Stacked
    <2>6. PICK others, pos : /\ others = Stacked(out) /\ pos = out.position
                             /\ others \in SUBSET Commitment /\ pos \in [Commitment -> Nat]
      BY <2>a
    <2>7. /\ c \notin others
          /\ \A d \in Commitment : d # c => /\ pos[d] = old.position[d]
                                            /\ out.status[d] = old.status[d]
                                            /\ d \in others <=> d \in Stacked(old)
          /\ out.status[c] = status
          /\ \A d \in others : pos[d] >= 1
      BY <2>3, <2>4, <2>5, <2>6 DEF Stacked
    <2>8. Distinct(pos, others)
      <3>1. /\ Dense(old.position, Stacked(old)) /\ Stacked(old) \in SUBSET Commitment
            /\ old.position \in [Commitment -> Nat]
        BY <2>3, <2>4 DEF Agrees, Stacked
      <3>2. \A a, b \in Stacked(old) : old.position[a] = old.position[b] => a = b
        BY <3>1, DensePlaces
      <3>3. QED
        BY <2>6, <2>7, <3>2 DEF Distinct
    <2>9. /\ Fills(place, others)
          /\ \A d \in others : (\A e \in others : pos[e] >= pos[d]) => place[d] = 1
      <3>1. out.position = pos /\ place = Renumbered(out, others, 1)
        BY <2>1, <2>6
      <3>2. QED
        BY <2>6, <2>8, <3>1, ClosedUp
    <2>10. PICK dense : dense = [out EXCEPT !.position = place]
      OBVIOUS
    <2>11. dense \in Db /\ dense.position = place /\ dense.status = out.status /\ dense.events = out.events
      BY <2>5, <2>9, <2>10 DEF Db, Fills
    <2>12. /\ db = [dense EXCEPT !.status = [d \in Commitment |->
                       IF d \in Top(dense) /\ Resumed(dense.status[d]) THEN "focused"
                       ELSE dense.status[d]]]
      BY <2>1, <2>6, <2>10 DEF Normalized
    <2>13. /\ db.position = place /\ db.events = old.events
           /\ db.status = [d \in Commitment |->
                  IF d \in Top(dense) /\ Resumed(out.status[d]) THEN "focused" ELSE out.status[d]]
      BY <2>5, <2>11, <2>12 DEF Db
    <2>14. db \in Db
      <3>1. db.status \in [Commitment -> Statuses \cup {"absent"}]
        BY <2>5, <2>13 DEF Db, Statuses
      <3>2. QED
        BY <2>11, <2>12, <2>13, <3>1 DEF Db
    <2>15. Stacked(db) = others /\ Top(db) = Top(dense)
      <3>1. Stacked(db) = others
        BY <2>6, <2>9, <2>13 DEF Stacked, Fills
      <3>2. QED
        BY <2>11, <2>13, <3>1 DEF Top
    <2>16. ASSUME NEW d \in Commitment \ written
           PROVE  /\ db.status[d] = "focused" <=> d \in Top(db)
                  /\ d \in Stacked(db) \ Top(db) => db.status[d] = "parked"
      <3>1. /\ d \in Top(db) <=> place[d] = 1
            /\ d \in Top(db) => d \in others
        BY <2>9, <2>11, <2>13, <2>15 DEF Top, Fills
      <3>2. db.status[d] = IF d \in Top(db) /\ out.status[d] = "parked" THEN "focused"
                           ELSE out.status[d]
        BY <2>13, <2>15 DEF Resumed
      <3>3. CASE d = c
        BY <1>2, <2>7, <2>15, <3>1, <3>2, <3>3
      <3>4. CASE d # c
        <4>1. d \in Commitment \ around /\ out.status[d] = old.status[d]
          BY <2>1, <2>7, <3>4
        <4>2. /\ old.status[d] = "focused" <=> old.position[d] = 1
              /\ d \in Stacked(old) /\ old.position[d] # 1 => old.status[d] = "parked"
          BY <2>3, <4>1 DEF Agrees, Top
        <4>3. pos[d] = old.position[d] /\ (d \in others <=> d \in Stacked(old))
          BY <2>7, <3>4
        <4>4. old.position[d] = 1 => d \in Stacked(old)
          BY DEF Stacked
        <4>5. d \in others /\ pos[d] = 1 => place[d] = 1
          BY <2>7, <2>9
        <4>6. QED
          BY <2>15, <3>1, <3>2, <4>1, <4>2, <4>3, <4>4, <4>5
      <3>5. QED
        BY <3>3, <3>4
    <2>17. Agrees(db, written)
      BY <2>9, <2>13, <2>15, <2>16 DEF Agrees, Fills
    <2>18. written \in SUBSET Commitment
      BY <2>1 DEF Keeping, DbTypeOK
    <2>19. Keeping' /\ live'.status = db.status
      BY <2>1, <2>2, <2>13, <2>14, <2>17, <2>18, CommitKeeps
    <2>20. ASSUME NEW d \in Commitment, db.status[d] = "focused"
           PROVE  old.status[d] \in {"focused", "parked"}
      <3>1. d # c
        <4>1. c \notin Top(dense)
          BY <2>9, <2>7, <2>11 DEF Top, Fills
        <4>2. QED
          BY <1>2, <2>7, <2>13, <2>20, <4>1
      <3>2. QED
        BY <2>7, <2>13, <2>20, <3>1 DEF Resumed
    <2>21. \A d \in Commitment : Spared(d)
      BY <2>1, <2>19, <2>20 DEF Spared, Unfocusable, Terminal
    <2>22. QED
      BY <2>19, <2>21
  <1>3. QED
    BY <1>1, <1>2

(* A backup changes nothing at the path, unless there was no database.       *)
LEMMA BackupKeeps == ASSUME Keeping, Backup PROVE Keeping'
  <1>1. /\ backup' = Opened /\ live' = Opened
        /\ UNCHANGED <<safety, restore, restores, changes, around, dropped, late, faults>>
    BY DEF Backup, history
  <1>2. Opened \in Db /\ Agrees(Opened, around) /\ Events(Opened) \subseteq Events(live)
    BY OpenedDb
  <1>3. DbTypeOK' /\ restore' \in Restores
    BY <1>1, <1>2 DEF Keeping, DbTypeOK
  <1>4. Agrees(live', around')
    BY <1>1, <1>2
  <1>5. Replacing'
    BY <1>1, <1>2 DEF Keeping, Replacing, Events
  <1>6. DroppedIsSaved'
    BY <1>1 DEF Keeping, DroppedIsSaved, Events
  <1>7. QED
    BY <1>3, <1>4, <1>5, <1>6 DEF Keeping

(* A restore begins with a valid candidate and saves what is at the path.    *)
LEMMA RestorePrepares == ASSUME Keeping, RestoreCopy \/ RestoreSave PROVE Keeping'
  <1>1. CASE RestoreCopy
    <2>1. /\ restores' = restores + 1
          /\ backup # NoDb /\ Valid(backup)
          /\ restore' = [at |-> "copied", candidate |-> backup, saved |-> FALSE]
          /\ UNCHANGED <<live, backup, safety, changes, around, dropped, late, faults>>
      BY <1>1 DEF RestoreCopy, history
    <2>2. DbTypeOK' /\ restore' \in Restores
      BY <2>1 DEF Keeping, DbTypeOK, Restores
    <2>3. Agrees(live', around') \/ live' = NoDb
      BY <2>1 DEF Keeping
    <2>4. Replacing'
      BY <2>1 DEF Keeping, DbTypeOK, Replacing
    <2>5. DroppedIsSaved'
      BY <2>1 DEF Keeping, DroppedIsSaved, Events
    <2>6. QED
      BY <2>2, <2>3, <2>4, <2>5 DEF Keeping
  <1>2. CASE RestoreSave
    <2>1. /\ restore.at = "copied" /\ safety' = Saved
          /\ restore' = [restore EXCEPT !.at = "saved", !.saved = live # NoDb]
          /\ dropped' = {} /\ late' = {}
          /\ UNCHANGED <<live, backup, restores, changes, around, faults>>
      BY <1>2 DEF RestoreSave
    <2>2. /\ restore'.at = "saved" /\ restore'.candidate = restore.candidate
          /\ restore'.saved = (live # NoDb) /\ restore' \in Restores
      BY <2>1 DEF Keeping, Restores
    <2>3. safety' = IF live = NoDb THEN safety ELSE live
      BY <2>1 DEF Saved
    <2>4. DbTypeOK'
      BY <2>1, <2>2, <2>3 DEF Keeping, DbTypeOK
    <2>5. Agrees(live', around') \/ live' = NoDb
      BY <2>1 DEF Keeping
    <2>6. Replacing'
      BY <2>1, <2>2, <2>3 DEF Keeping, Replacing, Events
    <2>7. DroppedIsSaved'
      BY <2>1 DEF DroppedIsSaved
    <2>8. QED
      BY <2>2, <2>4, <2>5, <2>6, <2>7 DEF Keeping
  <1>3. QED
    BY <1>1, <1>2

(* What is put at the path is valid, or nothing, and what it takes away is   *)
(* accounted for.                                                            *)
LEMMA ReplaceKeeps ==
  ASSUME Keeping, NEW db \in Db \cup {NoDb}, db # NoDb => db \in Db /\ Valid(db),
         Replaced(db), restore' \in Restores,
         UNCHANGED <<backup, safety, restores, changes, late>>, faults' \in Nat,
         restore'.saved => restore.saved,
         \/ /\ restore.at = "saved" /\ restore'.at = "replaced"
            /\ db = restore.candidate /\ restore'.candidate = db
         \/ restore.at = "replaced" /\ restore'.at = "idle"
  PROVE  Keeping'
  <1>1. /\ live' = db
        /\ dropped' = dropped \cup (Events(live) \ (Events(db) \cup Events(restore.candidate)))
        /\ around' = {}
    BY DEF Replaced
  <1>2. DbTypeOK'
    BY <1>1 DEF Keeping, DbTypeOK, Restores
  <1>3. live' # NoDb => Agrees(live', around')
    BY <1>1, ValidAgrees
  <1>4. Replacing'
    BY <1>1 DEF Keeping, Replacing, Events
  <1>5. Events(live) \ (Events(db) \cup Events(restore.candidate)) \subseteq late \cup Events(safety)
    BY DEF Keeping, Replacing
  <1>6. DroppedIsSaved'
    BY <1>1, <1>5 DEF Keeping, DroppedIsSaved, Events
  <1>7. QED
    BY <1>2, <1>3, <1>4, <1>6 DEF Keeping

(* The candidate takes the place of the database, and is taken back if it    *)
(* does not verify.                                                          *)
LEMMA RestoreReplaces == ASSUME Keeping, RestoreReplace \/ RestoreUndo PROVE Keeping'
  <1>1. CASE RestoreReplace
    <2>1. /\ restore.at = "saved" /\ Replaced(restore.candidate)
          /\ restore' = [restore EXCEPT !.at = "replaced"]
          /\ UNCHANGED <<backup, safety, restores, changes, late, faults>>
      BY <1>1 DEF RestoreReplace
    <2>2. restore.candidate \in Db /\ Valid(restore.candidate) /\ faults' \in Nat
      BY <2>1 DEF Keeping, DbTypeOK, Replacing
    <2>3. /\ restore' \in Restores /\ restore'.at = "replaced"
          /\ restore'.candidate = restore.candidate /\ restore'.saved = restore.saved
      BY <2>1 DEF Keeping, Restores
    <2>4. PICK db : db = restore.candidate
      OBVIOUS
    <2>5. Replaced(db)
      BY <2>1, <2>4 DEF Replaced
    <2>6. QED
      BY <2>1, <2>2, <2>3, <2>4, <2>5, ReplaceKeeps
  <1>2. CASE RestoreUndo
    <2>1. /\ restore.at = "replaced" /\ restore' = NoRestore /\ faults' \in Nat
          /\ UNCHANGED <<backup, safety, restores, changes, late>>
      BY <1>2 DEF RestoreUndo, Keeping, DbTypeOK
    <2>2. /\ restore' \in Restores /\ restore'.at = "idle" /\ restore'.saved = FALSE
      BY <2>1 DEF NoRestore, Restores
    <2>3. CASE Replaced(NoDb)
      BY <2>1, <2>2, <2>3, ReplaceKeeps
    <2>4. CASE restore.saved /\ Valid(safety) /\ Replaced(safety)
      <3>1. safety \in Db
        BY <2>4 DEF Keeping, DbTypeOK
      <3>2. PICK db : db = safety
        OBVIOUS
      <3>3. Replaced(db)
        BY <2>4, <3>2 DEF Replaced
      <3>4. QED
        BY <2>1, <2>2, <2>4, <3>1, <3>2, <3>3, ReplaceKeeps
    <2>5. CASE UNCHANGED <<live, dropped, around>>
      <3>1. DbTypeOK'
        BY <2>1, <2>2, <2>5 DEF Keeping, DbTypeOK, Restores
      <3>2. live' # NoDb => Agrees(live', around')
        BY <2>5 DEF Keeping
      <3>3. Replacing' /\ DroppedIsSaved'
        BY <2>1, <2>2, <2>5 DEF Keeping, Replacing, DroppedIsSaved, Events
      <3>4. QED
        BY <2>2, <3>1, <3>2, <3>3 DEF Keeping
    <2>6. QED
      BY <1>2, <2>3, <2>4, <2>5 DEF RestoreUndo
  <1>3. QED
    BY <1>1, <1>2

(* A restore ends or crashes, or the database is lost.                       *)
LEMMA RestoreEnds == ASSUME Keeping, RestoreDone \/ RestoreCrash \/ Lose PROVE Keeping'
  <1>1. CASE RestoreDone \/ RestoreCrash
    <2>1. /\ restore' = NoRestore /\ faults' \in Nat
          /\ UNCHANGED <<live, backup, safety, restores, changes, around, dropped, late>>
      BY <1>1 DEF RestoreDone, RestoreCrash, history, Keeping, DbTypeOK
    <2>2. restore' \in Restores /\ restore'.at = "idle" /\ restore'.saved = FALSE
      BY <2>1 DEF NoRestore, Restores
    <2>3. DbTypeOK'
      BY <2>1, <2>2 DEF Keeping, DbTypeOK, Restores
    <2>4. live' # NoDb => Agrees(live', around')
      BY <2>1 DEF Keeping
    <2>5. Replacing' /\ DroppedIsSaved'
      BY <2>1, <2>2 DEF Keeping, Replacing, DroppedIsSaved, Events
    <2>6. QED
      BY <2>2, <2>3, <2>4, <2>5 DEF Keeping
  <1>2. CASE Lose
    <2>1. /\ restore.at = "idle" /\ live' = NoDb /\ faults' = faults + 1
          /\ around' = {} /\ dropped' = {} /\ late' = {}
          /\ UNCHANGED <<backup, safety, restore, restores, changes>>
      BY <1>2 DEF Lose
    <2>2. DbTypeOK'
      BY <2>1 DEF Keeping, DbTypeOK
    <2>3. Replacing' /\ DroppedIsSaved'
      BY <2>1 DEF Keeping, Replacing, DroppedIsSaved, Events
    <2>4. QED
      BY <2>1, <2>2, <2>3 DEF Keeping
  <1>3. QED
    BY <1>1, <1>2

(* The commitments there were before agree with their stack.                 *)
LEMMA InitKeeping == ASSUME DbInit PROVE Keeping
  <1>1. PICK status \in [Commitment -> {"absent", "active", "focused", "parked"}],
             position \in [Commitment -> 0..Cardinality(Commitment)] :
            /\ live = [status |-> status, position |-> position, events |-> {}]
            /\ Valid(live)
    BY DEF DbInit
  <1>2. /\ backup = NoDb /\ safety \in {NoDb, Empty} /\ restore = NoRestore
        /\ restores = 0 /\ changes = 0 /\ around = {} /\ dropped = {} /\ late = {} /\ faults = 0
    BY DEF DbInit
  <1>3. live \in Db
    BY <1>1 DEF Db, Statuses
  <1>4. restore \in Restores /\ restore.at = "idle" /\ restore.saved = FALSE
    BY <1>2 DEF NoRestore, Restores
  <1>5. DbTypeOK
    BY <1>2, <1>3, <1>4, EmptyDb DEF DbTypeOK, Restores
  <1>6. Agrees(live, around)
    BY <1>1, <1>2, <1>3, ValidAgrees
  <1>7. Replacing /\ DroppedIsSaved
    BY <1>2, <1>4 DEF Replacing, DroppedIsSaved
  <1>8. QED
    BY <1>4, <1>5, <1>6, <1>7 DEF Keeping

(* Every call and every step of a restore keeps it.                          *)
LEMMA NextKeeping == ASSUME Keeping, [DbNext]_dbVars PROVE Keeping'
  <1>1. ASSUME NEW c \in Commitment, Call(c) PROVE Keeping'
    BY <1>1, UpsertKeeps, SetStatusKeeps, CheckpointKeeps, FocusKeeps DEF Call
  <1>2. ASSUME Restore PROVE Keeping'
    BY <1>2, RestorePrepares, RestoreReplaces, RestoreEnds DEF Restore
  <1>3. ASSUME UNCHANGED dbVars PROVE Keeping'
    <2>1. UNCHANGED <<live, backup, safety, restore, restores, changes, around, dropped, late, faults>>
      BY <1>3 DEF dbVars
    <2>2. DbTypeOK'
      BY <2>1 DEF Keeping, DbTypeOK
    <2>3. Replacing' /\ DroppedIsSaved'
      BY <2>1 DEF Keeping, Replacing, DroppedIsSaved, Events
    <2>4. QED
      BY <2>1, <2>2, <2>3 DEF Keeping
  <1>4. QED
    BY <1>1, <1>2, <1>3, BackupKeeps, RestoreEnds DEF DbNext

(* Outside a restore only a call that asks for it makes work that is held,   *)
(* waiting, blocked or closed the focus.                                     *)
LEMMA NextSpares ==
  ASSUME Keeping, [DbNext]_dbVars, live # NoDb, live' # NoDb,
         NEW c \in Commitment, live.status[c] \in Unfocusable, live'.status[c] = "focused"
  PROVE  Upsert(c, "focused") \/ SetStatus(c, "focused") \/ RestoreReplace \/ RestoreUndo
  <1>1. Opened = live /\ ~Spared(c)
    BY DEF Opened, Spared
  <1>2. live' # live
    BY DEF Unfocusable, Terminal
  <1>3. ASSUME NEW d \in Commitment, NEW status \in Asked, Upsert(d, status) \/ SetStatus(d, status)
        PROVE  Upsert(c, "focused") \/ SetStatus(c, "focused")
    BY <1>1, <1>3, UpsertKeeps, SetStatusKeeps
  <1>4. ASSUME NEW d \in Commitment, Call(d)
        PROVE  Upsert(c, "focused") \/ SetStatus(c, "focused")
    BY <1>1, <1>3, <1>4, CheckpointKeeps, FocusKeeps DEF Call
  <1>5. ~(Backup \/ RestoreCopy \/ RestoreSave \/ RestoreDone \/ RestoreCrash \/ Lose)
    BY <1>1, <1>2 DEF Backup, RestoreCopy, RestoreSave, RestoreDone, RestoreCrash, Lose
  <1>6. ~UNCHANGED dbVars
    BY <1>2 DEF dbVars
  <1>7. QED
    BY <1>4, <1>5, <1>6 DEF DbNext, Restore

(* The inductive invariant holds of the operator database, whatever is       *)
(* called while a restore is under way and wherever a restore crashes        *)
(* (transaction, normalize_focus, restore_database).                         *)
THEOREM KeepingInvariant == DbSpec => []Keeping
  <1>1. DbInit => Keeping
    BY InitKeeping
  <1>2. Keeping /\ [DbNext]_dbVars => Keeping'
    BY NextKeeping
  <1>3. QED
    BY <1>1, <1>2, PTL DEF DbSpec

(* The focus stack is dense, its top alone is focused and the others are     *)
(* parked, but for statuses written around it, for any commitments, calls    *)
(* and restores (focus, set_status, normalize_focus, restore_database).      *)
THEOREM FocusAgrees == DbSpec => []FocusConsistent
  <1>1. Keeping => FocusConsistent
    <2>1. ASSUME live \in Db, Agrees(live, around)
          PROVE  /\ {live.position[c] : c \in Stacked(live)} = 1..Cardinality(Stacked(live))
                 /\ \A c \in Commitment \ around :
                       /\ live.status[c] = "focused" <=> c \in Top(live)
                       /\ c \in Stacked(live) \ Top(live) => live.status[c] = "parked"
      <3>1. {live.position[c] : c \in Stacked(live)} = 1..Cardinality(Stacked(live))
        BY <2>1, ValidAgrees DEF Agrees
      <3>2. QED
        BY <2>1, <3>1 DEF Agrees
    <2>2. QED
      BY <2>1 DEF Keeping, FocusConsistent, DbTypeOK
  <1>2. QED
    BY <1>1, KeepingInvariant, PTL

(* What a restore took from the path is in the safety copy, but for the      *)
(* calls that came after the copy, wherever the restore fails or crashes     *)
(* (restore_database).                                                       *)
THEOREM RestoreKeepsACopy == DbSpec => []DroppedIsSaved
  <1>1. Keeping => DroppedIsSaved
    BY DEF Keeping
  <1>2. QED
    BY <1>1, KeepingInvariant, PTL

(* Work that is held, waiting, blocked or closed becomes the focus only by a *)
(* call that names it and asks for that (focus, normalize_focus).            *)
THEOREM FocusIsAsked == DbSpec => NoAccidentalFocus
  <1>1. Keeping /\ [DbNext]_dbVars =>
          [live # NoDb /\ live' # NoDb => \A c \in Commitment :
              live.status[c] \in Unfocusable /\ live'.status[c] = "focused" =>
                  Upsert(c, "focused") \/ SetStatus(c, "focused") \/ RestoreReplace \/ RestoreUndo]_dbVars
    BY NextSpares
  <1>2. QED
    BY <1>1, KeepingInvariant, PTL DEF DbSpec, NoAccidentalFocus

===============================================================================
