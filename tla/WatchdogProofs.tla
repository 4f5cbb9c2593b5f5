---------------------------- MODULE WatchdogProofs ----------------------------
(***************************************************************************)
(* Proofs about Watchdog, for every number of sites, workers, occurrences, *)
(* leases, changes of the world and crashes, and every threshold.          *)
(***************************************************************************)
EXTENDS Watchdog, TLAPS

File == [status : Status, token : Nat, expired : BOOLEAN, attempts : Nat,
         deadline : {"unset", "running", "past"}]
Task == [at : {"idle", "ready", "acting", "acted"}, id : Id \cup {None}, token : Nat]

(* A site names an incident, its own, exactly while it is down.              *)
Names(state) ==
    \A s \in Site : IF state[s].status = "down" THEN state[s].id \in Occurrence \X {s}
                                                ELSE state[s].id = None

(* A collector run: its locals, the occurrence it works for, and the event   *)
(* it is about to file.                                                      *)
Collecting ==
    /\ run = [at |-> run.at, occ |-> run.occ, conf |-> run.conf, todo |-> run.todo,
              seen |-> run.seen, state |-> run.state, event |-> run.event]
    /\ run.at # "idle" => run.occ \in Occurrence
    /\ run.at = "filing" => run.event \in {"confirmed_failure", "recovered"} \X Id
    /\ Names(run.state)

Shape == TypeOK /\ Collecting

(* An outage a run knows of is announced, and its file is there, but for the *)
(* one the run is about to file.                                             *)
Announced(s, id) == log[<<id[1], s, "confirmed_failure">>] = 1
Filing(id) == run.at = "filing" /\ run.event = <<"confirmed_failure", id>>
SavedOnRecord(s) == saved[s].status = "down" =>
    Exists(saved[s].id) /\ Announced(s, saved[s].id)
RunOnRecord(s) == run.state[s].status = "down" =>
    /\ Exists(run.state[s].id) \/ Filing(run.state[s].id)
    /\ Announced(s, run.state[s].id)
OnRecord == \A s \in Site : SavedOnRecord(s) /\ RunOnRecord(s)

(* Workers that repair have the newest lease of their incident to themselves.*)
Repairers ==
    /\ RepairIsExclusive
    /\ \A w \in Worker : Repairing(w) => work[w].id \in Id

(* The actions of an incident are covered by the attempts on file, one more  *)
(* while a worker is about to act.                                           *)
Counted ==
    /\ \A i \in Id : acts[i] <= incident[i].attempts /\ incident[i].attempts <= MaxRepairs
    /\ \A w \in Worker : work[w].at = "acting" =>
          acts[work[w].id] < incident[work[w].id].attempts

(* The inductive invariant.                                                  *)
Watching == Shape /\ OnRecord /\ Repairers /\ Counted

(* The types, read through the names of this module.                         *)
LEMMA TypesNamed ==
  TypeOK => /\ incident \in [Id -> File]
            /\ work \in [Worker -> Task]
            /\ acts \in [Id -> Nat]
            /\ saved \in [Site -> SiteState] /\ run.state \in [Site -> SiteState]
            /\ Names(saved)
            /\ log \in [EventId -> Nat]
  BY DEF TypeOK, File, Task, Names

(* No site has been seen, and no incident filed, at first.                   *)
LEMMA InitWatching == Init => Watching
  <1> SUFFICES ASSUME Init PROVE Watching
    OBVIOUS
  <1> USE ConstantsAssumption
  <1>0. Unseen \in SiteState
    BY DEF Unseen, SiteState
  <1>1. NoFile \in File /\ NoWork \in Task
    BY DEF NoFile, NoWork, File, Task, Status
  <1>2. /\ run = NoRun /\ saved = [s \in Site |-> Unseen]
        /\ run.state = [s \in Site |-> Unseen] /\ run.at = "idle"
    BY DEF Init, NoRun
  <1>3. Names(saved) /\ Names(run.state)
    BY <1>2 DEF Names, Unseen
  <1>4. TypeOK
    BY <1>0, <1>1, <1>2, <1>3 DEF Init, TypeOK, File, Task, Names
  <1>5. Collecting
    BY <1>2, <1>3 DEF Collecting, NoRun
  <1>6. OnRecord
    BY <1>2 DEF OnRecord, SavedOnRecord, RunOnRecord, Unseen
  <1>7. Repairers /\ Counted
    BY DEF Init, Repairers, RepairIsExclusive, Repairing, Counted, NoWork, NoFile
  <1>8. QED
    BY <1>4, <1>5, <1>6, <1>7 DEF Watching, Shape

(* A file like another but for its status, its expiry and its deadline.      *)
Like(y, x, st) ==
    /\ y \in File /\ y.status = st
    /\ y.token = x.token /\ y.attempts = x.attempts

(* What a step may do to an incident file: change its status, write a lease, *)
(* an attempt or a deadline.                                                 *)
LEMMA FileFields ==
  ASSUME NEW x \in File
  PROVE  /\ \A st \in Status : Like([x EXCEPT !.status = st], x, st)
         /\ Like([x EXCEPT !.expired = TRUE], x, x.status)
         /\ \A d \in {"unset", "running", "past"} :
                Like([x EXCEPT !.deadline = d], x, x.status)
         /\ LET y == [x EXCEPT !.attempts = x.attempts + 1]
            IN  /\ y \in File /\ y.status = x.status
                /\ y.token = x.token /\ y.attempts = x.attempts + 1
         /\ LET y == [x EXCEPT !.status = "leased", !.expired = FALSE, !.token = x.token + 1]
            IN  /\ y \in File /\ y.status = "leased"
                /\ y.token = x.token + 1 /\ y.attempts = x.attempts
  <1>1. \A st \in Status : Like([x EXCEPT !.status = st], x, st)
    BY DEF File, Like
  <1>2. Like([x EXCEPT !.expired = TRUE], x, x.status)
    BY DEF File, Like
  <1>3. \A d \in {"unset", "running", "past"} : Like([x EXCEPT !.deadline = d], x, x.status)
    BY DEF File, Like
  <1>4. LET y == [x EXCEPT !.attempts = x.attempts + 1]
        IN  /\ y \in File /\ y.status = x.status
            /\ y.token = x.token /\ y.attempts = x.attempts + 1
    BY DEF File
  <1>5. LET y == [x EXCEPT !.status = "leased", !.expired = FALSE, !.token = x.token + 1]
        IN  /\ y \in File /\ y.status = "leased"
            /\ y.token = x.token + 1 /\ y.attempts = x.attempts
    <2> DEFINE n == x.token + 1
    <2>1. n \in Nat /\ "leased" \in Status
      BY DEF File, Status
    <2> HIDE DEF n
    <2>2. LET y == [x EXCEPT !.status = "leased", !.expired = FALSE, !.token = n]
          IN  /\ y \in File /\ y.status = "leased"
              /\ y.token = n /\ y.attempts = x.attempts
      BY <2>1 DEF File
    <2>3. QED
      BY <2>2 DEF n
  <1>6. QED
    BY <1>1, <1>2, <1>3, <1>4, <1>5

(* A new status for one incident whose file is not locked.                   *)
Rewritten(i, y) ==
    /\ incident' = [incident EXCEPT ![i] = y]
    /\ y \in File
    /\ y.status = "absent" => ~Exists(i)

(* What every step leaves of the incident files: their type, that they are   *)
(* there, and the status and the lease of those that are locked.             *)
FilesKept ==
    /\ incident' \in [Id -> File]
    /\ \A j \in Id : Exists(j) => Exists(j)'
    /\ \A j \in Id : Locked(j) =>
          incident'[j].status = incident[j].status /\ incident'[j].token = incident[j].token
AttemptsKept == \A j \in Id : incident'[j].attempts = incident[j].attempts

(* One file is rewritten.                                                    *)
LEMMA RewriteKeeps ==
  ASSUME TypeOK, NEW i \in Id, NEW y, Rewritten(i, y),
         Locked(i) => y.status = incident[i].status /\ y.token = incident[i].token
  PROVE  FilesKept /\ (y.attempts = incident[i].attempts => AttemptsKept)
  BY TypesNamed DEF Rewritten, FilesKept, AttemptsKept, Exists

(* One status is updated, of a file that is not locked.                      *)
LEMMA UpdateKeeps ==
  ASSUME TypeOK, NEW i \in Id, NEW st \in Status, st # "absent", ~Locked(i), Update(i, st)
  PROVE  FilesKept /\ AttemptsKept
  <1> DEFINE y == [incident[i] EXCEPT !.status = st]
  <1>1. incident[i] \in File
    BY TypesNamed
  <1>2. y \in File /\ y.status = st /\ y.attempts = incident[i].attempts
    BY <1>1, FileFields DEF Like
  <1>3. incident' = [incident EXCEPT ![i] = y]
    BY DEF Update
  <1> HIDE DEF y
  <1>4. Rewritten(i, y)
    BY <1>2, <1>3 DEF Rewritten
  <1>5. QED
    BY <1>2, <1>4, RewriteKeeps

(* What is not rewritten is kept.                                            *)
LEMMA SameFilesKept == ASSUME TypeOK, incident' = incident PROVE FilesKept /\ AttemptsKept
  BY TypesNamed DEF FilesKept, AttemptsKept, Exists

(* A change of the world or of the clock, a lease or a deadline of one file. *)
LEMMA ClockKeeps ==
  ASSUME TypeOK, NEW i \in Id, NEW y, incident' = [incident EXCEPT ![i] = y],
         Like(y, incident[i], incident[i].status)
  PROVE  FilesKept /\ AttemptsKept
  BY RewriteKeeps DEF Rewritten, Like, Exists

(* The collector leaves locked incident files alone, and removes none.       *)
LEMMA CollectFiles ==
  ASSUME Shape, Collect
  PROVE  FilesKept /\ AttemptsKept
  <1> USE UpdateKeeps, SameFilesKept DEF Shape
  <1>1. run.state \in [Site -> SiteState]
    BY TypesNamed
  <1>2. CASE \E o \in Occurrence : Start(o)
    BY <1>2 DEF Start
  <1>3. ASSUME NEW s \in Site, Retire(s) PROVE FilesKept /\ AttemptsKept
    <2>1. run.state[s].id \in Id \cup {None}
      BY <1>1 DEF SiteState
    <2>2. QED
      BY <1>3, <2>1 DEF Retire, Status
  <1>4. ASSUME NEW s \in Site, ProbeSite(s) \/ Apply(s) PROVE FilesKept /\ AttemptsKept
    BY <1>4 DEF ProbeSite, Apply
  <1>5. CASE RetiredAll \/ ProbedAll \/ Save \/ Complete
    BY <1>5 DEF RetiredAll, ProbedAll, Save, Complete
  <1>6. CASE FileIncident
    <2>1. run.event[2] \in Id
      BY <1>6 DEF FileIncident, Running, Collecting
    <2>2. QED
      BY <1>6, <2>1 DEF FileIncident, Status
  <1>7. ASSUME NEW i \in Id, ResolveRecovered(i) \/ RecoveryRaises(i)
        PROVE  FilesKept /\ AttemptsKept
    BY <1>7 DEF ResolveRecovered, RecoveryRaises, Status
  <1>8. QED
    BY <1>2, <1>3, <1>4, <1>5, <1>6, <1>7 DEF Collect

(* So do the workers, but for the one that holds the lock, which writes its  *)
(* attempts.                                                                 *)
LEMMA WorkersFiles ==
  ASSUME Shape, Repairers, NEW w \in Worker,
         RepairStart(w) \/ RepairStep(w) \/ WorkerDies(w)
  PROVE  FilesKept /\ (RepairAttempt(w) \/ AttemptsKept)
  <1> USE SameFilesKept DEF Shape
  <1>1. incident \in [Id -> File] /\ work \in [Worker -> Task]
    BY TypesNamed
  <1>2. CASE RepairStart(w)
    <2> DEFINE i == work[w].id
               d == IF incident[i].deadline = "unset" THEN "running" ELSE incident[i].deadline
               y == [incident[i] EXCEPT !.deadline = d]
    <2>1. i \in Id /\ incident[i].status = "leased"
      BY <1>1, <1>2 DEF RepairStart, Authoritative, Active, Task
    <2>2. incident[i] \in File /\ d \in {"unset", "running", "past"}
      BY <1>1, <2>1 DEF File
    <2>3. Like(y, incident[i], incident[i].status)
      BY <2>2, FileFields
    <2>4. incident' = [incident EXCEPT ![i] = y]
      BY <1>2 DEF RepairStart
    <2> HIDE DEF y
    <2>5. QED
      BY <2>1, <2>3, <2>4, ClockKeeps DEF Exists
  <1>3. CASE RepairAttempt(w)
    <2> DEFINE i == work[w].id
               y == [incident[i] EXCEPT !.attempts = incident[i].attempts + 1]
    <2>1. i \in Id /\ incident[i].status = "leased"
      BY <1>1, <1>3 DEF RepairAttempt, Authoritative, Active, Repairers, Repairing
    <2>2. y \in File /\ y.status = incident[i].status /\ y.token = incident[i].token
      BY <1>1, <2>1, FileFields
    <2>3. incident' = [incident EXCEPT ![i] = y]
      BY <1>3 DEF RepairAttempt
    <2> HIDE DEF y
    <2>4. QED
      BY <1>3, <2>1, <2>2, <2>3, RewriteKeeps DEF Rewritten
  <1>4. CASE RepairAct(w) \/ RepairCheck(w) \/ RepairEnd(w) \/ WorkerDies(w)
    BY <1>4 DEF RepairAct, RepairCheck, RepairEnd, WorkerDies
  <1>5. QED
    BY <1>2, <1>3, <1>4 DEF RepairStep

(* And so does every other step.                                             *)
LEMMA FilesStep ==
  ASSUME Shape, Repairers, [Next]_vars
  PROVE  FilesKept /\ ((\E w \in Worker : RepairAttempt(w)) \/ AttemptsKept)
  <1> USE UpdateKeeps, SameFilesKept DEF Shape
  <1>0. incident \in [Id -> File]
    BY TypesNamed
  <1>1. CASE Collect
    BY <1>1, CollectFiles
  <1>2. ASSUME NEW w \in Worker, RepairStart(w) \/ RepairStep(w) \/ WorkerDies(w)
        PROVE  FilesKept /\ (RepairAttempt(w) \/ AttemptsKept)
    BY <1>2, WorkersFiles
  <1>3. ASSUME NEW i \in Id, LeaseHealthy(i) \/ LeaseDies(i) PROVE FilesKept /\ AttemptsKept
    BY <1>3 DEF LeaseHealthy, LeaseDies, Status
  <1>4. ASSUME NEW i \in Id, LeaseExpires(i) PROVE FilesKept /\ AttemptsKept
    <2> DEFINE y == [incident[i] EXCEPT !.expired = TRUE]
    <2>1. Like(y, incident[i], incident[i].status)
      BY <1>0, FileFields
    <2>2. incident' = [incident EXCEPT ![i] = y]
      BY <1>4 DEF LeaseExpires
    <2> HIDE DEF y
    <2>3. QED
      BY <2>1, <2>2, ClockKeeps
  <1>5. ASSUME NEW i \in Id, DeadlinePasses(i) PROVE FilesKept /\ AttemptsKept
    <2> DEFINE y == [incident[i] EXCEPT !.deadline = "past"]
    <2>1. Like(y, incident[i], incident[i].status)
      BY <1>0, FileFields
    <2>2. incident' = [incident EXCEPT ![i] = y]
      BY <1>5 DEF DeadlinePasses
    <2> HIDE DEF y
    <2>3. QED
      BY <1>5, <2>1, <2>2, ClockKeeps
  <1>6. ASSUME NEW w \in Worker, NEW i \in Id, Lease(w, i) PROVE FilesKept /\ AttemptsKept
    <2> DEFINE y == [incident[i] EXCEPT !.status = "leased", !.expired = FALSE,
                                        !.token = incident[i].token + 1]
    <2>1. y \in File /\ y.status = "leased" /\ y.attempts = incident[i].attempts
      BY <1>0, FileFields
    <2>2. incident' = [incident EXCEPT ![i] = y] /\ ~Locked(i)
      BY <1>6 DEF Lease
    <2> HIDE DEF y
    <2>3. QED
      BY <2>1, <2>2, RewriteKeeps DEF Rewritten
  <1>7. ASSUME NEW w \in Worker, NEW i \in Id, Resolve(w, i) \/ Fail(w, i) \/ Release(w, i)
        PROVE  FilesKept /\ AttemptsKept
    BY <1>7 DEF Resolve, Fail, Release, Close, Status
  <1>8. CASE RunDies \/ NetChanges \/ AuthorityEnds \/ \E s \in Site : SiteChanges(s) \/ ConfigChanges(s)
    BY <1>8 DEF RunDies, NetChanges, AuthorityEnds, SiteChanges, ConfigChanges
  <1>9. CASE UNCHANGED vars
    BY <1>9 DEF vars
  <1>10. QED
    BY <1>1, <1>2, <1>3, <1>4, <1>5, <1>6, <1>7, <1>8, <1>9 DEF Next

-----------------------------------------------------------------------------
(* Where nobody begins to repair, the leases of those who do are as they     *)
(* were: their files are locked.                                             *)
LEMMA LeasesStand ==
  ASSUME Shape, Repairers, FilesKept,
         \A v \in Worker : Repairing(v)' =>
             Repairing(v) /\ work'[v].id = work[v].id /\ work'[v].token = work[v].token
  PROVE  Repairers'
  <1>1. \A v \in Worker : Repairing(v) => work[v].id \in Id /\ Locked(work[v].id)
    BY DEF Repairers, Locked
  <1>2. \A v \in Worker : Repairing(v)' =>
            /\ incident'[work'[v].id].status = "leased"
            /\ incident'[work'[v].id].token = work'[v].token
            /\ work'[v].id \in Id
    BY <1>1 DEF FilesKept, Repairers, RepairIsExclusive
  <1>3. QED
    BY <1>2 DEF Repairers, RepairIsExclusive

(* Changing where a worker stands keeps its type and its lease.              *)
LEMMA StandTyped ==
  ASSUME Shape, NEW w \in Worker, NEW at \in {"idle", "ready", "acting", "acted"},
         work' = [work EXCEPT ![w].at = at]
  PROVE  /\ work' \in [Worker -> Task]
         /\ work'[w].at = at
         /\ \A v \in Worker : work'[v].id = work[v].id /\ work'[v].token = work[v].token
         /\ \A v \in Worker \ {w} : work'[v] = work[v]
  <1>1. work \in [Worker -> Task]
    BY TypesNamed DEF Shape
  <1>2. QED
    BY <1>1 DEF Task

(* Every step of a worker keeps the leases of those that repair.             *)
LEMMA WorkersRepair ==
  ASSUME Shape, Repairers, FilesKept, NEW w \in Worker,
         RepairStart(w) \/ RepairStep(w) \/ WorkerDies(w)
  PROVE  work' \in [Worker -> Task] /\ Repairers'
  <1>0. work \in [Worker -> Task] /\ incident \in [Id -> File]
    BY TypesNamed DEF Shape
  <1>1. CASE work' = work
    BY <1>0, <1>1, LeasesStand DEF Repairing
  <1>2. CASE RepairStart(w) /\ RepairAt(w, "ready")
    <2> DEFINE i == work[w].id
    <2>1. /\ i \in Id /\ incident[i].status = "leased" /\ work[w].token = incident[i].token
          /\ ~Locked(i) /\ work' = [work EXCEPT ![w].at = "ready"]
      BY <1>0, <1>2 DEF RepairStart, RepairAt, Authoritative, Active, Task
    <2>2. incident'[i].status = "leased" /\ incident'[i].token = work[w].token
      <3> DEFINE d == IF incident[i].deadline = "unset" THEN "running" ELSE incident[i].deadline
      <3>1. incident' = [incident EXCEPT ![i].deadline = d]
        BY <1>2 DEF RepairStart
      <3>2. incident[i] \in File /\ d \in {"unset", "running", "past"}
        BY <1>0, <2>1 DEF File
      <3>3. QED
        BY <1>0, <2>1, <3>1, <3>2 DEF File
    <2>3. \A v \in Worker : /\ work'[v].id = work[v].id /\ work'[v].token = work[v].token
                            /\ v # w => work'[v] = work[v]
      BY <2>1, StandTyped
    <2>4. \A v \in Worker \ {w} : Repairing(v) =>
              /\ work[v].id \in Id /\ Locked(work[v].id) /\ work[v].id # i
              /\ incident'[work[v].id].status = "leased"
              /\ incident'[work[v].id].token = work[v].token
      BY <2>1 DEF FilesKept, Repairers, RepairIsExclusive, Locked
    <2>5. RepairIsExclusive'
      BY <2>1, <2>2, <2>3, <2>4 DEF RepairIsExclusive, Repairing, Repairers
    <2>6. \A v \in Worker : Repairing(v)' => work'[v].id \in Id
      BY <2>1, <2>3, <2>4 DEF Repairing
    <2>7. work' \in [Worker -> Task]
      BY <2>1, StandTyped
    <2>8. QED
      BY <2>5, <2>6, <2>7 DEF Repairers
  <1>3. CASE RepairStep(w)
    <2>1. PICK at \in {"idle", "ready", "acting", "acted"} : work' = [work EXCEPT ![w].at = at]
      BY <1>3 DEF RepairStep, RepairAttempt, RepairAct, RepairCheck, RepairEnd, RepairAt, Leave
    <2>2. Repairing(w)
      BY <1>3 DEF RepairStep, RepairAttempt, RepairAct, RepairCheck, RepairEnd, Repairing
    <2>3. \A v \in Worker : Repairing(v)' =>
             Repairing(v) /\ work'[v].id = work[v].id /\ work'[v].token = work[v].token
      BY <2>1, <2>2, StandTyped DEF Repairing
    <2>4. QED
      BY <2>1, <2>3, StandTyped, LeasesStand
  <1>4. CASE WorkerDies(w)
    <2>1. work' = [work EXCEPT ![w] = NoWork] /\ NoWork \in Task /\ NoWork.at = "idle"
      BY <1>4 DEF WorkerDies, NoWork, Task
    <2>2. \A v \in Worker : Repairing(v)' => Repairing(v) /\ work'[v] = work[v]
      BY <1>0, <2>1 DEF Repairing
    <2>3. QED
      BY <1>0, <2>1, <2>2, LeasesStand
  <1>5. QED
    BY <1>1, <1>2, <1>3, <1>4 DEF RepairStart

(* What the other steps leave of the workers: all, or all but a new lease.   *)
LEMMA RepairersStep ==
  ASSUME Shape, Repairers, [Next]_vars
  PROVE  work' \in [Worker -> Task] /\ Repairers'
  <1>0. work \in [Worker -> Task] /\ FilesKept
    BY TypesNamed, FilesStep DEF Shape
  <1>1. ASSUME NEW w \in Worker, RepairStart(w) \/ RepairStep(w) \/ WorkerDies(w)
        PROVE  work' \in [Worker -> Task] /\ Repairers'
    BY <1>0, <1>1, WorkersRepair
  <1>2. CASE work' = work
    BY <1>0, <1>2, LeasesStand DEF Repairing
  <1>3. ASSUME NEW w \in Worker, NEW i \in Id, Lease(w, i)
        PROVE  work' \in [Worker -> Task] /\ Repairers'
    <2> DEFINE n == incident[i].token + 1
               x == [NoWork EXCEPT !.id = i, !.token = n]
    <2>0. incident \in [Id -> File]
      BY TypesNamed DEF Shape
    <2>1. x \in Task /\ x.at = "idle"
      <3>1. n \in Nat
        BY <2>0 DEF File
      <3> HIDE DEF n
      <3>2. QED
        BY <3>1 DEF NoWork, Task
    <2>2. work' = [work EXCEPT ![w] = x]
      BY <1>3 DEF Lease
    <2> HIDE DEF x
    <2>3. \A v \in Worker : Repairing(v)' => Repairing(v) /\ work'[v] = work[v]
      BY <1>0, <2>1, <2>2 DEF Repairing
    <2>4. QED
      BY <1>0, <2>1, <2>2, <2>3, LeasesStand
  <1>4. CASE Collect
    BY <1>2, <1>4 DEF Collect, Start, Retire, ProbeSite, Apply, RetiredAll, ProbedAll,
       FileIncident, Save, Complete, ResolveRecovered, RecoveryRaises
  <1>5. ASSUME NEW i \in Id, LeaseHealthy(i) \/ LeaseDies(i) \/ LeaseExpires(i) \/ DeadlinePasses(i)
        PROVE  work' = work
    BY <1>5 DEF LeaseHealthy, LeaseDies, LeaseExpires, DeadlinePasses
  <1>6. ASSUME NEW w \in Worker, NEW i \in Id, Resolve(w, i) \/ Fail(w, i) \/ Release(w, i)
        PROVE  work' = work
    BY <1>6 DEF Resolve, Fail, Release, Close
  <1>7. CASE RunDies \/ NetChanges \/ AuthorityEnds \/ \E s \in Site : SiteChanges(s) \/ ConfigChanges(s)
    BY <1>2, <1>7 DEF RunDies, NetChanges, AuthorityEnds, SiteChanges, ConfigChanges
  <1>8. CASE UNCHANGED vars
    BY <1>2, <1>8 DEF vars
  <1>9. QED
    BY <1>1, <1>2, <1>3, <1>4, <1>5, <1>6, <1>7, <1>8 DEF Next

(* Nobody but a worker that repairs acts.                                    *)
LEMMA ActsStep ==
  ASSUME Shape, [Next]_vars,
         ~\E w \in Worker : RepairAttempt(w) \/ RepairAct(w)
  PROVE  /\ acts' = acts
         /\ \A w \in Worker : work'[w].at = "acting" => work[w].at = "acting" /\ work'[w] = work[w]
  <1>0. work \in [Worker -> Task]
    BY TypesNamed DEF Shape
  <1> DEFINE Kept == /\ acts' = acts
                     /\ \A w \in Worker : work'[w].at = "acting" =>
                            work[w].at = "acting" /\ work'[w] = work[w]
  <1>1. CASE Collect
    BY <1>1 DEF Collect, Start, Retire, ProbeSite, Apply, RetiredAll, ProbedAll,
       FileIncident, Save, Complete, ResolveRecovered, RecoveryRaises
  <1>2. ASSUME NEW i \in Id, LeaseHealthy(i) \/ LeaseDies(i) \/ LeaseExpires(i) \/ DeadlinePasses(i)
        PROVE  Kept
    BY <1>2 DEF LeaseHealthy, LeaseDies, LeaseExpires, DeadlinePasses
  <1>3. ASSUME NEW w \in Worker, NEW i \in Id, Resolve(w, i) \/ Fail(w, i) \/ Release(w, i)
        PROVE  Kept
    BY <1>3 DEF Resolve, Fail, Release, Close
  <1>4. ASSUME NEW w \in Worker, NEW i \in Id, Lease(w, i) PROVE Kept
    <2>1. acts' = acts /\ work' = [work EXCEPT ![w] = [NoWork EXCEPT !.id = i,
                                                       !.token = incident[i].token + 1]]
      BY <1>4 DEF Lease
    <2>2. work'[w].at = "idle" /\ \A v \in Worker \ {w} : work'[v] = work[v]
      BY <1>0, <2>1 DEF NoWork
    <2>3. QED
      BY <2>1, <2>2
  <1>5. ASSUME NEW w \in Worker, RepairStart(w) \/ RepairCheck(w) \/ RepairEnd(w)
        PROVE  Kept
    <2>1. acts' = acts
      BY <1>5 DEF RepairStart, RepairCheck, RepairEnd
    <2>2. work' = work \/ \E at \in {"idle", "ready"} : work' = [work EXCEPT ![w].at = at]
      BY <1>5 DEF RepairStart, RepairCheck, RepairEnd, RepairAt, Leave
    <2>3. QED
      BY <2>1, <2>2, StandTyped
  <1>6. ASSUME NEW w \in Worker, WorkerDies(w) PROVE Kept
    BY <1>0, <1>6 DEF WorkerDies, NoWork
  <1>7. CASE RunDies \/ NetChanges \/ AuthorityEnds \/ \E s \in Site : SiteChanges(s) \/ ConfigChanges(s)
    BY <1>7 DEF RunDies, NetChanges, AuthorityEnds, SiteChanges, ConfigChanges
  <1>8. CASE UNCHANGED vars
    BY <1>8 DEF vars
  <1>9. QED
    BY <1>1, <1>2, <1>3, <1>4, <1>5, <1>6, <1>7, <1>8 DEF Next, RepairStep

(* Every step keeps the count of attempts ahead of the actions.              *)
LEMMA CountedStep ==
  ASSUME Shape, Repairers, Counted, [Next]_vars
  PROVE  acts' \in [Id -> Nat] /\ Counted'
  <1>0. /\ work \in [Worker -> Task] /\ acts \in [Id -> Nat]
        /\ incident \in [Id -> File] /\ incident' \in [Id -> File]
    BY TypesNamed, FilesStep DEF Shape, FilesKept
  <1>a. MaxRepairs \in Nat
    BY ConstantsAssumption
  <1>b. \A w \in Worker : work[w].at = "acting" => work[w].id \in Id
    BY DEF Repairers, Repairing
  <1>1. ASSUME NEW w \in Worker, RepairAttempt(w) PROVE acts' \in [Id -> Nat] /\ Counted'
    <2> DEFINE i == work[w].id
    <2>1. i \in Id /\ incident[i].attempts < MaxRepairs /\ acts' = acts
          /\ incident' = [incident EXCEPT ![i].attempts = @ + 1]
          /\ work' = [work EXCEPT ![w].at = "acting"]
      BY <1>1 DEF RepairAttempt, AttemptsLeft, RepairAt, Repairers, Repairing
    <2>2. \A j \in Id : incident'[j].attempts = IF j = i THEN incident[j].attempts + 1
                                                         ELSE incident[j].attempts
      BY <1>0, <2>1 DEF File
    <2>3. \A j \in Id : incident[j].attempts \in Nat /\ acts[j] \in Nat
      BY <1>0 DEF File
    <2>4. \A j \in Id : acts'[j] <= incident'[j].attempts /\ incident'[j].attempts <= MaxRepairs
      BY <1>a, <2>1, <2>2, <2>3 DEF Counted
    <2>5. ASSUME NEW v \in Worker, work'[v].at = "acting"
          PROVE  acts'[work'[v].id] < incident'[work'[v].id].attempts
      <3>1. CASE v = w
        <4>1. work'[v].id = i
          BY <2>1, <3>1, StandTyped
        <4>2. QED
          BY <2>1, <2>2, <2>3, <4>1 DEF Counted
      <3>2. CASE v # w
        <4>1. work'[v] = work[v]
          BY <2>1, <3>2, StandTyped
        <4>2. QED
          BY <1>b, <2>1, <2>2, <2>3, <2>5, <4>1 DEF Counted
      <3>3. QED
        BY <3>1, <3>2
    <2>6. QED
      BY <1>0, <2>1, <2>4, <2>5 DEF Counted
  <1>2. ASSUME NEW w \in Worker, RepairAct(w) PROVE acts' \in [Id -> Nat] /\ Counted'
    <2> DEFINE i == work[w].id
    <2>1. i \in Id /\ work[w].at = "acting" /\ incident' = incident
          /\ acts' = [acts EXCEPT ![i] = @ + 1]
          /\ work' = [work EXCEPT ![w].at = "acted"]
      BY <1>2 DEF RepairAct, RepairAt, Repairers, Repairing
    <2>2. \A j \in Id : incident[j].attempts \in Nat /\ acts[j] \in Nat
      BY <1>0 DEF File
    <2>3. acts[i] < incident[i].attempts
      BY <2>1 DEF Counted
    <2>4. \A j \in Id : acts'[j] <= incident'[j].attempts /\ incident'[j].attempts <= MaxRepairs
      BY <1>0, <2>1, <2>2, <2>3 DEF Counted
    <2>5. ASSUME NEW v \in Worker, work'[v].at = "acting"
          PROVE  acts'[work'[v].id] < incident'[work'[v].id].attempts
      <3>1. v # w /\ work'[v] = work[v]
        BY <2>1, <2>5, StandTyped
      <3>2. work[v].id # i /\ work[v].id \in Id
        BY <2>1, <2>5, <3>1, <1>b DEF Repairers, RepairIsExclusive, Repairing
      <3>3. QED
        BY <1>0, <2>1, <2>5, <3>1, <3>2 DEF Counted
    <2>6. QED
      BY <1>0, <2>1, <2>4, <2>5 DEF Counted
  <1>3. CASE ~\E w \in Worker : RepairAttempt(w) \/ RepairAct(w)
    <2>1. AttemptsKept
      BY <1>3, FilesStep
    <2>2. /\ acts' = acts
          /\ \A w \in Worker : work'[w].at = "acting" =>
                 work[w].at = "acting" /\ work'[w] = work[w]
      BY <1>3, ActsStep
    <2>3. QED
      BY <1>0, <1>b, <2>1, <2>2 DEF Counted, AttemptsKept
  <1>4. QED
    BY <1>1, <1>2, <1>3

-----------------------------------------------------------------------------
(* The refinement: what a step does to an incident is a step of its life.    *)
Phases == [i \in Id |-> incident[i].status]

(* A status that is written is a move of the incident.                       *)
LEMMA UpdateMoves ==
  ASSUME TypeOK, NEW i \in Id, NEW st, Update(i, st)
  PROVE  Phases' = [Phases EXCEPT ![i] = st]
  <1>1. incident \in [Id -> File]
    BY TypesNamed
  <1>2. \A j \in Id : incident'[j].status = IF j = i THEN st ELSE incident[j].status
    BY <1>1 DEF Update, File
  <1>3. QED
    BY <1>2 DEF Phases

(* The life of an incident is not told by anything but its status and the    *)
(* actions.                                                                  *)
LEMMA LifeStands ==
  ASSUME incident' = incident, acts' = acts
  PROVE  UNCHANGED Life!vars
  BY DEF Life!vars

(* A rewrite that keeps every status is a stutter.                           *)
LEMMA LikeStands ==
  ASSUME TypeOK, NEW i \in Id, NEW y, incident' = [incident EXCEPT ![i] = y],
         y.status = incident[i].status, acts' = acts
  PROVE  UNCHANGED Life!vars
  <1>1. \A j \in Id : incident'[j].status = incident[j].status
    BY TypesNamed
  <1>2. QED
    BY <1>1 DEF Life!vars

(* Each move of an incident the code makes.                                  *)
LEMMA MovesAllowed ==
  ASSUME TypeOK, NEW i \in Id, NEW st, acts' = acts, Phases' = [Phases EXCEPT ![i] = st],
         \/ incident[i].status = "absent" /\ st = "queued"
         \/ incident[i].status \in {"queued", "failed", "leased"} /\ st = "leased"
         \/ incident[i].status = "leased" /\ st \in {"queued", "failed"}
         \/ incident[i].status \in {"queued", "leased"} /\ st = "resolved"
         \/ incident[i].status \in {"queued", "failed"} /\ st = "cancelled"
  PROVE  Life!Next
  <1>1. Phases[i] = incident[i].status
    BY DEF Phases
  <1>2. \/ Life!File(i) \/ Life!Lease(i) \/ Life!GiveBack(i) \/ Life!GiveUp(i)
        \/ Life!Resolve(i) \/ Life!Cancel(i)
    BY <1>1 DEF Phases, Life!File, Life!Lease, Life!GiveBack, Life!GiveUp, Life!Resolve,
       Life!Cancel, Life!Move
  <1>3. QED
    BY <1>2 DEF Life!Next

(* The collector files, resolves and cancels.                                *)
LEMMA CollectLife ==
  ASSUME Shape, Collect
  PROVE  Life!Next \/ UNCHANGED Life!vars
  <1> USE DEF Shape
  <1>0. acts' = acts
    BY DEF Collect, Start, Retire, ProbeSite, Apply, RetiredAll, ProbedAll,
       FileIncident, Save, Complete, ResolveRecovered, RecoveryRaises
  <1>1. CASE incident' = incident
    BY <1>0, <1>1, LifeStands
  <1>2. ASSUME NEW s \in Site, Retire(s), incident' # incident PROVE Life!Next
    <2> DEFINE i == run.state[s].id
    <2>1. i # None /\ incident[i].status \in {"queued", "failed"} /\ Update(i, "cancelled")
      BY <1>2 DEF Retire
    <2>2. i \in Id
      BY <2>1, TypesNamed DEF SiteState
    <2>3. QED
      BY <1>0, <2>1, <2>2, UpdateMoves, MovesAllowed
  <1>3. ASSUME FileIncident, incident' # incident PROVE Life!Next
    <2> DEFINE i == run.event[2]
    <2>1. i \in Id
      BY <1>3 DEF FileIncident, Running, Collecting
    <2>2. incident[i].status = "absent" /\ Update(i, "queued")
      BY <1>3 DEF FileIncident, Exists
    <2>3. QED
      BY <1>0, <2>1, <2>2, UpdateMoves, MovesAllowed
  <1>4. ASSUME NEW i \in Id, ResolveRecovered(i), incident' # incident PROVE Life!Next
    <2>1. Unleased(i) /\ May(i, "resolved") /\ Update(i, "resolved")
      BY <1>4 DEF ResolveRecovered
    <2>2. incident[i].status = "queued"
      BY <2>1 DEF Unleased, May, Transitions
    <2>3. QED
      BY <1>0, <2>1, <2>2, UpdateMoves, MovesAllowed
  <1>5. \/ incident' = incident \/ FileIncident
        \/ (\E s \in Site : Retire(s)) \/ (\E i \in Id : ResolveRecovered(i))
    BY DEF Collect, Start, ProbeSite, Apply, RetiredAll, ProbedAll, Save, Complete,
       RecoveryRaises
  <1>6. QED
    BY <1>1, <1>2, <1>3, <1>4, <1>5

(* A worker repairs within the limit while it has the lease.                 *)
LEMMA WorkersLife ==
  ASSUME Watching, NEW w \in Worker, RepairStart(w) \/ RepairStep(w) \/ WorkerDies(w)
  PROVE  Life!Next \/ UNCHANGED Life!vars
  <1> USE DEF Watching, Shape
  <1>0. incident \in [Id -> File] /\ work \in [Worker -> Task] /\ acts \in [Id -> Nat]
    BY TypesNamed
  <1> DEFINE i == work[w].id
  <1>1. CASE RepairStart(w)
    <2> DEFINE d == IF incident[i].deadline = "unset" THEN "running" ELSE incident[i].deadline
               y == [incident[i] EXCEPT !.deadline = d]
    <2>1. i \in Id /\ incident' = [incident EXCEPT ![i] = y] /\ acts' = acts
      BY <1>0, <1>1 DEF RepairStart, Task
    <2>2. incident[i] \in File /\ d \in {"unset", "running", "past"}
      BY <1>0, <2>1 DEF File
    <2>3. y.status = incident[i].status
      BY <2>2, FileFields DEF Like
    <2> HIDE DEF y
    <2>4. QED
      BY <2>1, <2>3, LikeStands
  <1>2. CASE RepairAttempt(w)
    <2> DEFINE y == [incident[i] EXCEPT !.attempts = incident[i].attempts + 1]
    <2>1. i \in Id /\ incident' = [incident EXCEPT ![i] = y] /\ acts' = acts
      BY <1>2 DEF RepairAttempt, Repairers, Repairing
    <2>2. y.status = incident[i].status
      BY <1>0, <2>1, FileFields
    <2> HIDE DEF y
    <2>3. QED
      BY <2>1, <2>2, LikeStands
  <1>3. CASE RepairAct(w)
    <2>1. /\ i \in Id /\ work[w].at = "acting" /\ incident' = incident
          /\ acts' = [acts EXCEPT ![i] = @ + 1]
      BY <1>3 DEF RepairAct, Repairers, Repairing
    <2>2. incident[i].status = "leased"
      BY <2>1 DEF Repairers, RepairIsExclusive, Repairing
    <2>3. acts[i] < incident[i].attempts /\ incident[i].attempts <= MaxRepairs
      BY <2>1 DEF Counted
    <2>4. acts[i] \in Nat /\ incident[i].attempts \in Nat /\ MaxRepairs \in Nat
      BY <1>0, <2>1, ConstantsAssumption DEF File
    <2>5. acts[i] < MaxRepairs
      BY <2>3, <2>4
    <2>6. Phases' = Phases /\ Phases[i] = "leased"
      BY <2>1, <2>2 DEF Phases
    <2>7. Life!Repair(i)
      BY <2>1, <2>5, <2>6 DEF Life!Repair, Phases
    <2>8. QED
      BY <2>1, <2>7 DEF Life!Next
  <1>4. CASE RepairCheck(w) \/ RepairEnd(w) \/ WorkerDies(w)
    BY <1>4, LifeStands DEF RepairCheck, RepairEnd, WorkerDies
  <1>5. QED
    BY <1>1, <1>2, <1>3, <1>4 DEF RepairStep

(* Every step is a step of the life of one incident, or of none.             *)
LEMMA LifeStep ==
  ASSUME Watching, [Next]_vars
  PROVE  Life!Next \/ UNCHANGED Life!vars
  <1> USE DEF Watching, Shape
  <1>0. incident \in [Id -> File]
    BY TypesNamed
  <1>1. CASE Collect
    BY <1>1, CollectLife
  <1>2. ASSUME NEW w \in Worker, RepairStart(w) \/ RepairStep(w) \/ WorkerDies(w)
        PROVE  Life!Next \/ UNCHANGED Life!vars
    BY <1>2, WorkersLife
  <1>3. ASSUME NEW i \in Id, LeaseHealthy(i) PROVE Life!Next
    BY <1>3, UpdateMoves, MovesAllowed DEF LeaseHealthy, Expired
  <1>4. ASSUME NEW i \in Id, LeaseDies(i) PROVE Life!Next
    BY <1>4, UpdateMoves, MovesAllowed DEF LeaseDies, Expired
  <1>5. ASSUME NEW i \in Id, LeaseExpires(i) PROVE UNCHANGED Life!vars
    <2> DEFINE y == [incident[i] EXCEPT !.expired = TRUE]
    <2>1. y.status = incident[i].status
      BY <1>0, FileFields DEF Like
    <2>2. incident' = [incident EXCEPT ![i] = y] /\ acts' = acts
      BY <1>5 DEF LeaseExpires
    <2> HIDE DEF y
    <2>3. QED
      BY <2>1, <2>2, LikeStands
  <1>6. ASSUME NEW i \in Id, DeadlinePasses(i) PROVE UNCHANGED Life!vars
    <2> DEFINE y == [incident[i] EXCEPT !.deadline = "past"]
    <2>1. y.status = incident[i].status
      BY <1>0, FileFields DEF Like
    <2>2. incident' = [incident EXCEPT ![i] = y] /\ acts' = acts
      BY <1>6 DEF DeadlinePasses
    <2> HIDE DEF y
    <2>3. QED
      BY <2>1, <2>2, LikeStands
  <1>7. ASSUME NEW w \in Worker, NEW i \in Id, Lease(w, i) PROVE Life!Next
    <2> DEFINE y == [incident[i] EXCEPT !.status = "leased", !.expired = FALSE,
                                        !.token = incident[i].token + 1]
    <2>1. y.status = "leased"
      BY <1>0, FileFields
    <2>2. /\ incident' = [incident EXCEPT ![i] = y] /\ acts' = acts
          /\ incident[i].status \in {"queued", "failed", "leased"}
      BY <1>7 DEF Lease, Leasable, Expired
    <2> HIDE DEF y
    <2>3. Phases' = [Phases EXCEPT ![i] = "leased"]
      BY <1>0, <2>1, <2>2 DEF Phases
    <2>4. QED
      BY <2>2, <2>3, MovesAllowed
  <1>8. ASSUME NEW w \in Worker, NEW i \in Id, Resolve(w, i) \/ Fail(w, i) \/ Release(w, i)
        PROVE  Life!Next
    <2>1. PICK st \in {"resolved", "failed", "queued"} : Close(w, i, st)
      BY <1>8 DEF Resolve, Fail, Release
    <2>2. incident[i].status = "leased" /\ Update(i, st) /\ acts' = acts
      BY <2>1 DEF Close, Active
    <2>3. QED
      BY <2>2, UpdateMoves, MovesAllowed
  <1>9. CASE RunDies \/ NetChanges \/ AuthorityEnds \/ \E s \in Site : SiteChanges(s) \/ ConfigChanges(s)
    BY <1>9, LifeStands DEF RunDies, NetChanges, AuthorityEnds, SiteChanges, ConfigChanges
  <1>10. CASE UNCHANGED vars
    BY <1>10, LifeStands DEF vars
  <1>11. QED
    BY <1>1, <1>2, <1>3, <1>4, <1>5, <1>6, <1>7, <1>8, <1>9, <1>10 DEF Next

-----------------------------------------------------------------------------
(* The locals of a run, field by field.                                      *)
Locals(r) == r = [at |-> r.at, occ |-> r.occ, conf |-> r.conf, todo |-> r.todo,
                  seen |-> r.seen, state |-> r.state, event |-> r.event]

(* Nothing is known when no run is in progress.                              *)
LEMMA NoRunShape ==
  /\ Locals(NoRun) /\ NoRun.at = "idle"
  /\ NoRun.state = [s \in Site |-> Unseen] /\ NoRun.state \in [Site -> SiteState]
  /\ Names(NoRun.state)
  BY DEF NoRun, Locals, Unseen, SiteState, Names

(* Such a run leaves nothing to keep.                                        *)
LEMMA NoRunTyped ==
  ASSUME run' = NoRun
  PROVE  Collecting' /\ run'.state \in [Site -> SiteState]
  BY NoRunShape DEF Collecting, Locals

(* What a run learns of a site is the state of a site, which names an        *)
(* incident while it is down.                                                *)
LEMMA ObservedTyped ==
  ASSUME Shape, NEW s \in Site, NEW kind, run.occ \in Occurrence
  PROVE  LET result == Observed(s, kind) IN
         /\ result[1] \in SiteState
         /\ IF result[1].status = "down" THEN result[1].id \in Occurrence \X {s}
                                         ELSE result[1].id = None
         /\ result[2] \in {None, "recovered", "confirmed_failure", "transient_failure"}
         /\ result[2] = "recovered" /\ result[2] # None =>
               run.state[s].status = "down" /\ result[1].status # "down"
         /\ result[2] = "confirmed_failure" => result[1].id = <<run.occ, s>>
         /\ result[1].status = "down" =>
               \/ result[2] = "confirmed_failure" /\ result[1].id = <<run.occ, s>>
               \/ run.state[s].status = "down" /\ result[1].id = run.state[s].id
                  /\ result[2] = None
  <1>1. run.state[s] \in SiteState
    BY TypesNamed DEF Shape
  <1>2. IF run.state[s].status = "down" THEN run.state[s].id \in Occurrence \X {s}
                                        ELSE run.state[s].id = None
    BY DEF Shape, Collecting, Names
  <1> DEFINE old == run.state[s]
  <1>3. old.cycles + 1 \in Nat /\ <<run.occ, s>> \in Id /\ <<run.occ, s>> # None
    BY <1>1, ConstantsAssumption DEF SiteState, Id
  <1>0. None \notin {"confirmed_failure", "transient_failure", "recovered"}
    BY ConstantsAssumption DEF Kinds
  <1>4. CASE kind = "monitor_path"
    BY <1>0, <1>1, <1>2, <1>4 DEF Observed
  <1>5. CASE kind = "ok"
    <2>1. Observed(s, kind) =
            <<UpAgain(old), IF old.status = "down" THEN "recovered" ELSE None>>
      BY <1>5 DEF Observed
    <2>2. UpAgain(old) \in SiteState /\ UpAgain(old).status = "healthy" /\ UpAgain(old).id = None
      BY DEF UpAgain, SiteState
    <2>3. QED
      BY <1>0, <2>1, <2>2
  <1>6. CASE kind \notin {"ok", "monitor_path"} /\ old.status = "down"
    <2> DEFINE x == [old EXCEPT !.cycles = old.cycles + 1]
    <2>1. Observed(s, kind) = <<x, None>>
      BY <1>6 DEF Observed
    <2>2. x \in SiteState /\ x.status = "down" /\ x.id = old.id
      BY <1>1, <1>3, <1>6 DEF SiteState
    <2> HIDE DEF x
    <2>3. QED
      BY <1>0, <1>2, <1>6, <2>1, <2>2
  <1>7. CASE /\ kind \notin {"ok", "monitor_path"} /\ old.status # "down"
             /\ old.cycles + 1 >= Threshold[s]
    <2> DEFINE x == [status |-> "down", cycles |-> old.cycles + 1, id |-> <<run.occ, s>>]
    <2>1. Observed(s, kind) = <<x, "confirmed_failure">>
      BY <1>7 DEF Observed
    <2>2. x \in SiteState /\ x.status = "down" /\ x.id = <<run.occ, s>>
      BY <1>3 DEF SiteState
    <2> HIDE DEF x
    <2>3. QED
      BY <2>1, <2>2
  <1>8. CASE /\ kind \notin {"ok", "monitor_path"} /\ old.status # "down"
             /\ ~(old.cycles + 1 >= Threshold[s])
    <2> DEFINE x == [old EXCEPT !.status = "suspect", !.cycles = old.cycles + 1]
    <2>1. Observed(s, kind) = <<x, "transient_failure">>
      BY <1>8 DEF Observed
    <2>2. x \in SiteState /\ x.status = "suspect" /\ x.id = old.id
      <3> DEFINE n == old.cycles + 1
      <3>1. n \in Nat
        BY <1>3
      <3> HIDE DEF n
      <3>2. QED
        BY <1>1, <3>1 DEF SiteState, n
    <2> HIDE DEF x
    <2>3. QED
      BY <1>2, <1>8, <2>1, <2>2
  <1>9. QED
    BY <1>4, <1>5, <1>6, <1>7, <1>8

(* What one site of the final loop does to the run and to the event file.    *)
LEMMA ApplyShape ==
  ASSUME Shape, NEW s \in Site, Apply(s)
  PROVE  /\ Collecting' /\ run'.state \in [Site -> SiteState]
         /\ log' \in [EventId -> Nat]
         /\ \A e \in EventId : log[e] = 1 => log'[e] = 1
         /\ \A r \in Site \ {s} : run'.state[r] = run.state[r]
         /\ run'.state[s].status = "down" =>
               \/ /\ run'.at = "filing" /\ run'.event = <<"confirmed_failure", run'.state[s].id>>
                  /\ log'[<<run'.state[s].id[1], s, "confirmed_failure">>] = 1
               \/ run.state[s].status = "down" /\ run'.state[s].id = run.state[s].id
  <1> DEFINE result == Observed(s, Effective(s))
             id == Named(s, result[2])
             at == IF id = None THEN "applying" ELSE "filing"
             event == IF id = None THEN None ELSE <<result[2], id>>
             state == [run.state EXCEPT ![s] = result[1]]
             todo == run.todo \ {s}
  <1>0. /\ run.state \in [Site -> SiteState] /\ log \in [EventId -> Nat]
        /\ run.at = "applying" /\ run.occ \in Occurrence /\ Names(run.state) /\ Locals(run)
    BY TypesNamed DEF Apply, Shape, Collecting, Running, Locals
  <1>1. /\ result[1] \in SiteState
        /\ IF result[1].status = "down" THEN result[1].id \in Occurrence \X {s}
                                        ELSE result[1].id = None
        /\ result[2] \in {None, "recovered", "confirmed_failure", "transient_failure"}
        /\ result[2] = "recovered" /\ result[2] # None => run.state[s].status = "down"
        /\ result[2] = "confirmed_failure" => result[1].id = <<run.occ, s>>
        /\ result[1].status = "down" =>
              \/ result[2] = "confirmed_failure" /\ result[1].id = <<run.occ, s>>
              \/ run.state[s].status = "down" /\ result[1].id = run.state[s].id
                 /\ result[2] = None
    BY <1>0, ObservedTyped
  <1>2. run' = [run EXCEPT !.todo = todo, !.state = state, !.at = at, !.event = event]
    BY <1>0 DEF Apply, Locals
  <1>3. IF result[2] = None THEN log' = log
                            ELSE log' = [log EXCEPT ![<<run.occ, s, result[2]>>] = 1]
    BY DEF Apply, AppendOnce
  <1>4. /\ None \notin Id
        /\ None \notin {"confirmed_failure", "transient_failure", "recovered"}
    BY ConstantsAssumption DEF Kinds
  <1> HIDE DEF result
  <1>5. /\ result[2] = "confirmed_failure" => id = <<run.occ, s>> /\ id \in Id
        /\ result[2] = "recovered" => id = run.state[s].id /\ id \in Id
        /\ result[2] \notin {"confirmed_failure", "recovered"} => id = None
    <2>1. <<run.occ, s>> \in Id
      BY <1>0 DEF Id
    <2>2. run.state[s].status = "down" => run.state[s].id \in Id
      BY <1>0 DEF Names, Id
    <2>3. QED
      BY <1>1, <1>4, <2>1, <2>2 DEF Named
  <1>6. /\ at = "filing" => event \in {"confirmed_failure", "recovered"} \X Id
        /\ at \in {"applying", "filing"}
        /\ result[2] = "confirmed_failure" =>
              at = "filing" /\ event = <<"confirmed_failure", <<run.occ, s>>>>
    BY <1>1, <1>4, <1>5
  <1>7. state \in [Site -> SiteState] /\ Names(state)
    BY <1>0, <1>1 DEF Names
  <1> HIDE DEF id, at, event, state, todo
  <1>8. run' = [at |-> at, occ |-> run.occ, conf |-> run.conf, todo |-> todo,
                seen |-> run.seen, state |-> state, event |-> event]
    BY <1>0, <1>2 DEF Locals
  <1>9. /\ run'.at = at /\ run'.occ = run.occ /\ run'.state = state /\ run'.event = event
        /\ Locals(run')
    BY <1>8 DEF Locals
  <1>10. Collecting'
    BY <1>0, <1>6, <1>7, <1>9 DEF Collecting, Locals
  <1>11. log' \in [EventId -> Nat] /\ \A e \in EventId : log[e] = 1 => log'[e] = 1
    BY <1>0, <1>3
  <1>12. result[2] = "confirmed_failure" => log'[<<run.occ, s, "confirmed_failure">>] = 1
    <2>1. <<run.occ, s, "confirmed_failure">> \in EventId
      BY <1>0 DEF EventId, Kinds
    <2>2. QED
      BY <1>0, <1>3, <1>4, <2>1
  <1>13. run'.state[s] = result[1] /\ \A r \in Site \ {s} : run'.state[r] = run.state[r]
    BY <1>0, <1>9 DEF state
  <1>14. run'.state[s].status = "down" =>
            \/ /\ run'.at = "filing" /\ run'.event = <<"confirmed_failure", run'.state[s].id>>
               /\ log'[<<run'.state[s].id[1], s, "confirmed_failure">>] = 1
            \/ run.state[s].status = "down" /\ run'.state[s].id = run.state[s].id
    BY <1>1, <1>6, <1>9, <1>12, <1>13
  <1>15. QED
    BY <1>7, <1>9, <1>10, <1>11, <1>13, <1>14

(* The collector's part of the state.                                        *)
Collected ==
    /\ Collecting' /\ run'.state \in [Site -> SiteState]
    /\ saved' \in [Site -> SiteState] /\ Names(saved)'
    /\ log' \in [EventId -> Nat]
    /\ OnRecord'

(* A run that learns nothing of a site that is down, and has nothing to file *)
(* or has filed it.                                                          *)
LEMMA RunGoesOn ==
  ASSUME Shape, OnRecord, FilesKept, Collecting', run'.state \in [Site -> SiteState],
         saved' = saved, log' = log,
         \A s \in Site : run'.state[s].status = "down" =>
             run.state[s].status = "down" /\ run'.state[s].id = run.state[s].id,
         \A id \in Id : Filing(id) => Filing(id)' \/ Exists(id)'
  PROVE  Collected
  <1>1. saved \in [Site -> SiteState] /\ Names(saved) /\ log \in [EventId -> Nat]
    BY TypesNamed DEF Shape
  <1>2. \A s \in Site : /\ saved[s].status = "down" => saved[s].id \in Id
                        /\ run.state[s].status = "down" => run.state[s].id \in Id
    BY <1>1 DEF Names, Id, Shape, Collecting
  <1>a. \A id \in Id : Exists(id) => incident'[id].status # "absent"
    BY DEF FilesKept, Exists
  <1>3. ASSUME NEW s \in Site PROVE SavedOnRecord(s)'
    BY <1>2, <1>a DEF OnRecord, SavedOnRecord, Announced, Exists
  <1>4. ASSUME NEW s \in Site PROVE RunOnRecord(s)'
    BY <1>2, <1>a DEF OnRecord, RunOnRecord, Announced, Exists, Filing
  <1>5. QED
    BY <1>1, <1>3, <1>4 DEF Collected, OnRecord, Names

(* A step of the collector.                                                  *)
LEMMA CollectShape ==
  ASSUME Shape, OnRecord, FilesKept, Collect
  PROVE  Collected
  <1>0. /\ saved \in [Site -> SiteState] /\ run.state \in [Site -> SiteState]
        /\ Names(saved) /\ log \in [EventId -> Nat] /\ incident \in [Id -> File]
        /\ Names(run.state) /\ Locals(run) /\ (run.at # "idle" => run.occ \in Occurrence)
    BY TypesNamed DEF Shape, Collecting, Locals
  <1>00. \A s \in Site : /\ saved[s].status = "down" => saved[s].id \in Id
                         /\ run.state[s].status = "down" => run.state[s].id \in Id
    BY <1>0 DEF Names, Id
  <1>1. ASSUME NEW o \in Occurrence, Start(o) PROVE Collected
    <2>1. run' = [at |-> "retiring", occ |-> o, conf |-> enabled,
                  todo |-> {s \in Site \ enabled : saved[s].status # "unknown"},
                  seen |-> <<>>, state |-> saved, event |-> None]
          /\ saved' = saved /\ log' = log
      BY <1>1 DEF Start, NoRun
    <2>2. Collecting' /\ run'.state = saved /\ run'.at = "retiring"
      BY <1>0, <2>1 DEF Collecting
    <2>3. OnRecord'
      BY <1>00, <2>1, <2>2 DEF OnRecord, SavedOnRecord, RunOnRecord, FilesKept, Exists, Announced
    <2>4. QED
      BY <1>0, <2>1, <2>2, <2>3 DEF Collected, Names
  <1>2. ASSUME NEW s \in Site, Retire(s) PROVE Collected
    <2> DEFINE x == [run.state[s] EXCEPT !.status = "retired", !.id = None]
               todo == run.todo \ {s}
               state == [run.state EXCEPT ![s] = x]
    <2>1. run' = [run EXCEPT !.todo = todo, !.state = state] /\ run.at = "retiring"
          /\ saved' = saved /\ log' = log
      BY <1>0, <1>2 DEF Retire, Running, Locals, files
    <2>2. x \in SiteState /\ x.status = "retired" /\ x.id = None
      BY <1>0 DEF SiteState
    <2> HIDE DEF x
    <2>3. state \in [Site -> SiteState] /\ Names(state)
          /\ \A r \in Site : state[r].status = "down" =>
                run.state[r].status = "down" /\ state[r].id = run.state[r].id
      BY <1>0, <2>2 DEF Names
    <2> HIDE DEF todo, state
    <2>4. run' = [at |-> run.at, occ |-> run.occ, conf |-> run.conf, todo |-> todo,
                  seen |-> run.seen, state |-> state, event |-> run.event]
      BY <1>0, <2>1 DEF Locals
    <2>5. Collecting' /\ run'.state = state /\ run'.at = "retiring"
      BY <1>0, <2>1, <2>3, <2>4 DEF Collecting
    <2>6. QED
      BY <2>1, <2>3, <2>5, RunGoesOn DEF Filing
  <1>3. CASE RetiredAll \/ ProbedAll
    <2>1. \E step \in {"probing", "applying"} : \E seen :
              run' = [[run EXCEPT !.at = step, !.todo = run.conf] EXCEPT !.seen = seen]
      <3>1. CASE RetiredAll
        BY <3>1 DEF RetiredAll, Go
      <3>2. CASE ProbedAll
        <4>1. run' = [run EXCEPT !.at = "applying", !.todo = run.conf]
          BY <3>2 DEF ProbedAll, Go
        <4>2. run' = [[run EXCEPT !.at = "applying", !.todo = run.conf] EXCEPT !.seen = run.seen]
          BY <1>0, <4>1 DEF Locals
        <4>3. QED
          BY <4>2
      <3>3. QED
        BY <1>3, <3>1, <3>2
    <2>a. PICK step \in {"probing", "applying"} :
              \E seen : run' = [[run EXCEPT !.at = step, !.todo = run.conf] EXCEPT !.seen = seen]
      BY <2>1
    <2>b. PICK seen : run' = [[run EXCEPT !.at = step, !.todo = run.conf] EXCEPT !.seen = seen]
      BY <2>a
    <2>2. run.at \in {"retiring", "probing"} /\ saved' = saved /\ log' = log
      BY <1>3 DEF RetiredAll, ProbedAll, Running, files
    <2>3. run' = [at |-> step, occ |-> run.occ, conf |-> run.conf, todo |-> run.conf,
                  seen |-> seen, state |-> run.state, event |-> run.event]
      BY <1>0, <2>b DEF Locals
    <2>4. Collecting' /\ run'.state = run.state
      BY <1>0, <2>2, <2>3 DEF Collecting
    <2>5. QED
      BY <1>0, <2>2, <2>4, RunGoesOn DEF Filing
  <1>4. ASSUME NEW s \in Site, ProbeSite(s) PROVE Collected
    <2> DEFINE todo == run.todo \ {s}
               seen == [run.seen EXCEPT ![s] = Probe(s)]
    <2>1. run' = [run EXCEPT !.todo = todo, !.seen = seen] /\ run.at = "probing"
          /\ saved' = saved /\ log' = log
      BY <1>0, <1>4 DEF ProbeSite, Running, Locals, files
    <2> HIDE DEF todo, seen
    <2>2. run' = [at |-> run.at, occ |-> run.occ, conf |-> run.conf, todo |-> todo,
                  seen |-> seen, state |-> run.state, event |-> run.event]
      BY <1>0, <2>1 DEF Locals
    <2>3. Collecting' /\ run'.state = run.state
      BY <1>0, <2>1, <2>2 DEF Collecting
    <2>4. QED
      BY <1>0, <2>1, <2>3, RunGoesOn DEF Filing
  <1>5. ASSUME NEW s \in Site, Apply(s) PROVE Collected
    <2>1. /\ Collecting' /\ run'.state \in [Site -> SiteState]
          /\ log' \in [EventId -> Nat]
          /\ \A e \in EventId : log[e] = 1 => log'[e] = 1
          /\ \A r \in Site \ {s} : run'.state[r] = run.state[r]
          /\ run'.state[s].status = "down" =>
               \/ /\ run'.at = "filing" /\ run'.event = <<"confirmed_failure", run'.state[s].id>>
                  /\ log'[<<run'.state[s].id[1], s, "confirmed_failure">>] = 1
               \/ run.state[s].status = "down" /\ run'.state[s].id = run.state[s].id
      BY <1>5, ApplyShape
    <2>2. saved' = saved /\ run.at = "applying" /\ incident' = incident
      BY <1>5 DEF Apply, Running
    <2>3. \A r \in Site : run.state[r].status = "down" =>
              Exists(run.state[r].id) /\ Announced(r, run.state[r].id)
      BY <2>2 DEF OnRecord, RunOnRecord, Filing
    <2>4. \A r \in Site : \A id \in Occurrence \X {r} : Announced(r, id) => Announced(r, id)'
      BY <2>1 DEF Announced, EventId, Kinds
    <2>5. \A r \in Site : /\ saved[r].status = "down" => saved[r].id \in Occurrence \X {r}
                          /\ run.state[r].status = "down" => run.state[r].id \in Occurrence \X {r}
      BY <1>0 DEF Names
    <2>6. ASSUME NEW r \in Site PROVE SavedOnRecord(r)'
      BY <2>2, <2>4, <2>5 DEF OnRecord, SavedOnRecord, Exists, Announced
    <2>7. ASSUME NEW r \in Site PROVE RunOnRecord(r)'
      <3>1. CASE run.state[r].status = "down" /\ run'.state[r].id = run.state[r].id
        BY <2>2, <2>3, <2>4, <2>5, <3>1 DEF RunOnRecord, Exists, Announced
      <3>2. CASE r = s /\ run'.at = "filing"
                 /\ run'.event = <<"confirmed_failure", run'.state[s].id>>
                 /\ log'[<<run'.state[s].id[1], s, "confirmed_failure">>] = 1
        BY <3>2 DEF RunOnRecord, Filing, Announced
      <3>3. CASE run'.state[r].status # "down"
        BY <3>3 DEF RunOnRecord
      <3>4. QED
        BY <2>1, <3>1, <3>2, <3>3
    <2>8. OnRecord'
      BY <2>6, <2>7 DEF OnRecord
    <2>9. QED
      BY <1>0, <2>1, <2>2, <2>8 DEF Collected, Names
  <1>6. CASE FileIncident \/ \E i \in Id : ResolveRecovered(i)
    <2>1. run' = [run EXCEPT !.at = "applying", !.event = None] /\ run.at = "filing"
          /\ saved' = saved /\ log' = log
      BY <1>6 DEF FileIncident, ResolveRecovered, Recovering, Running, Filed, files
    <2>2. run' = [at |-> "applying", occ |-> run.occ, conf |-> run.conf, todo |-> run.todo,
                  seen |-> run.seen, state |-> run.state, event |-> None]
      BY <1>0, <2>1 DEF Locals
    <2>3. Collecting' /\ run'.state = run.state
      BY <1>0, <2>1, <2>2 DEF Collecting
    <2>4. \A id \in Id : Filing(id) => Exists(id)'
      <3>1. CASE FileIncident
        <4>1. ASSUME NEW id \in Id, Filing(id) PROVE Exists(id)'
          <5>1. run.event[2] = id
            BY <4>1 DEF Filing
          <5>2. CASE Exists(id)
            BY <5>2 DEF FilesKept
          <5>3. CASE ~Exists(id)
            <6>1. incident' = [incident EXCEPT ![id].status = "queued"]
              BY <3>1, <5>1, <5>3 DEF FileIncident, Update
            <6>2. QED
              BY <1>0, <6>1 DEF Exists, File
          <5>4. QED
            BY <5>2, <5>3
        <4>2. QED
          BY <4>1
      <3>2. CASE \E i \in Id : ResolveRecovered(i)
        BY <3>2 DEF ResolveRecovered, Recovering, Filing
      <3>3. QED
        BY <1>6, <3>1, <3>2
    <2>5. QED
      BY <1>0, <2>1, <2>3, <2>4, RunGoesOn
  <1>7. CASE Complete \/ \E i \in Id : RecoveryRaises(i)
    <2>1. run' = NoRun /\ saved' = saved /\ log' = log
      BY <1>7 DEF Complete, RecoveryRaises, files
    <2>2. Collecting' /\ run'.state = [s \in Site |-> Unseen]
      BY <2>1, NoRunShape, NoRunTyped
    <2>3. \A s \in Site : run'.state[s].status # "down"
      BY <2>2 DEF Unseen
    <2>4. OnRecord'
      BY <1>00, <2>1, <2>3 DEF OnRecord, SavedOnRecord, RunOnRecord, FilesKept, Exists, Announced
    <2>5. QED
      BY <1>0, <2>1, <2>2, <2>4, NoRunTyped DEF Collected, Names
  <1>8. CASE Save
    <2>1. /\ run.at = "applying" /\ saved' = run.state /\ log' = log
          /\ run' = [run EXCEPT !.at = "saved", !.todo = {}] /\ incident' = incident
      BY <1>8 DEF Save, Running, Go
    <2>2. run' = [at |-> "saved", occ |-> run.occ, conf |-> run.conf, todo |-> {},
                  seen |-> run.seen, state |-> run.state, event |-> run.event]
      BY <1>0, <2>1 DEF Locals
    <2>3. Collecting' /\ run'.state = run.state
      BY <1>0, <2>1, <2>2 DEF Collecting
    <2>4. \A s \in Site : run.state[s].status = "down" =>
              Exists(run.state[s].id) /\ Announced(s, run.state[s].id)
      BY <2>1 DEF OnRecord, RunOnRecord, Filing
    <2>5. OnRecord'
      BY <2>1, <2>3, <2>4 DEF OnRecord, SavedOnRecord, RunOnRecord, Exists, Announced
    <2>6. QED
      BY <1>0, <2>1, <2>3, <2>5 DEF Collected, Names
  <1>9. QED
    BY <1>1, <1>2, <1>3, <1>4, <1>5, <1>6, <1>7, <1>8 DEF Collect

(* No other process touches the run, the state file or the event file, but   *)
(* for the death of the run.                                                 *)
LEMMA CollectedStep ==
  ASSUME Shape, OnRecord, Repairers, [Next]_vars
  PROVE  Collected
  <1>0. FilesKept
    BY FilesStep
  <1>1. CASE Collect
    BY <1>0, <1>1, CollectShape
  <1>2. CASE RunDies
    <2>1. run' = NoRun /\ saved' = saved /\ log' = log
      BY <1>2 DEF RunDies, files
    <2>2. \A s \in Site : run'.state[s].status # "down"
      BY <2>1, NoRunShape DEF Unseen
    <2>3. run'.at = "idle" /\ run.at # "idle"
      BY <1>2, <2>1, NoRunShape DEF RunDies, Running
    <2>4. /\ saved \in [Site -> SiteState] /\ Names(saved) /\ log \in [EventId -> Nat]
      BY TypesNamed DEF Shape
    <2>5. \A s \in Site : saved[s].status = "down" => saved[s].id \in Id
      BY <2>4 DEF Names, Id
    <2>6. OnRecord'
      BY <1>0, <2>1, <2>2, <2>5 DEF OnRecord, SavedOnRecord, RunOnRecord, FilesKept, Exists,
         Announced
    <2>7. QED
      BY <2>1, <2>4, <2>6, NoRunTyped DEF Collected, Names
  <1>3. CASE run' = run /\ saved' = saved /\ log' = log
    <2>1. Collecting' /\ run'.state \in [Site -> SiteState]
      BY <1>3, TypesNamed DEF Shape, Collecting, Names
    <2>2. QED
      BY <1>0, <1>3, <2>1, RunGoesOn DEF Filing
  <1>4. \/ Collect \/ RunDies
        \/ run' = run /\ saved' = saved /\ log' = log
    <2> DEFINE Still == run' = run /\ saved' = saved /\ log' = log
    <2>1. ASSUME NEW i \in Id, LeaseHealthy(i) \/ LeaseDies(i) \/ LeaseExpires(i) \/ DeadlinePasses(i)
          PROVE  Still
      BY <2>1 DEF LeaseHealthy, LeaseDies, LeaseExpires, DeadlinePasses, files
    <2>2. ASSUME NEW w \in Worker, NEW i \in Id,
                 Lease(w, i) \/ Resolve(w, i) \/ Fail(w, i) \/ Release(w, i)
          PROVE  Still
      BY <2>2 DEF Lease, Resolve, Fail, Release, Close, files
    <2>3. ASSUME NEW w \in Worker, RepairStart(w) \/ RepairStep(w) \/ WorkerDies(w)
          PROVE  Still
      BY <2>3 DEF RepairStart, RepairStep, RepairAttempt, RepairAct, RepairCheck, RepairEnd,
         WorkerDies, files
    <2>4. CASE NetChanges \/ AuthorityEnds \/ \E s \in Site : SiteChanges(s) \/ ConfigChanges(s)
      BY <2>4 DEF NetChanges, AuthorityEnds, SiteChanges, ConfigChanges, files
    <2>5. CASE UNCHANGED vars
      BY <2>5 DEF vars, files
    <2>6. QED
      BY <2>1, <2>2, <2>3, <2>4, <2>5 DEF Next
  <1>5. QED
    BY <1>1, <1>2, <1>3, <1>4

(* The types of the world, the claims and the bounds.                        *)
WorldTyped ==
    /\ up \subseteq Site /\ enabled \subseteq Site
    /\ net \in Infrastructure \cup {"fine"}
    /\ authorized \in BOOLEAN
    /\ claim \in [Occurrence -> {"none", "claimed", "completed"}]
    /\ last \in Nat
    /\ changes \in Nat /\ crashes \in Nat

(* Every step keeps them.                                                    *)
LEMMA WorldStep ==
  ASSUME Shape, Repairers, [Next]_vars
  PROVE  WorldTyped'
  <1>0. WorldTyped
    BY DEF Shape, TypeOK, WorldTyped
  <1> USE DEF WorldTyped, world, files
  <1>1. CASE Collect
    <2>1. ASSUME NEW o \in Occurrence, Start(o) PROVE WorldTyped'
      BY <1>0, <2>1, ConstantsAssumption DEF Start, Occurrence
    <2>2. ASSUME NEW s \in Site, Retire(s) \/ ProbeSite(s) \/ Apply(s) PROVE WorldTyped'
      BY <1>0, <2>2 DEF Retire, ProbeSite, Apply
    <2>3. CASE RetiredAll \/ ProbedAll \/ FileIncident \/ Save
      BY <1>0, <2>3 DEF RetiredAll, ProbedAll, FileIncident, Save
    <2>4. CASE Complete
      BY <1>0, <2>4 DEF Complete, Shape, Collecting, Running
    <2>5. ASSUME NEW i \in Id, ResolveRecovered(i) \/ RecoveryRaises(i) PROVE WorldTyped'
      BY <1>0, <2>5 DEF ResolveRecovered, RecoveryRaises
    <2>6. QED
      BY <1>1, <2>1, <2>2, <2>3, <2>4, <2>5 DEF Collect
  <1>2. CASE RunDies
    BY <1>0, <1>2 DEF RunDies
  <1>3. ASSUME NEW i \in Id, LeaseHealthy(i) \/ LeaseDies(i) \/ LeaseExpires(i) \/ DeadlinePasses(i)
        PROVE  WorldTyped'
    BY <1>0, <1>3 DEF LeaseHealthy, LeaseDies, LeaseExpires, DeadlinePasses, Changes
  <1>4. ASSUME NEW w \in Worker, NEW i \in Id,
               Lease(w, i) \/ Resolve(w, i) \/ Fail(w, i) \/ Release(w, i)
        PROVE  WorldTyped'
    BY <1>0, <1>4 DEF Lease, Resolve, Fail, Release, Close
  <1>5. ASSUME NEW w \in Worker, RepairAct(w) PROVE WorldTyped'
    <2>1. work[w].id[2] \in Site
      BY <1>5 DEF RepairAct, Repairers, Repairing, Id
    <2>2. QED
      BY <1>0, <1>5, <2>1 DEF RepairAct
  <1>6. ASSUME NEW w \in Worker, RepairStart(w) \/ RepairAttempt(w) \/ RepairCheck(w)
                                 \/ RepairEnd(w) \/ WorkerDies(w)
        PROVE  WorldTyped'
    BY <1>0, <1>6 DEF RepairStart, RepairAttempt, RepairCheck, RepairEnd, WorkerDies
  <1>7. CASE NetChanges \/ AuthorityEnds
    <2>1. CASE NetChanges
      <3>1. net' \in Infrastructure \cup {"fine"}
        BY <2>1 DEF NetChanges
      <3>2. QED
        BY <1>0, <2>1, <3>1 DEF NetChanges, Changes
    <2>2. CASE AuthorityEnds
      <3>1. authorized' = FALSE /\ changes' = changes + 1
            /\ UNCHANGED <<up, net, enabled, files, crashes>>
        BY <2>2 DEF AuthorityEnds, Changes
      <3>2. authorized' \in BOOLEAN
        BY <3>1
      <3>3. changes' \in Nat
        BY <1>0, <3>1
      <3>4. /\ up' \subseteq Site /\ enabled' \subseteq Site
            /\ net' \in Infrastructure \cup {"fine"}
            /\ claim' \in [Occurrence -> {"none", "claimed", "completed"}]
            /\ last' \in Nat /\ crashes' \in Nat
        BY <1>0, <3>1
      <3>5. QED
        BY <3>2, <3>3, <3>4
    <2>3. QED
      BY <1>7, <2>1, <2>2
  <1>8. ASSUME NEW s \in Site, SiteChanges(s) \/ ConfigChanges(s) PROVE WorldTyped'
    BY <1>0, <1>8 DEF SiteChanges, ConfigChanges, Changes
  <1>9. CASE UNCHANGED vars
    BY <1>0, <1>9 DEF vars
  <1>10. QED
    BY <1>1, <1>2, <1>3, <1>4, <1>5, <1>6, <1>7, <1>8, <1>9 DEF Next, RepairStep

(* Every step keeps the invariant.                                           *)
LEMMA WatchingStep == Watching /\ [Next]_vars => Watching'
  <1> SUFFICES ASSUME Watching, [Next]_vars PROVE Watching'
    OBVIOUS
  <1> USE DEF Watching
  <1>1. Collected
    BY CollectedStep
  <1>2. work' \in [Worker -> Task] /\ Repairers'
    BY RepairersStep
  <1>3. acts' \in [Id -> Nat] /\ Counted'
    BY CountedStep
  <1>4. incident' \in [Id -> File]
    BY FilesStep DEF FilesKept
  <1>5. WorldTyped'
    BY WorldStep
  <1>6. TypeOK'
    BY <1>1, <1>2, <1>3, <1>4, <1>5 DEF TypeOK, Collected, WorldTyped, Names, Task, File
  <1>7. QED
    BY <1>1, <1>2, <1>3, <1>6 DEF Shape, Collected

-----------------------------------------------------------------------------
(* State file, event log, incident files and leases fit together in every    *)
(* reachable state, whichever process died (run, mutate, run_synthetic).     *)
THEOREM WatchingInvariant == Spec => []Watching
  BY InitWatching, WatchingStep, PTL DEF Spec

(* The state file, the incident files and the processes keep their types     *)
(* (run, update_incident, run_synthetic).                                    *)
THEOREM TypeCorrect == Spec => []TypeOK
  BY WatchingInvariant, PTL DEF Watching, Shape

(* A site the state file calls down is announced exactly once and has its    *)
(* incident file, whichever run died and was replayed (run,                  *)
(* append_event_once).                                                       *)
THEOREM OutagesOnRecord == Spec => []OutageOnRecord
  <1>1. Watching => OutageOnRecord
    BY DEF Watching, Shape, OnRecord, SavedOnRecord, Announced, OutageOnRecord
  <1>2. QED
    BY <1>1, WatchingInvariant, PTL

(* A worker that repairs has the newest lease of its incident to itself      *)
(* (incident_lock, mutate, run_synthetic).                                   *)
THEOREM RepairsExclude == Spec => []RepairIsExclusive
  BY WatchingInvariant, PTL DEF Watching, Repairers

(* The watchdog implements the life of an incident: it is filed once, leased *)
(* before it is repaired, never repaired beyond the limit, and closed for    *)
(* good (update_incident, mutate, run_synthetic).                            *)
THEOREM WatchdogImplementsLife == Spec => ImplementsLife
  <1>1. Init => Life!Init
    BY DEF Init, Life!Init, NoFile
  <1>2. Watching /\ [Next]_vars => [Life!Next]_(Life!vars)
    BY LifeStep
  <1>3. QED
    BY <1>1, <1>2, WatchingInvariant, PTL DEF Spec, ImplementsLife, Life!Spec
===============================================================================
