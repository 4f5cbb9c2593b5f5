------------------------------- MODULE Watchdog -------------------------------
(***************************************************************************)
(* The website watchdog (tools/website-watchdog): one collector run at a   *)
(* time (watchdog.py, main holds the lock of the state file), and workers  *)
(* that lease, repair and close incident files (incident.py, repair.py).   *)
(*                                                                         *)
(* An action ends where another process can see a write: the claim of the  *)
(* occurrence, an event, an incident file, the state file.  A run may die  *)
(* at any of these points, and is started again for the same occurrence or *)
(* for the next.  Every incident file has its own lock; a command of       *)
(* incident.py is one locked step, a repair keeps the lock for all its     *)
(* steps.  Identities derived with uuid5 are the tuples they derive from.  *)
(***************************************************************************)
EXTENDS Naturals, FiniteSets

CONSTANTS
    Site,
    Worker,
    Threshold,      \* [Site -> Nat \ {0}], failure_cycles of the configuration
    MaxRepairs,     \* limits.max_attempts of the repair contract
    None,
    MaxOccurrence,  \* bound: occurrences the scheduler starts
    MaxLeases,      \* bound: leases of one incident
    MaxChanges,     \* bound: changes of the world, expiries among them
    MaxCrashes      \* bound: processes that die

Occurrence == 1 .. MaxOccurrence
Id == Occurrence \X Site
Kinds == {"confirmed_failure", "transient_failure", "recovered"}

ASSUME ConstantsAssumption ==
    /\ IsFiniteSet(Site)
    /\ \A s \in Site : Threshold[s] \in Nat \ {0}
    /\ {MaxRepairs, MaxOccurrence, MaxLeases, MaxChanges, MaxCrashes} \subseteq Nat
    /\ None \notin Id \cup Kinds

VARIABLES
    up,         \* sites that answer with a healthy code
    net,        \* what the path of the monitor does to every probe
    enabled,    \* enabled sites of the configuration file
    authorized, \* registry, approval, task and broker agree with the contract
    claim,      \* occurrence claim files
    last,       \* the occurrence the scheduler started last
    saved,      \* the state file, per site
    log,        \* the event file: how often an event identity was appended
    incident,   \* incident files
    run,        \* locals of the collector run in progress
    work,       \* locals of the workers
    acts,       \* repair actions applied for an incident
    changes, crashes

world == <<up, net, enabled, authorized, changes>>
files == <<claim, last, saved, log>>
vars == <<world, files, incident, run, work, acts, crashes>>

EventId == Occurrence \X Site \X Kinds
Infrastructure == {"dns", "monitor_path"}

Unseen == [status |-> "unknown", cycles |-> 0, id |-> None]
NoFile == [status |-> "absent", token |-> 0, expired |-> FALSE, attempts |-> 0, deadline |-> "unset"]
NoRun == [at |-> "idle", occ |-> 0, conf |-> {}, todo |-> {}, seen |-> <<>>,
          state |-> [s \in Site |-> Unseen], event |-> None]
NoWork == [at |-> "idle", id |-> None, token |-> 0]

Init ==
    /\ up = Site /\ net = "fine" /\ enabled = Site /\ authorized = TRUE
    /\ claim = [o \in Occurrence |-> "none"]
    /\ last = 1
    /\ saved = [s \in Site |-> Unseen]
    /\ log = [e \in EventId |-> 0]
    /\ incident = [i \in Id |-> NoFile]
    /\ run = NoRun
    /\ work = [w \in Worker |-> NoWork]
    /\ acts = [i \in Id |-> 0]
    /\ changes = 0 /\ crashes = 0

-----------------------------------------------------------------------------
(* Probes and incident files *)

Probe(s) == IF net # "fine" THEN net ELSE IF s \in up THEN "ok" ELSE "http"
Healthy(i) == Probe(i[2]) = "ok"

Repairing(w) == work[w].at # "idle"
\* Faulty variant: a repair gives the incident lock up between its steps.
Locked_Never(i) == FALSE
Locked(i) == \E w \in Worker : Repairing(w) /\ work[w].id = i

Transitions == [queued |-> {"leased", "cancelled", "resolved"},
                leased |-> {"resolved", "failed", "queued"},
                failed |-> {"leased", "cancelled"}]
Exists(i) == incident[i].status # "absent"
May(i, status) ==
    incident[i].status \in DOMAIN Transitions /\ status \in Transitions[incident[i].status]

Update(i, status) == incident' = [incident EXCEPT ![i].status = status]

-----------------------------------------------------------------------------
(* A collector run *)

Running(step) == run.at = step
\* The sites are taken one by one in the order of the file.
Turn(s) == run.todo # {} /\ s = CHOOSE first \in run.todo : TRUE
Go(step, todo) == [run EXCEPT !.at = step, !.todo = todo]

\* main takes the lock of the state or leaves; a completed occurrence is left alone.
Start(o) ==
    /\ Running("idle")
    /\ o \in {last, last + 1} \cap Occurrence
    /\ claim[o] # "completed"
    /\ claim' = [claim EXCEPT ![o] = "claimed"]
    /\ last' = o
    /\ run' = [NoRun EXCEPT !.at = "retiring", !.occ = o, !.conf = enabled, !.state = saved,
                            !.todo = {s \in Site \ enabled : saved[s].status # "unknown"}]
    /\ UNCHANGED <<world, saved, log, incident, work, acts, crashes>>

\* close_stale_incidents: one site that the configuration no longer enables.
Retire(s) ==
    LET i == run.state[s].id IN
    /\ Running("retiring") /\ Turn(s)
    /\ IF i # None /\ incident[i].status \in {"queued", "failed"}
       THEN ~Locked(i) /\ Update(i, "cancelled")
       ELSE (i # None => ~Locked(i)) /\ UNCHANGED incident
    /\ run' = [run EXCEPT !.todo = @ \ {s},
                          !.state[s] = [@ EXCEPT !.status = "retired", !.id = None]]
    /\ UNCHANGED <<world, files, work, acts, crashes>>

RetiredAll ==
    /\ Running("retiring") /\ run.todo = {}
    /\ run' = [Go("probing", run.conf) EXCEPT !.seen = [s \in run.conf |-> "ok"]]
    /\ UNCHANGED <<world, files, incident, work, acts, crashes>>

\* The last attempt of a site's probes.
ProbeSite(s) ==
    /\ Running("probing") /\ Turn(s)
    /\ run' = [run EXCEPT !.todo = @ \ {s}, !.seen[s] = Probe(s)]
    /\ UNCHANGED <<world, files, incident, work, acts, crashes>>

ProbedAll ==
    /\ Running("probing") /\ run.todo = {}
    /\ run' = Go("applying", run.conf)
    /\ UNCHANGED <<world, files, incident, work, acts, crashes>>

SharedFailure ==
    Cardinality(run.conf) >= 2 /\ \A s \in run.conf : run.seen[s] \in Infrastructure
Effective(s) == IF SharedFailure THEN "monitor_path" ELSE run.seen[s]

UpAgain(old) == [status |-> "healthy", cycles |-> 0, id |-> None]

\* observe: the new state of the site, and the kind of its event.
Observed(s, kind) ==
    LET old == run.state[s]
        cycles == old.cycles + 1
    IN
    CASE kind = "monitor_path" -> <<old, None>>
      [] kind = "ok" ->
            <<UpAgain(old), IF old.status = "down" THEN "recovered" ELSE None>>
      [] kind \notin {"ok", "monitor_path"} /\ old.status = "down" ->
            <<[old EXCEPT !.cycles = cycles], None>>
      [] kind \notin {"ok", "monitor_path"} /\ old.status # "down" ->
            IF cycles >= Threshold[s]
            THEN <<[status |-> "down", cycles |-> cycles, id |-> <<run.occ, s>>], "confirmed_failure">>
            ELSE <<[old EXCEPT !.status = "suspect", !.cycles = cycles], "transient_failure">>

\* The incident of an event.
Named(s, kind) == CASE kind = "confirmed_failure" -> <<run.occ, s>>
                    [] kind = "recovered" -> run.state[s].id
                    [] OTHER -> None

\* Faulty variant: append_event in place of append_event_once.
AppendOnce_Again(e) == log' = [log EXCEPT ![e] = @ + 1]
AppendOnce(e) == log' = [log EXCEPT ![e] = 1]

\* One site of the final loop, up to its event.
Apply(s) ==
    LET result == Observed(s, Effective(s))
        kind == result[2]
        id == Named(s, kind)
    IN
    /\ Running("applying") /\ Turn(s)
    /\ run' = [run EXCEPT !.todo = @ \ {s}, !.state[s] = result[1],
                          !.at = IF id = None THEN "applying" ELSE "filing",
                          !.event = IF id = None THEN None ELSE <<kind, id>>]
    /\ IF kind = None THEN UNCHANGED log ELSE AppendOnce(<<run.occ, s, kind>>)
    /\ UNCHANGED <<world, claim, last, saved, incident, work, acts, crashes>>

\* Its incident file, under the lock of that file.
Filed == run' = [run EXCEPT !.at = "applying", !.event = None]
FileIncident ==
    LET i == run.event[2] IN
    /\ Running("filing") /\ run.event[1] = "confirmed_failure"
    /\ ~Locked(i)
    /\ IF Exists(i) THEN UNCHANGED incident ELSE Update(i, "queued")
    /\ Filed
    /\ UNCHANGED <<world, files, work, acts, crashes>>

Recovering(i) == Running("filing") /\ run.event = <<"recovered", i>>
Unleased(i) == incident[i].status \in {"queued", "failed"}
ResolveRecovered(i) ==
    /\ Recovering(i)
    /\ ~Locked(i)
    /\ IF Unleased(i) THEN May(i, "resolved") /\ Update(i, "resolved") ELSE UNCHANGED incident
    /\ Filed
    /\ UNCHANGED <<world, files, work, acts, crashes>>

\* The table refuses the transition: ValueError leaves the run, nothing is saved.
RecoveryRaises(i) ==
    /\ Recovering(i) /\ Unleased(i)
    /\ ~May(i, "resolved")
    /\ run' = NoRun
    /\ UNCHANGED <<world, files, incident, work, acts, crashes>>

Save ==
    /\ Running("applying") /\ run.todo = {}
    /\ saved' = run.state
    /\ run' = Go("saved", {})
    /\ UNCHANGED <<world, claim, last, log, incident, work, acts, crashes>>

Complete ==
    /\ Running("saved")
    /\ claim' = [claim EXCEPT ![run.occ] = "completed"]
    /\ run' = NoRun
    /\ UNCHANGED <<world, last, saved, log, incident, work, acts, crashes>>

RunDies ==
    /\ ~Running("idle") /\ crashes < MaxCrashes
    /\ run' = NoRun
    /\ crashes' = crashes + 1
    /\ UNCHANGED <<world, files, incident, work, acts>>

-----------------------------------------------------------------------------
(* Workers: incident.py *)

Idle(w) == work[w].at = "idle"
Expired(i) == incident[i].status = "leased" /\ incident[i].expired

\* Queued, failed, or leased with a lease that has run out: written as queued first.
Leasable(i) == incident[i].status \in {"queued", "failed"} \/ Expired(i)

LeaseHealthy(i) ==
    /\ Healthy(i) /\ ~Locked(i)
    /\ incident[i].status = "queued" \/ Expired(i)
    /\ Update(i, "resolved")
    /\ UNCHANGED <<world, files, run, work, acts, crashes>>

Lease(w, i) ==
    /\ Idle(w) /\ ~Locked(i)
    /\ Leasable(i) /\ ~Healthy(i)
    /\ incident[i].token < MaxLeases
    /\ incident' = [incident EXCEPT ![i] = [@ EXCEPT !.status = "leased", !.expired = FALSE,
                                                     !.token = incident[i].token + 1]]
    /\ work' = [work EXCEPT ![w] = [NoWork EXCEPT !.id = i, !.token = incident[i].token + 1]]
    /\ UNCHANGED <<world, files, run, acts, crashes>>

\* The process dies between the two writes of the lease command.
LeaseDies(i) ==
    /\ Expired(i) /\ ~Locked(i)
    /\ crashes < MaxCrashes
    /\ Update(i, "queued")
    /\ crashes' = crashes + 1
    /\ UNCHANGED <<world, files, run, work, acts>>

\* The matching owner of an unexpired lease.
Active(w, i) ==
    /\ work[w].id = i /\ work[w].token = incident[i].token
    /\ incident[i].status = "leased" /\ ~incident[i].expired

Close(w, i, status) ==
    /\ Idle(w) /\ ~Locked(i)
    /\ Active(w, i)
    /\ Update(i, status)
    /\ UNCHANGED <<world, files, run, work, acts, crashes>>

Resolve(w, i) == Healthy(i) /\ Close(w, i, "resolved")
Fail(w, i) == Close(w, i, "failed")
Release(w, i) == Close(w, i, "queued")

-----------------------------------------------------------------------------
(* Workers: run_synthetic, under the lock of the incident from start to end *)

Authoritative(w, i) == Active(w, i) /\ authorized
Leave(w) == work' = [work EXCEPT ![w].at = "idle"]
RepairAt(w, step) == work' = [work EXCEPT ![w].at = step]
Overdue(i) == incident[i].deadline = "past"

\* progress is made, once, and persisted; the site is probed before anything is done.
RepairStart(w) ==
    LET i == work[w].id IN
    /\ Idle(w) /\ i # None /\ ~Locked(i)
    /\ Authoritative(w, i)
    /\ incident' = [incident EXCEPT ![i].deadline = IF @ = "unset" THEN "running" ELSE @]
    /\ IF Overdue(i) \/ Healthy(i) THEN UNCHANGED work ELSE RepairAt(w, "ready")
    /\ UNCHANGED <<world, files, run, acts, crashes>>

\* Faulty variant: one attempt too many.
AttemptsLeft_Inclusive(i) == incident[i].attempts <= MaxRepairs
AttemptsLeft(i) == incident[i].attempts < MaxRepairs

RepairAttempt(w) ==
    LET i == work[w].id IN
    /\ work[w].at = "ready"
    /\ AttemptsLeft(i) /\ ~Overdue(i)
    /\ Authoritative(w, i)
    /\ incident' = [incident EXCEPT ![i].attempts = @ + 1]
    /\ RepairAt(w, "acting")
    /\ UNCHANGED <<world, files, run, acts, crashes>>

\* apply_action: it may or may not bring the site back.
RepairAct(w) ==
    LET i == work[w].id IN
    /\ work[w].at = "acting"
    /\ acts' = [acts EXCEPT ![i] = @ + 1]
    /\ up' \in {up, up \cup {i[2]}}
    /\ RepairAt(w, "acted")
    /\ UNCHANGED <<net, enabled, authorized, changes, files, incident, run, crashes>>

\* Deadline, authority and health are read again; else the loop goes on.
RepairCheck(w) ==
    LET i == work[w].id IN
    /\ work[w].at = "acted"
    /\ IF Overdue(i) \/ ~Authoritative(w, i) \/ Healthy(i) THEN Leave(w) ELSE RepairAt(w, "ready")
    /\ UNCHANGED <<world, files, incident, run, acts, crashes>>

\* Exhausted, overdue, or the authority is gone.
RepairEnd(w) ==
    LET i == work[w].id IN
    /\ work[w].at = "ready"
    /\ ~AttemptsLeft(i) \/ Overdue(i) \/ ~Authoritative(w, i)
    /\ Leave(w)
    /\ UNCHANGED <<world, files, incident, run, acts, crashes>>

WorkerDies(w) ==
    /\ crashes < MaxCrashes
    /\ work[w] # NoWork
    /\ work' = [work EXCEPT ![w] = NoWork]
    /\ crashes' = crashes + 1
    /\ UNCHANGED <<world, files, incident, run, acts>>

-----------------------------------------------------------------------------
(* The world and the clock *)

Changes == changes < MaxChanges /\ changes' = changes + 1

SiteChanges(s) ==
    /\ Changes
    /\ up' = IF s \in up THEN up \ {s} ELSE up \cup {s}
    /\ UNCHANGED <<net, enabled, authorized, files, incident, run, work, acts, crashes>>

NetChanges ==
    /\ Changes
    /\ net' \in IF net = "fine" THEN Infrastructure ELSE {"fine"}
    /\ UNCHANGED <<up, enabled, authorized, files, incident, run, work, acts, crashes>>

\* Only Start reads the configuration: a change during a run is one after it.
ConfigChanges(s) ==
    /\ Changes /\ Running("idle")
    /\ enabled' = IF s \in enabled THEN enabled \ {s} ELSE enabled \cup {s}
    /\ UNCHANGED <<up, net, authorized, files, incident, run, work, acts, crashes>>

\* Only a repair reads the authority: a change before it is one at its start.
AuthorityEnds ==
    /\ authorized /\ Changes
    /\ \E w \in Worker : work[w].id # None
    /\ authorized' = FALSE
    /\ UNCHANGED <<up, net, enabled, files, incident, run, work, acts, crashes>>

LeaseExpires(i) ==
    /\ incident[i].status = "leased" /\ ~incident[i].expired /\ Changes
    /\ incident' = [incident EXCEPT ![i].expired = TRUE]
    /\ UNCHANGED <<up, net, enabled, authorized, files, run, work, acts, crashes>>

DeadlinePasses(i) ==
    /\ incident[i].deadline = "running" /\ Changes
    /\ incident' = [incident EXCEPT ![i].deadline = "past"]
    /\ UNCHANGED <<up, net, enabled, authorized, files, run, work, acts, crashes>>

-----------------------------------------------------------------------------
Collect ==
    \/ \E o \in Occurrence : Start(o)
    \/ \E s \in Site : Retire(s) \/ ProbeSite(s) \/ Apply(s)
    \/ RetiredAll \/ ProbedAll \/ FileIncident \/ Save \/ Complete
    \/ \E i \in Id : ResolveRecovered(i) \/ RecoveryRaises(i)

RepairStep(w) == RepairAttempt(w) \/ RepairAct(w) \/ RepairCheck(w) \/ RepairEnd(w)

Next ==
    \/ Collect \/ RunDies
    \/ \E i \in Id : LeaseHealthy(i) \/ LeaseDies(i) \/ LeaseExpires(i) \/ DeadlinePasses(i)
    \/ \E w \in Worker, i \in Id : Lease(w, i) \/ Resolve(w, i) \/ Fail(w, i) \/ Release(w, i)
    \/ \E w \in Worker : RepairStart(w) \/ RepairStep(w) \/ WorkerDies(w)
    \/ \E s \in Site : SiteChanges(s) \/ ConfigChanges(s)
    \/ NetChanges \/ AuthorityEnds

Spec == Init /\ [][Next]_vars

-----------------------------------------------------------------------------
(* Properties *)

Status == {"absent", "queued", "leased", "failed", "resolved", "cancelled"}
SiteState == [status : {"unknown", "healthy", "suspect", "down", "retired"}, cycles : Nat,
              id : Id \cup {None}]

\* Every file and every process keeps its shape; a site names an incident, its own, while it
\* is down.
TypeOK ==
    /\ up \subseteq Site /\ enabled \subseteq Site
    /\ net \in Infrastructure \cup {"fine"}
    /\ authorized \in BOOLEAN
    /\ claim \in [Occurrence -> {"none", "claimed", "completed"}]
    /\ last \in Nat
    /\ saved \in [Site -> SiteState]
    /\ run.state \in [Site -> SiteState]
    /\ \A s \in Site : IF saved[s].status = "down" THEN saved[s].id \in Occurrence \X {s}
                                                  ELSE saved[s].id = None
    /\ log \in [EventId -> Nat]
    /\ incident \in [Id -> [status : Status, token : Nat, expired : BOOLEAN, attempts : Nat,
                            deadline : {"unset", "running", "past"}]]
    /\ work \in [Worker -> [at : {"idle", "ready", "acting", "acted"}, id : Id \cup {None},
                            token : Nat]]
    /\ acts \in [Id -> Nat]
    /\ changes \in Nat /\ crashes \in Nat

\* The types are right, and a site the state file calls down has its incident file, with its
\* failure announced exactly once, whatever run died and was replayed in between (run,
\* append_event_once).
OutageOnRecord ==
    /\ TypeOK
    /\ \A s \in Site : saved[s].status = "down" =>
          /\ Exists(saved[s].id)
          /\ log[<<saved[s].id[1], s, "confirmed_failure">>] = 1

\* While a worker repairs, its incident stays leased to it by the newest lease: nobody
\* reclaims, resolves, cancels or repairs it meanwhile, expired or not (incident_lock).
RepairIsExclusive ==
    \A w \in Worker : Repairing(w) =>
        /\ incident[work[w].id].status = "leased"
        /\ incident[work[w].id].token = work[w].token
        /\ \A v \in Worker \ {w} : Repairing(v) => work[v].id # work[w].id

\* Attempts are persisted before the action, so that over all workers, leases and crashes
\* the actions of an incident never exceed the attempts on file, nor those the limit.
Life == INSTANCE IncidentLife WITH Incident <- Id,
                                   phase <- [i \in Id |-> incident[i].status],
                                   repairs <- acts
ImplementsLife == Life!Spec
===============================================================================
