---------------------------- MODULE Coordination ----------------------------
(***************************************************************************)
(* Agents that share one zslurm manager (src/zslurm_coord.py, zsoffload,   *)
(* zsreap): they adopt a running manager or provision one, lease it while  *)
(* they have work, submit with an idempotency key and stop what they       *)
(* started.  Each agent is a process that may die between any two steps;   *)
(* what they share is files: the lock, the owner marker, one lease per     *)
(* agent, one record per key.                                              *)
(*                                                                         *)
(* A manager is named by the Slurm job or the process it runs as.  Every   *)
(* question to squeue may stay unanswered, every zsstatus may fail, and a  *)
(* job id may be given to another job of the user later.                   *)
(***************************************************************************)
EXTENDS Integers, FiniteSets

CONSTANTS
    Agents, Managers, Keys,
    Human,              \* the manager nobody of the agents started
    None,
    HostOf,             \* the login node an agent runs on
    MaxOps, MaxFaults   \* bounds: commands; agents killed and managers that end

ASSUME CoordinationConstants ==
    /\ IsFiniteSet(Agents) /\ IsFiniteSet(Managers)
    /\ Human \notin Managers /\ None \notin Managers \union Agents \union {Human}
    /\ DOMAIN HostOf = Agents
    /\ MaxOps \in Nat /\ MaxFaults \in Nat

VARIABLES
    lock,       \* manager.lock
    owner,      \* offloader.json
    lease,      \* leases/<agent>.json: none, live or expired
    record,     \* submits/<key>.json: none, inflight or done
    mgr,        \* the managers the agents provision, see Lives
    human,      \* the human's manager answers
    busy,       \* managers whose zsstatus shows pending jobs or autogrown engines
    pc, my,     \* where an agent is, and the manager or agent it deals with
    seen,       \* the marker as an agent has read it, in down() and write_owner()
    force,      \* down(force)
    key,        \* submit(idempotency_key)
    forgotten,  \* history: managers whose record got lost in a known way
    robbed,     \* history: agents whose live lease a janitor removed, until
                \* their next submit
    jobs,       \* history: jobs accepted per key
    unsure,     \* history: keys with a zsbatch that failed after acceptance
    blind,      \* history: ids stopped although their identity was unknown
    ops, faults

files   == <<lock, owner, lease, record>>
world   == <<mgr, human, busy>>
control == <<pc, my, seen, force, key>>
history == <<forgotten, robbed, jobs, unsure, blind>>
vars == <<files, world, control, history, ops, faults>>

(* coming: queued in Slurm or starting; dying: told to stop, may still     *)
(* answer; reused: gone, and its id now names another job of the user;     *)
(* struck: that other job was cancelled.                                   *)
Lives == {"unused", "coming", "serving", "dying", "gone", "reused", "struck"}
Places ==
    {"idle", "upLock", "upDecide", "upSbatch", "upUndo", "upRecord", "upPoll", "upBind",
     "upWrite", "upWait", "downLock", "downCheck", "downStatus", "downStop", "downClear",
     "subLock", "subClaim", "subLease", "subSend", "subFinal", "subRenew",
     "reapRemove", "reapLook"}

NoOwner ==
    [backend |-> "none", id |-> None, provisioning |-> FALSE, fresh |-> FALSE,
     instance |-> None, host |-> None]
Owners ==
    [backend : {"none", "login", "node"}, id : Managers \union {None},
     provisioning : BOOLEAN, fresh : BOOLEAN, instance : Managers \union {None},
     host : {HostOf[a] : a \in Agents} \union {None}]

(* Every variable has its type: the shared files and the agents.           *)
CoordinationTypeOK ==
    /\ lock \in Agents \union {None}
    /\ owner \in Owners
    /\ lease \in [Agents -> {"none", "live", "expired"}]
    /\ record \in [Keys -> {"none", "inflight", "done"}]
    /\ mgr \in [Managers -> Lives]
    /\ human \in BOOLEAN
    /\ busy \in SUBSET Managers
    /\ pc \in [Agents -> Places]
    /\ my \in [Agents -> Managers \union Agents \union {Human, None}]
    /\ seen \in [Agents -> Owners]
    /\ force \in [Agents -> BOOLEAN]
    /\ key \in [Agents -> Keys \union {None}]
    /\ forgotten \in SUBSET Managers /\ robbed \in SUBSET Agents
    /\ jobs \in [Keys -> Nat] /\ unsure \in SUBSET Keys /\ blind \in SUBSET Managers
    /\ ops \in 0..MaxOps /\ faults \in 0..MaxFaults

CoordinationInit ==
    /\ lock = None /\ owner = NoOwner
    /\ lease = [a \in Agents |-> "none"]
    /\ record = [k \in Keys |-> "none"]
    /\ mgr = [m \in Managers |-> "unused"]
    /\ human \in BOOLEAN
    /\ busy = {}
    /\ pc = [a \in Agents |-> "idle"]
    /\ my = [a \in Agents |-> None]
    /\ seen = [a \in Agents |-> NoOwner]
    /\ force = [a \in Agents |-> FALSE]
    /\ key = [a \in Agents |-> None]
    /\ forgotten = {} /\ robbed = {}
    /\ jobs = [k \in Keys |-> 0] /\ unsure = {} /\ blind = {}
    /\ ops = 0 /\ faults = 0

-----------------------------------------------------------------------------
(* What an agent can find out.                                             *)

Alive(m)  == m \in Managers /\ mgr[m] \in {"coming", "serving"}
Exists(m) == m \in Managers /\ mgr[m] \in {"coming", "serving", "dying"}

(* The managers whose zsstatus may say health.ok.  Any of them may fail to *)
(* answer, so pick_instance() may pick any of them.                        *)
Reachable ==
    {m \in Managers : mgr[m] \in {"serving", "dying"}} \union (IF human THEN {Human} ELSE {})

(* _slurm_job_active() *)
ActiveAnswers(id) ==
    IF id = None THEN {"no"}
    ELSE {"unknown", IF Exists(id) \/ mgr[id] = "reused" THEN "yes" ELSE "no"}

(* _job_is_our_manager() *)
IdentityAnswers(id) ==
    IF id = None THEN {"no"} ELSE {"unknown", IF Exists(id) THEN "yes" ELSE "no"}

(* _pid_is_our_manager(): on its own host the start time settles it.       *)
PidIsOurs(a, o) == o.host = HostOf[a] /\ Exists(o.id)

(* _self_manager_alive(): a definite yes.                                  *)
SelfAlive(a, active, identity) ==
    \/ owner.backend = "login" /\ PidIsOurs(a, owner)
    \/ owner.backend = "node" /\ active = "yes" /\ identity # "no"

(* Mutant: an unanswered question counts as a no.                          *)
InFlightFailingOpen(a, active, identity) == SelfAlive(a, active, identity)

(* Mutant: a reservation never gets old.                                   *)
InFlightForEver(a, active, identity) ==
    \/ owner.backend = "login" /\ PidIsOurs(a, owner)
    \/ owner.backend = "node" /\ owner.id = None /\ owner.provisioning
    \/ owner.backend = "node" /\ owner.id # None /\ active = "unknown"
    \/ owner.backend = "node" /\ owner.id # None /\ active = "yes" /\ identity # "no"

(* _self_provision_in_flight(): fails closed.                              *)
InFlight(a, active, identity) ==
    \/ owner.backend = "login" /\ PidIsOurs(a, owner)
    \/ owner.backend = "node" /\ owner.id = None /\ owner.provisioning /\ owner.fresh
    \/ owner.backend = "node" /\ owner.id # None /\ active = "unknown"
    \/ owner.backend = "node" /\ owner.id # None /\ active = "yes" /\ identity # "no"

(* A login manager cannot be seen from another login node.                 *)
OutOfSight(a) ==
    IF owner.backend = "login" /\ owner.host # HostOf[a] /\ Exists(owner.id)
    THEN {owner.id} ELSE {}

-----------------------------------------------------------------------------
(* The steps of an agent: its place, its command, the lock.                *)

At(a, place)   == pc[a] = place
GoTo(a, place) == pc' = [pc EXCEPT ![a] = place]
Holding(a, place) == pc[a] = place /\ lock = a
Unlock(a)      == lock' = IF lock = a THEN None ELSE lock

(* The command is over.                                                    *)
Return(a) ==
    /\ GoTo(a, "idle") /\ Unlock(a)
    /\ my' = [my EXCEPT ![a] = None]
    /\ seen' = [seen EXCEPT ![a] = NoOwner]
    /\ force' = [force EXCEPT ![a] = FALSE]
    /\ key' = [key EXCEPT ![a] = None]

Keep == UNCHANGED <<my, seen, force, key>>

Starts(a, place) == At(a, "idle") /\ ops < MaxOps /\ ops' = ops + 1 /\ GoTo(a, place)

StartUp(a) ==
    /\ Starts(a, "upLock")
    /\ UNCHANGED <<my, seen, force, key, files, world, history, faults>>

StartDown(a) ==
    /\ Starts(a, "downLock")
    /\ \E f \in BOOLEAN : force' = [force EXCEPT ![a] = f]
    /\ UNCHANGED <<my, seen, key, files, world, history, faults>>

StartSubmit(a) ==
    /\ Starts(a, "subLock")
    /\ \E k \in Keys : key' = [key EXCEPT ![a] = k]
    /\ UNCHANGED <<my, seen, force, files, world, history, faults>>

(* release_lease() *)
Release(a) ==
    /\ At(a, "idle") /\ lease[a] # "none"
    /\ lease' = [lease EXCEPT ![a] = "none"]
    /\ UNCHANGED <<lock, owner, record, world, control, history, ops, faults>>

(* The status of an instance shows no work.                                *)
ShowsIdle(i) == i \in Reachable \ busy

NoLiveLease == \A b \in Agents : lease[b] # "live"

(* zsreap: prune_expired_leases() reads a lease ...                        *)
StartReap(a) ==
    /\ \/ \E b \in Agents :
             /\ Starts(a, "reapRemove") /\ lease[b] = "expired"
             /\ my' = [my EXCEPT ![a] = b]
       \/ Starts(a, "reapLook") /\ UNCHANGED my
    /\ UNCHANGED <<seen, force, key, files, world, history, faults>>

(* ... and removes the file of that name.                                  *)
RemoveExpired(a) ==
    LET b == my[a]
    IN  /\ At(a, "reapRemove")
        /\ lease' = [lease EXCEPT ![b] = "none"]
        /\ robbed' = IF lease[b] = "live" THEN robbed \union {b} ELSE robbed
        /\ GoTo(a, "reapLook") /\ my' = [my EXCEPT ![a] = None]
        /\ UNCHANGED <<seen, force, key, lock, owner, record, world, forgotten, jobs, unsure,
                       blind, ops, faults>>

(* Without the lock zsreap asks whether there is an idle manager of ours;  *)
(* after the grace it calls down().                                        *)
ReapLooks(a) ==
    /\ At(a, "reapLook")
    /\ \/ /\ \E active \in ActiveAnswers(owner.id), identity \in IdentityAnswers(owner.id) :
                SelfAlive(a, active, identity)
          /\ ShowsIdle(owner.instance) /\ NoLiveLease
          /\ GoTo(a, "downLock") /\ UNCHANGED <<my, seen, force, key, lock>>
       \/ Return(a)
    /\ UNCHANGED <<owner, lease, record, world, history, ops, faults>>

(* manager_lock(): the lock, or LockTimeout.                               *)
TakeLock(a) ==
    /\ \/ At(a, "upLock") /\ GoTo(a, "upDecide")
       \/ At(a, "downLock") /\ GoTo(a, "downCheck")
       \/ At(a, "subLock") /\ GoTo(a, "subClaim")
    /\ lock = None /\ lock' = a
    /\ UNCHANGED <<my, seen, force, key, owner, lease, record, world, history, ops, faults>>

LockTimeout(a) ==
    /\ pc[a] \in {"upLock", "downLock", "subLock"} /\ lock # None
    /\ Return(a)
    /\ UNCHANGED <<owner, lease, record, world, history, ops, faults>>

(* The kernel closes the descriptors of a process, and drops its lock.     *)
Dies(a) == Return(a)

(* The process is killed.  A manager it has just started is recorded       *)
(* nowhere.                                                                *)
Crash(a) ==
    /\ ~At(a, "idle") /\ faults < MaxFaults /\ faults' = faults + 1
    /\ Dies(a)
    /\ forgotten' = forgotten \union (IF pc[a] \in {"upRecord", "upWait"} THEN {my[a]} ELSE {})
    /\ UNCHANGED <<owner, lease, record, world, robbed, jobs, unsure, blind, ops>>

-----------------------------------------------------------------------------
(* up(): adopt, else provision.                                            *)

(* adopt(), on the fast path and again under the lock; it writes nothing.  *)
UpAdopts(a) ==
    /\ At(a, "upLock") \/ Holding(a, "upDecide")
    /\ Reachable # {}
    /\ Return(a)
    /\ UNCHANGED <<owner, lease, record, world, history, ops, faults>>

(* A provision is in flight, or the command may not provision.             *)
UpRefuses(a) ==
    /\ Holding(a, "upDecide")
    /\ Return(a)
    /\ UNCHANGED <<owner, lease, record, world, history, ops, faults>>

(* No manager answers and none of ours seems to be in flight.              *)
MayProvision(a) ==
    /\ Holding(a, "upDecide")
    /\ \E active \in ActiveAnswers(owner.id), identity \in IdentityAnswers(owner.id) :
          ~InFlight(a, active, identity)

(* A manager starts, under a name no other had.                            *)
Unused(m) == mgr[m] = "unused"
Starting(m) ==
    /\ \E n \in Managers : Unused(n)
    /\ m = CHOOSE n \in Managers : Unused(n)
    /\ mgr' = [mgr EXCEPT ![m] = "coming"]

(* The marker is written before sbatch.                                    *)
Reserve(a) ==
    /\ MayProvision(a)
    /\ owner' = [NoOwner EXCEPT !.backend = "node", !.host = HostOf[a],
                                !.provisioning = TRUE, !.fresh = TRUE]
    /\ forgotten' = forgotten \union OutOfSight(a)
    /\ GoTo(a, "upSbatch") /\ Keep
    /\ UNCHANGED <<lock, lease, record, world, robbed, jobs, unsure, blind, ops, faults>>

(* provision_node(): sbatch accepts, accepts and times out, or rejects.    *)
Sbatch(a) ==
    /\ Holding(a, "upSbatch")
    /\ \/ \E m \in Managers :
             /\ Starting(m)
             /\ \/ my' = [my EXCEPT ![a] = m] /\ GoTo(a, "upRecord") /\ UNCHANGED forgotten
                \/ forgotten' = forgotten \union {m} /\ GoTo(a, "upUndo") /\ UNCHANGED my
       \/ GoTo(a, "upUndo") /\ UNCHANGED <<mgr, my, forgotten>>
    /\ UNCHANGED <<seen, force, key, files, human, busy, robbed, jobs, unsure, blind, ops, faults>>

Undo(a) ==
    /\ Holding(a, "upUndo")
    /\ owner' = NoOwner
    /\ Return(a)
    /\ UNCHANGED <<lease, record, world, history, ops, faults>>

(* The job id is merged into the marker and the lock released.             *)
Record(a) ==
    /\ Holding(a, "upRecord")
    /\ owner' = [owner EXCEPT !.backend = "node", !.id = my[a], !.host = HostOf[a],
                              !.provisioning = FALSE]
    /\ GoTo(a, "upPoll") /\ Unlock(a) /\ Keep
    /\ UNCHANGED <<lease, record, world, history, ops, faults>>

(* Mutant: the first instance that answers is taken for the new one.       *)
FirstReachable(a) == Reachable

(* _node_banner_instance(): the instance our own job announced.            *)
BannerInstance(a) == Reachable \intersect {my[a]}

(* Without the lock: wait for the manager, at most wait_s.                 *)
Poll(a) ==
    /\ At(a, "upPoll")
    /\ \/ \E i \in BannerInstance(a) :
             my' = [my EXCEPT ![a] = i] /\ GoTo(a, "upBind") /\ UNCHANGED <<seen, force, key, lock>>
       \/ Return(a)
    /\ UNCHANGED <<owner, lease, record, world, history, ops, faults>>

(* write_owner() without the lock: it reads the marker there is now ...     *)
ReadMarker(a) ==
    /\ At(a, "upBind")
    /\ seen' = [seen EXCEPT ![a] = owner]
    /\ GoTo(a, "upWrite")
    /\ UNCHANGED <<my, force, key, files, world, history, ops, faults>>

(* ... and writes it back with the instance, whoever wrote one in between; *)
(* where there was none it writes one that is not ours.                    *)
Bind(a) ==
    /\ At(a, "upWrite")
    /\ owner' = [seen[a] EXCEPT !.instance = my[a], !.provisioning = FALSE, !.fresh = FALSE]
    /\ forgotten' = forgotten \union
                    (IF Alive(owner.id) /\ owner.id # seen[a].id THEN {owner.id} ELSE {})
    /\ Return(a)
    /\ UNCHANGED <<lease, record, world, robbed, jobs, unsure, blind, ops, faults>>

(* provision_login(): start a process ...                                  *)
Popen(a) ==
    /\ MayProvision(a)
    /\ \E m \in Managers :
          /\ Starting(m)
          /\ my' = [my EXCEPT ![a] = m]
    /\ forgotten' = forgotten \union OutOfSight(a)
    /\ GoTo(a, "upWait")
    /\ UNCHANGED <<seen, force, key, files, human, busy, robbed, jobs, unsure, blind, ops, faults>>

(* ... and record it when it answers; after 30 s it is left to itself.     *)
WaitLogin(a) ==
    LET m == my[a]
    IN  /\ Holding(a, "upWait")
        /\ \/ /\ m \in Reachable
              /\ owner' = [NoOwner EXCEPT !.backend = "login", !.id = m, !.host = HostOf[a],
                                          !.instance = m]
              /\ UNCHANGED forgotten
           \/ forgotten' = forgotten \union {m} /\ UNCHANGED owner
        /\ Return(a)
        /\ UNCHANGED <<lease, record, world, robbed, jobs, unsure, blind, ops, faults>>

-----------------------------------------------------------------------------
(* down(force), under the lock to its end.                                 *)

(* Clearing the marker of a manager that could not be seen loses it.       *)
ClearBlindly(a, active) ==
    /\ owner' = NoOwner
    /\ forgotten' = forgotten \union OutOfSight(a) \union
                    (IF active = "unknown" /\ Exists(owner.id) THEN {owner.id} ELSE {})

(* Mutant: force waives the leases too.                                    *)
ForceWaives(a) == force[a] \/ NoLiveLease

(* No agent has a live lease, force or not.                                *)
NotLeased(a) == NoLiveLease

DownCheck(a) ==
    /\ Holding(a, "downCheck")
    /\ \E active \in ActiveAnswers(owner.id), identity \in IdentityAnswers(owner.id) :
          \/ owner.backend = "none" /\ Return(a) /\ UNCHANGED <<owner, forgotten>>
          \/ /\ owner.backend # "none" /\ ~SelfAlive(a, active, identity)
             /\ ClearBlindly(a, active) /\ Return(a)
          \/ /\ owner.backend # "none" /\ SelfAlive(a, active, identity)
             /\ IF NotLeased(a)
                THEN /\ GoTo(a, "downStatus") /\ seen' = [seen EXCEPT ![a] = owner]
                     /\ UNCHANGED <<lock, my, force, key>>
                ELSE Return(a)
             /\ UNCHANGED <<owner, forgotten>>
    /\ UNCHANGED <<lease, record, world, robbed, jobs, unsure, blind, ops, faults>>

DownStatus(a) ==
    /\ Holding(a, "downStatus")
    /\ \/ /\ force[a] \/ ShowsIdle(seen[a].instance)
          /\ GoTo(a, "downStop") /\ UNCHANGED <<lock, my, seen, force, key>>
       \/ ~force[a] /\ Return(a)
    /\ UNCHANGED <<owner, lease, record, world, history, ops, faults>>

(* Mutant: the id is cancelled as it stands in the marker.                 *)
TrustsMarker(identity) == TRUE

(* _job_is_our_manager(jobid) is not False                                 *)
MayBeOurs(identity) == identity # "no"

(* scancel, after a last look at whose job the id is.                      *)
StopNode(a) ==
    /\ Holding(a, "downStop") /\ seen[a].backend = "node"
    /\ \E identity \in IdentityAnswers(seen[a].id) :
          IF MayBeOurs(identity)
          THEN /\ mgr' = [mgr EXCEPT ![seen[a].id] =
                            CASE @ \in {"coming", "serving"} -> "dying"
                              [] @ = "reused"                -> "struck"
                              [] OTHER                       -> @]
               /\ blind' = IF identity = "unknown" THEN blind \union {seen[a].id} ELSE blind
               /\ GoTo(a, "downClear") /\ Keep
               /\ UNCHANGED <<lock, owner>>
          ELSE /\ owner' = NoOwner /\ Return(a)
               /\ UNCHANGED <<mgr, blind>>
    /\ UNCHANGED <<lease, record, human, busy, forgotten, robbed, jobs, unsure, ops, faults>>

(* SIGTERM to a process whose start time is the recorded one.              *)
StopLogin(a) ==
    /\ Holding(a, "downStop") /\ seen[a].backend = "login" /\ PidIsOurs(a, seen[a])
    /\ mgr' = [mgr EXCEPT ![seen[a].id] = "dying"]
    /\ GoTo(a, "downClear") /\ Keep
    /\ UNCHANGED <<files, human, busy, history, ops, faults>>

(* scancel failed, or the process is not to be seen: the marker stays.     *)
StopFails(a) ==
    /\ Holding(a, "downStop")
    /\ Return(a)
    /\ UNCHANGED <<owner, lease, record, world, history, ops, faults>>

(* The marker goes; that of a login manager only once the process is gone. *)
DownClear(a) ==
    /\ Holding(a, "downClear")
    /\ IF seen[a].backend = "login" /\ PidIsOurs(a, seen[a])
       THEN UNCHANGED owner ELSE owner' = NoOwner
    /\ Return(a)
    /\ UNCHANGED <<lease, record, world, history, ops, faults>>

-----------------------------------------------------------------------------
(* submit(): claim the key and the lease under the lock, send without it.  *)

(* Mutant: only a finished submit is replayed.                             *)
DoneBefore(k) == record[k] = "done"

(* The key was submitted, or someone is at it.                             *)
Replayed(k) == record[k] # "none"

SubClaim(a) ==
    /\ Holding(a, "subClaim")
    /\ \/ \E i \in Reachable :
             /\ ~Replayed(key[a])
             /\ record' = [record EXCEPT ![key[a]] = "inflight"]
             /\ my' = [my EXCEPT ![a] = i] /\ GoTo(a, "subLease")
             /\ UNCHANGED <<lock, seen, force, key>>
       \/ Return(a) /\ UNCHANGED record
    /\ UNCHANGED <<owner, lease, world, history, ops, faults>>

WriteLease(a) == lease' = [lease EXCEPT ![a] = "live"]

SubLease(a) ==
    /\ Holding(a, "subLease")
    /\ WriteLease(a) /\ robbed' = robbed \ {a}
    /\ Unlock(a) /\ GoTo(a, "subSend") /\ Keep
    /\ UNCHANGED <<owner, record, world, forgotten, jobs, unsure, blind, ops, faults>>

(* The manager of the submit takes a job.                                  *)
TakesJob(a) ==
    /\ my[a] \in Reachable
    /\ busy' = busy \union ({my[a]} \intersect Managers)
    /\ jobs' = [jobs EXCEPT ![key[a]] = @ + 1]

SendAccepted(a) ==
    /\ At(a, "subSend") /\ TakesJob(a)
    /\ GoTo(a, "subFinal") /\ Keep
    /\ UNCHANGED <<files, mgr, human, forgotten, robbed, unsure, blind, ops, faults>>

(* The job is taken and zsbatch does not learn it: it tries again or fails  *)
(* (at most once per key: a bound).                                        *)
SendUnsure(a) ==
    /\ At(a, "subSend") /\ key[a] \notin unsure /\ TakesJob(a)
    /\ unsure' = unsure \union {key[a]}
    /\ UNCHANGED <<files, mgr, human, control, forgotten, robbed, blind, ops, faults>>

(* rc # 0: the claim of the key is removed.                                *)
SendFails(a) ==
    /\ At(a, "subSend")
    /\ record' = [record EXCEPT ![key[a]] = "none"]
    /\ Return(a)
    /\ UNCHANGED <<owner, lease, world, history, ops, faults>>

SubFinal(a) ==
    /\ At(a, "subFinal")
    /\ record' = [record EXCEPT ![key[a]] = "done"]
    /\ GoTo(a, "subRenew") /\ Keep
    /\ UNCHANGED <<lock, owner, lease, world, history, ops, faults>>

SubRenew(a) ==
    /\ At(a, "subRenew")
    /\ WriteLease(a) /\ Return(a)
    /\ UNCHANGED <<owner, record, world, history, ops, faults>>

-----------------------------------------------------------------------------
(* The world: Slurm, the human, time.                                      *)

Serves(m) ==
    /\ mgr[m] = "coming" /\ mgr' = [mgr EXCEPT ![m] = "serving"]
    /\ UNCHANGED <<human, busy, files, control, history, ops, faults>>

(* A manager told to stop is gone; another ends: walltime, a node fails.   *)
Ends(m) ==
    /\ \/ mgr[m] = "dying" /\ UNCHANGED faults
       \/ Alive(m) /\ faults < MaxFaults /\ faults' = faults + 1
    /\ mgr' = [mgr EXCEPT ![m] = "gone"]
    /\ busy' = busy \ {m}
    /\ UNCHANGED <<human, files, control, history, ops>>

(* An id is reused long after; it matters while a marker still names it.   *)
Reused(m) ==
    /\ mgr[m] = "gone" /\ m \in {owner.id} \union {seen[a].id : a \in Agents}
    /\ mgr' = [mgr EXCEPT ![m] = "reused"]
    /\ UNCHANGED <<human, busy, files, control, history, ops, faults>>

HumanStops ==
    /\ human /\ human' = FALSE
    /\ UNCHANGED <<mgr, busy, files, control, history, ops, faults>>

(* The jobs are over, or they run on an engine the status does not show.   *)
WorkDone(m) ==
    /\ m \in busy /\ busy' = busy \ {m}
    /\ UNCHANGED <<mgr, human, files, control, history, ops, faults>>

(* A lease outlasts by half an hour the submit that wrote it.              *)
ExpireLease(a) ==
    /\ lease[a] = "live" /\ pc[a] \notin {"subSend", "subFinal", "subRenew"}
    /\ lease' = [lease EXCEPT ![a] = "expired"]
    /\ UNCHANGED <<lock, owner, record, world, control, history, ops, faults>>

(* RESERVATION_TTL_S passes.  sbatch is given up after a fifth of it.      *)
Age ==
    /\ owner.fresh /\ owner' = [owner EXCEPT !.fresh = FALSE]
    /\ UNCHANGED <<lock, lease, record, world, control, history, ops, faults>>

-----------------------------------------------------------------------------
(* What an agent does once it has begun a command.                         *)
AgentStep(a) ==
    \/ TakeLock(a) \/ LockTimeout(a)
    \/ RemoveExpired(a) \/ ReapLooks(a)
    \/ UpAdopts(a) \/ UpRefuses(a) \/ Reserve(a) \/ Sbatch(a) \/ Undo(a) \/ Record(a)
    \/ Poll(a) \/ ReadMarker(a) \/ Bind(a) \/ Popen(a) \/ WaitLogin(a)
    \/ DownCheck(a) \/ DownStatus(a) \/ StopNode(a) \/ StopLogin(a) \/ StopFails(a)
    \/ DownClear(a)
    \/ SubClaim(a) \/ SubLease(a) \/ SendAccepted(a) \/ SendUnsure(a) \/ SendFails(a)
    \/ SubFinal(a) \/ SubRenew(a)

Command(a) ==
    StartUp(a) \/ StartDown(a) \/ StartSubmit(a) \/ StartReap(a) \/ Release(a)

World ==
    \/ \E m \in Managers : Serves(m) \/ Ends(m) \/ Reused(m) \/ WorkDone(m)
    \/ HumanStops \/ Age
    \/ \E a \in Agents : ExpireLease(a)

CoordinationNext == (\E a \in Agents : Command(a) \/ AgentStep(a) \/ Crash(a)) \/ World

(* A living agent goes on with its command; time passes.                   *)
CoordinationSpec ==
    /\ CoordinationInit /\ [][CoordinationNext]_vars
    /\ WF_vars(Age) /\ \A a \in Agents : WF_vars(AgentStep(a))

-----------------------------------------------------------------------------
(* down() cancels no job but a manager's: another job of the user under a  *)
(* reused id is struck only when squeue did not say whose job it is.       *)
StopsOnlyOwn == \A m \in Managers : mgr[m] = "struck" => m \in blind

(* Two agents never bring up two managers: of those alive at most one is   *)
(* not lost by a known gap (an sbatch that timed out but was accepted, a   *)
(* login manager slow to answer or on another login node, a marker that    *)
(* down() cleared unseen or a late write_owner() took back, a crash before *)
(* the id was recorded).                                                   *)
OneSelfManager == Cardinality({m \in Managers : Alive(m) /\ m \notin forgotten}) <= 1

(* The marker's instance is that of its job, or of a manager that cannot   *)
(* answer or is lost: what is asked for its work is what will be stopped.  *)
MarkerNamesManager ==
    owner.backend # "none" /\ owner.instance \in Reachable =>
        \/ owner.instance = owner.id
        \/ owner.instance \in forgotten
        \/ owner.instance # Human /\ mgr[owner.instance] = "dying"

(* One key, one job, whoever retries and however the submits interleave    *)
(* and die, unless a zsbatch lost the answer of the manager.               *)
SubmittedOnce == \A k \in Keys : jobs[k] <= 1 \/ k \in unsure

(* A teardown never stops the manager an agent is submitting to, forced or *)
(* not, and without force it never stops one with work: submit() stakes    *)
(* its lease under the lock under which down() reads the leases.  Left     *)
(* out: an agent whose live lease a janitor removed, and a marker whose    *)
(* instance is not that of its job.                                        *)
Submitting(b) == pc[b] \in {"subLease", "subSend", "subFinal"}
StopsNothingInUse ==
    [][\A m \in Managers : Alive(m) /\ mgr'[m] = "dying" =>
          /\ \A b \in Agents \ robbed : my[b] = m => ~Submitting(b)
          /\ \/ m \notin busy \/ force[lock] \/ robbed # {}
             \/ seen[lock].instance # m]_vars

(* A reservation without a job blocks other agents only for a time.        *)
Reserved == owner.id = None /\ \E a \in Agents : InFlight(a, "no", "no")
ReservationEnds == Reserved ~> ~Reserved
=============================================================================
