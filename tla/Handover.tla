------------------------------ MODULE Handover ------------------------------
(***************************************************************************)
(* The explicit handover of the queue from a running manager (the source)  *)
(* to a newly started, empty one (the target), while chiefs run jobs,      *)
(* boot, and die (src/zslurm, src/zslurm_chief).  The target asks for it;  *)
(* handover_to() runs on the source's job server:                          *)
(*   idle        no handover is going on                                   *)
(*   preparing   SOURCE_PREPARING is set, jobs.lock not yet taken          *)
(*   sent        both locks held, the snapshot is on its way               *)
(*   imported    the target has answered receive_handover()                *)
(*   aliased     the instance record names the target                      *)
(*   undoing     an error: about to abort the import and to go on alone    *)
(*   activating  committed, locks released, activation to be sent          *)
(*   over        nothing left to do but to forward calls                   *)
(* An RPC is one step, as in PilotScheduling.  A job ends when its end is  *)
(* reported: retries, cancels and ledgers are the business of JobManager.  *)
(***************************************************************************)
EXTENDS Integers, FiniteSets

CONSTANTS
    Jobs,           \* the submissions, by their idempotency key
    Engines,        \* the pilots, by engine id
    NoEngine,       \* job.node_id is None
    NoCall,         \* no call is held up
    MaxHandovers,   \* attempts
    MaxLosses,      \* lost calls and answers
    MaxFileErrors,  \* instance records that cannot be written
    MaxKills,       \* pilots that die
    MaxExits        \* ends of the source after it has redirected its name

ASSUME HandoverAssumption ==
    /\ NoEngine \notin Engines
    /\ {MaxHandovers, MaxLosses, MaxFileErrors, MaxKills, MaxExits} \subseteq Nat

VARIABLES
    mode,       \* status.handover_mode of each manager
    state,      \* job.state in the table of each manager, "ABSENT" if not there
    node,       \* job.node_id in the table of each manager
    registered, \* engine_by_id of each manager
    step,       \* the place in handover_to(), see above
    alias,      \* the manager that the source's instance record names
    sourceUp,   \* the source process exists
    expected,   \* handover_expected_cluster_ids of the target
    arrived,    \* handover_registered_cluster_ids of the target
    terminal,   \* handover_terminal_cluster_ids of the target
    late,       \* a call that found the source not committed and waits for its lock
    up,         \* a pilot is "queued" in Slurm, "up" or "gone"
    at,         \* the manager a chief talks to
    kept,       \* grants a chief has received and not acknowledged
    running,    \* children of a chief
    codes,      \* jobs a chief has yet to report
    reported,   \* history: jobs whose end a manager has accepted
    budget      \* how many of each fault are left

tableVars    == <<state, node, registered>>
transferVars == <<mode, step, alias, sourceUp, expected, arrived, terminal>>
chiefVars    == <<up, at, kept, running, codes>>
vars         == <<tableVars, transferVars, chiefVars, late, reported, budget>>

Managers    == {"source", "target"}
JobStates   == {"ABSENT", "PENDING", "ASSIGNED", "RUNNING", "DONE"}
LiveStates  == {"PENDING", "ASSIGNED", "RUNNING"}
TargetModes == {"TARGET_IMPORTED", "TARGET_MIGRATING", "TARGET_ACTIVE"}
Modes       == {"ACTIVE", "SOURCE_PREPARING", "SOURCE_COMMITTED"} \union TargetModes
Steps       == {"idle", "preparing", "sent", "imported", "aliased", "undoing",
                "activating", "over"}
Calls       == [call : {"start", "finish"}, chief : Engines, job : Jobs]
Budgets     == [handover |-> MaxHandovers, loss |-> MaxLosses, file |-> MaxFileErrors,
                kill |-> MaxKills, exit |-> MaxExits]

HandoverTypeOK ==
    /\ mode \in [Managers -> Modes]
    /\ state \in [Managers -> [Jobs -> JobStates]]
    /\ node \in [Managers -> [Jobs -> Engines \union {NoEngine}]]
    /\ registered \in [Managers -> SUBSET Engines]
    /\ step \in Steps /\ alias \in Managers /\ sourceUp \in BOOLEAN
    /\ expected \subseteq Engines /\ arrived \subseteq Engines
    /\ terminal \subseteq expected \ arrived
    /\ late \in Calls \union {NoCall}
    /\ up \in [Engines -> {"queued", "up", "gone"}] /\ at \in [Engines -> Managers]
    /\ kept \in [Engines -> SUBSET Jobs] /\ running \in [Engines -> SUBSET Jobs]
    /\ codes \in [Engines -> SUBSET Jobs]
    /\ reported \subseteq Jobs
    /\ budget \in [DOMAIN Budgets -> Nat]

Spend(kind) == budget[kind] > 0 /\ budget' = [budget EXCEPT ![kind] = @ - 1]
NoFault     == UNCHANGED budget

EmptyState == [j \in Jobs |-> "ABSENT"]
NoNodes    == [j \in Jobs |-> NoEngine]
Nothing    == [e \in Engines |-> {}]

HandoverInit ==
    /\ mode = [m \in Managers |-> "ACTIVE"]
    /\ state = [m \in Managers |-> EmptyState]
    /\ node = [m \in Managers |-> NoNodes]
    /\ registered = [m \in Managers |-> {}]
    /\ step = "idle" /\ alias = "source" /\ sourceUp = TRUE
    /\ expected = {} /\ arrived = {} /\ terminal = {}
    /\ late = NoCall
    /\ up = [e \in Engines |-> "queued"] /\ at = [e \in Engines |-> "source"]
    /\ kept = Nothing /\ running = Nothing /\ codes = Nothing
    /\ reported = {}
    /\ budget = Budgets

-----------------------------------------------------------------------------
(* Who answers, and for whom.                                              *)

Known(e)        == running[e] \union codes[e]
Committed       == mode["source"] = "SOURCE_COMMITTED"
AssignedTo(m, e) == {j \in Jobs : state[m][j] = "ASSIGNED" /\ node[m][j] = e}
Hosted(m, e)    == {j \in Jobs : state[m][j] \in {"ASSIGNED", "RUNNING"} /\ node[m][j] = e}

(* jobs.lock and engines.lock are held from the snapshot to the commit or  *)
(* the rollback, and the chiefs' server of a manager is single-threaded.   *)
Locked     == sourceUp /\ step \in {"sent", "imported", "aliased", "undoing"}
Answers(m) == m = "target" \/ (sourceUp /\ ~Locked /\ late = NoCall)

(* Mutant: the source answers for itself for ever.                         *)
NotForwarded(m) == m

(* A committed source grants nothing and forwards ends and departures.     *)
Schedules(m)    == m = "target" \/ ~Committed
ForwardedTo(m)  == IF Schedules(m) THEN m ELSE "target"

(* Mutant: only pilots that arrive count.                                  *)
FinishedByArrival(came, ended) == expected \subseteq came

(* _maybe_finish_chief_migration(): every chief of the snapshot has        *)
(* registered or is known to be dead.                                      *)
Finished(came, ended) == expected \subseteq came \union ended
Settled(old, came, ended) ==
    IF old \in {"TARGET_IMPORTED", "TARGET_MIGRATING"} /\ Finished(came, ended)
    THEN "TARGET_ACTIVE" ELSE old

(* register(), here and at the target, which counts those that arrive.     *)
RegisterAt(m, e) ==
    /\ registered' = [registered EXCEPT ![m] = @ \union {e}]
    /\ IF m = "target" /\ mode[m] \in TargetModes
       THEN /\ arrived' = arrived \union {e}
            /\ mode' = [mode EXCEPT ![m] = Settled(@, arrived', terminal)]
       ELSE UNCHANGED <<arrived, mode>>
    /\ UNCHANGED <<step, alias, sourceUp, expected, terminal>>

(* engine_removed(): what the engine held is queued again.                 *)
Requeue(m, D) ==
    /\ state' = [state EXCEPT ![m] = [j \in Jobs |-> IF j \in D THEN "PENDING" ELSE @[j]]]
    /\ node' = [node EXCEPT ![m] = [j \in Jobs |-> IF j \in D THEN NoEngine ELSE @[j]]]

EngineRemoved(m, e) ==
    /\ Requeue(m, Hosted(m, e))
    /\ registered' = [registered EXCEPT ![m] = @ \ {e}]

-----------------------------------------------------------------------------
(* Clients.  The source's job server is busy with handover_to() until it   *)
(* is over; afterwards it forwards, and clients follow the alias.          *)
Reaches(m) ==
    \/ m = "source" /\ sourceUp /\ step = "idle"
    \/ m = "target" /\ alias = "target"

(* submit_job(): a key that is known is answered with the job it names.    *)
Submit(m, j) ==
    /\ Reaches(m) /\ state[m][j] = "ABSENT"
    /\ state' = [state EXCEPT ![m][j] = "PENDING"]
    /\ NoFault /\ UNCHANGED <<node, registered, transferVars, chiefVars, late, reported>>

-----------------------------------------------------------------------------
(* Chiefs.                                                                 *)

(* request_jobs(): some of the queue and of what other engines have not    *)
(* acknowledged becomes ASSIGNED to e; its own grants are replayed.        *)
Grantable(m, e) ==
    {j \in Jobs : state[m][j] = "PENDING" \/ (state[m][j] = "ASSIGNED" /\ node[m][j] # e)}

Request(e, new) ==
    LET m == at[e]
    IN  /\ up[e] = "up" /\ kept[e] = {} /\ Answers(m) /\ Schedules(m)
        /\ new \subseteq Grantable(m, e)
        /\ state' = [state EXCEPT ![m] =
                        [j \in Jobs |-> IF j \in new THEN "ASSIGNED" ELSE @[j]]]
        /\ node' = [node EXCEPT ![m] = [j \in Jobs |-> IF j \in new THEN e ELSE @[j]]]
        /\ \/ kept' = [kept EXCEPT ![e] = AssignedTo(m, e) \union new] /\ NoFault
           \/ UNCHANGED kept /\ Spend("loss")
        /\ UNCHANGED <<registered, transferVars, up, at, running, codes, late, reported>>

(* can_run_assigned_job().                                                 *)
CanRun(m, e, j) == node[m][j] = e /\ state[m][j] \in {"ASSIGNED", "RUNNING"}

Started(m, j)  == state' = [state EXCEPT ![m][j] = "RUNNING"]
Spawn(e, j) ==
    /\ kept' = [kept EXCEPT ![e] = @ \ {j}]
    /\ running' = [running EXCEPT ![e] = @ \union {j}]

(* Mutant: the committed source goes on giving permission.                 *)
MayStartAnywhere(m, e, j) == CanRun(m, e, j)

MayStart(m, e, j) == Schedules(m) /\ CanRun(m, e, j)

Acknowledge(e, j) ==
    LET m == at[e]
    IN  /\ up[e] = "up" /\ j \in kept[e] /\ Answers(m)
        /\ \/ /\ MayStart(m, e, j) /\ Started(m, j)
              /\ \/ Spawn(e, j) /\ NoFault
                 \/ UNCHANGED <<kept, running>> /\ Spend("loss")
           \/ /\ ~MayStart(m, e, j) /\ NoFault
              /\ kept' = [kept EXCEPT ![e] = @ \ {j}]
              /\ UNCHANGED <<state, running>>
        /\ UNCHANGED <<node, registered, transferVars, up, at, codes, late, reported>>

(* A chief that waits for an answer holds status.lock.                     *)
Waits(e) == late # NoCall /\ late.chief = e

Exit(e, j) ==
    /\ j \in running[e] /\ ~Waits(e)
    /\ running' = [running EXCEPT ![e] = @ \ {j}]
    /\ codes' = [codes EXCEPT ![e] = @ \union {j}]
    /\ NoFault /\ UNCHANGED <<tableVars, transferVars, up, at, kept, late, reported>>

(* job_finished(): the end of a job that the manager has in its table.     *)
Finish(m, j) ==
    /\ state' = [state EXCEPT ![m][j] = IF @ \in LiveStates THEN "DONE" ELSE @]
    /\ node' = [node EXCEPT ![m][j] = NoEngine]
    /\ reported' = reported \union {j}

Report(e, j) ==
    /\ up[e] = "up" /\ j \in codes[e] /\ Answers(at[e])
    /\ Finish(ForwardedTo(at[e]), j)
    /\ codes' = [codes EXCEPT ![e] = @ \ {j}]
    /\ NoFault /\ UNCHANGED <<registered, transferVars, up, at, kept, running, late>>

(* poll(): jobs the chief owns become RUNNING here, and some of those it   *)
(* was given and does not know are taken back (after enough misses).       *)
Heartbeat(e, lost) ==
    LET m       == at[e]
        adopted == {j \in Known(e) : state[m][j] \in {"PENDING", "ASSIGNED"}}
    IN  /\ up[e] = "up" /\ Answers(m) /\ Schedules(m)
        /\ lost \subseteq {j \in Jobs : state[m][j] = "RUNNING" /\ node[m][j] = e} \ Known(e)
        /\ state' = [state EXCEPT ![m] =
                        [j \in Jobs |-> IF j \in adopted THEN "RUNNING"
                                        ELSE IF j \in lost THEN "PENDING" ELSE @[j]]]
        /\ node' = [node EXCEPT ![m] =
                        [j \in Jobs |-> IF j \in adopted THEN e
                                        ELSE IF j \in lost THEN NoEngine ELSE @[j]]]
        /\ NoFault /\ UNCHANGED <<registered, transferVars, chiefVars, late, reported>>

(* Registering at the target: kept grants are dropped, children live on.   *)
MoveToTarget(e) ==
    /\ RegisterAt("target", e)
    /\ \/ /\ at' = [at EXCEPT ![e] = "target"]
          /\ kept' = [kept EXCEPT ![e] = {}]
          /\ NoFault
       \/ UNCHANGED <<at, kept>> /\ Spend("loss")
    /\ UNCHANGED <<state, node, up, running, codes, late, reported>>

(* A poll of the committed source is answered with MIGRATE_MANAGER.        *)
Migrate(e) ==
    /\ up[e] = "up" /\ at[e] = "source" /\ Answers("source") /\ Committed
    /\ MoveToTarget(e)

(* A poll of the source is not answered, and its name leads elsewhere.     *)
Reconnect(e) ==
    /\ up[e] = "up" /\ at[e] = "source" /\ ~Answers("source") /\ ~Waits(e)
    /\ alias = "target"
    /\ MoveToTarget(e)

(* A pilot comes out of Slurm's queue; the record it reads may be stale.   *)
Boot(e, m) ==
    /\ up[e] = "queued" /\ m \in {alias, "source"} /\ Answers(m)
    /\ RegisterAt(m, e)
    /\ up' = [up EXCEPT ![e] = "up"] /\ at' = [at EXCEPT ![e] = m]
    /\ NoFault /\ UNCHANGED <<state, node, kept, running, codes, late, reported>>

LoseChief(e) ==
    /\ up' = [up EXCEPT ![e] = "gone"]
    /\ kept' = [kept EXCEPT ![e] = {}] /\ running' = [running EXCEPT ![e] = {}]
    /\ codes' = [codes EXCEPT ![e] = {}]
    /\ UNCHANGED at

Die(e) ==
    /\ up[e] = "up" /\ LoseChief(e) /\ Spend("kill")
    /\ UNCHANGED <<tableVars, transferVars, late, reported>>

(* unregister(): the target of a committed source may not know the chief   *)
(* yet, and then leaves its record alone.                                  *)
Leave(e) ==
    LET m == ForwardedTo(at[e])
    IN  /\ up[e] = "up" /\ Known(e) = {} /\ Answers(at[e])
        /\ IF e \in registered[m] THEN EngineRemoved(m, e) ELSE UNCHANGED tableVars
        /\ LoseChief(e)
        /\ NoFault /\ UNCHANGED <<transferVars, late, reported>>

-----------------------------------------------------------------------------
(* The controllers.                                                        *)

(* A registered pilot is silent, is fenced, and Slurm confirms its end     *)
(* (PilotScheduling); the controller of a committed source does nothing.   *)
ConfirmTermination(m, e) ==
    /\ up[e] = "gone" /\ e \in registered[m]
    /\ Schedules(m) /\ (m = "source" => sourceUp /\ ~Locked)
    /\ EngineRemoved(m, e)
    /\ NoFault /\ UNCHANGED <<transferVars, chiefVars, late, reported>>

(* Mutant: what happened while sacct ran is not looked at.                 *)
ReconcileUnchecked(e) ==
    /\ mode["target"] = "TARGET_MIGRATING"
    /\ e \in expected \ terminal /\ up[e] = "gone"
    /\ EngineRemoved("target", e)
    /\ terminal' = terminal \union {e}
    /\ mode' = [mode EXCEPT !["target"] = Settled(@, arrived, terminal')]
    /\ NoFault
    /\ UNCHANGED <<step, alias, sourceUp, expected, arrived, chiefVars, late, reported>>

(* reconcile_imported_orphan_engine(): Slurm confirms the end of a pilot   *)
(* of the snapshot that has not registered; this is tested again under the *)
(* lock after sacct has answered.                                          *)
ReconcileOrphan(e) ==
    /\ mode["target"] = "TARGET_MIGRATING"
    /\ e \in expected \ (arrived \union terminal) /\ up[e] = "gone"
    /\ EngineRemoved("target", e)
    /\ terminal' = terminal \union {e}
    /\ mode' = [mode EXCEPT !["target"] = Settled(@, arrived, terminal')]
    /\ NoFault
    /\ UNCHANGED <<step, alias, sourceUp, expected, arrived, chiefVars, late, reported>>

-----------------------------------------------------------------------------
(* The handover.                                                           *)

TargetEmpty == state["target"] = EmptyState /\ registered["target"] = {}

(* initiate_handover() at the target, handover_to() at the source.         *)
Begin ==
    /\ sourceUp /\ step = "idle" /\ mode["source"] = "ACTIVE" /\ TargetEmpty
    /\ Spend("handover")
    /\ step' = "preparing"
    /\ mode' = [mode EXCEPT !["source"] = "SOURCE_PREPARING"]
    /\ UNCHANGED <<tableVars, alias, sourceUp, expected, arrived, terminal, chiefVars,
                   late, reported>>

TakeLocks ==
    /\ step = "preparing" /\ step' = "sent"
    /\ NoFault /\ UNCHANGED <<tableVars, mode, alias, sourceUp, expected, arrived,
                              terminal, chiefVars, late, reported>>

(* Mutant: the submissions that have ended are not part of the snapshot.   *)
SnapshotStateOfLive(j) ==
    CASE state["source"][j] = "ASSIGNED" -> "PENDING"
      [] state["source"][j] = "DONE"     -> "ABSENT"
      [] OTHER                           -> state["source"][j]

(* _build_handover_snapshot(): grants that are not acknowledged go back to *)
(* the queue; ended submissions stay known by their keys.                  *)
SnapshotState(j) ==
    IF state["source"][j] = "ASSIGNED" THEN "PENDING" ELSE state["source"][j]
SnapshotNode(j) ==
    IF state["source"][j] = "ASSIGNED" THEN NoEngine ELSE node["source"][j]
SnapshotChiefs == registered["source"]

Accepts == mode["target"] = "ACTIVE" /\ TargetEmpty

(* receive_handover(), _apply_handover_snapshot().                         *)
Import ==
    /\ state' = [state EXCEPT !["target"] = [j \in Jobs |-> SnapshotState(j)]]
    /\ node' = [node EXCEPT !["target"] = [j \in Jobs |-> SnapshotNode(j)]]
    /\ expected' = SnapshotChiefs /\ arrived' = {} /\ terminal' = {}

NotImported == UNCHANGED <<state, node, expected, arrived, terminal>>

(* The import is answered; or the source hears nothing of it, and goes on  *)
(* alone without an abort; or the target refuses.                          *)
Transfer ==
    /\ step = "sent"
    /\ \/ /\ Accepts /\ Import /\ step' = "imported"
          /\ mode' = [mode EXCEPT !["target"] = "TARGET_IMPORTED"]
          /\ NoFault
       \/ /\ Accepts /\ Import /\ step' = "idle"
          /\ mode' = [mode EXCEPT !["target"] = "TARGET_IMPORTED", !["source"] = "ACTIVE"]
          /\ Spend("loss")
       \/ /\ NotImported /\ step' = "idle"
          /\ mode' = [mode EXCEPT !["source"] = "ACTIVE"]
          /\ IF Accepts THEN Spend("loss") ELSE NoFault
    /\ UNCHANGED <<registered, alias, sourceUp, chiefVars, late, reported>>

(* The source's instance record is replaced; a write that fails leaves it. *)
Redirect ==
    /\ step = "imported"
    /\ \/ step' = "aliased" /\ alias' = "target" /\ NoFault
       \/ step' = "undoing" /\ UNCHANGED alias /\ Spend("file")
    /\ UNCHANGED <<tableVars, mode, sourceUp, expected, arrived, terminal, chiefVars,
                   late, reported>>

Commit ==
    /\ sourceUp /\ step = "aliased" /\ step' = "activating"
    /\ mode' = [mode EXCEPT !["source"] = "SOURCE_COMMITTED"]
    /\ NoFault /\ UNCHANGED <<tableVars, alias, sourceUp, expected, arrived, terminal,
                              chiefVars, late, reported>>

(* The rollback, with abort_received_handover(), which may get lost.       *)
Undo ==
    /\ step = "undoing" /\ step' = "idle"
    /\ \/ /\ mode' = [mode EXCEPT !["source"] = "ACTIVE", !["target"] = "ACTIVE"]
          /\ state' = [state EXCEPT !["target"] = EmptyState]
          /\ node' = [node EXCEPT !["target"] = NoNodes]
          /\ registered' = [registered EXCEPT !["target"] = {}]
          /\ expected' = {} /\ arrived' = {} /\ terminal' = {}
          /\ NoFault
       \/ /\ mode' = [mode EXCEPT !["source"] = "ACTIVE"]
          /\ UNCHANGED <<tableVars, expected, arrived, terminal>>
          /\ Spend("loss")
    /\ UNCHANGED <<alias, sourceUp, chiefVars, late, reported>>

(* activate_received_handover(), or the call is lost.                      *)
Activate ==
    /\ sourceUp /\ step = "activating" /\ step' = "over"
    /\ \/ /\ mode' = [mode EXCEPT !["target"] =
                        IF @ = "TARGET_ACTIVE" THEN @
                        ELSE Settled("TARGET_MIGRATING", arrived, terminal)]
          /\ NoFault
       \/ UNCHANGED mode /\ Spend("loss")
    /\ UNCHANGED <<tableVars, alias, sourceUp, expected, arrived, terminal, chiefVars,
                   late, reported>>

(* The source process ends.  Before its name leads to the target nothing   *)
(* of the queue survives, with or without a handover.                      *)
SourceExits ==
    /\ sourceUp /\ alias = "target" /\ Spend("exit")
    /\ sourceUp' = FALSE /\ step' = "over" /\ late' = NoCall
    /\ UNCHANGED <<tableVars, mode, alias, expected, arrived, terminal, chiefVars, reported>>

-----------------------------------------------------------------------------
HandoverNext ==
    \/ \E m \in Managers, j \in Jobs : Submit(m, j)
    \/ \E e \in Engines :
          \/ \E new \in SUBSET Jobs : Request(e, new)
          \/ \E j \in Jobs : Acknowledge(e, j) \/ Exit(e, j) \/ Report(e, j)
          \/ \E lost \in SUBSET Jobs : Heartbeat(e, lost)
          \/ Migrate(e) \/ Reconnect(e) \/ Die(e) \/ Leave(e) \/ ReconcileOrphan(e)
          \/ \E m \in Managers : Boot(e, m) \/ ConfirmTermination(m, e)
    \/ Begin \/ TakeLocks \/ Transfer \/ Redirect \/ Commit \/ Undo \/ Activate
    \/ SourceExits

HandoverSpec == HandoverInit /\ [][HandoverNext]_vars

(* A living chief goes on polling until it is answered; the controller of  *)
(* the target asks Slurm about pilots that do not come.                    *)
HandoverFairSpec ==
    /\ HandoverSpec
    /\ \A e \in Engines :
          WF_vars(Migrate(e) \/ Reconnect(e)) /\ WF_vars(ReconcileOrphan(e))

(* A call passes _wait_for_handover_prepare() and the test of the mode,    *)
(* and handover_to() takes jobs.lock before the call does.  (A late        *)
(* request_jobs() or poll() changes the abandoned tables only.)            *)
EnterLate(e, j) ==
    /\ up[e] = "up" /\ at[e] = "source" /\ Answers("source")
    /\ mode["source"] = "SOURCE_PREPARING"
    /\ \/ j \in kept[e] /\ late' = [call |-> "start", chief |-> e, job |-> j]
       \/ j \in codes[e] /\ late' = [call |-> "finish", chief |-> e, job |-> j]
    /\ NoFault /\ UNCHANGED <<tableVars, transferVars, chiefVars, reported>>

(* The lock is free again: the call goes on with the source's tables.      *)
ReturnLate ==
    LET e == late.chief
        j == late.job
    IN  /\ late # NoCall /\ sourceUp /\ ~Locked /\ late' = NoCall
        /\ \/ /\ late.call = "finish" /\ Finish("source", j)
              /\ codes' = [codes EXCEPT ![e] = @ \ {j}]
              /\ UNCHANGED <<kept, running>>
           \/ /\ late.call = "start" /\ CanRun("source", e, j) /\ Started("source", j)
              /\ IF up[e] = "up" THEN Spawn(e, j) ELSE UNCHANGED <<kept, running>>
              /\ UNCHANGED <<node, codes, reported>>
           \/ /\ late.call = "start" /\ ~CanRun("source", e, j)
              /\ kept' = [kept EXCEPT ![e] = @ \ {j}]
              /\ UNCHANGED <<state, node, running, codes, reported>>
        /\ NoFault /\ UNCHANGED <<registered, transferVars, up, at>>

LateSpec ==
    HandoverInit /\ [][HandoverNext \/ ReturnLate \/ \E e \in Engines, j \in Jobs : EnterLate(e, j)]_vars

-----------------------------------------------------------------------------
(* An end that a manager has accepted is never forgotten: the manager that *)
(* the instance record names knows that the job has ended, and does not    *)
(* run it again ("otherwise an in-flight completion could update the old   *)
(* copy", _wait_for_handover_prepare()).                                   *)
CompletionsKept == \A j \in reported : state[alias][j] = "DONE"

(* What a chief executes or has to report is RUNNING on it in the table of *)
(* the manager that the instance record names, throughout the handover.    *)
ChildrenOwned ==
    \A e \in Engines : \A j \in Known(e) :
        state[alias][j] = "RUNNING" /\ node[alias][j] = e

PhaseOf(s) ==
    CASE s = "ABSENT"  -> "absent"
      [] s = "PENDING" -> "queued"
      [] s = "DONE"    -> "done"
      [] OTHER         -> "held"

Lease == INSTANCE JobLease WITH
    phase  <- [j \in Jobs |-> PhaseOf(state[alias][j])],
    holder <- node[alias],
    exec   <- [j \in Jobs |-> {e \in Engines : j \in running[e]}]

(* The handover cannot be seen from outside: whichever manager the record  *)
(* names, the queue keeps the promise of JobLease.  No submission is lost  *)
(* or repeated, no job goes back to the queue, moves or ends while it has  *)
(* a process, and only its holder executes it.                             *)
HandoverIsInvisible == Lease!Spec

(* Once the target is activated the migration ends, although chiefs die or *)
(* leave before they arrive, registrations are lost, and the source exits. *)
MigrationEnds == mode["target"] = "TARGET_MIGRATING" ~> mode["target"] = "TARGET_ACTIVE"
=============================================================================
