----------------------------- MODULE JobManager -----------------------------
(***************************************************************************)
(* The manager's job table and engine table (src/zslurm, JobManager and    *)
(* EngineManager), one operator per RPC handler or controller step.  Each  *)
(* handler runs under jobs.lock, so it is one atomic step.  A handler      *)
(* constrains every variable of this module; what the caller sends and     *)
(* what becomes of the reply is the business of PilotScheduling.           *)
(*                                                                         *)
(* The tests of request_jobs() that depend on the shape of a job (memory,  *)
(* wall time, SSD, GPU, storage, dependencies, priority, capacity waits)   *)
(* may refuse any queued job: a request may grant any part of the queue    *)
(* that fits the free slots and the transfer limit.                        *)
(***************************************************************************)
EXTENDS Pilots

CONSTANTS
    MaxRequeue,     \* largest retry allowance a job is submitted with
    MissLimit       \* worker_grant_heartbeat_misses, at least 2

ASSUME RetryAssumption == MaxRequeue \in Nat /\ MissLimit \in Nat \ {0, 1}

VARIABLES
    state,          \* job.state; "ABSENT" before submit_job()
    node,           \* job.node_id
    requeue,        \* job.requeue, the retries left
    misses,         \* job.heartbeat_miss_count
    transferInUse,  \* dcache_*_inuse / s3_download_inuse
    registered,     \* the keys of engine_by_id
    stopping,       \* the engines with engine.stopping set
    phasing,        \* the engines whose status is PHASING_OUT
    engineJobs,     \* engine.jobs
    cancelCmds,     \* the CANCEL commands among engine.pending_commands
    deassignCmds,   \* the DEASSIGN commands among engine.pending_commands
    cancelled       \* history: jobs whose plain cancel was accepted

jobVars     == <<state, node, requeue, misses, transferInUse>>
flagVars    == <<registered, stopping, phasing>>
commandVars == <<cancelCmds, deassignCmds>>
managerVars == <<jobVars, flagVars, engineJobs, commandVars, cancelled>>

(* job.requeue can be raised to 1 by a cancel for restart.                 *)
RequeueBound == IF MaxRequeue = 0 THEN 1 ELSE MaxRequeue

ManagerTypeOK ==
    /\ state \in [Jobs -> JobStates]
    /\ node \in [Jobs -> Engines \union {NoEngine}]
    /\ requeue \in [Jobs -> 0 .. RequeueBound]
    /\ misses \in [Jobs -> 0 .. MissLimit - 1]
    /\ transferInUse \in Nat
    /\ registered \subseteq Engines
    /\ stopping \subseteq registered
    /\ phasing \subseteq registered
    /\ engineJobs \in [Engines -> SUBSET Jobs]
    /\ cancelCmds \in [Engines -> SUBSET Jobs]
    /\ deassignCmds \in [Engines -> SUBSET Jobs]
    /\ cancelled \subseteq Jobs

ManagerInit ==
    /\ state = [j \in Jobs |-> "ABSENT"]
    /\ node = [j \in Jobs |-> NoEngine]
    /\ requeue = [j \in Jobs |-> 0]
    /\ misses = [j \in Jobs |-> 0]
    /\ transferInUse = 0
    /\ registered = {} /\ stopping = {} /\ phasing = {}
    /\ engineJobs = [e \in Engines |-> {}]
    /\ cancelCmds = [e \in Engines |-> {}]
    /\ deassignCmds = [e \in Engines |-> {}]
    /\ cancelled = {}

-----------------------------------------------------------------------------
(* Views of the job table.                                                 *)

Queued       == {j \in Jobs : state[j] \in QueueStates}
Holdings(e)  == {j \in Jobs : node[j] = e /\ state[j] \in {"ASSIGNED", "RUNNING"}}
AssignedAt(e) == {j \in Jobs : state[j] = "ASSIGNED" /\ node[j] = e}
AssignedElsewhere(e) == {j \in Jobs : state[j] = "ASSIGNED" /\ node[j] # e}
RunningAt(e) == {j \in Jobs : state[j] = "RUNNING" /\ node[j] = e}

(* _engine_headroom_locked(): the slots of a registered engine that no     *)
(* RUNNING or ASSIGNED job holds.  An engine the manager does not know has *)
(* infinite headroom; "n jobs fit" therefore is a predicate, not a number. *)
HeadroomFor(e, held, n) ==
    e \in registered => n = 0 \/ n + Cardinality(held) <= Slots

TransferNeed(D) == Cardinality(D \intersect TransferJobs)

(* _dcache_transfer_fits_locked() for a set of jobs taken one by one.      *)
TransferFits(D) ==
    TransferNeed(D) > 0 => transferInUse + TransferNeed(D) <= TransferLimit

(* Mutant: a transfer slot is never given back.                            *)
TransferKept(D) == transferInUse

(* _release_dcache_transfer_locked(): never below zero.                    *)
TransferAfterRelease(D) ==
    IF transferInUse >= TransferNeed(D) THEN transferInUse - TransferNeed(D) ELSE 0

(* send_command() to the engine that holds a job; an engine that is not    *)
(* registered raises KeyError, which every caller swallows.                *)
Post(cmds, D) ==
    [e \in Engines |->
        cmds[e] \union {j \in D : node[j] = e /\ e \in registered}]

-----------------------------------------------------------------------------
(* job_done(): what a return code makes of a job.                          *)

(* Mutant: retries are not counted down to zero.                           *)
RetriesForEver(j, rc) == rc \notin {"SUCCESS", "TERMINATED"}

Retries(j, rc) == rc \notin {"SUCCESS", "TERMINATED"} /\ requeue[j] > 0

OutcomeState(j, rc) ==
    CASE Retries(j, rc) \/ rc = "ENGINE_TERMINATED"       -> "REQUEUED"
      [] ~Retries(j, rc) /\ rc = "SUCCESS"                -> "COMPLETED"
      [] ~Retries(j, rc) /\ rc \in {"CANCELLED", "TERMINATED"} -> "CANCELLED"
      [] OTHER                                            -> "FAILED"

(* job_done() for every job of D.  A job that ends leaves engine.jobs; one *)
(* that is queued again does not, because job_done() clears node_id before *)
(* it calls Job.done(), which then skips engines.job_stopped().            *)
JobDone(D, rc) ==
    /\ state' = [j \in Jobs |-> IF j \in D THEN OutcomeState(j, rc) ELSE state[j]]
    /\ requeue' = [j \in Jobs |->
                     IF j \in D /\ Retries(j, rc) THEN requeue[j] - 1 ELSE requeue[j]]
    /\ node' = [j \in Jobs |-> IF j \in D THEN NoEngine ELSE node[j]]
    /\ transferInUse' = TransferAfterRelease({j \in D : node[j] # NoEngine})

LeaveEngine(D, rc) ==
    engineJobs' = [e \in Engines |->
        engineJobs[e] \ {j \in D : node[j] = e /\ OutcomeState(j, rc) # "REQUEUED"}]

ResetMisses(D) == misses' = [j \in Jobs |-> IF j \in D THEN 0 ELSE misses[j]]

-----------------------------------------------------------------------------
(* Client requests (job server).                                           *)

SubmitJob(j, retries) ==
    /\ state[j] = "ABSENT"
    /\ state' = [state EXCEPT ![j] = "PENDING"]
    /\ requeue' = [requeue EXCEPT ![j] = retries]
    /\ UNCHANGED <<node, misses, transferInUse, flagVars, engineJobs, commandVars,
                   cancelled>>

(* Mutant: the retries of a cancelled job are left.                        *)
CancelKeepsRetries(j) ==
    /\ state[j] = "RUNNING"
    /\ cancelCmds' = Post(cancelCmds, {j})
    /\ cancelled' = cancelled \union {j}
    /\ UNCHANGED <<jobVars, engineJobs, deassignCmds, flagVars>>

(* cancel_job(requeue=False): a running job only loses its retries and is  *)
(* signalled through its engine; any other live job ends at once.          *)
CancelJob(j) ==
    /\ state[j] \in LiveStates
    /\ requeue' = [requeue EXCEPT ![j] = 0]
    /\ cancelled' = cancelled \union {j}
    /\ \/ /\ state[j] = "RUNNING"
          /\ cancelCmds' = Post(cancelCmds, {j})
          /\ UNCHANGED <<state, node, transferInUse, engineJobs, deassignCmds>>
       \/ /\ state[j] # "RUNNING"
          /\ state' = [state EXCEPT ![j] = "CANCELLED"]
          /\ node' = [node EXCEPT ![j] = NoEngine]
          /\ transferInUse' =
                TransferAfterRelease(IF node[j] = NoEngine THEN {} ELSE {j})
          /\ deassignCmds' = Post(deassignCmds, {j})
          /\ engineJobs' = [e \in Engines |->
                IF e = node[j] THEN engineJobs[e] \ {j} ELSE engineJobs[e]]
          /\ UNCHANGED cancelCmds
    /\ UNCHANGED <<misses, flagVars>>

(* cancel_job(requeue=True): only a running job is affected.               *)
CancelForRestart(j) ==
    /\ state[j] = "RUNNING"
    /\ requeue' = [requeue EXCEPT ![j] = IF @ = 0 THEN 1 ELSE @]
    /\ cancelCmds' = Post(cancelCmds, {j})
    /\ cancelled' = cancelled \ {j}
    /\ UNCHANGED <<state, node, misses, transferInUse, flagVars, engineJobs,
                   deassignCmds>>

-----------------------------------------------------------------------------
(* RPCs of a chief.                                                        *)

(* The early returns of request_jobs(): a stopping engine gets nothing, a  *)
(* phasing one only while phaseout_backfill_window() is positive, for      *)
(* which engine.jobs must not be empty.  An unregistered engine is served. *)
RequestRefused(e) ==
    \/ e \in stopping
    \/ e \in phasing /\ engineJobs[e] = {}

(* Mutant: the free counter of the chief is believed.                      *)
RequestJobsTrusting(e, advertised, grants, moved) ==
    LET taken == Cardinality(grants) + Cardinality(moved)
    IN  /\ ~RequestRefused(e)
        /\ grants \subseteq Queued /\ moved \subseteq AssignedElsewhere(e)
        /\ taken > 0 => Cardinality(AssignedAt(e)) + taken <= advertised
        /\ TransferFits(grants)
        /\ state' = [j \in Jobs |-> IF j \in grants THEN "ASSIGNED" ELSE state[j]]
        /\ node' = [j \in Jobs |-> IF j \in grants \union moved THEN e ELSE node[j]]
        /\ transferInUse' = transferInUse + TransferNeed(grants)
        /\ deassignCmds' = Post(deassignCmds, moved)
        /\ UNCHANGED <<requeue, misses, flagVars, engineJobs, cancelCmds, cancelled>>

(* request_jobs(): the queued jobs of grants and the jobs of moved, which  *)
(* other engines have not acknowledged, become ASSIGNED to e; the grants e *)
(* already holds are replayed.                                             *)
RequestJobs(e, advertised, grants, moved) ==
    LET taken == Cardinality(grants) + Cardinality(moved)
    IN  /\ ~RequestRefused(e)
        /\ grants \subseteq Queued /\ moved \subseteq AssignedElsewhere(e)
        /\ taken > 0 => Cardinality(AssignedAt(e)) + taken <= advertised
        /\ HeadroomFor(e, Holdings(e), taken)
        /\ TransferFits(grants)
        /\ state' = [j \in Jobs |-> IF j \in grants THEN "ASSIGNED" ELSE state[j]]
        /\ node' = [j \in Jobs |-> IF j \in grants \union moved THEN e ELSE node[j]]
        /\ transferInUse' = transferInUse + TransferNeed(grants)
        /\ deassignCmds' = Post(deassignCmds, moved)
        /\ UNCHANGED <<requeue, misses, flagVars, engineJobs, cancelCmds, cancelled>>

JobStart(S, e) ==
    engineJobs' = [engineJobs EXCEPT ![e] = IF e \in registered THEN @ \union S ELSE @]

(* can_run_assigned_job(): the answer, and the step.  check stands for the *)
(* SSD, monitor-role and GPU-device tests.                                 *)
MayStart(e, j, check) ==
    check /\ HeadroomFor(e, Holdings(e) \ {j}, 1)

(* Mutant: a stale grant starts a job that another engine holds by now.    *)
CanRunAnyGrant(e, j, check) ==
    /\ e \notin stopping
    /\ state[j] = "RUNNING" \/ (state[j] = "ASSIGNED" /\ MayStart(e, j, check))

(* Mutant: the fence is not looked at.                                     *)
CanRunBehindFence(e, j, check) ==
    /\ node[j] = e
    /\ state[j] = "RUNNING" \/ (state[j] = "ASSIGNED" /\ MayStart(e, j, check))

CanRun(e, j, check) ==
    /\ e \notin stopping
    /\ node[j] = e
    /\ state[j] = "RUNNING" \/ (state[j] = "ASSIGNED" /\ MayStart(e, j, check))

CanRunAssignedJob(e, j, check) ==
    \/ /\ CanRun(e, j, check) /\ state[j] = "ASSIGNED"
       /\ state' = [state EXCEPT ![j] = "RUNNING"]
       /\ misses' = [misses EXCEPT ![j] = 0]
       /\ JobStart({j}, e)
       /\ UNCHANGED <<node, requeue, transferInUse, flagVars, commandVars, cancelled>>
    \/ /\ ~CanRun(e, j, check)
       /\ e \notin stopping /\ j \in AssignedAt(e)
       /\ state' = [state EXCEPT ![j] = "PENDING"]
       /\ node' = [node EXCEPT ![j] = NoEngine]
       /\ transferInUse' = TransferAfterRelease({j})
       /\ UNCHANGED <<requeue, misses, flagVars, engineJobs, commandVars, cancelled>>
    \/ /\ e \in stopping \/ j \notin AssignedAt(e)
       /\ UNCHANGED managerVars

(* job_finished(): the reporting engine is not compared with job.node_id;  *)
(* a job that is not in the table any more is only logged.                 *)
JobFinished(j, rc) ==
    \/ /\ state[j] \in LiveStates
       /\ JobDone({j}, rc) /\ LeaveEngine({j}, rc) /\ ResetMisses({j})
       /\ UNCHANGED <<flagVars, commandVars, cancelled>>
    \/ /\ state[j] \notin LiveStates
       /\ UNCHANGED managerVars

(* Mutant: an adopted job is not reserved again.                           *)
ReservedNever(adopted) == {}

(* The adopted jobs whose start-use has to be reserved again.              *)
ReservedAgain(adopted) == adopted \intersect Queued

(* poll() of a registered engine that is not stopping: jobs the chief owns *)
(* become RUNNING here, with their transfer slot reserved again if they    *)
(* were queued; reconcile_engine_heartbeat() requeues the RUNNING jobs of  *)
(* this engine that the chief does not know for the MissLimit-th time.     *)
Adopted(known)  == {j \in known : state[j] \in LiveStates \ {"RUNNING"}}
Missed(e, known) == RunningAt(e) \ known
LostGrants(e, known) == {j \in Missed(e, known) : misses[j] + 1 >= MissLimit}

ReconcileHeartbeat(e, known) ==
    LET adopted == Adopted(known)
        lost    == LostGrants(e, known)
        rc      == "ENGINE_TERMINATED"
    IN  /\ state' = [j \in Jobs |->
                        IF j \in adopted THEN "RUNNING"
                        ELSE IF j \in lost THEN OutcomeState(j, rc) ELSE state[j]]
        /\ node' = [j \in Jobs |->
                        IF j \in adopted THEN e
                        ELSE IF j \in lost THEN NoEngine ELSE node[j]]
        /\ requeue' = [j \in Jobs |->
                        IF j \in lost /\ Retries(j, rc) THEN requeue[j] - 1 ELSE requeue[j]]
        /\ misses' = [j \in Jobs |->
                        IF j \in Missed(e, known) \ lost THEN misses[j] + 1
                        ELSE IF j \in lost \union adopted \union (known \intersect RunningAt(e))
                             THEN 0 ELSE misses[j]]
        /\ transferInUse' =
              LET reserved == transferInUse + TransferNeed(ReservedAgain(adopted))
              IN  IF reserved >= TransferNeed(lost)
                  THEN reserved - TransferNeed(lost) ELSE 0
        /\ JobStart(adopted, e)

Poll(e, known) ==
    /\ e \in registered
    /\ cancelCmds' = [cancelCmds EXCEPT ![e] = {}]
    /\ deassignCmds' = [deassignCmds EXCEPT ![e] = {}]
    /\ \/ e \in stopping /\ UNCHANGED <<jobVars, engineJobs>>
       \/ e \notin stopping /\ ReconcileHeartbeat(e, known)
    /\ UNCHANGED <<flagVars, cancelled>>

(* The STOP command a poll returns besides the pending ones.               *)
PollStops(e, idle) == e \in stopping \/ (idle /\ e \in phasing)

(* register(): a known allocation keeps its engine record (and its         *)
(* stopping fence), an unknown one gets a new record.                      *)
Register(e) ==
    /\ registered' = registered \union {e}
    /\ phasing' = phasing \ {e}
    /\ UNCHANGED <<jobVars, stopping, engineJobs, commandVars, cancelled>>

(* _unregister(): engine_removed() and then the removal of the engine      *)
(* record with its flags, its jobs and its pending commands.               *)
EngineRemoved(e) ==
    LET running  == RunningAt(e)
        assigned == AssignedAt(e)
        rc       == "ENGINE_TERMINATED"
    IN  /\ state' = [j \in Jobs |->
                        IF j \in running THEN OutcomeState(j, rc)
                        ELSE IF j \in assigned THEN "PENDING" ELSE state[j]]
        /\ node' = [j \in Jobs |->
                        IF j \in running \union assigned THEN NoEngine ELSE node[j]]
        /\ requeue' = [j \in Jobs |->
                        IF j \in running /\ Retries(j, rc) THEN requeue[j] - 1 ELSE requeue[j]]
        /\ ResetMisses(running)
        /\ transferInUse' = TransferAfterRelease(running \union assigned)
        /\ registered' = registered \ {e}
        /\ stopping' = stopping \ {e}
        /\ phasing' = phasing \ {e}
        /\ engineJobs' = [engineJobs EXCEPT ![e] = {}]
        /\ cancelCmds' = [cancelCmds EXCEPT ![e] = {}]
        /\ deassignCmds' = [deassignCmds EXCEPT ![e] = {}]
        /\ UNCHANGED cancelled

Unregister(e) ==
    \/ e \in registered /\ EngineRemoved(e)
    \/ e \notin registered /\ UNCHANGED managerVars

-----------------------------------------------------------------------------
(* The controller thread and the operator.                                 *)

(* Mutant: the jobs of a silent chief are given to others at once.         *)
FenceAndRequeue(e) == e \in registered /\ EngineRemoved(e)

(* reconcile_timed_out_engine(), chief silent for TIMEOUT: the engine is   *)
(* fenced, scancel is sent and its jobs stay where they are.               *)
Fence(e) ==
    /\ e \in registered
    /\ stopping' = stopping \union {e}
    /\ UNCHANGED <<jobVars, registered, phasing, engineJobs, commandVars, cancelled>>

TogglePhasingOut(e) ==
    /\ e \in registered
    /\ phasing' = IF e \in phasing THEN phasing \ {e} ELSE phasing \union {e}
    /\ UNCHANGED <<jobVars, registered, stopping, engineJobs, commandVars, cancelled>>
=============================================================================
