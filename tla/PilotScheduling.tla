-------------------------- MODULE PilotScheduling --------------------------
(***************************************************************************)
(* The manager and its chiefs together: every RPC with its answer, lost    *)
(* answers, dying pilots, the controller's fence and the operator.         *)
(*                                                                         *)
(* An RPC is one step: the handler runs under jobs.lock, and the chief     *)
(* waits for the answer (holding status.lock while it reports and while it *)
(* acknowledges).  Whatever happens between two RPCs interleaves.          *)
(***************************************************************************)
EXTENDS JobManager, Chief

CONSTANTS
    ExitCodes,           \* the codes a child may end with
    GrantChecks,         \* outcomes of can_run_assigned_job()'s shape tests
    MaxLosses,           \* lost RPCs or answers, completion reports excepted
    MaxShortages,        \* passes short of measured memory, or with a lease
                         \* acquisition in progress
    MaxReportLosses,     \* lost answers to job_finished()
    MaxKills,            \* pilots killed by something else than the manager
    MaxStops,            \* operator stops of a pilot
    MaxPhaseToggles,     \* operator toggles of the phasing-out status
    MaxCancels,          \* plain cancels
    MaxRestarts          \* cancels for restart

ASSUME EnvironmentAssumption ==
    /\ ExitCodes \subseteq ChildCodes /\ GrantChecks \subseteq BOOLEAN
    /\ {MaxLosses, MaxShortages, MaxReportLosses, MaxKills, MaxStops,
        MaxPhaseToggles, MaxCancels, MaxRestarts} \subseteq Nat

VARIABLES
    budget,         \* how many of each fault or operator request are left
    condemned       \* live allocations for which Slurm accepted scancel

vars == <<managerVars, chiefVars, budget, condemned>>

Budgets == [loss |-> MaxLosses, short |-> MaxShortages, report |-> MaxReportLosses,
            kill |-> MaxKills, stop |-> MaxStops, phase |-> MaxPhaseToggles,
            cancel |-> MaxCancels, restart |-> MaxRestarts]

Spend(kind) ==
    budget[kind] > 0 /\ budget' = [budget EXCEPT ![kind] = @ - 1]

NoFault == UNCHANGED <<budget, condemned>>
Lost    == Spend("loss") /\ UNCHANGED condemned
Short   == Spend("short") /\ UNCHANGED condemned

Init ==
    /\ ManagerInit /\ ChiefInit
    /\ budget = Budgets
    /\ condemned = {}

-----------------------------------------------------------------------------
(* Clients and the operator.                                               *)

Submit(j) ==
    /\ \E retries \in 0 .. MaxRequeue : SubmitJob(j, retries)
    /\ UNCHANGED chiefVars /\ NoFault

Cancel(j) ==
    /\ CancelJob(j)
    /\ Spend("cancel") /\ UNCHANGED <<chiefVars, condemned>>

CancelRestart(j) ==
    /\ CancelForRestart(j)
    /\ Spend("restart") /\ UNCHANGED <<chiefVars, condemned>>

TogglePhasing(e) ==
    /\ TogglePhasingOut(e)
    /\ Spend("phase") /\ UNCHANGED <<chiefVars, condemned>>

(* stop_slurm() / terminate_engine(): once scancel is accepted, cancel_cid *)
(* unregisters the engine at once, whatever its chief is doing.            *)
OperatorStop(e) ==
    /\ e \in registered /\ EngineRemoved(e)
    /\ condemned' = IF pc[e] = "dead" THEN condemned ELSE condemned \union {e}
    /\ Spend("stop") /\ UNCHANGED chiefVars

-----------------------------------------------------------------------------
(* RPCs of a chief.                                                        *)

Boot(e) ==
    /\ pc[e] \in {"boot", "rereg"} /\ Register(e)
    /\ \/ Registered(e) /\ NoFault
       \/ pc[e] = "boot" /\ UNCHANGED chiefVars /\ Lost

(* A registration that is not answered after REREGISTER is let go.         *)
ReregisterLost(e) ==
    /\ pc[e] = "rereg" /\ UNCHANGED managerVars
    /\ Registered(e) /\ Lost

Report(e, j) ==
    /\ pc[e] = "report" /\ j \in Unreported(e)
    /\ JobFinished(j, codes[e][j])
    /\ \/ ReportDelivered(e, j) /\ NoFault
       \/ UNCHANGED chiefVars /\ Spend("report") /\ UNCHANGED condemned

Requests(e) == pc[e] = "grant" /\ AsksForJobs(e) /\ assigned[e] = {}

RequestNothing(e) ==
    /\ Requests(e) /\ RequestRefused(e) /\ UNCHANGED managerVars
    /\ TakeBatch(e, {}) /\ NoFault

Request(e, grants, moved) ==
    /\ Requests(e)
    /\ RequestJobs(e, freeSlots[e], grants, moved)
    /\ \/ TakeBatch(e, AssignedAt(e) \union grants \union moved) /\ NoFault
       \/ TakeBatch(e, {}) /\ Lost

RequestSome(e) ==
    \E grants \in SUBSET Queued, moved \in SUBSET AssignedElsewhere(e) :
        Request(e, grants, moved)

Ack(e, j, check) ==
    /\ Acknowledges(e, j)
    /\ CanRunAssignedJob(e, j, check)
    /\ \/ CanRun(e, j, check) /\ ClaimGrant(e, j) /\ NoFault
       \/ ~CanRun(e, j, check) /\ DropGrant(e, j) /\ NoFault
       \/ KeepGrant(e, j) /\ Lost

AckUnsent(e, j) ==
    /\ Acknowledges(e, j) /\ UNCHANGED managerVars
    /\ KeepGrant(e, j) /\ Lost

PollAnswered(e) ==
    /\ Poll(e, Known(e))
    /\ \E idle \in BOOLEAN :
          /\ idle => running[e] \union pending[e] = {}
          /\ ObeyCommands(e, PollStops(e, idle), deassignCmds[e], cancelCmds[e])
    /\ NoFault

PollLost(e) ==
    /\ Poll(e, Known(e)) \/ UNCHANGED managerVars
    /\ PollUnanswered(e) /\ Lost

(* An engine the manager does not know is told to register again, or to    *)
(* stop if it is stopping anyway.                                          *)
PollUnknown(e) ==
    /\ e \notin registered /\ UNCHANGED managerVars
    /\ \/ mode[e] = "STOPPING" /\ ObeyCommands(e, TRUE, {}, {})
       \/ mode[e] = "RUNNING" /\ ObeyReregister(e)
    /\ NoFault

UnregisterAndLeave(e) ==
    /\ Leave(e)
    /\ condemned' = condemned \ {e}
    /\ \/ Unregister(e) /\ UNCHANGED budget
       \/ UNCHANGED managerVars /\ Spend("loss")

-----------------------------------------------------------------------------
(* Steps of a chief alone.                                                 *)

Local(e) ==
    /\ \/ NothingToReport(e)
       \/ SkipGrants(e) /\ ~AsksForJobs(e)
       \/ RetryKeptGrants(e)
       \/ \E j \in Jobs : SkipKnownGrant(e, j)
       \/ FinishStarts(e)
    /\ UNCHANGED managerVars /\ NoFault

(* The measured memory is short, or a lease acquisition is in progress: no *)
(* grants in this pass.                                                    *)
SkipForShortage(e) ==
    /\ AsksForJobs(e) /\ SkipGrants(e)
    /\ UNCHANGED managerVars /\ Short

(* One grant of the batch fits neither the slots nor the measured memory.  *)
KeepUnfitting(e, j) ==
    /\ pc[e] = "ack" /\ j \in batch[e] /\ ~AlreadyHere(e, j)
    /\ KeepGrant(e, j) /\ UNCHANGED managerVars
    /\ IF freeSlots[e] < 1 THEN NoFault ELSE Short

Start(e, j) ==
    /\ StartChild(e, j)
    /\ UNCHANGED managerVars /\ NoFault

FailStart(e, j) ==
    /\ StartFails(e, j)
    /\ UNCHANGED managerVars /\ NoFault

Exit(e, j, rc) ==
    /\ ChildExits(e, j, rc)
    /\ UNCHANGED managerVars /\ NoFault

-----------------------------------------------------------------------------
(* The end of pilots.                                                      *)

SpendKill(e) ==
    \/ e \in condemned /\ UNCHANGED budget
    \/ e \notin condemned /\ Spend("kill")

Kill(e) ==
    /\ Die(e) /\ SpendKill(e)
    /\ condemned' = condemned \ {e}
    /\ UNCHANGED managerVars

Sigterm(e) ==
    /\ Terminate(e) /\ SpendKill(e)
    /\ UNCHANGED <<managerVars, condemned>>

(* The controller fences a chief it has not heard for TIMEOUT; a chief     *)
(* that lives is silent only because its polls are lost.                   *)
FenceSilent(e) ==
    /\ e \notin stopping /\ Fence(e)
    /\ condemned' = IF pc[e] = "dead" THEN condemned ELSE condemned \union {e}
    /\ \/ pc[e] = "dead" /\ UNCHANGED budget
       \/ pc[e] # "dead" /\ Spend("loss")
    /\ UNCHANGED chiefVars

(* squeue and sacct confirm that the allocation of a fenced chief is gone. *)
ConfirmTermination(e) ==
    /\ e \in stopping /\ pc[e] = "dead"
    /\ EngineRemoved(e)
    /\ UNCHANGED chiefVars /\ NoFault

StartPilot(e) ==
    /\ e \notin registered /\ NewPilot(e)
    /\ UNCHANGED managerVars /\ NoFault

-----------------------------------------------------------------------------
Next ==
    \/ \E j \in Jobs : Submit(j) \/ Cancel(j) \/ CancelRestart(j)
    \/ \E e \in Engines :
          \/ TogglePhasing(e) \/ OperatorStop(e)
          \/ Boot(e) \/ ReregisterLost(e)
          \/ RequestNothing(e) \/ RequestSome(e)
          \/ PollAnswered(e) \/ PollLost(e) \/ PollUnknown(e)
          \/ Local(e) \/ SkipForShortage(e)
          \/ UnregisterAndLeave(e) \/ Kill(e) \/ Sigterm(e)
          \/ FenceSilent(e) \/ ConfirmTermination(e) \/ StartPilot(e)
    \/ \E e \in Engines, j \in Jobs :
          \/ Report(e, j)
          \/ \E check \in GrantChecks : Ack(e, j, check)
          \/ AckUnsent(e, j) \/ KeepUnfitting(e, j)
          \/ Start(e, j) \/ FailStart(e, j)
          \/ \E rc \in ExitCodes : Exit(e, j, rc)

Spec == Init /\ [][Next]_vars

(* Fairness.  WF: the main loop of a chief keeps going (its places follow  *)
(* one another, so one condition per chief will do); the controller fences *)
(* a dead chief, gets Slurm's confirmation and starts another pilot; Slurm *)
(* ends the allocations it has accepted to cancel.  SF, where another step *)
(* of the loop or another chief can disable the step again and again:      *)
(*   Requested  other jobs may be granted first, and other chiefs ask      *)
(*   Ack        another chief may take the grant over before it is         *)
(*              acknowledged; the acknowledgement follows the answer at    *)
(*              once, while chiefs ask once in PING_INTERVAL seconds       *)
(*   Start      a deferred start waits for the next pass of the loop       *)
(*   Exit       a monitor thread waits for status.lock while the chief     *)
(*              acknowledges                                               *)
LoopStep(e) ==
    \/ Boot(e) \/ ReregisterLost(e)
    \/ Local(e) \/ SkipForShortage(e) \/ \E j \in Jobs : KeepUnfitting(e, j)
    \/ \E j \in Jobs : Report(e, j)
    \/ RequestNothing(e) \/ RequestSome(e)
    \/ \E j \in Jobs : AckUnsent(e, j) \/ \E check \in GrantChecks : Ack(e, j, check)
    \/ PollAnswered(e) \/ PollLost(e) \/ PollUnknown(e)
    \/ UnregisterAndLeave(e)

Recovery(e) ==
    pc[e] = "dead" /\ (FenceSilent(e) \/ ConfirmTermination(e) \/ StartPilot(e))

SlurmCancels(e) == e \in condemned /\ (Kill(e) \/ Sigterm(e))

Requested(j) ==
    \E e \in Engines :
        \E grants \in SUBSET Queued, moved \in SUBSET AssignedElsewhere(e) :
            j \in AssignedAt(e) \union grants \union moved /\ Request(e, grants, moved)

PilotFairness ==
    \A e \in Engines :
        WF_vars(LoopStep(e)) /\ WF_vars(Recovery(e)) /\ WF_vars(SlurmCancels(e))

StartFairness(j) == SF_vars(\E e \in Engines : Start(e, j) \/ FailStart(e, j))

GrantFairness(j) ==
    /\ SF_vars(Requested(j))
    /\ SF_vars(\E e \in Engines : Ack(e, j, TRUE) /\ CanRun(e, j, TRUE))

(* Every child ends by itself.                                             *)
FairSpec ==
    /\ Spec /\ PilotFairness
    /\ \A j \in Jobs :
          /\ GrantFairness(j) /\ StartFairness(j)
          /\ SF_vars(\E e \in Engines, rc \in ExitCodes : Exit(e, j, rc))

(* A child ends for certain only when it is told to terminate, and nothing *)
(* is assumed about grants.                                                *)
CancelSpec ==
    /\ Spec /\ PilotFairness
    /\ \A j \in Jobs :
          /\ StartFairness(j)
          /\ SF_vars(\E e \in Engines, rc \in ExitCodes : j \in doomed[e] /\ Exit(e, j, rc))

-----------------------------------------------------------------------------
TypeOK ==
    /\ ManagerTypeOK /\ ChiefTypeOK
    /\ budget \in [DOMAIN Budgets -> Nat]
    /\ condemned \subseteq Engines

(* No job has two processes at once: "unsupervised duplicate attempts" are *)
(* what the two-phase grant, the heartbeat and the fence are to prevent.   *)
AtMostOneExecution ==
    \A j \in Jobs, e, f \in Engines :
        j \in running[e] /\ j \in running[f] => e = f

(* What a chief holds, has spawned or has not reported yet is RUNNING on   *)
(* that chief in the manager's job table.                                  *)
ExecutionIsOwned ==
    \A e \in Engines : \A j \in Known(e) : state[j] = "RUNNING" /\ node[j] = e

(* The transfer slots in use are those of the granted and running jobs,    *)
(* however grants are replayed, moved, refused, lost, cancelled or adopted *)
(* (_reserve/_release_dcache_transfer_locked).                             *)
TransferBalanced ==
    transferInUse = TransferNeed({j \in Jobs : node[j] # NoEngine})

(* The shared transfer limit is kept (_dcache_transfer_fits_locked).       *)
TransferWithinLimit == transferInUse <= TransferLimit

(* The manager never places more on a pilot than it has slots: replayed    *)
(* and stolen grants, lost answers and stale free counters of the chief    *)
(* do not overbook it (_engine_headroom_locked()).                         *)
PilotCapacity ==
    \A e \in registered : Cardinality(Holdings(e)) <= Slots

(* A chief's free counter is what its claimed jobs leave of its slots,     *)
(* whatever the order of claims, exits, failed starts, cancels and stops.  *)
SlotsConserved ==
    \A e \in Engines :
        /\ freeSlots[e] = Slots - Cardinality(pending[e] \union running[e])
        /\ freeSlots[e] >= 0

(* A pilot under the controller's fence takes no further job: grants it    *)
(* received before the fence, or whose acknowledgement was answered after  *)
(* it, do not turn into claims ("Silent chiefs are fenced against new      *)
(* assignments").                                                          *)
FencedTakesNothing ==
    [][\A e \in stopping \intersect stopping' : pending'[e] \subseteq pending[e]]_vars

PhaseOf(s) ==
    CASE s = "ABSENT"         -> "absent"
      [] s \in QueueStates    -> "queued"
      [] s \in TerminalStates -> "done"
      [] OTHER                -> "held"

Lease == INSTANCE JobLease WITH
    phase  <- [j \in Jobs |-> PhaseOf(state[j])],
    holder <- node,
    exec   <- [j \in Jobs |-> {e \in Engines : j \in running[e]}]

(* Manager and chiefs together implement the lease of JobLease: a job is   *)
(* requeued, moved or ended only while no process of it exists, and only   *)
(* its holder executes it.                                                 *)
ImplementsLease == Lease!Spec

(* Every submitted job ends, although answers are lost, pilots die and     *)
(* other chiefs compete for it.                                            *)
JobsTerminate ==
    \A j \in Jobs : state[j] = "PENDING" ~> state[j] \in TerminalStates

(* A plain cancel takes effect wherever the job is, even if the child      *)
(* would run for ever, unless the user asks for a restart afterwards       *)
(* (cancel_job(), CANCEL in poll(), ObeyCommands).                         *)
CancelTakesEffect ==
    \A j \in Jobs :
        j \in cancelled ~> (state[j] \in TerminalStates \/ j \notin cancelled)

-----------------------------------------------------------------------------
(* What comments of the source say and the code does not do.               *)

(* "A normal cancel must be terminal in every state" (cancel_job()): a     *)
(* cancelled job does not go back to the queue.  It does when its engine   *)
(* is unregistered, because job_done() requeues RC_ENGINE_TERMINATED       *)
(* whatever the retries left.                                              *)
CancelIsTerminal ==
    [][\A j \in cancelled \intersect cancelled' : state'[j] \notin QueueStates]_vars

=============================================================================
