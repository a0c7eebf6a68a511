------------------------ MODULE PilotSchedulingProofs ------------------------
(***************************************************************************)
(* Theorems about PilotScheduling, for any number of jobs, engines, slots, *)
(* retries and faults: types, the fence, and the ownership of executions.  *)
(* First what the manager keeps of its tables, then what a chief keeps of  *)
(* its own, then the two together.                                         *)
(***************************************************************************)
EXTENDS PilotScheduling, FiniteSetTheorems, TLAPS

-----------------------------------------------------------------------------
(* Every handler of the manager keeps the types of the job table and of    *)
(* the engine table, for any number of jobs and engines.                   *)

(* The number of transfer slots a set of jobs needs is a natural number.   *)
LEMMA TransferNeedType ==
    ASSUME NEW D \in SUBSET Jobs
    PROVE  TransferNeed(D) \in Nat
<1>1. IsFiniteSet(D \intersect TransferJobs)
  BY JobsAssumption, FS_Subset, D \intersect TransferJobs \subseteq Jobs
<1> QED
  BY <1>1, FS_CardinalityType DEF TransferNeed

(* What job_done() makes of a job is a job state.                          *)
LEMMA OutcomeType ==
    ASSUME NEW j, NEW rc
    PROVE  /\ OutcomeState(j, rc) \in {"REQUEUED", "COMPLETED", "CANCELLED", "FAILED"}
           /\ OutcomeState(j, "ENGINE_TERMINATED") = "REQUEUED"
  BY DEF OutcomeState

(* Giving transfer slots back leaves a natural number in use, because      *)
(* _release_dcache_transfer_locked() clamps at zero.                       *)
LEMMA ReleaseType ==
    ASSUME ManagerTypeOK, NEW D \in SUBSET Jobs
    PROVE  TransferAfterRelease(D) \in Nat
  BY TransferNeedType DEF TransferAfterRelease, ManagerTypeOK

(* submit_job() keeps the types of the job table.                          *)
LEMMA SubmitTypes ==
    ASSUME ManagerTypeOK, NEW j \in Jobs, NEW r \in 0 .. MaxRequeue, SubmitJob(j, r)
    PROVE  ManagerTypeOK'
  BY RetryAssumption
  DEF ManagerTypeOK, SubmitJob, flagVars, commandVars, JobStates, RequeueBound

(* cancel_job() keeps the types; a cancel for restart raises the retries   *)
(* to one at most.                                                         *)
LEMMA CancelTypes ==
    ASSUME ManagerTypeOK, NEW j \in Jobs, CancelJob(j) \/ CancelForRestart(j)
    PROVE  ManagerTypeOK'
<1>1. CASE CancelJob(j)
  <2>1. TransferAfterRelease(IF node[j] = NoEngine THEN {} ELSE {j}) \in Nat
    BY ReleaseType
  <2> QED
    BY <1>1, <2>1, RetryAssumption
    DEF ManagerTypeOK, CancelJob, Post, flagVars, JobStates, RequeueBound
<1>2. CASE CancelForRestart(j)
  BY <1>2, RetryAssumption
  DEF ManagerTypeOK, CancelForRestart, Post, flagVars, JobStates, RequeueBound
<1> QED
  BY <1>1, <1>2

(* request_jobs() keeps the types, whatever the chief advertises.          *)
LEMMA RequestTypes ==
    ASSUME ManagerTypeOK, NEW e \in Engines, NEW n, NEW G, NEW M, RequestJobs(e, n, G, M)
    PROVE  ManagerTypeOK'
<1>1. G \subseteq Jobs /\ M \subseteq Jobs
  BY DEF RequestJobs, Queued, AssignedElsewhere
<1>2. transferInUse' \in Nat
  BY <1>1, TransferNeedType DEF RequestJobs, ManagerTypeOK
<1> QED
  BY <1>1, <1>2 DEF RequestJobs, ManagerTypeOK, Post, flagVars, JobStates

(* can_run_assigned_job() keeps the types, whether it starts, refuses or   *)
(* ignores the job.                                                        *)
LEMMA CanRunTypes ==
    ASSUME ManagerTypeOK, NEW e \in Engines, NEW j \in Jobs, NEW check,
           CanRunAssignedJob(e, j, check)
    PROVE  ManagerTypeOK'
<1>1. TransferAfterRelease({j}) \in Nat
  BY ReleaseType
<1> QED
  BY <1>1, RetryAssumption
  DEF CanRunAssignedJob, ManagerTypeOK, JobStart, managerVars, jobVars, flagVars,
      commandVars, JobStates

(* job_finished() keeps the types, whichever engine reports whatever code. *)
LEMMA JobFinishedTypes ==
    ASSUME ManagerTypeOK, NEW j \in Jobs, NEW rc, JobFinished(j, rc)
    PROVE  ManagerTypeOK'
<1>1. CASE UNCHANGED managerVars
  BY <1>1 DEF ManagerTypeOK, managerVars, jobVars, flagVars, commandVars
<1>2. CASE /\ JobDone({j}, rc) /\ LeaveEngine({j}, rc) /\ ResetMisses({j})
           /\ UNCHANGED <<flagVars, commandVars, cancelled>>
  <2>1. transferInUse' \in Nat
    BY <1>2, ReleaseType, {i \in {j} : node[i] # NoEngine} \in SUBSET Jobs DEF JobDone
  <2>2. state' \in [Jobs -> JobStates]
    BY <1>2, OutcomeType DEF JobDone, ManagerTypeOK, JobStates
  <2>3. requeue' \in [Jobs -> 0 .. RequeueBound]
    BY <1>2, RetryAssumption DEF JobDone, ManagerTypeOK, Retries, RequeueBound
  <2>4. misses' \in [Jobs -> 0 .. MissLimit - 1]
    BY <1>2, RetryAssumption DEF ResetMisses, ManagerTypeOK
  <2> QED
    BY <1>2, <2>1, <2>2, <2>3, <2>4
    DEF JobDone, LeaveEngine, ManagerTypeOK, flagVars, commandVars
<1> QED
  BY <1>1, <1>2 DEF JobFinished

(* poll() keeps the types; in particular the misses stay below MissLimit.  *)
LEMMA PollTypes ==
    ASSUME ManagerTypeOK, NEW e \in Engines, NEW K \in SUBSET Jobs, Poll(e, K)
    PROVE  ManagerTypeOK'
<1>1. CASE UNCHANGED <<jobVars, engineJobs>>
  BY <1>1 DEF Poll, ManagerTypeOK, jobVars, flagVars
<1>2. CASE ReconcileHeartbeat(e, K)
  <2>1. /\ Adopted(K) \subseteq Jobs /\ LostGrants(e, K) \subseteq Jobs
        /\ ReservedAgain(Adopted(K)) \subseteq Jobs
    BY DEF Adopted, LostGrants, Missed, RunningAt, ReservedAgain
  <2>2. transferInUse' \in Nat
    BY <1>2, <2>1, TransferNeedType DEF ReconcileHeartbeat, ManagerTypeOK
  <2>3. state' \in [Jobs -> JobStates]
    BY <1>2, OutcomeType DEF ReconcileHeartbeat, ManagerTypeOK, JobStates
  <2>4. requeue' \in [Jobs -> 0 .. RequeueBound]
    BY <1>2, RetryAssumption DEF ReconcileHeartbeat, ManagerTypeOK, Retries, RequeueBound
  <2>5. misses' \in [Jobs -> 0 .. MissLimit - 1]
    <3>1. \A j \in Missed(e, K) \ LostGrants(e, K) : misses[j] + 1 < MissLimit
      BY RetryAssumption DEF LostGrants, Missed, RunningAt, ManagerTypeOK
    <3> QED
      BY <1>2, <3>1, RetryAssumption DEF ReconcileHeartbeat, ManagerTypeOK
  <2>6. node' \in [Jobs -> Engines \union {NoEngine}] /\ engineJobs' \in [Engines -> SUBSET Jobs]
    BY <1>2, <2>1 DEF ReconcileHeartbeat, ManagerTypeOK, JobStart
  <2> QED
    BY <2>2, <2>3, <2>4, <2>5, <2>6 DEF Poll, ManagerTypeOK, flagVars
<1> QED
  BY <1>1, <1>2 DEF Poll

(* engine_removed() and the removal of the engine record keep the types.   *)
LEMMA EngineRemovedTypes ==
    ASSUME ManagerTypeOK, NEW e \in Engines, EngineRemoved(e)
    PROVE  ManagerTypeOK'
<1>1. RunningAt(e) \subseteq Jobs /\ AssignedAt(e) \subseteq Jobs
  BY DEF RunningAt, AssignedAt
<1>2. transferInUse' \in Nat
  BY <1>1, ReleaseType DEF EngineRemoved
<1>3. state' \in [Jobs -> JobStates]
  BY OutcomeType DEF EngineRemoved, ManagerTypeOK, JobStates
<1>4. requeue' \in [Jobs -> 0 .. RequeueBound]
  BY RetryAssumption DEF EngineRemoved, ManagerTypeOK, Retries, RequeueBound
<1>5. misses' \in [Jobs -> 0 .. MissLimit - 1]
  BY RetryAssumption DEF EngineRemoved, ResetMisses, ManagerTypeOK
<1> QED
  BY <1>2, <1>3, <1>4, <1>5 DEF EngineRemoved, ManagerTypeOK

(* register(), the fence and toggle_phasing_out() set flags of registered  *)
(* engines only.                                                           *)
LEMMA FlagTypes ==
    ASSUME ManagerTypeOK, NEW e \in Engines,
           Register(e) \/ Fence(e) \/ TogglePhasingOut(e)
    PROVE  ManagerTypeOK'
  BY DEF ManagerTypeOK, Register, Fence, TogglePhasingOut, jobVars, commandVars

(* A step outside the manager keeps the types of its tables.               *)
LEMMA ManagerStutterTypes ==
    ASSUME ManagerTypeOK, UNCHANGED managerVars
    PROVE  ManagerTypeOK'
  BY DEF ManagerTypeOK, managerVars, jobVars, flagVars, commandVars

-----------------------------------------------------------------------------
(* What the handlers do to the RUNNING jobs: only the report of a job, the *)
(* heartbeat of its engine and the removal of its engine end or move it.   *)

KeepsRunning(j) ==
    state[j] = "RUNNING" => state'[j] = "RUNNING" /\ node'[j] = node[j]

(* Client requests leave every RUNNING job RUNNING where it is.            *)
LEMMA ClientsKeepRunning ==
    ASSUME ManagerTypeOK, NEW i \in Jobs,
           \/ \E r \in 0 .. MaxRequeue : SubmitJob(i, r)
           \/ CancelJob(i) \/ CancelForRestart(i)
    PROVE  \A j \in Jobs : KeepsRunning(j)
  BY DEF ManagerTypeOK, SubmitJob, CancelJob, CancelForRestart, KeepsRunning

(* Registering, fencing and phasing out touch no job.                      *)
LEMMA FlagsKeepRunning ==
    ASSUME NEW e, Register(e) \/ Fence(e) \/ TogglePhasingOut(e)
    PROVE  \A j \in Jobs : KeepsRunning(j)
  BY DEF Register, Fence, TogglePhasingOut, jobVars, KeepsRunning

(* request_jobs() grants or moves jobs that are not RUNNING and no other.  *)
LEMMA RequestKeepsRunning ==
    ASSUME ManagerTypeOK, NEW e \in Engines, NEW n, NEW G, NEW M, RequestJobs(e, n, G, M)
    PROVE  /\ \A j \in Jobs : KeepsRunning(j)
           /\ \A j \in G \union M : state[j] # "RUNNING"
<1>1. \A j \in G \union M : state[j] # "RUNNING"
  BY DEF RequestJobs, Queued, QueueStates, AssignedElsewhere
<1> QED
  BY <1>1 DEF ManagerTypeOK, RequestJobs, KeepsRunning

(* A job that may start is RUNNING on the asking engine afterwards.        *)
LEMMA CanRunKeepsRunning ==
    ASSUME ManagerTypeOK, NEW e \in Engines, NEW i \in Jobs, NEW check,
           CanRunAssignedJob(e, i, check)
    PROVE  /\ \A j \in Jobs : KeepsRunning(j)
           /\ CanRun(e, i, check) =>
                 e \notin stopping /\ state'[i] = "RUNNING" /\ node'[i] = e
  BY DEF ManagerTypeOK, CanRunAssignedJob, CanRun, AssignedAt, KeepsRunning,
         managerVars, jobVars

(* job_finished() touches the reported job only.                           *)
LEMMA JobFinishedKeepsRunning ==
    ASSUME NEW i \in Jobs, NEW rc, JobFinished(i, rc)
    PROVE  \A j \in Jobs \ {i} : KeepsRunning(j)
  BY DEF JobFinished, JobDone, KeepsRunning, managerVars, jobVars

(* A heartbeat can take from its engine only jobs it does not name.        *)
LEMMA PollKeepsRunning ==
    ASSUME ManagerTypeOK, NEW e \in Engines, NEW K \in SUBSET Jobs, Poll(e, K)
    PROVE  \A j \in Jobs : node[j] # e \/ j \in K => KeepsRunning(j)
<1>1. CASE UNCHANGED jobVars
  BY <1>1 DEF jobVars, KeepsRunning
<1>2. CASE ReconcileHeartbeat(e, K)
  BY <1>2 DEF ReconcileHeartbeat, Adopted, LiveStates, LostGrants, Missed, RunningAt,
              ManagerTypeOK, KeepsRunning
<1> QED
  BY <1>1, <1>2 DEF Poll

(* Removing an engine takes only the jobs it holds.                        *)
LEMMA EngineRemovedKeepsRunning ==
    ASSUME NEW e \in Engines, EngineRemoved(e)
    PROVE  \A j \in Jobs : node[j] # e => KeepsRunning(j)
  BY DEF EngineRemoved, RunningAt, AssignedAt, KeepsRunning

(* A step outside the manager leaves every RUNNING job as it is.           *)
LEMMA ManagerStutterKeepsRunning ==
    ASSUME UNCHANGED managerVars
    PROVE  \A j \in Jobs : KeepsRunning(j)
  BY DEF KeepsRunning, managerVars, jobVars

-----------------------------------------------------------------------------
(* What the steps of a chief keep of its own bookkeeping, for any number   *)
(* of jobs and slots: types, and an invariant about where a job can be.    *)

(* A job a chief knows is in one place only: it waits for its start, has a *)
(* child, or has a return code to report.                                  *)
OneStage ==
    \A e \in Engines :
        /\ pending[e] \intersect running[e] = {}
        /\ (pending[e] \union running[e]) \intersect Unreported(e) = {}

(* A grant that is still to be acknowledged is not known already.          *)
GrantsUnknown ==
    \A e \in Engines : (batch[e] \union assigned[e]) \intersect Known(e) = {}

(* A chief that unregisters, or is gone, knows no job.                     *)
GoneIsEmpty == \A e \in Engines : ~Alive(e) => Known(e) = {}

ChiefInv == ChiefTypeOK /\ OneStage /\ GrantsUnknown /\ GoneIsEmpty

(* A step after which no chief knows a job it did not know before.         *)
KnownShrinks == \A f \in Engines : Known(f)' \subseteq Known(f)

(* A step after which no chief is about to start a job it was not about to *)
(* start before.                                                           *)
StartsShrink == \A f \in Engines : pending'[f] \subseteq pending[f]

(* The steps that change a chief's place in the loop and nothing else that *)
(* matters here, and those that also end its process.                      *)
PlaceStep(e) ==
    \/ NothingToReport(e) \/ SkipGrants(e) \/ PollUnanswered(e)
    \/ ObeyReregister(e) \/ Registered(e) \/ NewPilot(e)

LossStep(e) == Die(e) \/ Terminate(e) \/ Leave(e)

GrantStep(e, j) == KeepGrant(e, j) \/ DropGrant(e, j) \/ SkipKnownGrant(e, j)

-----------------------------------------------------------------------------
(* The two operators that count.                                           *)

(* What a cancelled start gives back is a number of slots.                 *)
LEMMA WithdrawnCount ==
    ASSUME NEW D, NEW P \in SUBSET Jobs
    PROVE  Cardinality(D \intersect P) \in Nat
  BY JobsAssumption, FS_Subset, FS_CardinalityType, D \intersect P \subseteq Jobs

(* A fresh table of return codes has its type.                             *)
LEMMA NoCodesType == NoCodes \in [Jobs -> ChildCodes \union {NoCode}]
  BY DEF NoCodes

(* A withdrawn start becomes a return code: the job stays known.           *)
LEMMA CancelPendingFacts ==
    ASSUME ChiefTypeOK, NEW e \in Engines, NEW D, CancelPending(e, D)
    PROVE  /\ pending' \in [Engines -> SUBSET Jobs]
           /\ codes' \in [Engines -> [Jobs -> ChildCodes \union {NoCode}]]
           /\ freeSlots' \in [Engines -> Int]
           /\ pending'[e] = pending[e] \ D
           /\ Unreported(e)' = Unreported(e) \union (D \intersect pending[e])
           /\ \A f \in Engines \ {e} :
                 pending'[f] = pending[f] /\ Unreported(f)' = Unreported(f)
<1>1. pending' \in [Engines -> SUBSET Jobs] /\ pending'[e] = pending[e] \ D
  BY DEF CancelPending, ChiefTypeOK
<1>2. freeSlots' \in [Engines -> Int]
  <2>1. Cardinality(D \intersect pending[e]) \in Nat
    BY WithdrawnCount DEF ChiefTypeOK
  <2> QED
    BY <2>1 DEF CancelPending, ChiefTypeOK
<1>3. codes' \in [Engines -> [Jobs -> ChildCodes \union {NoCode}]]
  BY DEF CancelPending, ChiefTypeOK, ChildCodes
<1>4. /\ \A j \in Jobs : codes'[e][j] =
             IF j \in D \intersect pending[e] THEN "FAILURE" ELSE codes[e][j]
      /\ \A f \in Engines \ {e} : codes'[f] = codes[f] /\ pending'[f] = pending[f]
  BY DEF CancelPending, ChiefTypeOK
<1>5. "FAILURE" # NoCode
  BY NoCodeAssumption DEF ReturnCodes
<1>6. Unreported(e)' = Unreported(e) \union (D \intersect pending[e])
  BY <1>4, <1>5 DEF Unreported, ChiefTypeOK
<1> QED
  BY <1>1, <1>2, <1>3, <1>4, <1>6 DEF Unreported

-----------------------------------------------------------------------------
(* Types: every operator of Chief keeps ChiefTypeOK, and none but a claim  *)
(* adds a deferred start.                                                  *)

(* A step that only moves the place in the main loop keeps the types.      *)
LEMMA PlaceTypes ==
    ASSUME ChiefTypeOK, NEW e \in Engines, PlaceStep(e)
    PROVE  ChiefTypeOK' /\ StartsShrink
  BY DEF PlaceStep, NothingToReport, SkipGrants, PollUnanswered, ObeyReregister,
         Registered, NewPilot, GoTo, ChiefTypeOK, Locations, StartsShrink

(* A delivered report keeps the types.                                     *)
LEMMA ReportTypes ==
    ASSUME ChiefTypeOK, NEW e \in Engines, NEW j \in Jobs, ReportDelivered(e, j)
    PROVE  ChiefTypeOK' /\ StartsShrink
  BY DEF ReportDelivered, ChiefTypeOK, StartsShrink

(* Taking a batch of grants keeps the types.                               *)
LEMMA TakeBatchTypes ==
    ASSUME ChiefTypeOK, NEW e \in Engines, NEW B \in SUBSET Jobs, TakeBatch(e, B)
    PROVE  ChiefTypeOK' /\ StartsShrink
  BY DEF TakeBatch, GoTo, ChiefTypeOK, Locations, StartsShrink

(* Dealing with one grant of the batch keeps the types of place and batch. *)
LEMMA HandledTypes ==
    ASSUME ChiefTypeOK, NEW e \in Engines, NEW j \in Jobs, Handled(e, j)
    PROVE  pc' \in [Engines -> Locations] /\ batch' \in [Engines -> SUBSET Jobs]
  BY DEF Handled, GoTo, ChiefTypeOK, Locations

(* Keeping, dropping or skipping a grant keeps the types.                  *)
LEMMA GrantTypes ==
    ASSUME ChiefTypeOK, NEW e \in Engines, NEW j \in Jobs, GrantStep(e, j)
    PROVE  ChiefTypeOK' /\ StartsShrink
<1>1. CASE KeepGrant(e, j)
  BY <1>1, HandledTypes DEF KeepGrant, ChiefTypeOK, StartsShrink
<1>2. CASE DropGrant(e, j)
  BY <1>2, HandledTypes DEF DropGrant, ChiefTypeOK, StartsShrink
<1>3. CASE SkipKnownGrant(e, j)
  BY <1>3, HandledTypes DEF SkipKnownGrant, ChiefTypeOK, StartsShrink
<1> QED
  BY <1>1, <1>2, <1>3 DEF GrantStep

(* A claim keeps the types and adds a deferred start to its own chief      *)
(* only.                                                                   *)
LEMMA ClaimTypes ==
    ASSUME ChiefTypeOK, NEW e \in Engines, NEW j \in Jobs, ClaimGrant(e, j)
    PROVE  /\ ChiefTypeOK'
           /\ \A f \in Engines \ {e} : pending'[f] \subseteq pending[f]
  BY HandledTypes DEF ClaimGrant, ChiefTypeOK

(* Spawning a child keeps the types.                                       *)
LEMMA StartTypes ==
    ASSUME ChiefTypeOK, NEW e \in Engines, NEW j \in Jobs, StartChild(e, j)
    PROVE  ChiefTypeOK' /\ StartsShrink
  BY DEF StartChild, ChiefTypeOK, StartsShrink

(* Withdrawing starts adds none.                                           *)
LEMMA WithdrawalShrinks ==
    ASSUME ChiefTypeOK, NEW e \in Engines, NEW D, CancelPending(e, D)
    PROVE  StartsShrink
<1>1. pending'[e] \subseteq pending[e] /\ \A f \in Engines \ {e} : pending'[f] = pending[f]
  BY CancelPendingFacts
<1> QED
  BY <1>1 DEF StartsShrink

(* A failed start keeps the types.                                         *)
LEMMA StartFailsTypes ==
    ASSUME ChiefTypeOK, NEW e \in Engines, NEW j \in Jobs, StartFails(e, j)
    PROVE  ChiefTypeOK' /\ StartsShrink
  BY CancelPendingFacts, WithdrawalShrinks DEF StartFails, ChiefTypeOK

(* The end of the start phase keeps the types.                             *)
LEMMA FinishStartsTypes ==
    ASSUME ChiefTypeOK, NEW e \in Engines, FinishStarts(e)
    PROVE  ChiefTypeOK' /\ StartsShrink
<1>1. pc' \in [Engines -> Locations]
  BY DEF FinishStarts, GoTo, ChiefTypeOK, Locations
<1>2. CASE UNCHANGED <<pending, codes, freeSlots>>
  BY <1>1, <1>2 DEF FinishStarts, ChiefTypeOK, StartsShrink
<1>3. CASE CancelPending(e, pending[e])
  BY <1>1, <1>3, CancelPendingFacts, WithdrawalShrinks DEF FinishStarts, ChiefTypeOK
<1> QED
  BY <1>2, <1>3 DEF FinishStarts

(* Obeying STOP, DEASSIGN and CANCEL keeps the types.                      *)
LEMMA ObeyTypes ==
    ASSUME ChiefTypeOK, NEW e \in Engines, NEW stop, NEW D, NEW C, ObeyCommands(e, stop, D, C)
    PROVE  ChiefTypeOK' /\ StartsShrink
<1> DEFINE withdrawn == IF stop THEN pending[e] ELSE C
<1>1. CancelPending(e, withdrawn)
  BY DEF ObeyCommands
<1>2. /\ pc' \in [Engines -> Locations] /\ mode' \in [Engines -> {"RUNNING", "STOPPING"}]
      /\ assigned' \in [Engines -> SUBSET Jobs] /\ doomed' \in [Engines -> SUBSET Jobs]
      /\ UNCHANGED <<batch, running>>
  BY DEF ObeyCommands, GoTo, ChiefTypeOK, Locations
<1> HIDE DEF withdrawn
<1> QED
  BY <1>1, <1>2, CancelPendingFacts, WithdrawalShrinks DEF ChiefTypeOK

(* The exit of a child keeps the types.                                    *)
LEMMA ExitTypes ==
    ASSUME ChiefTypeOK, NEW e \in Engines, NEW j \in Jobs, NEW rc \in ChildCodes,
           ChildExits(e, j, rc)
    PROVE  ChiefTypeOK' /\ StartsShrink
  BY DEF ChildExits, ChiefTypeOK, StartsShrink

(* The end of a chief keeps the types.                                     *)
LEMMA LossTypes ==
    ASSUME ChiefTypeOK, NEW e \in Engines, LossStep(e)
    PROVE  ChiefTypeOK' /\ StartsShrink
<1>1. PICK place \in Locations : LoseState(e, place)
  BY DEF LossStep, Die, Terminate, Leave, Locations
<1>2. /\ codes' \in [Engines -> [Jobs -> ChildCodes \union {NoCode}]]
      /\ pc' \in [Engines -> Locations]
  BY <1>1, NoCodesType DEF LoseState, GoTo, ChiefTypeOK
<1>3. freeSlots' \in [Engines -> Int] /\ mode' \in [Engines -> {"RUNNING", "STOPPING"}]
  BY <1>1, LimitsAssumption DEF LoseState, ChiefTypeOK
<1> QED
  BY <1>1, <1>2, <1>3 DEF LoseState, ChiefTypeOK, StartsShrink

(* A step outside the chiefs keeps the types of their tables.              *)
LEMMA ChiefStutterTypes ==
    ASSUME ChiefTypeOK, UNCHANGED chiefVars
    PROVE  ChiefTypeOK' /\ StartsShrink
  BY DEF ChiefTypeOK, StartsShrink, chiefVars

-----------------------------------------------------------------------------
(* Where a job can be: every operator of Chief keeps ChiefInv, provided    *)
(* that a batch names no job the chief knows, and none but a claim adds to *)
(* what the chief knows.                                                   *)

(* A step that only moves the place in the main loop keeps ChiefInv.       *)
LEMMA PlaceKeeps ==
    ASSUME ChiefInv, NEW e \in Engines, PlaceStep(e)
    PROVE  ChiefInv' /\ KnownShrinks
<1>1. /\ UNCHANGED <<batch, assigned, pending, running, codes>>
      /\ \A f \in Engines : Alive(f)' \/ pc'[f] = pc[f]
  BY DEF PlaceStep, NothingToReport, SkipGrants, PollUnanswered, ObeyReregister,
         Registered, NewPilot, GoTo, Alive, ChiefInv, ChiefTypeOK
<1> QED
  BY <1>1, PlaceTypes
  DEF ChiefInv, OneStage, GrantsUnknown, GoneIsEmpty, KnownShrinks, Known, Unreported, Alive

(* A delivered report makes the chief forget the job: it was in one stage  *)
(* only.                                                                   *)
LEMMA ReportKeeps ==
    ASSUME ChiefInv, NEW e \in Engines, NEW j \in Jobs, ReportDelivered(e, j)
    PROVE  /\ ChiefInv' /\ KnownShrinks
           /\ j \in Unreported(e) => j \notin Known(e)'
<1>1. /\ Unreported(e)' = Unreported(e) \ {j}
      /\ \A f \in Engines \ {e} : Unreported(f)' = Unreported(f)
  BY DEF ReportDelivered, ChiefInv, ChiefTypeOK, Unreported
<1>2. ChiefTypeOK' /\ UNCHANGED <<pc, batch, assigned, pending, running>>
  BY ReportTypes DEF ReportDelivered, ChiefInv
<1> QED
  BY <1>1, <1>2
  DEF ChiefInv, OneStage, GrantsUnknown, GoneIsEmpty, KnownShrinks, Known, Alive

(* A batch of jobs the chief does not know keeps ChiefInv.                 *)
LEMMA TakeBatchKeeps ==
    ASSUME ChiefInv, NEW e \in Engines, NEW B \in SUBSET Jobs,
           B \intersect Known(e) = {}, TakeBatch(e, B)
    PROVE  ChiefInv' /\ KnownShrinks
<1>1. /\ ChiefTypeOK' /\ UNCHANGED <<assigned, pending, running, codes>>
      /\ batch'[e] = B /\ Alive(e)'
      /\ \A f \in Engines \ {e} : batch'[f] = batch[f] /\ pc'[f] = pc[f]
  BY TakeBatchTypes DEF TakeBatch, GoTo, Alive, ChiefInv, ChiefTypeOK
<1> QED
  BY <1>1
  DEF ChiefInv, OneStage, GrantsUnknown, GoneIsEmpty, KnownShrinks, Known, Unreported, Alive

(* Kept grants are unknown to the chief, so they may be the next batch.    *)
LEMMA RetryKeeps ==
    ASSUME ChiefInv, NEW e \in Engines, RetryKeptGrants(e)
    PROVE  ChiefInv' /\ KnownShrinks
<1>1. assigned[e] \in SUBSET Jobs /\ assigned[e] \intersect Known(e) = {}
  BY DEF ChiefInv, ChiefTypeOK, GrantsUnknown
<1> QED
  BY <1>1, TakeBatchKeeps DEF RetryKeptGrants

(* Dealing with one grant leaves the chief alive and the other chiefs      *)
(* alone.                                                                  *)
LEMMA HandledPlace ==
    ASSUME ChiefTypeOK, NEW e \in Engines, NEW j \in Jobs, Handled(e, j)
    PROVE  /\ Alive(e)' /\ batch'[e] = batch[e] \ {j}
           /\ \A f \in Engines \ {e} : pc'[f] = pc[f] /\ batch'[f] = batch[f]
  BY DEF Handled, GoTo, Alive, ChiefTypeOK

(* Keeping, dropping or skipping a grant keeps ChiefInv and makes no job   *)
(* known.                                                                  *)
LEMMA GrantKeeps ==
    ASSUME ChiefInv, NEW e \in Engines, NEW j \in batch[e], GrantStep(e, j)
    PROVE  ChiefInv' /\ KnownShrinks
<1>1. j \in Jobs /\ ChiefTypeOK
  BY DEF ChiefInv, ChiefTypeOK
<1>2. Handled(e, j) /\ UNCHANGED <<pending, running, codes>>
  BY DEF GrantStep, KeepGrant, DropGrant, SkipKnownGrant
<1>3. \A f \in Engines : assigned'[f] \subseteq batch[f] \union assigned[f]
  <2>1. CASE KeepGrant(e, j)
    BY <1>1, <2>1 DEF KeepGrant, ChiefTypeOK
  <2>2. CASE DropGrant(e, j)
    BY <1>1, <2>2 DEF DropGrant, ChiefTypeOK
  <2>3. CASE SkipKnownGrant(e, j)
    BY <1>1, <2>3 DEF SkipKnownGrant
  <2> QED
    BY <2>1, <2>2, <2>3 DEF GrantStep
<1>4. ChiefTypeOK' /\ Alive(e)'
  BY <1>1, <1>2, GrantTypes, HandledPlace
<1>5. \A f \in Engines : batch'[f] \subseteq batch[f] /\ (f # e => pc'[f] = pc[f])
  BY <1>1, <1>2, HandledPlace
<1> QED
  BY <1>2, <1>3, <1>4, <1>5
  DEF ChiefInv, OneStage, GrantsUnknown, GoneIsEmpty, KnownShrinks, Known, Unreported, Alive

(* A claim makes exactly the claimed job known.                            *)
LEMMA ClaimKeeps ==
    ASSUME ChiefInv, NEW e \in Engines, NEW j \in batch[e], ClaimGrant(e, j)
    PROVE  /\ ChiefInv'
           /\ Known(e)' = Known(e) \union {j}
           /\ \A f \in Engines \ {e} : Known(f)' = Known(f)
<1>1. j \in Jobs /\ j \notin Known(e) /\ ChiefTypeOK
  BY DEF ChiefInv, ChiefTypeOK, GrantsUnknown
<1>2. /\ ChiefTypeOK' /\ UNCHANGED <<running, codes>> /\ Alive(e)'
      /\ batch'[e] = batch[e] \ {j}
      /\ \A f \in Engines \ {e} : pc'[f] = pc[f] /\ batch'[f] = batch[f]
  BY <1>1, ClaimTypes, HandledPlace DEF ClaimGrant
<1>3. /\ pending'[e] = pending[e] \union {j} /\ assigned'[e] = assigned[e] \ {j}
      /\ \A f \in Engines \ {e} : pending'[f] = pending[f] /\ assigned'[f] = assigned[f]
  BY <1>1 DEF ClaimGrant, ChiefTypeOK
<1> QED
  BY <1>1, <1>2, <1>3
  DEF ChiefInv, OneStage, GrantsUnknown, GoneIsEmpty, Known, Unreported, Alive

(* A spawned child moves from one stage to the next.                       *)
LEMMA StartKeeps ==
    ASSUME ChiefInv, NEW e \in Engines, NEW j \in Jobs, StartChild(e, j)
    PROVE  ChiefInv' /\ KnownShrinks
<1>1. /\ ChiefTypeOK' /\ UNCHANGED <<pc, batch, assigned, codes>>
      /\ j \in pending[e]
      /\ pending'[e] = pending[e] \ {j} /\ running'[e] = running[e] \union {j}
      /\ \A f \in Engines \ {e} : pending'[f] = pending[f] /\ running'[f] = running[f]
  BY StartTypes DEF StartChild, ChiefInv, ChiefTypeOK
<1> QED
  BY <1>1
  DEF ChiefInv, OneStage, GrantsUnknown, GoneIsEmpty, KnownShrinks, Known, Unreported, Alive

(* The part common to the three uses of CancelPending.                     *)
LEMMA WithdrawKeeps ==
    ASSUME ChiefInv, NEW e \in Engines, NEW D, CancelPending(e, D),
           UNCHANGED <<batch, running>>,
           ChiefTypeOK', \A f \in Engines : assigned'[f] \subseteq assigned[f],
           \A f \in Engines : Alive(f)' \/ pc'[f] = pc[f] \/ Known(f)' = {}
    PROVE  ChiefInv' /\ KnownShrinks
<1>1. /\ pending'[e] = pending[e] \ D
      /\ Unreported(e)' = Unreported(e) \union (D \intersect pending[e])
      /\ \A f \in Engines \ {e} : pending'[f] = pending[f] /\ Unreported(f)' = Unreported(f)
  BY CancelPendingFacts DEF ChiefInv
<1>2. \A f \in Engines : Known(f)' = Known(f)
  BY <1>1 DEF Known
<1>3. OneStage'
  BY <1>1 DEF ChiefInv, OneStage
<1>4. GrantsUnknown'
  BY <1>2 DEF ChiefInv, GrantsUnknown
<1>5. GoneIsEmpty'
  BY <1>2 DEF ChiefInv, GoneIsEmpty, Alive
<1> QED
  BY <1>2, <1>3, <1>4, <1>5 DEF ChiefInv, KnownShrinks

(* A failed start becomes a return code.                                   *)
LEMMA StartFailsKeeps ==
    ASSUME ChiefInv, NEW e \in Engines, NEW j \in Jobs, StartFails(e, j)
    PROVE  ChiefInv' /\ KnownShrinks
<1>1. ChiefTypeOK'
  BY StartFailsTypes DEF ChiefInv
<1> QED
  BY <1>1, WithdrawKeeps DEF StartFails

(* A chief leaves its loop only when it knows no job.                      *)
LEMMA FinishStartsKeeps ==
    ASSUME ChiefInv, NEW e \in Engines, FinishStarts(e)
    PROVE  ChiefInv' /\ KnownShrinks
<1>1. ChiefTypeOK'
  BY FinishStartsTypes DEF ChiefInv
<1>2. CASE GoTo(e, "poll") /\ UNCHANGED <<pending, codes, freeSlots>>
  <2>1. /\ UNCHANGED <<batch, assigned, pending, running, codes>>
        /\ \A f \in Engines : Alive(f)' \/ pc'[f] = pc[f]
    BY <1>2 DEF FinishStarts, GoTo, Alive, ChiefInv, ChiefTypeOK
  <2> QED
    BY <1>1, <2>1
    DEF ChiefInv, OneStage, GrantsUnknown, GoneIsEmpty, KnownShrinks, Known, Unreported, Alive
<1>3. CASE /\ CancelPending(e, pending[e])
           /\ GoTo(e, IF running[e] = {} /\ pending[e] = {} /\ Unreported(e) = {}
                      THEN "exit" ELSE "poll")
  <2>1. \A f \in Engines \ {e} : pc'[f] = pc[f]
    BY <1>3 DEF GoTo, ChiefInv, ChiefTypeOK
  <2>2. CASE running[e] = {} /\ pending[e] = {} /\ Unreported(e) = {}
    <3>1. Known(e)' = {}
      BY <2>2, <1>3, CancelPendingFacts DEF FinishStarts, ChiefInv, Known
    <3> QED
      BY <1>1, <1>3, <2>1, <3>1, WithdrawKeeps DEF FinishStarts
  <2>3. CASE ~(running[e] = {} /\ pending[e] = {} /\ Unreported(e) = {})
    <3>1. Alive(e)'
      BY <2>3, <1>3 DEF GoTo, Alive, ChiefInv, ChiefTypeOK
    <3> QED
      BY <1>1, <1>3, <2>1, <3>1, WithdrawKeeps DEF FinishStarts
  <2> QED
    BY <2>2, <2>3
<1> QED
  BY <1>2, <1>3 DEF FinishStarts

(* A withdrawn start stays known until its return code is delivered.       *)
LEMMA ObeyKeeps ==
    ASSUME ChiefInv, NEW e \in Engines, NEW stop, NEW D, NEW C, ObeyCommands(e, stop, D, C)
    PROVE  ChiefInv' /\ KnownShrinks
<1> DEFINE withdrawn == IF stop THEN pending[e] ELSE C
<1>1. CancelPending(e, withdrawn) /\ UNCHANGED <<batch, running>>
  BY DEF ObeyCommands
<1>2. ChiefTypeOK'
  BY ObeyTypes DEF ChiefInv
<1>3. /\ \A f \in Engines : assigned'[f] \subseteq assigned[f]
      /\ \A f \in Engines : Alive(f)' \/ pc'[f] = pc[f]
  BY DEF ObeyCommands, GoTo, Alive, ChiefInv, ChiefTypeOK
<1> HIDE DEF withdrawn
<1> QED
  BY <1>1, <1>2, <1>3, WithdrawKeeps

(* The exit of a child becomes a return code, so no job becomes unknown    *)
(* early.                                                                  *)
LEMMA ExitKeeps ==
    ASSUME ChiefInv, NEW e \in Engines, NEW j \in Jobs, NEW rc \in ChildCodes,
           ChildExits(e, j, rc)
    PROVE  ChiefInv' /\ KnownShrinks
<1>1. ChiefTypeOK' /\ UNCHANGED <<pc, batch, assigned, pending>>
  BY ExitTypes DEF ChildExits, ChiefInv
<1>2. /\ j \in running[e] /\ running'[e] = running[e] \ {j}
      /\ Unreported(e)' = Unreported(e) \union {j}
      /\ \A f \in Engines \ {e} : running'[f] = running[f] /\ Unreported(f)' = Unreported(f)
  BY NoCodeAssumption DEF ChildExits, ChiefInv, ChiefTypeOK, Unreported, ChildCodes, ReturnCodes
<1> QED
  BY <1>1, <1>2 DEF ChiefInv, OneStage, GrantsUnknown, GoneIsEmpty, KnownShrinks, Known, Alive

(* The end of a process empties everything it knew.                        *)
LEMMA LossKeeps ==
    ASSUME ChiefInv, NEW e \in Engines, LossStep(e)
    PROVE  ChiefInv' /\ KnownShrinks
<1>1. PICK place \in Locations : LoseState(e, place)
  BY DEF LossStep, Die, Terminate, Leave, Locations
<1>2. ChiefTypeOK'
  BY LossTypes DEF ChiefInv
<1>3. /\ batch'[e] = {} /\ assigned'[e] = {} /\ pending'[e] = {} /\ running'[e] = {}
      /\ codes'[e] = NoCodes
      /\ \A f \in Engines \ {e} :
            /\ pc'[f] = pc[f] /\ batch'[f] = batch[f] /\ assigned'[f] = assigned[f]
            /\ pending'[f] = pending[f] /\ running'[f] = running[f] /\ codes'[f] = codes[f]
  BY <1>1 DEF LoseState, GoTo, ChiefInv, ChiefTypeOK
<1>4. Unreported(e)' = {}
  BY <1>3 DEF Unreported, NoCodes
<1> QED
  BY <1>2, <1>3, <1>4
  DEF ChiefInv, OneStage, GrantsUnknown, GoneIsEmpty, KnownShrinks, Known, Unreported, Alive

(* A step outside the chiefs keeps ChiefInv.                               *)
LEMMA ChiefStutterKeeps ==
    ASSUME ChiefInv, UNCHANGED chiefVars
    PROVE  ChiefInv' /\ KnownShrinks
  BY DEF ChiefInv, ChiefTypeOK, OneStage, GrantsUnknown, GoneIsEmpty, KnownShrinks, Known,
         Unreported, Alive, chiefVars

-----------------------------------------------------------------------------
(* The system.                                                             *)

(* What FencedTakesNothing says of a step.                                 *)
FencedQuiet ==
    \A e \in stopping \intersect stopping' : pending'[e] \subseteq pending[e]

(* The two halves of a step keep their types and the fence holds.          *)
Halves == ManagerTypeOK' /\ ChiefTypeOK' /\ FencedQuiet

-----------------------------------------------------------------------------
(* Budgets and condemned allocations.                                      *)

(* A fault budget stays a natural number.                                  *)
LEMMA SpendTypes ==
    ASSUME budget \in [DOMAIN Budgets -> Nat], NEW kind, Spend(kind)
    PROVE  budget' \in [DOMAIN Budgets -> Nat]
<1> DEFINE Kinds == DOMAIN Budgets
<1>1. budget \in [Kinds -> Nat] /\ budget[kind] > 0 /\ budget' = [budget EXCEPT ![kind] = @ - 1]
  BY DEF Spend
<1> HIDE DEF Kinds
<1>2. \A k \in Kinds : budget'[k] \in Nat
  <2>1. CASE kind \in Kinds
    <3>1. budget[kind] - 1 \in Nat
      BY <1>1, <2>1
    <3> QED
      BY <1>1, <3>1
  <2>2. CASE kind \notin Kinds
    BY <1>1, <2>2
  <2> QED
    BY <2>1, <2>2
<1>3. budget' = [k \in Kinds |-> budget'[k]]
  BY <1>1
<1> QED
  BY <1>2, <1>3 DEF Kinds

(* Budgets and condemned allocations keep their types in every step.       *)
LEMMA EnvironmentTypes ==
    ASSUME TypeOK, [Next]_vars
    PROVE  budget' \in [DOMAIN Budgets -> Nat] /\ condemned' \subseteq Engines
<1>0. budget \in [DOMAIN Budgets -> Nat] /\ condemned \subseteq Engines
  BY DEF TypeOK
<1>1. ASSUME NEW j \in Jobs, Submit(j) \/ Cancel(j) \/ CancelRestart(j)
      PROVE  budget' \in [DOMAIN Budgets -> Nat] /\ condemned' \subseteq Engines
  BY <1>0, <1>1, SpendTypes DEF Submit, Cancel, CancelRestart, NoFault
<1>2. ASSUME NEW e \in Engines,
             \/ TogglePhasing(e) \/ OperatorStop(e) \/ Boot(e) \/ ReregisterLost(e)
             \/ RequestNothing(e) \/ PollAnswered(e) \/ PollLost(e) \/ PollUnknown(e)
             \/ Local(e) \/ SkipForShortage(e)
      PROVE  budget' \in [DOMAIN Budgets -> Nat] /\ condemned' \subseteq Engines
  BY <1>0, <1>2, SpendTypes
  DEF TogglePhasing, OperatorStop, Boot, ReregisterLost, RequestNothing, PollAnswered,
      PollLost, PollUnknown, Local, SkipForShortage, NoFault, Lost, Short
<1>3. ASSUME NEW e \in Engines, RequestSome(e)
      PROVE  budget' \in [DOMAIN Budgets -> Nat] /\ condemned' \subseteq Engines
  BY <1>0, <1>3, SpendTypes DEF RequestSome, Request, NoFault, Lost
<1>4. ASSUME NEW e \in Engines,
             \/ UnregisterAndLeave(e) \/ Kill(e) \/ Sigterm(e)
             \/ FenceSilent(e) \/ ConfirmTermination(e) \/ StartPilot(e)
      PROVE  budget' \in [DOMAIN Budgets -> Nat] /\ condemned' \subseteq Engines
  BY <1>0, <1>4, SpendTypes
  DEF UnregisterAndLeave, Kill, Sigterm, SpendKill, FenceSilent, ConfirmTermination,
      StartPilot, NoFault
<1>5. ASSUME NEW e \in Engines, NEW j \in Jobs,
             \/ Report(e, j) \/ \E check \in GrantChecks : Ack(e, j, check)
             \/ AckUnsent(e, j) \/ KeepUnfitting(e, j) \/ Start(e, j) \/ FailStart(e, j)
             \/ \E rc \in ExitCodes : Exit(e, j, rc)
      PROVE  budget' \in [DOMAIN Budgets -> Nat] /\ condemned' \subseteq Engines
  BY <1>0, <1>5, SpendTypes
  DEF Report, Ack, AckUnsent, KeepUnfitting, Start, FailStart, Exit, NoFault, Lost, Short
<1>6. CASE UNCHANGED vars
  BY <1>0, <1>6 DEF vars
<1> QED
  BY <1>1, <1>2, <1>3, <1>4, <1>5, <1>6 DEF Next

-----------------------------------------------------------------------------
(* Types and the fence.                                                    *)

(* A step that keeps both tables and adds no deferred start keeps all      *)
(* there is.                                                               *)
LEMMA QuietHalves ==
    ASSUME TypeOK, ManagerTypeOK', ChiefTypeOK', StartsShrink
    PROVE  Halves
  BY DEF TypeOK, ManagerTypeOK, StartsShrink, FencedQuiet, Halves

(* What a heartbeat names are jobs.                                        *)
LEMMA KnownJobs == ASSUME ChiefTypeOK, NEW e \in Engines PROVE Known(e) \in SUBSET Jobs
  BY DEF ChiefTypeOK, Known, Unreported

(* Every step of the system keeps the types, and only an acknowledgement   *)
(* by an engine that is not fenced adds a deferred start.                  *)
LEMMA StepHalves ==
    ASSUME TypeOK, [Next]_vars
    PROVE  Halves
<1>0. ManagerTypeOK /\ ChiefTypeOK
  BY DEF TypeOK
<1>1. ASSUME NEW j \in Jobs, Submit(j) \/ Cancel(j) \/ CancelRestart(j)
      PROVE  Halves
  <2>1. ManagerTypeOK'
    BY <1>0, <1>1, SubmitTypes, CancelTypes DEF Submit, Cancel, CancelRestart
  <2>2. UNCHANGED chiefVars
    BY <1>1 DEF Submit, Cancel, CancelRestart
  <2> QED
    BY <1>0, <2>1, <2>2, ChiefStutterTypes, QuietHalves
<1>2. ASSUME NEW e \in Engines, TogglePhasing(e) \/ FenceSilent(e)
      PROVE  Halves
  <2>1. ManagerTypeOK' /\ UNCHANGED chiefVars
    BY <1>0, <1>2, FlagTypes DEF TogglePhasing, FenceSilent
  <2> QED
    BY <1>0, <2>1, ChiefStutterTypes, QuietHalves
<1>3. ASSUME NEW e \in Engines, OperatorStop(e) \/ ConfirmTermination(e)
      PROVE  Halves
  <2>1. ManagerTypeOK' /\ UNCHANGED chiefVars
    BY <1>0, <1>3, EngineRemovedTypes DEF OperatorStop, ConfirmTermination
  <2> QED
    BY <1>0, <2>1, ChiefStutterTypes, QuietHalves
<1>4. ASSUME NEW e \in Engines, Boot(e) \/ ReregisterLost(e)
      PROVE  Halves
  <2>1. ManagerTypeOK'
    BY <1>0, <1>4, FlagTypes, ManagerStutterTypes DEF Boot, ReregisterLost
  <2>2. PlaceStep(e) \/ UNCHANGED chiefVars
    BY <1>4 DEF Boot, ReregisterLost, PlaceStep
  <2> QED
    BY <1>0, <2>1, <2>2, PlaceTypes, ChiefStutterTypes, QuietHalves
<1>5. ASSUME NEW e \in Engines, RequestNothing(e)
      PROVE  Halves
  <2>1. ManagerTypeOK' /\ TakeBatch(e, {})
    BY <1>0, <1>5, ManagerStutterTypes DEF RequestNothing
  <2> QED
    BY <1>0, <2>1, TakeBatchTypes, QuietHalves
<1>6. ASSUME NEW e \in Engines, NEW G \in SUBSET Queued,
             NEW M \in SUBSET AssignedElsewhere(e), Request(e, G, M)
      PROVE  Halves
  <2>1. ManagerTypeOK'
    BY <1>0, <1>6, RequestTypes DEF Request
  <2>2. AssignedAt(e) \union G \union M \in SUBSET Jobs
    BY <1>6 DEF AssignedAt, Queued, AssignedElsewhere
  <2>3. \E B \in SUBSET Jobs : TakeBatch(e, B)
    BY <1>6, <2>2 DEF Request
  <2> QED
    BY <1>0, <2>1, <2>3, TakeBatchTypes, QuietHalves
<1>7. ASSUME NEW e \in Engines, PollAnswered(e) \/ PollLost(e) \/ PollUnknown(e)
      PROVE  Halves
  <2>1. ManagerTypeOK'
    BY <1>0, <1>7, KnownJobs, PollTypes, ManagerStutterTypes
    DEF PollAnswered, PollLost, PollUnknown
  <2>2. PlaceStep(e) \/ \E stop, D, C : ObeyCommands(e, stop, D, C)
    BY <1>7 DEF PollAnswered, PollLost, PollUnknown, PlaceStep
  <2> QED
    BY <1>0, <2>1, <2>2, PlaceTypes, ObeyTypes, QuietHalves
<1>8. ASSUME NEW e \in Engines, Local(e) \/ SkipForShortage(e) \/ StartPilot(e)
      PROVE  Halves
  <2>1. ManagerTypeOK'
    BY <1>0, <1>8, ManagerStutterTypes DEF Local, SkipForShortage, StartPilot
  <2>2. CASE RetryKeptGrants(e)
    <3>1. assigned[e] \in SUBSET Jobs /\ TakeBatch(e, assigned[e])
      BY <1>0, <2>2 DEF ChiefTypeOK, RetryKeptGrants
    <3> QED
      BY <1>0, <2>1, <3>1, TakeBatchTypes, QuietHalves
  <2>3. CASE \E j \in Jobs : SkipKnownGrant(e, j)
    BY <1>0, <2>1, <2>3, GrantTypes, QuietHalves DEF GrantStep
  <2>4. CASE FinishStarts(e)
    BY <1>0, <2>1, <2>4, FinishStartsTypes, QuietHalves
  <2>5. CASE PlaceStep(e)
    BY <1>0, <2>1, <2>5, PlaceTypes, QuietHalves
  <2> QED
    BY <1>8, <2>2, <2>3, <2>4, <2>5 DEF Local, SkipForShortage, StartPilot, PlaceStep
<1>9. ASSUME NEW e \in Engines, UnregisterAndLeave(e) \/ Kill(e) \/ Sigterm(e)
      PROVE  Halves
  <2>1. ManagerTypeOK' /\ LossStep(e)
    BY <1>0, <1>9, EngineRemovedTypes, ManagerStutterTypes
    DEF UnregisterAndLeave, Unregister, Kill, Sigterm, LossStep
  <2> QED
    BY <1>0, <2>1, LossTypes, QuietHalves
<1>10. ASSUME NEW e \in Engines, NEW j \in Jobs, Report(e, j)
       PROVE  Halves
  <2>1. ManagerTypeOK'
    BY <1>0, <1>10, JobFinishedTypes DEF Report
  <2>2. ReportDelivered(e, j) \/ UNCHANGED chiefVars
    BY <1>10 DEF Report
  <2> QED
    BY <1>0, <2>1, <2>2, ReportTypes, ChiefStutterTypes, QuietHalves
<1>11. ASSUME NEW e \in Engines, NEW j \in Jobs, NEW check, Ack(e, j, check)
       PROVE  Halves
  <2>1. ManagerTypeOK'
    BY <1>0, <1>11, CanRunTypes DEF Ack
  <2>2. CASE CanRun(e, j, check) /\ ClaimGrant(e, j)
    <3>1. e \notin stopping
      BY <2>2 DEF CanRun
    <3>2. ChiefTypeOK' /\ \A f \in Engines \ {e} : pending'[f] \subseteq pending[f]
      BY <1>0, <2>2, ClaimTypes
    <3> QED
      BY <1>0, <2>1, <3>1, <3>2 DEF Halves, FencedQuiet, ManagerTypeOK
  <2>3. CASE GrantStep(e, j)
    BY <1>0, <2>1, <2>3, GrantTypes, QuietHalves
  <2> QED
    BY <1>11, <2>2, <2>3 DEF Ack, GrantStep
<1>12. ASSUME NEW e \in Engines, NEW j \in Jobs, AckUnsent(e, j) \/ KeepUnfitting(e, j)
       PROVE  Halves
  <2>1. ManagerTypeOK' /\ GrantStep(e, j)
    BY <1>0, <1>12, ManagerStutterTypes DEF AckUnsent, KeepUnfitting, GrantStep
  <2> QED
    BY <1>0, <2>1, GrantTypes, QuietHalves
<1>13. ASSUME NEW e \in Engines, NEW j \in Jobs, Start(e, j) \/ FailStart(e, j)
       PROVE  Halves
  BY <1>0, <1>13, ManagerStutterTypes, StartTypes, StartFailsTypes, QuietHalves
  DEF Start, FailStart
<1>14. ASSUME NEW e \in Engines, NEW j \in Jobs, NEW rc \in ExitCodes, Exit(e, j, rc)
       PROVE  Halves
  <2>1. rc \in ChildCodes
    BY EnvironmentAssumption
  <2> QED
    BY <1>0, <1>14, <2>1, ManagerStutterTypes, ExitTypes, QuietHalves DEF Exit
<1>15. CASE UNCHANGED vars
  BY <1>0, <1>15, ManagerStutterTypes, ChiefStutterTypes, QuietHalves DEF vars
<1> QED
  BY <1>1, <1>2, <1>3, <1>4, <1>5, <1>6, <1>7, <1>8, <1>9, <1>10, <1>11, <1>12, <1>13,
     <1>14, <1>15 DEF Next, RequestSome

(* The initial state has its types.                                        *)
LEMMA InitTypes == ASSUME Init PROVE TypeOK
<1>1. ManagerTypeOK
  BY RetryAssumption DEF Init, ManagerInit, ManagerTypeOK, JobStates, RequeueBound
<1>2. ChiefTypeOK
  BY NoCodesType, LimitsAssumption DEF Init, ChiefInit, ChiefTypeOK, Locations
<1>3. budget \in [DOMAIN Budgets -> Nat]
  BY EnvironmentAssumption DEF Init, Budgets
<1> QED
  BY <1>1, <1>2, <1>3 DEF Init, TypeOK

(* The tables of the manager and of every chief, and the free counters of  *)
(* the chiefs, always have their types: retries stay within the allowance  *)
(* and heartbeat misses below their limit, whatever is lost or killed.     *)
THEOREM TypeCorrect == Spec => []TypeOK
<1>1. TypeOK /\ [Next]_vars => TypeOK'
  BY EnvironmentTypes, StepHalves DEF TypeOK, Halves
<1> QED
  BY InitTypes, <1>1, PTL DEF Spec

(* A fenced pilot takes no further job, for every instance, with operator  *)
(* stops, lost reports and every other fault allowed.                      *)
THEOREM FenceHolds == Spec => FencedTakesNothing
<1>1. TypeOK /\ [Next]_vars => [FencedQuiet]_vars
  BY StepHalves DEF Halves
<1>2. [FencedQuiet]_vars <=>
      [\A e \in stopping \intersect stopping' : pending'[e] \subseteq pending[e]]_vars
  BY DEF FencedQuiet
<1> QED
  BY TypeCorrect, <1>1, <1>2, PTL DEF Spec, FencedTakesNothing

-----------------------------------------------------------------------------
(* Ownership of executions.  Two faults are excluded, because either one   *)
(* breaks it: the lost answer to a completion report, after which the      *)
(* report is sent again and ends whatever attempt the job is in by then;   *)
(* and the operator's stop, which unregisters an engine as soon as scancel *)
(* is accepted.  Lost grants, acknowledgements and polls, killed pilots,   *)
(* cancels, restarts and fences are all allowed.                           *)

(* ExecutionIsOwned is not inductive: a granted job must not be claimed by *)
(* a chief that knows it already, a report must leave no trace of the job, *)
(* and an engine must be removed only when its chief knows nothing.        *)
OwnershipInv ==
    /\ TypeOK /\ ChiefInv /\ ExecutionIsOwned
    /\ budget["stop"] = 0 /\ budget["report"] = 0

(* Ownership survives a step that makes no job known and leaves the known  *)
(* jobs RUNNING where they are.                                            *)
LEMMA OwnershipKept ==
    ASSUME ChiefTypeOK, ExecutionIsOwned, KnownShrinks,
           \A e \in Engines, j \in Jobs : j \in Known(e)' => KeepsRunning(j)
    PROVE  ExecutionIsOwned'
<1> SUFFICES ASSUME NEW e \in Engines, NEW j \in Known(e)'
             PROVE  state'[j] = "RUNNING" /\ node'[j] = e
  BY DEF ExecutionIsOwned
<1>1. j \in Known(e) /\ j \in Jobs
  BY KnownJobs DEF KnownShrinks
<1>2. state[j] = "RUNNING" /\ node[j] = e
  BY <1>1 DEF ExecutionIsOwned
<1> QED
  BY <1>1, <1>2 DEF KeepsRunning

(* A chief that knows a job keeps the manager from granting it.            *)
LEMMA GrantsAreUnknown ==
    ASSUME ExecutionIsOwned, NEW e \in Engines, NEW B, \A j \in B : state[j] # "RUNNING"
    PROVE  B \intersect Known(e) = {}
  BY DEF ExecutionIsOwned

(* A fault whose budget is zero does not happen later.                     *)
LEMMA SpentStays ==
    ASSUME TypeOK, [Next]_vars, NEW k \in {"stop", "report"}, budget[k] = 0
    PROVE  budget'[k] = 0
<1>0. k \in DOMAIN Budgets /\ budget \in [DOMAIN Budgets -> Nat]
  BY DEF Budgets, TypeOK
<1>1. ASSUME NEW kind, Spend(kind)
      PROVE  budget'[k] = 0
  <2>1. kind # k
    BY <1>1 DEF Spend
  <2> QED
    BY <1>0, <1>1, <2>1 DEF Spend
<1>2. UNCHANGED budget => budget'[k] = 0
  OBVIOUS
<1>3. (\E kind : Spend(kind)) \/ UNCHANGED budget
  <2>1. ASSUME NEW j \in Jobs, Submit(j) \/ Cancel(j) \/ CancelRestart(j)
        PROVE  (\E kind : Spend(kind)) \/ UNCHANGED budget
    BY <2>1 DEF Submit, Cancel, CancelRestart, NoFault
  <2>2. ASSUME NEW e \in Engines,
               \/ TogglePhasing(e) \/ OperatorStop(e) \/ Boot(e) \/ ReregisterLost(e)
               \/ RequestNothing(e) \/ RequestSome(e)
               \/ PollAnswered(e) \/ PollLost(e) \/ PollUnknown(e)
               \/ Local(e) \/ SkipForShortage(e)
        PROVE  (\E kind : Spend(kind)) \/ UNCHANGED budget
    BY <2>2
    DEF TogglePhasing, OperatorStop, Boot, ReregisterLost, RequestNothing, RequestSome,
        Request, PollAnswered, PollLost, PollUnknown, Local, SkipForShortage,
        NoFault, Lost, Short
  <2>3. ASSUME NEW e \in Engines,
               \/ UnregisterAndLeave(e) \/ Kill(e) \/ Sigterm(e)
               \/ FenceSilent(e) \/ ConfirmTermination(e) \/ StartPilot(e)
        PROVE  (\E kind : Spend(kind)) \/ UNCHANGED budget
    BY <2>3
    DEF UnregisterAndLeave, Kill, Sigterm, SpendKill, FenceSilent, ConfirmTermination,
        StartPilot, NoFault
  <2>4. ASSUME NEW e \in Engines, NEW j \in Jobs,
               \/ Report(e, j) \/ \E check \in GrantChecks : Ack(e, j, check)
               \/ AckUnsent(e, j) \/ KeepUnfitting(e, j) \/ Start(e, j) \/ FailStart(e, j)
               \/ \E rc \in ExitCodes : Exit(e, j, rc)
        PROVE  (\E kind : Spend(kind)) \/ UNCHANGED budget
    BY <2>4
    DEF Report, Ack, AckUnsent, KeepUnfitting, Start, FailStart, Exit, NoFault, Lost, Short
  <2>5. UNCHANGED vars => UNCHANGED budget
    BY DEF vars
  <2> QED
    BY <2>1, <2>2, <2>3, <2>4, <2>5 DEF Next
<1> QED
  BY <1>1, <1>2, <1>3

(* What a step keeps of the ownership of executions.                       *)
Owned == ChiefInv' /\ ExecutionIsOwned'

(* A step in which the manager touches no RUNNING job and the chiefs learn *)
(* of none.                                                                *)
LEMMA QuietOwned ==
    ASSUME OwnershipInv, ChiefInv', KnownShrinks,
           \A j \in Jobs : KeepsRunning(j)
    PROVE  Owned
  BY OwnershipKept DEF OwnershipInv, ChiefInv, Owned

(* Client requests keep the ownership invariant.                           *)
LEMMA ClientOwned ==
    ASSUME OwnershipInv, NEW j \in Jobs, Submit(j) \/ Cancel(j) \/ CancelRestart(j)
    PROVE  Owned
<1>1. \A i \in Jobs : KeepsRunning(i)
  BY ClientsKeepRunning DEF OwnershipInv, TypeOK, Submit, Cancel, CancelRestart
<1>2. UNCHANGED chiefVars
  BY DEF Submit, Cancel, CancelRestart
<1> QED
  BY <1>1, <1>2, ChiefStutterKeeps, QuietOwned DEF OwnershipInv

(* Registration, fence and phasing out keep the ownership invariant.       *)
LEMMA FlagsOwned ==
    ASSUME OwnershipInv, NEW e \in Engines,
           TogglePhasing(e) \/ FenceSilent(e) \/ Boot(e) \/ ReregisterLost(e)
    PROVE  Owned
<1>1. \A i \in Jobs : KeepsRunning(i)
  BY FlagsKeepRunning, ManagerStutterKeepsRunning
  DEF TogglePhasing, FenceSilent, Boot, ReregisterLost
<1>2. PlaceStep(e) \/ UNCHANGED chiefVars
  BY DEF TogglePhasing, FenceSilent, Boot, ReregisterLost, PlaceStep
<1> QED
  BY <1>1, <1>2, PlaceKeeps, ChiefStutterKeeps, QuietOwned DEF OwnershipInv

(* A request keeps it: a batch holds ASSIGNED jobs, which no chief knows.  *)
LEMMA RequestOwned ==
    ASSUME OwnershipInv, NEW e \in Engines, RequestNothing(e) \/ RequestSome(e)
    PROVE  Owned
<1>1. CASE RequestNothing(e)
  <2>1. (\A i \in Jobs : KeepsRunning(i)) /\ TakeBatch(e, {})
    BY <1>1, ManagerStutterKeepsRunning DEF RequestNothing
  <2> QED
    BY <2>1, TakeBatchKeeps, QuietOwned DEF OwnershipInv
<1>2. ASSUME NEW G \in SUBSET Queued, NEW M \in SUBSET AssignedElsewhere(e), Request(e, G, M)
      PROVE  Owned
  <2> DEFINE B == AssignedAt(e) \union G \union M
  <2>1. \A i \in Jobs : KeepsRunning(i)
    BY <1>2, RequestKeepsRunning DEF OwnershipInv, TypeOK, Request
  <2>2. B \in SUBSET Jobs /\ \A j \in B : state[j] # "RUNNING"
    BY DEF AssignedAt, Queued, QueueStates, AssignedElsewhere
  <2>3. B \intersect Known(e) = {} /\ {} \intersect Known(e) = {}
    BY <2>2, GrantsAreUnknown DEF OwnershipInv
  <2>4. TakeBatch(e, B) \/ TakeBatch(e, {})
    BY <1>2 DEF Request
  <2> HIDE DEF B
  <2> QED
    BY <2>1, <2>2, <2>3, <2>4, TakeBatchKeeps, QuietOwned DEF OwnershipInv
<1> QED
  BY <1>1, <1>2 DEF RequestSome

(* A heartbeat names everything the chief knows, so nothing that is known  *)
(* is adopted by the wrong engine or given back.                           *)
LEMMA PollOwned ==
    ASSUME OwnershipInv, NEW e \in Engines, PollAnswered(e) \/ PollLost(e) \/ PollUnknown(e)
    PROVE  Owned
<1>1. ChiefInv' /\ KnownShrinks
  <2>1. PlaceStep(e) \/ \E stop, D, C : ObeyCommands(e, stop, D, C)
    BY DEF PollAnswered, PollLost, PollUnknown, PlaceStep
  <2> QED
    BY <2>1, PlaceKeeps, ObeyKeeps DEF OwnershipInv
<1>2. \A j \in Jobs : node[j] # e \/ j \in Known(e) => KeepsRunning(j)
  <2>1. CASE Poll(e, Known(e))
    BY <2>1, KnownJobs, PollKeepsRunning DEF OwnershipInv, TypeOK
  <2>2. CASE UNCHANGED managerVars
    BY <2>2, ManagerStutterKeepsRunning
  <2> QED
    BY <2>1, <2>2 DEF PollAnswered, PollLost, PollUnknown
<1>3. \A f \in Engines, j \in Jobs : j \in Known(f)' => KeepsRunning(j)
  BY <1>1, <1>2 DEF KnownShrinks, OwnershipInv, ExecutionIsOwned
<1> QED
  BY <1>1, <1>3, OwnershipKept DEF Owned, OwnershipInv, ChiefInv

(* Steps of a chief alone, and its end, keep it.                           *)
LEMMA LocalOwned ==
    ASSUME OwnershipInv, NEW e \in Engines,
           Local(e) \/ SkipForShortage(e) \/ StartPilot(e) \/ Kill(e) \/ Sigterm(e)
    PROVE  Owned
<1>1. \A i \in Jobs : KeepsRunning(i)
  BY ManagerStutterKeepsRunning DEF Local, SkipForShortage, StartPilot, Kill, Sigterm
<1>2. CASE \E j \in Jobs : SkipKnownGrant(e, j)
  BY <1>1, <1>2, GrantKeeps, QuietOwned DEF GrantStep, SkipKnownGrant, OwnershipInv
<1>3. CASE FinishStarts(e) \/ RetryKeptGrants(e)
  BY <1>1, <1>3, FinishStartsKeeps, RetryKeeps, QuietOwned DEF OwnershipInv
<1>4. CASE PlaceStep(e) \/ LossStep(e)
  BY <1>1, <1>4, PlaceKeeps, LossKeeps, QuietOwned DEF OwnershipInv
<1> QED
  BY <1>2, <1>3, <1>4
  DEF Local, SkipForShortage, StartPilot, Kill, Sigterm, PlaceStep, LossStep

(* An engine is removed only after its chief has gone, with no stops left. *)
LEMMA RemovalOwned ==
    ASSUME OwnershipInv, NEW e \in Engines,
           UnregisterAndLeave(e) \/ ConfirmTermination(e) \/ OperatorStop(e)
    PROVE  Owned
<1>1. ~OperatorStop(e)
  BY DEF OperatorStop, Spend, OwnershipInv
<1>2. Known(e) = {}
  BY <1>1 DEF UnregisterAndLeave, Leave, ConfirmTermination, OwnershipInv, ChiefInv,
              GoneIsEmpty, Alive
<1>3. ChiefInv' /\ KnownShrinks
  BY <1>1, LossKeeps, ChiefStutterKeeps
  DEF UnregisterAndLeave, ConfirmTermination, LossStep, OwnershipInv
<1>4. \A j \in Jobs : node[j] # e => KeepsRunning(j)
  BY <1>1, EngineRemovedKeepsRunning, ManagerStutterKeepsRunning
  DEF UnregisterAndLeave, Unregister, ConfirmTermination
<1>5. \A f \in Engines, j \in Jobs : j \in Known(f)' => KeepsRunning(j)
  BY <1>2, <1>3, <1>4 DEF KnownShrinks, OwnershipInv, ExecutionIsOwned
<1> QED
  BY <1>3, <1>5, OwnershipKept DEF Owned, OwnershipInv, ChiefInv

(* A report is delivered and forgotten in the same step.                   *)
LEMMA ReportOwned ==
    ASSUME OwnershipInv, NEW e \in Engines, NEW j \in Jobs, Report(e, j)
    PROVE  Owned
<1>1. ReportDelivered(e, j) /\ j \in Unreported(e)
  BY DEF Report, Spend, OwnershipInv
<1>2. ChiefInv' /\ KnownShrinks /\ j \notin Known(e)'
  BY <1>1, ReportKeeps DEF OwnershipInv
<1>3. \A i \in Jobs \ {j} : KeepsRunning(i)
  BY JobFinishedKeepsRunning DEF Report
<1>4. \A f \in Engines : j \notin Known(f)'
  <2>1. node[j] = e
    BY <1>1 DEF OwnershipInv, ExecutionIsOwned, Known
  <2> QED
    BY <1>2, <2>1 DEF KnownShrinks, OwnershipInv, ExecutionIsOwned
<1> QED
  BY <1>2, <1>3, <1>4, OwnershipKept DEF Owned, OwnershipInv, ChiefInv

(* A claim follows a permission, which makes the claiming chief the owner. *)
LEMMA AckOwned ==
    ASSUME OwnershipInv, NEW e \in Engines, NEW j \in Jobs, NEW check, Ack(e, j, check)
    PROVE  Owned
<1>1. j \in batch[e]
  BY DEF Ack, Acknowledges
<1>2. /\ \A i \in Jobs : KeepsRunning(i)
      /\ CanRun(e, j, check) => state'[j] = "RUNNING" /\ node'[j] = e
  BY CanRunKeepsRunning DEF Ack, OwnershipInv, TypeOK
<1>3. CASE CanRun(e, j, check) /\ ClaimGrant(e, j)
  <2>1. /\ ChiefInv' /\ Known(e)' = Known(e) \union {j}
        /\ \A f \in Engines \ {e} : Known(f)' = Known(f)
    BY <1>1, <1>3, ClaimKeeps DEF OwnershipInv
  <2>2. ASSUME NEW f \in Engines, NEW i \in Known(f)'
        PROVE  state'[i] = "RUNNING" /\ node'[i] = f
    <3>1. CASE i = j /\ f = e
      BY <1>2, <1>3, <3>1
    <3>2. CASE i \in Known(f)
      <4>1. i \in Jobs /\ state[i] = "RUNNING" /\ node[i] = f
        BY <3>2, KnownJobs DEF OwnershipInv, ExecutionIsOwned, TypeOK
      <4> QED
        BY <1>2, <4>1 DEF KeepsRunning
    <3> QED
      BY <2>1, <2>2, <3>1, <3>2
  <2> QED
    BY <2>1, <2>2 DEF Owned, ExecutionIsOwned
<1>4. CASE GrantStep(e, j)
  BY <1>1, <1>2, <1>4, GrantKeeps, QuietOwned DEF OwnershipInv
<1> QED
  BY <1>3, <1>4 DEF Ack, GrantStep

(* Grants kept for a later pass keep it.                                   *)
LEMMA KeepOwned ==
    ASSUME OwnershipInv, NEW e \in Engines, NEW j \in Jobs,
           AckUnsent(e, j) \/ KeepUnfitting(e, j)
    PROVE  Owned
<1>1. (\A i \in Jobs : KeepsRunning(i)) /\ j \in batch[e] /\ GrantStep(e, j)
  BY ManagerStutterKeepsRunning DEF AckUnsent, Acknowledges, KeepUnfitting, GrantStep
<1> QED
  BY <1>1, GrantKeeps, QuietOwned DEF OwnershipInv

(* Spawning, failing and exiting keep it.                                  *)
LEMMA ChildOwned ==
    ASSUME OwnershipInv, NEW e \in Engines, NEW j \in Jobs,
           Start(e, j) \/ FailStart(e, j) \/ \E rc \in ExitCodes : Exit(e, j, rc)
    PROVE  Owned
<1>1. \A i \in Jobs : KeepsRunning(i)
  BY ManagerStutterKeepsRunning DEF Start, FailStart, Exit
<1>2. ChiefInv' /\ KnownShrinks
  BY StartKeeps, StartFailsKeeps, ExitKeeps, EnvironmentAssumption
  DEF OwnershipInv, Start, FailStart, Exit
<1> QED
  BY <1>1, <1>2, QuietOwned

(* Every step of the system keeps the ownership invariant.                 *)
LEMMA StepOwned ==
    ASSUME OwnershipInv, [Next]_vars
    PROVE  Owned
<1>1. UNCHANGED vars => Owned
  BY ManagerStutterKeepsRunning, ChiefStutterKeeps, QuietOwned DEF vars, OwnershipInv
<1> QED
  BY <1>1, ClientOwned, FlagsOwned, RequestOwned, PollOwned, LocalOwned, RemovalOwned,
     ReportOwned, AckOwned, KeepOwned, ChildOwned DEF Next

(* The invariant that carries the two theorems below.                      *)
LEMMA OwnershipInductive ==
    ASSUME MaxStops = 0, MaxReportLosses = 0
    PROVE  Spec => []OwnershipInv
<1>1. Init => OwnershipInv
  <2> SUFFICES ASSUME Init PROVE OwnershipInv
    OBVIOUS
  <2>1. \A e \in Engines : /\ batch[e] = {} /\ assigned[e] = {} /\ pending[e] = {}
                           /\ running[e] = {} /\ Unreported(e) = {}
    BY DEF Init, ChiefInit, Unreported, NoCodes
  <2>2. budget["stop"] = 0 /\ budget["report"] = 0
    BY DEF Init, Budgets
  <2> QED
    BY <2>1, <2>2, InitTypes
    DEF OwnershipInv, TypeOK, ChiefInv, ExecutionIsOwned, OneStage, GrantsUnknown,
        GoneIsEmpty, Known
<1>2. OwnershipInv /\ [Next]_vars => OwnershipInv'
  BY EnvironmentTypes, StepHalves, StepOwned, SpentStays
  DEF OwnershipInv, TypeOK, Halves, Owned
<1> QED
  BY <1>1, <1>2, PTL DEF Spec

(* What a chief holds, executes or has yet to report is RUNNING on that    *)
(* chief in the manager's job table.                                       *)
THEOREM OwnershipHolds ==
    ASSUME MaxStops = 0, MaxReportLosses = 0
    PROVE  Spec => []ExecutionIsOwned
<1>1. OwnershipInv => ExecutionIsOwned
  BY DEF OwnershipInv
<1> QED
  BY <1>1, OwnershipInductive, PTL

(* No job has two processes at once, with any number of pilots, slots and  *)
(* retries, and any number of lost grants, acknowledgements and polls,     *)
(* killed pilots, cancels, restarts and fences.                            *)
THEOREM NoDoubleExecution ==
    ASSUME MaxStops = 0, MaxReportLosses = 0
    PROVE  Spec => []AtMostOneExecution
<1>1. OwnershipInv => AtMostOneExecution
  BY DEF OwnershipInv, ExecutionIsOwned, AtMostOneExecution, Known
<1> QED
  BY <1>1, OwnershipInductive, PTL
=============================================================================
