---------------------------- MODULE LedgerProofs ----------------------------
(***************************************************************************)
(* The ledgers of PilotScheduling, for any number of jobs, engines and     *)
(* slots: the free counter of a chief, the shared transfer slots, and what *)
(* the manager places on a pilot.  The first two hold with every fault and *)
(* operator request allowed.  They are followed by the refinement of       *)
(* JobLease.                                                               *)
(***************************************************************************)
EXTENDS PilotSchedulingProofs

(* Any set of jobs is finite, and its size is a natural number.            *)
LEMMA JobSetsFinite ==
    ASSUME NEW D \in SUBSET Jobs
    PROVE  IsFiniteSet(D) /\ Cardinality(D) \in Nat
  BY JobsAssumption, FS_Subset, FS_CardinalityType

-----------------------------------------------------------------------------
(* The free counter of a chief.                                            *)

Occupied(e) == pending[e] \union running[e]

(* SlotsConserved is not inductive: a job that is deferred and running     *)
(* would hold one slot and give back two.                                  *)
SlotsInv ==
    \A e \in Engines :
        /\ pending[e] \intersect running[e] = {}
        /\ freeSlots[e] = Slots - Cardinality(Occupied(e))
        /\ freeSlots[e] >= 0

(* A step that leaves the slots of every chief alone.                      *)
SlotsQuiet == UNCHANGED <<pending, running, freeSlots>>

(* Such a step keeps the free counters.                                    *)
LEMMA QuietSlots == ASSUME SlotsInv, SlotsQuiet PROVE SlotsInv'
  BY DEF SlotsInv, SlotsQuiet, Occupied

(* A chief that changes, and others that do not.                           *)
OthersQuiet(e) ==
    \A f \in Engines \ {e} :
        pending'[f] = pending[f] /\ running'[f] = running[f] /\ freeSlots'[f] = freeSlots[f]

(* It is enough to look at the chief that makes the step.                  *)
LEMMA OneChiefSlots ==
    ASSUME SlotsInv, NEW e \in Engines, OthersQuiet(e),
           pending'[e] \intersect running'[e] = {},
           freeSlots'[e] = Slots - Cardinality(pending'[e] \union running'[e]),
           freeSlots'[e] >= 0
    PROVE  SlotsInv'
  BY DEF SlotsInv, OthersQuiet, Occupied

(* A claim takes one free slot for a job that holds none.                  *)
LEMMA ClaimSlots ==
    ASSUME ChiefTypeOK, SlotsInv, NEW e \in Engines, NEW j \in Jobs,
           j \notin Occupied(e), freeSlots[e] >= 1, ClaimGrant(e, j)
    PROVE  SlotsInv'
<1>1. /\ pending'[e] = pending[e] \union {j} /\ running'[e] = running[e]
      /\ freeSlots'[e] = freeSlots[e] - 1 /\ OthersQuiet(e)
  BY DEF ClaimGrant, ChiefTypeOK, OthersQuiet
<1>2. Occupied(e) \in SUBSET Jobs /\ freeSlots[e] \in Int /\ Slots \in Nat
  BY LimitsAssumption DEF Occupied, ChiefTypeOK
<1>3. Cardinality(Occupied(e) \union {j}) = Cardinality(Occupied(e)) + 1
  BY <1>2, JobSetsFinite, FS_AddElement
<1>4. pending'[e] \union running'[e] = Occupied(e) \union {j}
  BY <1>1 DEF Occupied
<1>5. pending'[e] \intersect running'[e] = {}
  BY <1>1 DEF SlotsInv, Occupied
<1>6. freeSlots[e] = Slots - Cardinality(Occupied(e)) /\ Cardinality(Occupied(e)) \in Nat
  BY <1>2, JobSetsFinite DEF SlotsInv
<1>7. freeSlots'[e] = Slots - (Cardinality(Occupied(e)) + 1) /\ freeSlots'[e] >= 0
  BY <1>1, <1>2, <1>6
<1>8. freeSlots'[e] = Slots - Cardinality(pending'[e] \union running'[e])
  BY <1>3, <1>4, <1>7
<1> QED
  BY <1>1, <1>5, <1>7, <1>8, OneChiefSlots

(* A spawned child keeps the slot of its deferred start.                   *)
LEMMA StartSlots ==
    ASSUME ChiefTypeOK, SlotsInv, NEW e \in Engines, NEW j \in Jobs, StartChild(e, j)
    PROVE  SlotsInv'
<1>1. /\ pending'[e] = pending[e] \ {j} /\ running'[e] = running[e] \union {j}
      /\ freeSlots'[e] = freeSlots[e] /\ OthersQuiet(e)
  BY DEF StartChild, ChiefTypeOK, OthersQuiet
<1>2. pending'[e] \union running'[e] = Occupied(e)
  BY <1>1 DEF StartChild, Occupied
<1>3. pending'[e] \intersect running'[e] = {}
  BY <1>1 DEF SlotsInv
<1> QED
  BY <1>1, <1>2, <1>3, OneChiefSlots DEF SlotsInv

(* Slots are given back for the jobs that stop holding them.               *)
LEMMA ReturnedSlots ==
    ASSUME ChiefTypeOK, SlotsInv, NEW e \in Engines, NEW D \in SUBSET Occupied(e),
           OthersQuiet(e), pending'[e] \subseteq pending[e], running'[e] \subseteq running[e],
           pending'[e] \union running'[e] = Occupied(e) \ D,
           freeSlots'[e] = freeSlots[e] + Cardinality(D)
    PROVE  SlotsInv'
<1>1. /\ Occupied(e) \in SUBSET Jobs /\ D \in SUBSET Jobs
      /\ freeSlots[e] \in Int /\ Slots \in Nat
  BY LimitsAssumption DEF Occupied, ChiefTypeOK
<1>2. Cardinality(Occupied(e) \ D) = Cardinality(Occupied(e)) - Cardinality(D)
  <2>1. Occupied(e) \intersect D = D
    OBVIOUS
  <2> QED
    BY <1>1, <2>1, JobSetsFinite, FS_Difference
<1>3. pending'[e] \intersect running'[e] = {}
  BY DEF SlotsInv
<1>4. /\ freeSlots'[e] = Slots - Cardinality(pending'[e] \union running'[e])
      /\ freeSlots'[e] >= 0
  BY <1>1, <1>2, JobSetsFinite DEF SlotsInv
<1> QED
  BY <1>3, <1>4, OneChiefSlots

(* Withdrawn starts give back their slots, and no other.                   *)
LEMMA WithdrawSlots ==
    ASSUME ChiefTypeOK, SlotsInv, NEW e \in Engines, NEW D, CancelPending(e, D),
           UNCHANGED running
    PROVE  SlotsInv'
<1> DEFINE W == D \intersect pending[e]
<1>1. /\ pending'[e] = pending[e] \ D /\ running'[e] = running[e]
      /\ freeSlots'[e] = freeSlots[e] + Cardinality(W) /\ OthersQuiet(e)
  BY DEF CancelPending, ChiefTypeOK, OthersQuiet
<1>2. W \in SUBSET Occupied(e) /\ pending'[e] \union running'[e] = Occupied(e) \ W
  BY <1>1 DEF SlotsInv, Occupied
<1> HIDE DEF W
<1> QED
  BY <1>1, <1>2, ReturnedSlots

(* The exit of a child gives back one slot.                                *)
LEMMA ExitSlots ==
    ASSUME ChiefTypeOK, SlotsInv, NEW e \in Engines, NEW j \in Jobs, NEW rc,
           ChildExits(e, j, rc)
    PROVE  SlotsInv'
<1>1. /\ j \in running[e] /\ running'[e] = running[e] \ {j} /\ pending'[e] = pending[e]
      /\ freeSlots'[e] = freeSlots[e] + 1 /\ OthersQuiet(e)
  BY DEF ChildExits, ChiefTypeOK, OthersQuiet
<1>2. {j} \in SUBSET Occupied(e) /\ pending'[e] \union running'[e] = Occupied(e) \ {j}
  BY <1>1 DEF SlotsInv, Occupied
<1>3. freeSlots'[e] = freeSlots[e] + Cardinality({j})
  BY <1>1, FS_Singleton
<1> QED
  BY <1>1, <1>2, <1>3, ReturnedSlots

(* A chief that is gone has all its slots free.                            *)
LEMMA LossSlots ==
    ASSUME ChiefTypeOK, SlotsInv, NEW e \in Engines, LossStep(e)
    PROVE  SlotsInv'
<1>1. /\ pending'[e] = {} /\ running'[e] = {} /\ freeSlots'[e] = Slots
      /\ OthersQuiet(e)
  BY DEF LossStep, Die, Terminate, Leave, LoseState, ChiefTypeOK, OthersQuiet
<1>2. /\ pending'[e] \union running'[e] = {} /\ pending'[e] \intersect running'[e] = {}
      /\ Cardinality({}) = 0 /\ Slots \in Nat
  BY <1>1, FS_EmptySet, LimitsAssumption
<1>3. freeSlots'[e] = Slots - Cardinality(pending'[e] \union running'[e])
  BY <1>1, <1>2
<1> QED
  BY <1>1, <1>2, <1>3, OneChiefSlots

(* Every step of the system keeps the free counters exact.                 *)
LEMMA StepSlots ==
    ASSUME TypeOK, SlotsInv, [Next]_vars
    PROVE  SlotsInv'
<1>0. ChiefTypeOK
  BY DEF TypeOK
<1>1. ASSUME NEW j \in Jobs, Submit(j) \/ Cancel(j) \/ CancelRestart(j)
      PROVE  SlotsInv'
  BY <1>1, QuietSlots DEF Submit, Cancel, CancelRestart, SlotsQuiet, chiefVars
<1>2. ASSUME NEW e \in Engines,
             \/ TogglePhasing(e) \/ OperatorStop(e) \/ FenceSilent(e) \/ ConfirmTermination(e)
             \/ Boot(e) \/ ReregisterLost(e) \/ RequestNothing(e) \/ RequestSome(e)
             \/ SkipForShortage(e) \/ StartPilot(e)
      PROVE  SlotsInv'
  BY <1>2, QuietSlots
  DEF TogglePhasing, OperatorStop, FenceSilent, ConfirmTermination, Boot, ReregisterLost,
      RequestNothing, RequestSome, Request, SkipForShortage, StartPilot, Registered,
      TakeBatch, SkipGrants, NewPilot, SlotsQuiet, chiefVars
<1>3. ASSUME NEW e \in Engines, PollAnswered(e) \/ PollLost(e) \/ PollUnknown(e)
      PROVE  SlotsInv'
  <2>1. ASSUME NEW stop, NEW D, NEW C, ObeyCommands(e, stop, D, C)
        PROVE  SlotsInv'
    BY <1>0, <2>1, WithdrawSlots DEF ObeyCommands
  <2>2. CASE PollUnanswered(e) \/ ObeyReregister(e)
    BY <2>2, QuietSlots DEF PollUnanswered, ObeyReregister, SlotsQuiet
  <2> QED
    BY <1>3, <2>1, <2>2 DEF PollAnswered, PollLost, PollUnknown
<1>4. ASSUME NEW e \in Engines, Local(e)
      PROVE  SlotsInv'
  <2>1. CASE FinishStarts(e)
    BY <1>0, <2>1, WithdrawSlots, QuietSlots DEF FinishStarts, SlotsQuiet
  <2>2. CASE ~FinishStarts(e)
    BY <1>4, <2>2, QuietSlots
    DEF Local, NothingToReport, SkipGrants, RetryKeptGrants, TakeBatch, SkipKnownGrant, SlotsQuiet
  <2> QED
    BY <2>1, <2>2
<1>5. ASSUME NEW e \in Engines, UnregisterAndLeave(e) \/ Kill(e) \/ Sigterm(e)
      PROVE  SlotsInv'
  BY <1>0, <1>5, LossSlots DEF UnregisterAndLeave, Kill, Sigterm, LossStep
<1>6. ASSUME NEW e \in Engines, NEW j \in Jobs, Report(e, j)
      PROVE  SlotsInv'
  BY <1>6, QuietSlots DEF Report, ReportDelivered, SlotsQuiet, chiefVars
<1>7. ASSUME NEW e \in Engines, NEW j \in Jobs, NEW check, Ack(e, j, check)
      PROVE  SlotsInv'
  <2>1. CASE ClaimGrant(e, j)
    BY <1>0, <1>7, <2>1, ClaimSlots DEF Ack, Acknowledges, AlreadyHere, Occupied
  <2>2. CASE ~ClaimGrant(e, j)
    BY <1>7, <2>2, QuietSlots DEF Ack, DropGrant, KeepGrant, SlotsQuiet
  <2> QED
    BY <2>1, <2>2
<1>8. ASSUME NEW e \in Engines, NEW j \in Jobs, AckUnsent(e, j) \/ KeepUnfitting(e, j)
      PROVE  SlotsInv'
  BY <1>8, QuietSlots DEF AckUnsent, KeepUnfitting, KeepGrant, SlotsQuiet
<1>9. ASSUME NEW e \in Engines, NEW j \in Jobs, Start(e, j) \/ FailStart(e, j)
      PROVE  SlotsInv'
  BY <1>0, <1>9, StartSlots, WithdrawSlots DEF Start, FailStart, StartFails
<1>10. ASSUME NEW e \in Engines, NEW j \in Jobs, NEW rc, Exit(e, j, rc)
       PROVE  SlotsInv'
  BY <1>0, <1>10, ExitSlots DEF Exit
<1>11. CASE UNCHANGED vars
  BY <1>11, QuietSlots DEF vars, chiefVars, SlotsQuiet
<1> QED
  BY <1>1, <1>2, <1>3, <1>4, <1>5, <1>6, <1>7, <1>8, <1>9, <1>10, <1>11 DEF Next

(* A chief's free counter is exactly what its claimed jobs leave of its    *)
(* slots, and never negative, in every order of claims, starts, exits,     *)
(* cancels and stops and with every fault allowed.                         *)
THEOREM SlotsHold == Spec => []SlotsConserved
<1>1. Init => SlotsInv
  <2> SUFFICES ASSUME Init PROVE SlotsInv
    OBVIOUS
  <2>1. Cardinality({}) = 0 /\ Slots \in Nat
    BY FS_EmptySet, LimitsAssumption
  <2>2. \A e \in Engines :
          /\ pending[e] = {} /\ running[e] = {} /\ Occupied(e) = {} /\ freeSlots[e] = Slots
    BY DEF Init, ChiefInit, Occupied
  <2> QED
    BY <2>1, <2>2 DEF SlotsInv
<1>2. TypeOK /\ SlotsInv /\ [Next]_vars => SlotsInv'
  BY StepSlots
<1>3. SlotsInv => SlotsConserved
  BY DEF SlotsInv, SlotsConserved, Occupied
<1> QED
  BY TypeCorrect, <1>1, <1>2, <1>3, PTL DEF Spec
-----------------------------------------------------------------------------
(* The shared transfer slots.                                              *)

Placed == {j \in Jobs : node[j] # NoEngine}

(* TransferBalanced is not inductive: the code releases and reserves by    *)
(* the state of a job, so state and place have to agree.                   *)
TransferInv ==
    /\ \A j \in Jobs : node[j] # NoEngine <=> state[j] \in {"ASSIGNED", "RUNNING"}
    /\ transferInUse = TransferNeed(Placed)

(* What disjoint sets of jobs need adds up.                                *)
LEMMA NeedOfUnion ==
    ASSUME NEW A \in SUBSET Jobs, NEW B \in SUBSET Jobs, A \intersect B = {}
    PROVE  TransferNeed(A \union B) = TransferNeed(A) + TransferNeed(B)
<1> DEFINE TA == A \intersect TransferJobs  TB == B \intersect TransferJobs
<1>1. TA \in SUBSET Jobs /\ TB \in SUBSET Jobs /\ TA \intersect TB = {}
  OBVIOUS
<1>2. (A \union B) \intersect TransferJobs = TA \union TB
  OBVIOUS
<1> HIDE DEF TA, TB
<1>3. Cardinality(TA \union TB) = Cardinality(TA) + Cardinality(TB) - Cardinality({})
  BY <1>1, JobSetsFinite, FS_Union
<1>4. Cardinality(TA) \in Nat /\ Cardinality(TB) \in Nat /\ Cardinality({}) = 0
  BY <1>1, JobSetsFinite, FS_EmptySet
<1>5. Cardinality(TA \union TB) = Cardinality(TA) + Cardinality(TB)
  BY <1>3, <1>4
<1> QED
  BY <1>2, <1>5 DEF TransferNeed, TA, TB

(* Giving back what a subset needs leaves what the rest needs.             *)
LEMMA NeedOfRest ==
    ASSUME NEW A \in SUBSET Jobs, NEW B \in SUBSET A
    PROVE  /\ TransferNeed(A \ B) = TransferNeed(A) - TransferNeed(B)
           /\ TransferNeed(A) >= TransferNeed(B)
<1>1. A \ B \in SUBSET Jobs /\ B \in SUBSET Jobs /\ (A \ B) \union B = A
  OBVIOUS
<1>2. TransferNeed(A) = TransferNeed(A \ B) + TransferNeed(B)
  BY <1>1, NeedOfUnion
<1> QED
  BY <1>1, <1>2, TransferNeedType

(* A release of jobs that are placed balances their removal.               *)
LEMMA ReleaseBalances ==
    ASSUME TransferInv, NEW D \in SUBSET Placed, Placed' = Placed \ D,
           transferInUse' = TransferAfterRelease(D)
    PROVE  transferInUse' = TransferNeed(Placed)'
<1>1. Placed \in SUBSET Jobs
  BY DEF Placed
<1>2. transferInUse' = TransferNeed(Placed) - TransferNeed(D)
  BY <1>1, NeedOfRest DEF TransferInv, TransferAfterRelease
<1> QED
  BY <1>1, <1>2, NeedOfRest DEF TransferNeed

(* A step of the manager that moves no job between held and free.          *)
LEMMA SamePlaces ==
    ASSUME TransferInv, UNCHANGED transferInUse,
           \A j \in Jobs : /\ node'[j] # NoEngine <=> node[j] # NoEngine
                           /\ node'[j] # NoEngine <=> state'[j] \in {"ASSIGNED", "RUNNING"}
    PROVE  TransferInv'
<1>1. Placed' = Placed
  BY DEF Placed
<1> QED
  BY <1>1 DEF TransferInv, TransferNeed

(* Submitting and cancelling.                                              *)
LEMMA ClientsBalanced ==
    ASSUME ManagerTypeOK, TransferInv, NEW i \in Jobs,
           \/ \E r \in 0 .. MaxRequeue : SubmitJob(i, r)
           \/ CancelJob(i) \/ CancelForRestart(i)
    PROVE  TransferInv'
<1>1. CASE \/ \E r \in 0 .. MaxRequeue : SubmitJob(i, r)
           \/ CancelForRestart(i)
           \/ CancelJob(i) /\ state[i] = "RUNNING"
  BY <1>1, SamePlaces
  DEF SubmitJob, CancelForRestart, CancelJob, ManagerTypeOK, TransferInv
<1>2. CASE CancelJob(i) /\ state[i] # "RUNNING"
  <2> DEFINE D == IF node[i] = NoEngine THEN {} ELSE {i}
  <2>1. /\ state' = [state EXCEPT ![i] = "CANCELLED"]
        /\ node' = [node EXCEPT ![i] = NoEngine]
        /\ transferInUse' = TransferAfterRelease(D)
    BY <1>2 DEF CancelJob
  <2>2. D \in SUBSET Placed /\ Placed' = Placed \ D
    BY <2>1 DEF Placed, ManagerTypeOK
  <2>3. \A j \in Jobs : node'[j] # NoEngine <=> state'[j] \in {"ASSIGNED", "RUNNING"}
    BY <2>1 DEF TransferInv, ManagerTypeOK
  <2> HIDE DEF D
  <2> QED
    BY <2>1, <2>2, <2>3, ReleaseBalances DEF TransferInv
<1> QED
  BY <1>1, <1>2

(* request_jobs(): the queued jobs it grants are not placed yet, those it  *)
(* moves are.                                                              *)
LEMMA RequestBalanced ==
    ASSUME ManagerTypeOK, TransferInv, NEW e \in Engines, NEW n, NEW G, NEW M,
           RequestJobs(e, n, G, M)
    PROVE  TransferInv'
<1>1. /\ G \subseteq Queued /\ M \subseteq AssignedElsewhere(e)
      /\ state' = [j \in Jobs |-> IF j \in G THEN "ASSIGNED" ELSE state[j]]
      /\ node' = [j \in Jobs |-> IF j \in G \union M THEN e ELSE node[j]]
      /\ transferInUse' = transferInUse + TransferNeed(G)
  BY DEF RequestJobs
<1>2. \A j \in M : state[j] = "ASSIGNED"
  BY <1>1 DEF AssignedElsewhere
<1>3. \A j \in G : state[j] \notin {"ASSIGNED", "RUNNING"}
  BY <1>1 DEF Queued, QueueStates
<1>4. \A j \in Jobs : node'[j] # NoEngine <=> state'[j] \in {"ASSIGNED", "RUNNING"}
  BY <1>1, <1>2, EnginesAssumption DEF TransferInv
<1>5. G \in SUBSET Jobs /\ M \in SUBSET Placed
  BY <1>1, <1>2 DEF Queued, TransferInv, Placed, AssignedElsewhere
<1>6. Placed' = Placed \union G /\ Placed \intersect G = {}
  BY <1>1, <1>3, <1>5, EnginesAssumption DEF TransferInv, Placed
<1>7. Placed \in SUBSET Jobs
  BY DEF Placed
<1>8. transferInUse' = TransferNeed(Placed \union G)
  BY <1>1, <1>5, <1>6, <1>7, NeedOfUnion DEF TransferInv
<1> QED
  BY <1>4, <1>6, <1>8 DEF TransferInv, TransferNeed

(* can_run_assigned_job(): a start keeps the slot, a refusal gives it back.*)
LEMMA CanRunBalanced ==
    ASSUME ManagerTypeOK, TransferInv, NEW e \in Engines, NEW i \in Jobs, NEW check,
           CanRunAssignedJob(e, i, check)
    PROVE  TransferInv'
<1>1. CASE UNCHANGED managerVars
  BY <1>1, SamePlaces DEF managerVars, jobVars, TransferInv
<1>2. CASE /\ state[i] = "ASSIGNED" /\ state' = [state EXCEPT ![i] = "RUNNING"]
           /\ UNCHANGED <<node, transferInUse>>
  BY <1>2, SamePlaces DEF ManagerTypeOK, TransferInv
<1>3. CASE /\ i \in AssignedAt(e) /\ state' = [state EXCEPT ![i] = "PENDING"]
           /\ node' = [node EXCEPT ![i] = NoEngine]
           /\ transferInUse' = TransferAfterRelease({i})
  <2>1. {i} \in SUBSET Placed /\ Placed' = Placed \ {i}
    BY <1>3, EnginesAssumption DEF Placed, AssignedAt, ManagerTypeOK
  <2>2. \A j \in Jobs : node'[j] # NoEngine <=> state'[j] \in {"ASSIGNED", "RUNNING"}
    BY <1>3 DEF TransferInv, ManagerTypeOK
  <2> QED
    BY <1>3, <2>1, <2>2, ReleaseBalances DEF TransferInv
<1> QED
  BY <1>1, <1>2, <1>3 DEF CanRunAssignedJob

(* job_finished(): whatever engine reports it, a job gives back what it    *)
(* held.                                                                   *)
LEMMA JobFinishedBalanced ==
    ASSUME ManagerTypeOK, TransferInv, NEW i \in Jobs, NEW rc, JobFinished(i, rc)
    PROVE  TransferInv'
<1>1. CASE UNCHANGED managerVars
  BY <1>1, SamePlaces DEF managerVars, jobVars, TransferInv
<1>2. CASE JobDone({i}, rc)
  <2> DEFINE D == {j \in {i} : node[j] # NoEngine}
  <2>1. D \in SUBSET Placed /\ Placed' = Placed \ D
    BY <1>2 DEF JobDone, Placed
  <2>2. \A j \in Jobs : node'[j] # NoEngine <=> state'[j] \in {"ASSIGNED", "RUNNING"}
    BY <1>2, OutcomeType DEF JobDone, TransferInv
  <2>3. transferInUse' = TransferAfterRelease(D)
    BY <1>2 DEF JobDone
  <2> HIDE DEF D
  <2> QED
    BY <2>1, <2>2, <2>3, ReleaseBalances DEF TransferInv
<1> QED
  BY <1>1, <1>2 DEF JobFinished

(* poll(): adopted jobs that were queued are reserved again, lost grants   *)
(* are released, and no job is both.                                       *)
LEMMA PollBalanced ==
    ASSUME ManagerTypeOK, TransferInv, NEW e \in Engines, NEW K \in SUBSET Jobs, Poll(e, K)
    PROVE  TransferInv'
<1>1. CASE UNCHANGED <<jobVars, engineJobs>>
  BY <1>1, SamePlaces DEF jobVars, TransferInv
<1>2. CASE ReconcileHeartbeat(e, K)
  <2> DEFINE A == Adopted(K)  R == ReservedAgain(A)  L == LostGrants(e, K)
  <2>1. /\ \A j \in A : j \in K /\ state[j] \in {"PENDING", "REQUEUED", "ASSIGNED"}
        /\ \A j \in L : j \in Jobs /\ state[j] = "RUNNING" /\ node[j] = e
        /\ R = {j \in A : state[j] \in {"PENDING", "REQUEUED"}}
    BY DEF Adopted, LiveStates, LostGrants, Missed, RunningAt, ReservedAgain, Queued, QueueStates
  <2>2. state' = [j \in Jobs |->
            IF j \in A THEN "RUNNING"
            ELSE IF j \in L THEN OutcomeState(j, "ENGINE_TERMINATED") ELSE state[j]]
    BY <1>2 DEF ReconcileHeartbeat
  <2>n. node' = [j \in Jobs |-> IF j \in A THEN e ELSE IF j \in L THEN NoEngine ELSE node[j]]
    BY <1>2 DEF ReconcileHeartbeat
  <2>t. transferInUse' = IF transferInUse + TransferNeed(R) >= TransferNeed(L)
                         THEN transferInUse + TransferNeed(R) - TransferNeed(L) ELSE 0
    <3>1. A \in SUBSET Jobs /\ R \in SUBSET Jobs /\ L \in SUBSET Jobs
      BY <2>1
    <3>2. /\ TransferNeed(R) \in Nat /\ TransferNeed(L) \in Nat /\ transferInUse \in Nat
      BY <3>1, TransferNeedType DEF ManagerTypeOK
    <3> QED
      BY <1>2, <3>2 DEF ReconcileHeartbeat
  <2> HIDE DEF A, R, L
  <2>3. \A j \in Jobs : node'[j] # NoEngine <=> state'[j] \in {"ASSIGNED", "RUNNING"}
    BY <2>1, <2>2, <2>n, OutcomeType, EnginesAssumption DEF TransferInv
  <2>4. /\ Placed \in SUBSET Jobs /\ R \in SUBSET Jobs /\ Placed \intersect R = {}
        /\ L \in SUBSET Placed
    BY <2>1, EnginesAssumption DEF Placed, TransferInv
  <2>5. Placed' = (Placed \union R) \ L
    <3>1. \A j \in Jobs : j \in A => (j \in Placed \union R /\ j \notin L)
      BY <2>1 DEF Placed, TransferInv
    <3>2. \A j \in Jobs : node'[j] # NoEngine <=> (j \in Placed \union R /\ j \notin L)
      BY <2>1, <2>n, <3>1, EnginesAssumption DEF Placed
    <3> QED
      BY <2>4, <3>2 DEF Placed
  <2>6. TransferNeed(Placed \union R) = TransferNeed(Placed) + TransferNeed(R)
    BY <2>4, NeedOfUnion
  <2>7. /\ TransferNeed((Placed \union R) \ L) = TransferNeed(Placed \union R) - TransferNeed(L)
        /\ TransferNeed(Placed \union R) >= TransferNeed(L)
    BY <2>4, NeedOfRest
  <2>8. transferInUse' = TransferNeed((Placed \union R) \ L)
    <3>1. transferInUse = TransferNeed(Placed)
      BY DEF TransferInv
    <3>2. /\ TransferNeed(Placed) \in Nat /\ TransferNeed(R) \in Nat /\ TransferNeed(L) \in Nat
      BY <2>4, TransferNeedType
    <3> QED
      BY <2>t, <2>6, <2>7, <3>1, <3>2
  <2> QED
    BY <2>3, <2>5, <2>8 DEF TransferInv, TransferNeed
<1> QED
  BY <1>1, <1>2 DEF Poll

(* engine_removed(): what the engine held is given back.                   *)
LEMMA EngineRemovedBalanced ==
    ASSUME ManagerTypeOK, TransferInv, NEW e \in Engines, EngineRemoved(e)
    PROVE  TransferInv'
<1> DEFINE D == RunningAt(e) \union AssignedAt(e)
<1>1. /\ state' = [j \in Jobs |-> IF j \in RunningAt(e) THEN OutcomeState(j, "ENGINE_TERMINATED")
                                  ELSE IF j \in AssignedAt(e) THEN "PENDING" ELSE state[j]]
      /\ node' = [j \in Jobs |-> IF j \in D THEN NoEngine ELSE node[j]]
      /\ transferInUse' = TransferAfterRelease(D)
  BY DEF EngineRemoved
<1>2. D \in SUBSET Placed /\ Placed' = Placed \ D
  BY <1>1, EnginesAssumption DEF Placed, RunningAt, AssignedAt
<1>3. \A j \in Jobs : node'[j] # NoEngine <=> state'[j] \in {"ASSIGNED", "RUNNING"}
  BY <1>1, OutcomeType DEF TransferInv
<1> HIDE DEF D
<1> QED
  BY <1>1, <1>2, <1>3, ReleaseBalances DEF TransferInv

(* Every step of the system keeps the transfer slots balanced.             *)
LEMMA StepBalanced ==
    ASSUME TypeOK, TransferInv, [Next]_vars
    PROVE  TransferInv'
<1>0. ManagerTypeOK /\ ChiefTypeOK
  BY DEF TypeOK
<1>1. UNCHANGED managerVars => TransferInv'
  BY SamePlaces DEF managerVars, jobVars, TransferInv
<1>2. ASSUME NEW e, Register(e) \/ Fence(e) \/ TogglePhasingOut(e)
      PROVE  TransferInv'
  BY <1>2, SamePlaces DEF Register, Fence, TogglePhasingOut, jobVars, TransferInv
<1>3. ASSUME NEW j \in Jobs, Submit(j) \/ Cancel(j) \/ CancelRestart(j)
      PROVE  TransferInv'
  BY <1>0, <1>3, ClientsBalanced DEF Submit, Cancel, CancelRestart
<1>4. ASSUME NEW e \in Engines,
             TogglePhasing(e) \/ FenceSilent(e) \/ Boot(e) \/ ReregisterLost(e)
      PROVE  TransferInv'
  BY <1>1, <1>2, <1>4 DEF TogglePhasing, FenceSilent, Boot, ReregisterLost
<1>5. ASSUME NEW e \in Engines,
             OperatorStop(e) \/ ConfirmTermination(e) \/ UnregisterAndLeave(e)
      PROVE  TransferInv'
  BY <1>0, <1>1, <1>5, EngineRemovedBalanced
  DEF OperatorStop, ConfirmTermination, UnregisterAndLeave, Unregister
<1>6. ASSUME NEW e \in Engines, RequestNothing(e) \/ RequestSome(e)
      PROVE  TransferInv'
  BY <1>0, <1>1, <1>6, RequestBalanced DEF RequestNothing, RequestSome, Request
<1>7. ASSUME NEW e \in Engines, PollAnswered(e) \/ PollLost(e) \/ PollUnknown(e)
      PROVE  TransferInv'
  BY <1>0, <1>1, <1>7, KnownJobs, PollBalanced DEF PollAnswered, PollLost, PollUnknown
<1>8. ASSUME NEW e \in Engines,
             Local(e) \/ SkipForShortage(e) \/ StartPilot(e) \/ Kill(e) \/ Sigterm(e)
      PROVE  TransferInv'
  BY <1>1, <1>8 DEF Local, SkipForShortage, StartPilot, Kill, Sigterm
<1>9. ASSUME NEW e \in Engines, NEW j \in Jobs,
             \/ Report(e, j) \/ \E check \in GrantChecks : Ack(e, j, check)
             \/ AckUnsent(e, j) \/ KeepUnfitting(e, j) \/ Start(e, j) \/ FailStart(e, j)
             \/ \E rc \in ExitCodes : Exit(e, j, rc)
      PROVE  TransferInv'
  BY <1>0, <1>1, <1>9, JobFinishedBalanced, CanRunBalanced
  DEF Report, Ack, AckUnsent, KeepUnfitting, Start, FailStart, Exit
<1>10. CASE UNCHANGED vars
  BY <1>1, <1>10 DEF vars
<1> QED
  BY <1>3, <1>4, <1>5, <1>6, <1>7, <1>8, <1>9, <1>10 DEF Next

(* State and place of a job agree, and the transfer slots are balanced.    *)
LEMMA TransferInductive == Spec => []TransferInv
<1>1. Init => TransferInv
  <2> SUFFICES ASSUME Init PROVE TransferInv
    OBVIOUS
  <2>1. {} \intersect TransferJobs = {} /\ Cardinality({}) = 0
    BY FS_EmptySet
  <2>2. Placed = {} /\ transferInUse = 0
    BY DEF Init, ManagerInit, Placed
  <2> QED
    BY <2>1, <2>2 DEF Init, ManagerInit, TransferInv, TransferNeed
<1>2. TypeOK /\ TransferInv /\ [Next]_vars => TransferInv'
  BY StepBalanced
<1> QED
  BY TypeCorrect, <1>1, <1>2, PTL DEF Spec

(* The transfer slots in use are those of the granted and running jobs, on *)
(* every path that reserves or releases one and with every fault allowed.  *)
(* The clamp at zero in the release is never needed.                       *)
THEOREM TransferHolds == Spec => []TransferBalanced
<1>1. TransferInv => TransferBalanced
  BY DEF TransferInv, TransferBalanced, Placed
<1> QED
  BY TransferInductive, <1>1, PTL

-----------------------------------------------------------------------------
(* The slots of a pilot in the manager's table.  The two assumptions of    *)
(* the ownership theorems are needed: without them a heartbeat can adopt   *)
(* jobs, and adoption looks at no limit.                                   *)

Working(e) == pc[e] \notin {"boot", "dead"}

(* PilotCapacity is not inductive: request_jobs() limits registered        *)
(* engines only, so a chief that asks must be registered and an engine     *)
(* that is not must hold nothing when it registers.                        *)
CapacityInv ==
    /\ \A e \in Engines : Working(e) => e \in registered
    /\ \A e \in Engines \ registered : Holdings(e) = {}
    /\ \A e \in Engines : Cardinality(Holdings(e)) <= Slots

HoldingsShrink == \A f \in Engines : Holdings(f)' \subseteq Holdings(f)

(* What CapacityInv says of the job table.                                 *)
HoldingsFit ==
    /\ \A e \in Engines \ registered : Holdings(e) = {}
    /\ \A e \in Engines : Cardinality(Holdings(e)) <= Slots

(* Fewer holdings fit, if an engine that is removed is left with none.     *)
LEMMA ShrinkFits ==
    ASSUME CapacityInv, HoldingsShrink,
           \A e \in Engines : e \in registered \ registered' => Holdings(e)' = {}
    PROVE  HoldingsFit'
<1>1. \A e \in Engines \ registered' : Holdings(e)' = {}
  BY DEF CapacityInv, HoldingsShrink
<1>2. ASSUME NEW e \in Engines
      PROVE  Cardinality(Holdings(e)') <= Slots
  <2>1. Holdings(e) \in SUBSET Jobs /\ Holdings(e)' \in SUBSET Holdings(e)
    BY DEF Holdings, HoldingsShrink
  <2>2. Cardinality(Holdings(e)') <= Cardinality(Holdings(e))
    BY <2>1, JobSetsFinite, FS_Subset
  <2>3. Cardinality(Holdings(e)') \in Nat /\ Cardinality(Holdings(e)) \in Nat /\ Slots \in Nat
    BY <2>1, JobSetsFinite, LimitsAssumption
  <2>4. Cardinality(Holdings(e)) <= Slots
    BY DEF CapacityInv
  <2> QED
    BY <2>2, <2>3, <2>4
<1> QED
  BY <1>1, <1>2 DEF HoldingsFit

(* Client requests give an engine nothing more to hold.                    *)
LEMMA ClientsShrink ==
    ASSUME ManagerTypeOK, NEW i \in Jobs,
           \/ \E r \in 0 .. MaxRequeue : SubmitJob(i, r)
           \/ CancelJob(i) \/ CancelForRestart(i)
    PROVE  HoldingsShrink /\ UNCHANGED registered
<1>1. CASE CancelJob(i)
  BY <1>1, EnginesAssumption DEF CancelJob, ManagerTypeOK, HoldingsShrink, Holdings, flagVars
<1>2. CASE \E r \in 0 .. MaxRequeue : SubmitJob(i, r)
  BY <1>2 DEF SubmitJob, ManagerTypeOK, HoldingsShrink, Holdings, flagVars
<1>3. CASE CancelForRestart(i)
  BY <1>3 DEF CancelForRestart, HoldingsShrink, Holdings, flagVars
<1> QED
  BY <1>1, <1>2, <1>3

(* An acknowledgement starts what the engine holds, or gives it back.      *)
LEMMA CanRunShrinks ==
    ASSUME ManagerTypeOK, NEW e \in Engines, NEW i \in Jobs, NEW check,
           CanRunAssignedJob(e, i, check)
    PROVE  HoldingsShrink /\ UNCHANGED registered
  BY EnginesAssumption
  DEF CanRunAssignedJob, CanRun, AssignedAt, ManagerTypeOK, HoldingsShrink, Holdings,
      managerVars, jobVars, flagVars

(* A report takes a job from its engine.                                   *)
LEMMA JobFinishedShrinks ==
    ASSUME NEW i \in Jobs, NEW rc, JobFinished(i, rc)
    PROVE  HoldingsShrink /\ UNCHANGED registered
  BY EnginesAssumption
  DEF JobFinished, JobDone, HoldingsShrink, Holdings, managerVars, jobVars, flagVars

(* A heartbeat that adopts nothing can only take jobs.                     *)
LEMMA PollShrinks ==
    ASSUME NEW e \in Engines, NEW K \in SUBSET Jobs, Adopted(K) = {}, Poll(e, K)
    PROVE  HoldingsShrink /\ UNCHANGED registered
<1>1. CASE UNCHANGED <<jobVars, engineJobs>>
  BY <1>1 DEF Poll, HoldingsShrink, Holdings, jobVars, flagVars
<1>2. CASE ReconcileHeartbeat(e, K)
  <2>1. \A j \in Jobs : (node'[j] = node[j] /\ state'[j] = state[j]) \/ node'[j] = NoEngine
    BY <1>2 DEF ReconcileHeartbeat
  <2> QED
    BY <2>1, EnginesAssumption DEF Poll, HoldingsShrink, Holdings, flagVars
<1> QED
  BY <1>1, <1>2 DEF Poll

(* An engine that is removed holds nothing, and no other gains by it.      *)
LEMMA EngineRemovedShrinks ==
    ASSUME NEW e \in Engines, EngineRemoved(e)
    PROVE  HoldingsShrink /\ registered' = registered \ {e} /\ Holdings(e)' = {}
  BY EnginesAssumption
  DEF EngineRemoved, RunningAt, AssignedAt, HoldingsShrink, Holdings

(* request_jobs() adds what fits beside what the engine holds.             *)
LEMMA RequestFits ==
    ASSUME CapacityInv, NEW e \in registered, e \in Engines, NEW n, NEW G, NEW M,
           RequestJobs(e, n, G, M)
    PROVE  HoldingsFit' /\ UNCHANGED registered
<1>1. /\ G \subseteq Queued /\ M \subseteq AssignedElsewhere(e)
      /\ state' = [j \in Jobs |-> IF j \in G THEN "ASSIGNED" ELSE state[j]]
      /\ node' = [j \in Jobs |-> IF j \in G \union M THEN e ELSE node[j]]
      /\ UNCHANGED registered
      /\ HeadroomFor(e, Holdings(e), Cardinality(G) + Cardinality(M))
  BY DEF RequestJobs, flagVars
<1>2. G \in SUBSET Jobs /\ M \in SUBSET Jobs /\ Holdings(e) \in SUBSET Jobs
  BY <1>1 DEF Queued, AssignedElsewhere, Holdings
<1>3. Holdings(e)' \subseteq Holdings(e) \union (G \union M)
  BY <1>1 DEF Holdings
<1>4. \A f \in Engines \ {e} : Holdings(f)' \subseteq Holdings(f)
  <2>1. \A j \in G \union M : node'[j] = e
    BY <1>1, <1>2
  <2>2. \A j \in Jobs \ (G \union M) : node'[j] = node[j] /\ state'[j] = state[j]
    BY <1>1
  <2> QED
    BY <2>1, <2>2 DEF Holdings
<1>5. Cardinality(Holdings(e)') <= Slots
  <2> DEFINE c == Cardinality(Holdings(e))  g == Cardinality(G)  m == Cardinality(M)
  <2>1. /\ c \in Nat /\ g \in Nat /\ m \in Nat /\ Cardinality(G \intersect M) \in Nat
        /\ Cardinality(Holdings(e) \intersect (G \union M)) \in Nat
    BY <1>2, JobSetsFinite
  <2>2. c <= Slots /\ Slots \in Nat
    BY LimitsAssumption DEF CapacityInv
  <2>3. g + m = 0 \/ g + m + c <= Slots
    BY <1>1 DEF HeadroomFor
  <2>4. Cardinality(G \union M) = g + m - Cardinality(G \intersect M)
    BY <1>2, JobSetsFinite, FS_Union
  <2>5. Cardinality(Holdings(e) \union (G \union M))
          = c + Cardinality(G \union M) - Cardinality(Holdings(e) \intersect (G \union M))
    BY <1>2, JobSetsFinite, FS_Union
  <2> HIDE DEF c, g, m
  <2>6. Cardinality(Holdings(e) \union (G \union M)) <= Slots
    BY <2>1, <2>2, <2>3, <2>4, <2>5
  <2>7. /\ Cardinality(Holdings(e)') <= Cardinality(Holdings(e) \union (G \union M))
        /\ Cardinality(Holdings(e)') \in Nat
        /\ Cardinality(Holdings(e) \union (G \union M)) \in Nat
    BY <1>2, <1>3, JobSetsFinite, FS_Subset
  <2> QED
    BY <2>2, <2>6, <2>7
<1>6. \A f \in Engines \ {e} : Cardinality(Holdings(f)') <= Slots
  <2> TAKE f \in Engines \ {e}
  <2>1. Holdings(f) \in SUBSET Jobs /\ Holdings(f)' \in SUBSET Holdings(f)
    BY <1>4 DEF Holdings
  <2>2. /\ Cardinality(Holdings(f)') <= Cardinality(Holdings(f))
        /\ Cardinality(Holdings(f)') \in Nat /\ Cardinality(Holdings(f)) \in Nat
    BY <2>1, JobSetsFinite, FS_Subset
  <2> QED
    BY <2>2, LimitsAssumption DEF CapacityInv
<1> QED
  BY <1>1, <1>4, <1>5, <1>6 DEF HoldingsFit, CapacityInv

(* A chief that owns all it knows has nothing to be adopted.               *)
LEMMA NothingToAdopt ==
    ASSUME OwnershipInv, NEW e \in Engines
    PROVE  Known(e) \in SUBSET Jobs /\ Adopted(Known(e)) = {}
  BY KnownJobs DEF OwnershipInv, TypeOK, ExecutionIsOwned, Adopted

(* What a step keeps of CapacityInv.                                       *)
StillWorking == \A e \in Engines : Working(e)' => e \in registered'

(* Fewer working chiefs, and no fewer engines.                             *)
LEMMA QuietFits ==
    ASSUME CapacityInv, HoldingsShrink, UNCHANGED registered,
           \A e \in Engines : Working(e)' => Working(e)
    PROVE  HoldingsFit' /\ StillWorking
  BY ShrinkFits DEF CapacityInv, StillWorking

(* Every step of the system keeps CapacityInv.                             *)
LEMMA StepFits ==
    ASSUME OwnershipInv, CapacityInv, [Next]_vars
    PROVE  HoldingsFit' /\ StillWorking
<1>0. ManagerTypeOK /\ ChiefTypeOK
  BY DEF OwnershipInv, TypeOK
<1>1. UNCHANGED managerVars => HoldingsShrink /\ UNCHANGED registered
  BY DEF managerVars, jobVars, flagVars, HoldingsShrink, Holdings
<1>2. UNCHANGED chiefVars => \A e \in Engines : Working(e)' => Working(e)
  BY DEF chiefVars, Working
<1>3. ASSUME NEW j \in Jobs, Submit(j) \/ Cancel(j) \/ CancelRestart(j)
      PROVE  HoldingsFit' /\ StillWorking
  BY <1>0, <1>2, <1>3, ClientsShrink, QuietFits DEF Submit, Cancel, CancelRestart
<1>4. ASSUME NEW e \in Engines, TogglePhasing(e) \/ FenceSilent(e)
      PROVE  HoldingsFit' /\ StillWorking
  <2>1. HoldingsShrink /\ UNCHANGED registered
    BY <1>4 DEF TogglePhasing, FenceSilent, TogglePhasingOut, Fence, jobVars,
                HoldingsShrink, Holdings
  <2> QED
    BY <1>2, <1>4, <2>1, QuietFits DEF TogglePhasing, FenceSilent
<1>5. ASSUME NEW e \in Engines, Boot(e)
      PROVE  HoldingsFit' /\ StillWorking
  <2>1. HoldingsShrink /\ registered' = registered \union {e}
    BY <1>5 DEF Boot, Register, jobVars, HoldingsShrink, Holdings
  <2>2. \A f \in Engines \ {e} : Working(f)' => Working(f)
    BY <1>0, <1>5 DEF Boot, Registered, GoTo, chiefVars, Working, ChiefTypeOK
  <2>3. HoldingsFit'
    BY <2>1, ShrinkFits
  <2> QED
    BY <2>1, <2>2, <2>3 DEF StillWorking, CapacityInv
<1>6. ASSUME NEW e \in Engines, RequestSome(e)
      PROVE  HoldingsFit' /\ StillWorking
  <2>1. PICK G \in SUBSET Queued, M \in SUBSET AssignedElsewhere(e) : Request(e, G, M)
    BY <1>6 DEF RequestSome
  <2>2. e \in registered
    BY <2>1 DEF Request, Requests, CapacityInv, Working
  <2>3. HoldingsFit' /\ UNCHANGED registered
    BY <2>1, <2>2, RequestFits DEF Request
  <2>4. \A f \in Engines : Working(f)' => Working(f)
    BY <1>0, <2>1 DEF Request, Requests, TakeBatch, GoTo, Working, ChiefTypeOK
  <2> QED
    BY <2>3, <2>4 DEF StillWorking, CapacityInv
<1>7. ASSUME NEW e \in Engines, PollAnswered(e) \/ PollLost(e) \/ PollUnknown(e)
      PROVE  HoldingsFit' /\ StillWorking
  <2>1. HoldingsShrink /\ UNCHANGED registered
    BY <1>1, <1>7, NothingToAdopt, PollShrinks DEF PollAnswered, PollLost, PollUnknown
  <2>2. \A f \in Engines : Working(f)' => Working(f)
    BY <1>0, <1>7 DEF PollAnswered, PollLost, PollUnknown, ObeyCommands, PollUnanswered,
                      ObeyReregister, GoTo, Working, ChiefTypeOK
  <2> QED
    BY <2>1, <2>2, QuietFits
<1>8. ASSUME NEW e \in Engines,
             \/ ReregisterLost(e) \/ RequestNothing(e) \/ Local(e) \/ SkipForShortage(e)
             \/ StartPilot(e) \/ Kill(e) \/ Sigterm(e)
      PROVE  HoldingsFit' /\ StillWorking
  <2>1. HoldingsShrink /\ UNCHANGED registered
    BY <1>1, <1>8
    DEF ReregisterLost, RequestNothing, Local, SkipForShortage, StartPilot, Kill, Sigterm
  <2>2. \A f \in Engines : Working(f)' => Working(f)
    <3>1. CASE ReregisterLost(e) \/ RequestNothing(e) \/ SkipForShortage(e) \/ StartPilot(e)
      BY <1>0, <3>1
      DEF ReregisterLost, Registered, RequestNothing, Requests, TakeBatch, SkipForShortage,
          SkipGrants, StartPilot, NewPilot, GoTo, Working, ChiefTypeOK
    <3>2. CASE Local(e)
      BY <1>0, <3>2
      DEF Local, NothingToReport, SkipGrants, RetryKeptGrants, TakeBatch, SkipKnownGrant,
          Handled, FinishStarts, GoTo, Working, ChiefTypeOK
    <3>3. CASE Kill(e) \/ Sigterm(e)
      BY <1>0, <3>3
      DEF Kill, Sigterm, Die, Terminate, Alive, LoseState, GoTo, Working, ChiefTypeOK
    <3> QED
      BY <1>8, <3>1, <3>2, <3>3
  <2> QED
    BY <2>1, <2>2, QuietFits
<1>9. ASSUME NEW e \in Engines,
             OperatorStop(e) \/ ConfirmTermination(e) \/ UnregisterAndLeave(e)
      PROVE  HoldingsFit' /\ StillWorking
  <2>1. ~OperatorStop(e)
    BY DEF OperatorStop, Spend, OwnershipInv
  <2>2. \/ UNCHANGED managerVars
        \/ EngineRemoved(e)
    BY <1>9, <2>1 DEF ConfirmTermination, UnregisterAndLeave, Unregister
  <2>3. /\ HoldingsShrink /\ registered \ {e} \subseteq registered'
        /\ \A f \in Engines : f \in registered \ registered' => Holdings(f)' = {}
    BY <1>1, <2>2, EngineRemovedShrinks
  <2>4. ~Working(e)' /\ \A f \in Engines : Working(f)' => Working(f)
    BY <1>0, <1>9, <2>1
    DEF ConfirmTermination, UnregisterAndLeave, Leave, LoseState, GoTo, chiefVars, Working,
        ChiefTypeOK
  <2> QED
    BY <2>3, <2>4, ShrinkFits DEF StillWorking, CapacityInv
<1>10. ASSUME NEW e \in Engines, NEW j \in Jobs,
              \/ Report(e, j) \/ \E check \in GrantChecks : Ack(e, j, check)
              \/ AckUnsent(e, j) \/ KeepUnfitting(e, j)
       PROVE  HoldingsFit' /\ StillWorking
  <2>1. HoldingsShrink /\ UNCHANGED registered
    BY <1>0, <1>1, <1>10, JobFinishedShrinks, CanRunShrinks
    DEF Report, Ack, AckUnsent, KeepUnfitting
  <2>2. \A f \in Engines : Working(f)' => Working(f)
    BY <1>0, <1>2, <1>10
    DEF Report, ReportDelivered, Ack, AckUnsent, Acknowledges, KeepUnfitting, ClaimGrant,
        DropGrant, KeepGrant, Handled, GoTo, Working, ChiefTypeOK
  <2> QED
    BY <2>1, <2>2, QuietFits
<1>11. ASSUME NEW e \in Engines, NEW j \in Jobs,
              Start(e, j) \/ FailStart(e, j) \/ \E rc \in ExitCodes : Exit(e, j, rc)
       PROVE  HoldingsFit' /\ StillWorking
  <2>1. UNCHANGED pc
    BY <1>11 DEF Start, StartChild, FailStart, StartFails, Exit, ChildExits
  <2> QED
    BY <1>1, <1>11, <2>1, QuietFits DEF Start, FailStart, Exit, Working
<1>12. CASE UNCHANGED vars
  BY <1>1, <1>2, <1>12, QuietFits DEF vars
<1> QED
  BY <1>3, <1>4, <1>5, <1>6, <1>7, <1>8, <1>9, <1>10, <1>11, <1>12 DEF Next

(* The manager never places more on a pilot than it has slots, whatever    *)
(* the free counters that the chiefs advertise, with replayed and moved    *)
(* grants, lost answers and killed pilots.                                 *)
THEOREM CapacityHolds ==
    ASSUME MaxStops = 0, MaxReportLosses = 0
    PROVE  Spec => []PilotCapacity
<1>1. Init => CapacityInv
  <2> SUFFICES ASSUME Init PROVE CapacityInv
    OBVIOUS
  <2>1. \A e \in Engines : Holdings(e) = {} /\ ~Working(e)
    BY DEF Init, ManagerInit, ChiefInit, Holdings, Working
  <2> QED
    BY <2>1, FS_EmptySet, LimitsAssumption DEF CapacityInv
<1>2. OwnershipInv /\ CapacityInv /\ [Next]_vars => CapacityInv'
  BY StepFits DEF HoldingsFit, StillWorking, CapacityInv
<1>3. OwnershipInv /\ CapacityInv => PilotCapacity
  BY DEF CapacityInv, PilotCapacity, OwnershipInv, TypeOK, ManagerTypeOK
<1> QED
  BY OwnershipInductive, <1>1, <1>2, <1>3, PTL DEF Spec
-----------------------------------------------------------------------------
(* The limit of the transfer slots.                                        *)

InUseFalls == transferInUse' \in 0 .. transferInUse

(* A release never raises the transfer slots in use.                       *)
LEMMA ReleaseFalls ==
    ASSUME ManagerTypeOK, NEW D \in SUBSET Jobs, transferInUse' = TransferAfterRelease(D)
    PROVE  InUseFalls
  BY TransferNeedType DEF TransferAfterRelease, ManagerTypeOK, InUseFalls

(* Of a client's requests only a cancel changes the transfer slots.        *)
LEMMA ClientsFall ==
    ASSUME ManagerTypeOK, NEW i \in Jobs,
           \/ \E r \in 0 .. MaxRequeue : SubmitJob(i, r)
           \/ CancelJob(i) \/ CancelForRestart(i)
    PROVE  InUseFalls
<1>1. CASE UNCHANGED transferInUse
  BY <1>1 DEF InUseFalls, ManagerTypeOK
<1>2. CASE transferInUse' = TransferAfterRelease(IF node[i] = NoEngine THEN {} ELSE {i})
  BY <1>2, ReleaseFalls
<1> QED
  BY <1>1, <1>2 DEF SubmitJob, CancelJob, CancelForRestart

(* An acknowledgement and a report reserve nothing.                        *)
LEMMA HandlersFall ==
    ASSUME ManagerTypeOK, NEW e \in Engines, NEW i \in Jobs, NEW x,
           CanRunAssignedJob(e, i, x) \/ JobFinished(i, x)
    PROVE  InUseFalls
<1>1. CASE UNCHANGED transferInUse
  BY <1>1 DEF InUseFalls, ManagerTypeOK
<1>2. CASE transferInUse' = TransferAfterRelease({i})
  BY <1>2, ReleaseFalls
<1>3. CASE transferInUse' = TransferAfterRelease({j \in {i} : node[j] # NoEngine})
  BY <1>3, ReleaseFalls
<1> QED
  BY <1>1, <1>2, <1>3
  DEF CanRunAssignedJob, JobStart, JobFinished, JobDone, managerVars, jobVars

(* Nor does a removal.                                                     *)
LEMMA RemovalFalls ==
    ASSUME ManagerTypeOK, NEW e \in Engines, EngineRemoved(e)
    PROVE  InUseFalls
<1>1. transferInUse' = TransferAfterRelease(RunningAt(e) \union AssignedAt(e))
  BY DEF EngineRemoved
<1> QED
  BY <1>1, ReleaseFalls DEF RunningAt, AssignedAt

(* A heartbeat that adopts nothing reserves nothing.                       *)
LEMMA PollFalls ==
    ASSUME ManagerTypeOK, NEW e \in Engines, NEW K \in SUBSET Jobs, Adopted(K) = {},
           Poll(e, K)
    PROVE  InUseFalls
<1>1. CASE UNCHANGED <<jobVars, engineJobs>>
  BY <1>1 DEF jobVars, InUseFalls, ManagerTypeOK
<1>2. CASE ReconcileHeartbeat(e, K)
  <2> DEFINE L == TransferNeed(LostGrants(e, K))  R == TransferNeed(ReservedAgain(Adopted(K)))
  <2>1. L \in Nat
    BY TransferNeedType DEF LostGrants, Missed, RunningAt
  <2>2. R = 0
    <3>1. ReservedAgain(Adopted(K)) \intersect TransferJobs = {}
      BY DEF ReservedAgain
    <3> QED
      BY <3>1, FS_EmptySet DEF TransferNeed
  <2>3. transferInUse' = IF transferInUse + R >= L THEN transferInUse + R - L ELSE 0
    <3>1. R \in Nat /\ transferInUse \in Nat
      BY <2>2 DEF ManagerTypeOK
    <3> QED
      BY <1>2, <2>1, <3>1 DEF ReconcileHeartbeat
  <2> HIDE DEF L, R
  <2> QED
    BY <2>1, <2>2, <2>3 DEF InUseFalls, ManagerTypeOK
<1> QED
  BY <1>1, <1>2 DEF Poll

(* request_jobs() keeps the limit; every other step reserves nothing.      *)
LEMMA StepWithinLimit ==
    ASSUME OwnershipInv, TransferWithinLimit, [Next]_vars
    PROVE  TransferWithinLimit'
<1>0. ManagerTypeOK /\ ChiefTypeOK
  BY DEF OwnershipInv, TypeOK
<1>1. InUseFalls => TransferWithinLimit'
  BY <1>0, LimitsAssumption DEF InUseFalls, TransferWithinLimit, ManagerTypeOK
<1>2. UNCHANGED transferInUse => TransferWithinLimit'
  BY DEF TransferWithinLimit
<1>3. UNCHANGED managerVars => TransferWithinLimit'
  BY <1>2 DEF managerVars, jobVars
<1>4. ASSUME NEW j \in Jobs, Submit(j) \/ Cancel(j) \/ CancelRestart(j)
      PROVE  TransferWithinLimit'
  BY <1>0, <1>1, <1>4, ClientsFall DEF Submit, Cancel, CancelRestart
<1>5. ASSUME NEW e \in Engines,
             TogglePhasing(e) \/ FenceSilent(e) \/ Boot(e) \/ ReregisterLost(e)
      PROVE  TransferWithinLimit'
  BY <1>2, <1>3, <1>5
  DEF TogglePhasing, FenceSilent, Boot, ReregisterLost, TogglePhasingOut, Fence, Register, jobVars
<1>6. ASSUME NEW e \in Engines,
             OperatorStop(e) \/ ConfirmTermination(e) \/ UnregisterAndLeave(e)
      PROVE  TransferWithinLimit'
  BY <1>0, <1>1, <1>3, <1>6, RemovalFalls
  DEF OperatorStop, ConfirmTermination, UnregisterAndLeave, Unregister
<1>7. ASSUME NEW e \in Engines, RequestNothing(e) \/ RequestSome(e)
      PROVE  TransferWithinLimit'
  <2>1. ASSUME NEW n, NEW G, NEW M, RequestJobs(e, n, G, M)
        PROVE  TransferWithinLimit'
    <3>1. TransferNeed(G) \in Nat
      BY <2>1, TransferNeedType DEF RequestJobs, Queued
    <3> QED
      BY <1>0, <2>1, <3>1
      DEF RequestJobs, TransferFits, TransferWithinLimit, ManagerTypeOK
  <2> QED
    BY <1>3, <1>7, <2>1 DEF RequestNothing, RequestSome, Request
<1>8. ASSUME NEW e \in Engines, PollAnswered(e) \/ PollLost(e) \/ PollUnknown(e)
      PROVE  TransferWithinLimit'
  BY <1>0, <1>1, <1>3, <1>8, NothingToAdopt, PollFalls DEF PollAnswered, PollLost, PollUnknown
<1>9. ASSUME NEW e \in Engines,
             Local(e) \/ SkipForShortage(e) \/ StartPilot(e) \/ Kill(e) \/ Sigterm(e)
      PROVE  TransferWithinLimit'
  BY <1>3, <1>9 DEF Local, SkipForShortage, StartPilot, Kill, Sigterm
<1>10. ASSUME NEW e \in Engines, NEW j \in Jobs,
              Report(e, j) \/ \E check \in GrantChecks : Ack(e, j, check)
       PROVE  TransferWithinLimit'
  BY <1>0, <1>1, <1>3, <1>10, HandlersFall DEF Report, Ack
<1>11. ASSUME NEW e \in Engines, NEW j \in Jobs,
              \/ AckUnsent(e, j) \/ KeepUnfitting(e, j) \/ Start(e, j) \/ FailStart(e, j)
              \/ \E rc \in ExitCodes : Exit(e, j, rc)
       PROVE  TransferWithinLimit'
  BY <1>3, <1>11 DEF AckUnsent, KeepUnfitting, Start, FailStart, Exit
<1>12. CASE UNCHANGED vars
  BY <1>3, <1>12 DEF vars
<1> QED
  BY <1>4, <1>5, <1>6, <1>7, <1>8, <1>9, <1>10, <1>11, <1>12 DEF Next

(* Jobs granted and running never use more transfer slots than configured, *)
(* with replayed and moved grants, lost answers and killed pilots: a chief *)
(* that owns all it knows has no job adopted past the limit.               *)
THEOREM LimitHolds ==
    ASSUME MaxStops = 0, MaxReportLosses = 0
    PROVE  Spec => []TransferWithinLimit
<1>1. Init => TransferWithinLimit
  BY LimitsAssumption DEF Init, ManagerInit, TransferWithinLimit
<1>2. OwnershipInv /\ TransferWithinLimit /\ [Next]_vars => TransferWithinLimit'
  BY StepWithinLimit
<1> QED
  BY OwnershipInductive, <1>1, <1>2, PTL DEF Spec

-----------------------------------------------------------------------------
(* PilotScheduling implements JobLease, for any number of jobs, engines,   *)
(* slots and retries.  The ownership invariant before and after a step     *)
(* says who may execute a job; what is left to show is what the manager    *)
(* does with a job, and that it does so only when the job has no process.  *)

Execs(j) == {e \in Engines : j \in running[e]}

(* What a step of the manager may do with a job: nothing a lease sees,     *)
(* grant it to an engine, or let it go.                                    *)
SameHolder(j) == PhaseOf(state'[j]) = PhaseOf(state[j]) /\ node'[j] = node[j]

GrantedTo(j) ==
    /\ state[j] \in QueueStates \union {"ASSIGNED"}
    /\ state'[j] = "ASSIGNED" /\ node'[j] \in Engines

LetGo(j) ==
    /\ node'[j] = NoEngine
    /\ \/ state[j] = "ABSENT" /\ state'[j] = "PENDING"
       \/ state[j] \in {"ASSIGNED", "RUNNING"} /\ state'[j] \in QueueStates
       \/ state[j] \in LiveStates /\ state'[j] \in TerminalStates

ManagerMove(j) == SameHolder(j) \/ GrantedTo(j) \/ LetGo(j)

-----------------------------------------------------------------------------
(* The manager's half.                                                     *)

(* A job the manager does not touch.                                       *)
LEMMA UntouchedMove ==
    ASSUME NEW j, state'[j] = state[j], node'[j] = node[j]
    PROVE  ManagerMove(j)
  BY DEF ManagerMove, SameHolder

(* Client requests move jobs as a lease allows.                            *)
LEMMA ClientMoves ==
    ASSUME ManagerTypeOK, TransferInv, NEW i \in Jobs, NEW j \in Jobs,
           \/ \E r \in 0 .. MaxRequeue : SubmitJob(i, r)
           \/ CancelJob(i) \/ CancelForRestart(i)
    PROVE  ManagerMove(j)
<1>1. CASE j # i \/ CancelForRestart(i) \/ (CancelJob(i) /\ state[i] = "RUNNING")
  BY <1>1, UntouchedMove DEF SubmitJob, CancelJob, CancelForRestart, ManagerTypeOK
<1>2. CASE j = i /\ CancelJob(i) /\ state[i] # "RUNNING"
  BY <1>2 DEF CancelJob, ManagerTypeOK, ManagerMove, LetGo, TerminalStates
<1>3. CASE j = i /\ \E r \in 0 .. MaxRequeue : SubmitJob(i, r)
  BY <1>3 DEF SubmitJob, ManagerTypeOK, TransferInv, ManagerMove, LetGo
<1> QED
  BY <1>1, <1>2, <1>3

(* A request grants jobs that no engine runs.                              *)
LEMMA RequestMoves ==
    ASSUME ManagerTypeOK, NEW e \in Engines, NEW n, NEW G, NEW M, RequestJobs(e, n, G, M),
           NEW j \in Jobs
    PROVE  ManagerMove(j)
<1>1. /\ G \subseteq Queued /\ M \subseteq AssignedElsewhere(e)
      /\ state' = [i \in Jobs |-> IF i \in G THEN "ASSIGNED" ELSE state[i]]
      /\ node' = [i \in Jobs |-> IF i \in G \union M THEN e ELSE node[i]]
  BY DEF RequestJobs
<1>2. CASE j \in G
  BY <1>1, <1>2 DEF Queued, ManagerMove, GrantedTo
<1>3. CASE j \in M \ G
  BY <1>1, <1>3 DEF AssignedElsewhere, ManagerMove, GrantedTo
<1>4. CASE j \notin G \union M
  BY <1>1, <1>4, UntouchedMove
<1> QED
  BY <1>2, <1>3, <1>4

(* An acknowledgement starts a job where it is, or gives it back.          *)
LEMMA CanRunMoves ==
    ASSUME ManagerTypeOK, NEW e \in Engines, NEW i \in Jobs, NEW check,
           CanRunAssignedJob(e, i, check), NEW j \in Jobs
    PROVE  ManagerMove(j)
<1>1. CASE UNCHANGED managerVars
  BY <1>1, UntouchedMove DEF managerVars, jobVars
<1>2. CASE /\ state[i] = "ASSIGNED" /\ state' = [state EXCEPT ![i] = "RUNNING"]
           /\ UNCHANGED node
  BY <1>2, UntouchedMove
  DEF ManagerTypeOK, ManagerMove, SameHolder, PhaseOf, QueueStates, TerminalStates
<1>3. CASE /\ i \in AssignedAt(e) /\ state' = [state EXCEPT ![i] = "PENDING"]
           /\ node' = [node EXCEPT ![i] = NoEngine]
  BY <1>3, UntouchedMove DEF AssignedAt, ManagerTypeOK, ManagerMove, LetGo, QueueStates
<1> QED
  BY <1>1, <1>2, <1>3 DEF CanRunAssignedJob

(* A report of a RUNNING job lets it go.                                   *)
LEMMA JobFinishedMoves ==
    ASSUME ManagerTypeOK, NEW i \in Jobs, NEW rc, state[i] = "RUNNING", JobFinished(i, rc),
           NEW j \in Jobs
    PROVE  ManagerMove(j)
<1>1. /\ state'[j] = IF j = i THEN OutcomeState(i, rc) ELSE state[j]
      /\ node'[j] = IF j = i THEN NoEngine ELSE node[j]
  BY DEF JobFinished, JobDone, LiveStates
<1> QED
  BY <1>1, OutcomeType, UntouchedMove
  DEF ManagerMove, LetGo, QueueStates, TerminalStates, LiveStates

(* A heartbeat that adopts nothing lets lost grants go.                    *)
LEMMA PollMoves ==
    ASSUME ManagerTypeOK, NEW e \in Engines, NEW K \in SUBSET Jobs, Adopted(K) = {},
           Poll(e, K), NEW j \in Jobs
    PROVE  ManagerMove(j)
<1>1. CASE UNCHANGED <<jobVars, engineJobs>>
  BY <1>1, UntouchedMove DEF jobVars
<1>2. CASE ReconcileHeartbeat(e, K)
  <2>1. /\ state'[j] = IF j \in LostGrants(e, K) THEN OutcomeState(j, "ENGINE_TERMINATED")
                       ELSE state[j]
        /\ node'[j] = IF j \in LostGrants(e, K) THEN NoEngine ELSE node[j]
    BY <1>2 DEF ReconcileHeartbeat
  <2>2. j \in LostGrants(e, K) => state[j] = "RUNNING"
    BY DEF LostGrants, Missed, RunningAt
  <2> QED
    BY <2>1, <2>2, OutcomeType, UntouchedMove DEF ManagerMove, LetGo, QueueStates
<1> QED
  BY <1>1, <1>2 DEF Poll

(* An engine that is removed lets go of what it held.                      *)
LEMMA EngineRemovedMoves ==
    ASSUME ManagerTypeOK, NEW e \in Engines, EngineRemoved(e), NEW j \in Jobs
    PROVE  ManagerMove(j)
<1>1. /\ state'[j] = IF j \in RunningAt(e) THEN OutcomeState(j, "ENGINE_TERMINATED")
                     ELSE IF j \in AssignedAt(e) THEN "PENDING" ELSE state[j]
      /\ node'[j] = IF j \in RunningAt(e) \union AssignedAt(e) THEN NoEngine ELSE node[j]
  BY DEF EngineRemoved
<1>2. /\ j \in RunningAt(e) => state[j] = "RUNNING"
      /\ j \in AssignedAt(e) => state[j] = "ASSIGNED"
  BY DEF RunningAt, AssignedAt
<1> QED
  BY <1>1, <1>2, OutcomeType, UntouchedMove DEF ManagerMove, LetGo, QueueStates

(* Every step of the system moves every job as a lease allows.             *)
LEMMA StepMoves ==
    ASSUME OwnershipInv, TransferInv, [Next]_vars, NEW j \in Jobs
    PROVE  ManagerMove(j)
<1>0. ManagerTypeOK /\ ChiefTypeOK
  BY DEF OwnershipInv, TypeOK
<1>1. UNCHANGED managerVars => ManagerMove(j)
  BY UntouchedMove DEF managerVars, jobVars
<1>2. ASSUME NEW i \in Jobs, Submit(i) \/ Cancel(i) \/ CancelRestart(i)
      PROVE  ManagerMove(j)
  BY <1>0, <1>2, ClientMoves DEF Submit, Cancel, CancelRestart
<1>3. ASSUME NEW e \in Engines,
             TogglePhasing(e) \/ FenceSilent(e) \/ Boot(e) \/ ReregisterLost(e)
      PROVE  ManagerMove(j)
  BY <1>1, <1>3, UntouchedMove
  DEF TogglePhasing, FenceSilent, Boot, ReregisterLost, TogglePhasingOut, Fence, Register, jobVars
<1>4. ASSUME NEW e \in Engines,
             OperatorStop(e) \/ ConfirmTermination(e) \/ UnregisterAndLeave(e)
      PROVE  ManagerMove(j)
  BY <1>0, <1>1, <1>4, EngineRemovedMoves
  DEF OperatorStop, ConfirmTermination, UnregisterAndLeave, Unregister
<1>5. ASSUME NEW e \in Engines, RequestNothing(e) \/ RequestSome(e)
      PROVE  ManagerMove(j)
  BY <1>0, <1>1, <1>5, RequestMoves DEF RequestNothing, RequestSome, Request
<1>6. ASSUME NEW e \in Engines, PollAnswered(e) \/ PollLost(e) \/ PollUnknown(e)
      PROVE  ManagerMove(j)
  BY <1>0, <1>1, <1>6, NothingToAdopt, PollMoves DEF PollAnswered, PollLost, PollUnknown
<1>7. ASSUME NEW e \in Engines,
             Local(e) \/ SkipForShortage(e) \/ StartPilot(e) \/ Kill(e) \/ Sigterm(e)
      PROVE  ManagerMove(j)
  BY <1>1, <1>7 DEF Local, SkipForShortage, StartPilot, Kill, Sigterm
<1>8. ASSUME NEW e \in Engines, NEW i \in Jobs, Report(e, i)
      PROVE  ManagerMove(j)
  <2>1. state[i] = "RUNNING"
    BY <1>8 DEF Report, OwnershipInv, ExecutionIsOwned, Known
  <2> QED
    BY <1>0, <1>8, <2>1, JobFinishedMoves DEF Report
<1>9. ASSUME NEW e \in Engines, NEW i \in Jobs,
             \/ \E check \in GrantChecks : Ack(e, i, check)
             \/ AckUnsent(e, i) \/ KeepUnfitting(e, i) \/ Start(e, i) \/ FailStart(e, i)
             \/ \E rc \in ExitCodes : Exit(e, i, rc)
      PROVE  ManagerMove(j)
  BY <1>0, <1>1, <1>9, CanRunMoves DEF Ack, AckUnsent, KeepUnfitting, Start, FailStart, Exit
<1>10. CASE UNCHANGED vars
  BY <1>1, <1>10 DEF vars
<1> QED
  BY <1>2, <1>3, <1>4, <1>5, <1>6, <1>7, <1>8, <1>9, <1>10 DEF Next
-----------------------------------------------------------------------------
(* The chiefs' half.                                                       *)

(* A child stays known until its end is reported; a chief that forgets one *)
(* earlier has lost its process.                                           *)
ChildrenKnown ==
    \A e \in Engines : \A j \in running[e] :
        j \in Known(e)' \/ (state'[j] = state[j] /\ node'[j] = node[j])

(* No step forgets a child while the manager changes its job.              *)
LEMMA StepKnowsChildren ==
    ASSUME OwnershipInv, [Next]_vars
    PROVE  ChildrenKnown
<1>0. ChiefTypeOK /\ GoneIsEmpty
  BY DEF OwnershipInv, TypeOK, ChiefInv
<1>1. (\A e \in Engines : running[e] \subseteq running'[e]) => ChildrenKnown
  BY DEF ChildrenKnown, Known
<1>2. UNCHANGED managerVars => ChildrenKnown
  BY DEF ChildrenKnown, managerVars, jobVars
<1>3. ASSUME NEW j \in Jobs, Submit(j) \/ Cancel(j) \/ CancelRestart(j)
      PROVE  ChildrenKnown
  BY <1>1, <1>3 DEF Submit, Cancel, CancelRestart, chiefVars
<1>4. ASSUME NEW e \in Engines,
             \/ TogglePhasing(e) \/ OperatorStop(e) \/ FenceSilent(e) \/ ConfirmTermination(e)
             \/ Boot(e) \/ ReregisterLost(e) \/ RequestNothing(e) \/ RequestSome(e)
             \/ PollAnswered(e) \/ PollLost(e) \/ PollUnknown(e)
      PROVE  ChildrenKnown
  BY <1>1, <1>4
  DEF TogglePhasing, OperatorStop, FenceSilent, ConfirmTermination, Boot, ReregisterLost,
      RequestNothing, RequestSome, Request, PollAnswered, PollLost, PollUnknown, Registered,
      TakeBatch, ObeyCommands, PollUnanswered, ObeyReregister, chiefVars
<1>5. ASSUME NEW e \in Engines,
             Local(e) \/ SkipForShortage(e) \/ StartPilot(e) \/ Kill(e) \/ Sigterm(e)
      PROVE  ChildrenKnown
  BY <1>2, <1>5 DEF Local, SkipForShortage, StartPilot, Kill, Sigterm
<1>6. ASSUME NEW e \in Engines, UnregisterAndLeave(e)
      PROVE  ChildrenKnown
  <2>1. running[e] = {} /\ \A f \in Engines \ {e} : running'[f] = running[f]
    BY <1>0, <1>6
    DEF UnregisterAndLeave, Leave, LoseState, GoneIsEmpty, Alive, Known, ChiefTypeOK
  <2> QED
    BY <1>1, <2>1
<1>7. ASSUME NEW e \in Engines, NEW j \in Jobs,
             Report(e, j) \/ \E check \in GrantChecks : Ack(e, j, check)
      PROVE  ChildrenKnown
  BY <1>1, <1>7
  DEF Report, ReportDelivered, Ack, ClaimGrant, DropGrant, KeepGrant, chiefVars
<1>8. ASSUME NEW e \in Engines, NEW j \in Jobs,
             \/ AckUnsent(e, j) \/ KeepUnfitting(e, j) \/ Start(e, j) \/ FailStart(e, j)
             \/ \E rc \in ExitCodes : Exit(e, j, rc)
      PROVE  ChildrenKnown
  BY <1>2, <1>8 DEF AckUnsent, KeepUnfitting, Start, FailStart, Exit
<1>9. CASE UNCHANGED vars
  BY <1>2, <1>9 DEF vars
<1> QED
  BY <1>3, <1>4, <1>5, <1>6, <1>7, <1>8, <1>9 DEF Next

-----------------------------------------------------------------------------
(* Both halves.                                                            *)

(* Only the holder of a RUNNING job executes it.                           *)
LEMMA ExecutedByHolder ==
    ASSUME ExecutionIsOwned, NEW j
    PROVE  /\ Execs(j) = {} \/ (state[j] = "RUNNING" /\ node[j] \in Engines)
           /\ Execs(j) \in {{}, {node[j]}}
  BY DEF ExecutionIsOwned, Known, Execs

(* The three kinds of moves are steps of JobLease.                         *)
LEMMA LeaseStep ==
    ASSUME OwnershipInv, OwnershipInv', ChildrenKnown, NEW j \in Jobs, ManagerMove(j)
    PROVE  \/ Lease!Submit(j) \/ Lease!Place(j) \/ Lease!Begin(j) \/ Lease!End(j)
           \/ Lease!Vacate(j) \/ Lease!Finish(j) \/ Lease!Stays(j)
<1>1. /\ Execs(j) = {} \/ (state[j] = "RUNNING" /\ node[j] \in Engines)
      /\ Execs(j) \in {{}, {node[j]}}
  BY ExecutedByHolder DEF OwnershipInv
<1>2. /\ Execs(j)' = {} \/ (state'[j] = "RUNNING" /\ node'[j] \in Engines)
      /\ Execs(j)' \in {{}, {node'[j]}}
  BY ExecutionIsOwned' DEF ExecutionIsOwned, Known, Execs, OwnershipInv
<1>3. state[j] \in JobStates /\ state'[j] \in JobStates
  BY DEF OwnershipInv, TypeOK, ManagerTypeOK
<1>4. ~SameHolder(j) => Execs(j) = {}
  <2>1. ASSUME NEW e \in Execs(j)
        PROVE  SameHolder(j)
    <3>1. state[j] = "RUNNING" /\ node[j] = e
      BY <2>1 DEF Execs, OwnershipInv, ExecutionIsOwned, Known
    <3>2. CASE j \in Known(e)'
      BY <3>1, <3>2, <2>1 DEF SameHolder, Execs, OwnershipInv, ExecutionIsOwned
    <3>3. CASE state'[j] = state[j] /\ node'[j] = node[j]
      BY <3>3 DEF SameHolder
    <3> QED
      BY <2>1, <3>2, <3>3 DEF ChildrenKnown, Execs
  <2> QED
    BY <2>1
<1>5. CASE SameHolder(j)
  <2>1. CASE Execs(j)' = Execs(j)
    BY <1>5, <2>1 DEF SameHolder, Lease!Stays, Lease!Becomes, Execs
  <2>2. CASE Execs(j)' # Execs(j)
    <3>1. PhaseOf(state[j]) = "held" /\ PhaseOf(state'[j]) = "held"
      BY <1>1, <1>2, <1>5, <2>2
      DEF SameHolder, PhaseOf, QueueStates, TerminalStates
    <3>2. \/ Execs(j) = {} /\ Execs(j)' = {node[j]}
          \/ Execs(j) # {} /\ Execs(j)' = {}
      BY <1>1, <1>2, <1>5, <2>2 DEF SameHolder
    <3> QED
      BY <1>5, <3>1, <3>2
      DEF SameHolder, Execs, Lease!Begin, Lease!End, Lease!Idle, Lease!Becomes
  <2> QED
    BY <2>1, <2>2
<1>6. CASE GrantedTo(j) /\ ~SameHolder(j)
  <2>1. Execs(j) = {} /\ Execs(j)' = {}
    BY <1>2, <1>4, <1>6 DEF GrantedTo
  <2>2. PhaseOf(state[j]) \in {"queued", "held"} /\ PhaseOf(state'[j]) = "held"
    BY <1>6 DEF GrantedTo, PhaseOf, QueueStates, TerminalStates
  <2> QED
    BY <1>6, <2>1, <2>2 DEF GrantedTo, Execs, Lease!Place, Lease!Idle, Lease!Becomes
<1>7. CASE LetGo(j) /\ ~SameHolder(j)
  <2>1. Execs(j) = {} /\ Execs(j)' = {}
    BY <1>2, <1>4, <1>7, EnginesAssumption DEF LetGo
  <2>2. \/ PhaseOf(state[j]) = "absent" /\ PhaseOf(state'[j]) = "queued"
        \/ PhaseOf(state[j]) = "held" /\ PhaseOf(state'[j]) = "queued"
        \/ PhaseOf(state[j]) \in {"queued", "held"} /\ PhaseOf(state'[j]) = "done"
    BY <1>7 DEF LetGo, PhaseOf, QueueStates, TerminalStates, LiveStates
  <2> QED
    BY <1>7, <2>1, <2>2
    DEF LetGo, Execs, Lease!Submit, Lease!Vacate, Lease!Finish, Lease!Idle, Lease!Becomes
<1> QED
  BY <1>5, <1>6, <1>7 DEF ManagerMove

(* Manager and chiefs together implement the lease: a job is requeued,     *)
(* moved or ended only while it has no process, and only its holder        *)
(* executes it, in every instance without operator stops and lost          *)
(* completion answers.                                                     *)
THEOREM LeaseImplemented ==
    ASSUME MaxStops = 0, MaxReportLosses = 0
    PROVE  Spec => ImplementsLease
<1>1. Init => Lease!Init
  <2> SUFFICES ASSUME Init PROVE Lease!Init
    OBVIOUS
  <2>1. \A j \in Jobs : PhaseOf(state[j]) = "absent"
    BY DEF Init, ManagerInit, PhaseOf, QueueStates, TerminalStates
  <2>2. node = [j \in Jobs |-> NoEngine]
    BY DEF Init, ManagerInit
  <2>3. \A j \in Jobs : {e \in Engines : j \in running[e]} = {}
    BY DEF Init, ChiefInit
  <2> QED
    BY <2>1, <2>2, <2>3 DEF Lease!Init
<1>2. OwnershipInv /\ OwnershipInv' /\ TransferInv /\ [Next]_vars => [Lease!Next]_(Lease!leaseVars)
  BY StepMoves, StepKnowsChildren, LeaseStep DEF Lease!Next
<1> QED
  BY OwnershipInductive, TransferInductive, <1>1, <1>2, PTL DEF Spec, ImplementsLease, Lease!Spec
=============================================================================
