----------------------------- MODULE GrantLedger -----------------------------
(***************************************************************************)
(* What the manager reserves for a grant besides cores and memory: the GPU *)
(* devices of the pilot (src/zslurm_gpu.py and its callers in src/zslurm)  *)
(* and a storage budget.  Both are taken when a job is granted and come    *)
(* back when it ends, is cancelled, is refused its start, or the manager   *)
(* takes it away; a chief holds the grant meanwhile, and its child may     *)
(* outlive the manager's opinion of it.                                    *)
(***************************************************************************)
EXTENDS Integers, FiniteSets, Functions

CONSTANTS
    Jobs, Engines, NoEngine,
    Devices,            \* the devices a pilot registers
    Need,               \* job.ngpus
    StartUse, EndUse,   \* job.active_start_use_add, job.active_end_use_remove
    Budget,             \* active_total
    MaxGrants           \* bound: grants made

(* A job leaves behind part of what it claimed: EndUse is at most StartUse *)
(* (a job that removes what others left needs them to be counted first).   *)
ASSUME GrantConstants ==
    /\ IsFiniteSet(Jobs) /\ NoEngine \notin Engines
    /\ \A e \in Engines : IsFiniteSet(Devices[e])
    /\ Need \in [Jobs -> Nat \ {0}]
    /\ StartUse \in [Jobs -> Nat] /\ EndUse \in [Jobs -> Nat]
    /\ \A j \in Jobs : EndUse[j] <= StartUse[j]
    /\ Budget \in Nat /\ MaxGrants \in Nat

VARIABLES
    state, node,    \* job.state, job.node_id
    devs,           \* job.gpu_devices
    alloc,          \* engine.gpu_allocations; {} when a job has no entry
    registered,     \* the engines that have a record
    inUse,          \* active_inuse
    hand,           \* what a chief holds of a job, see Hands
    unreported,     \* the return codes a chief has to report
    astray,         \* history: jobs whose attempt the manager ended while a
                    \* chief was still at it
    grants

manager == <<state, node, devs, alloc, registered, inUse>>
chiefs  == <<hand, unreported>>
vars    == <<manager, chiefs, astray, grants>>

Device == UNION {Devices[e] : e \in Engines}
States == {"PENDING", "REQUEUED", "ASSIGNED", "RUNNING", "COMPLETED", "ENDED"}
Queued(j)  == state[j] \in {"PENDING", "REQUEUED"}
Granted(j) == state[j] \in {"ASSIGNED", "RUNNING"}
Live(j)    == Queued(j) \/ Granted(j)

(* granted: not acknowledged yet; starting, running: the chief's own.      *)
Hands == [at : {"granted", "starting", "running"}, devs : SUBSET Device]
Empty == [at |-> "none", devs |-> {}]
Child(e, j) == hand[e][j].at \in {"starting", "running"}

GrantInit ==
    /\ state = [j \in Jobs |-> "PENDING"]
    /\ node = [j \in Jobs |-> NoEngine]
    /\ devs = [j \in Jobs |-> {}]
    /\ alloc = [e \in Engines |-> [j \in Jobs |-> {}]]
    /\ registered = Engines
    /\ inUse = 0
    /\ hand = [e \in Engines |-> [j \in Jobs |-> Empty]]
    /\ unreported = [e \in Engines |-> {}]
    /\ astray = {}
    /\ grants = 0

-----------------------------------------------------------------------------
(* zslurm_gpu and the storage counters.                                    *)

(* Mutant: a grant that is not acknowledged yet does not count.            *)
AvailableIgnoringGrants(e) ==
    Devices[e] \ UNION {alloc[e][j] : j \in {k \in Jobs : state[k] # "ASSIGNED"}}

(* available_devices() *)
Available(e) == Devices[e] \ UNION {alloc[e][j] : j \in Jobs}

(* reserve_devices() *)
Reserve(e, j, D) ==
    /\ devs' = [devs EXCEPT ![j] = D]
    /\ alloc' = [alloc EXCEPT ![e][j] = D]

(* release_devices() on the engine named, whichever holds the entry.       *)
ReleaseDevices(e, j) ==
    /\ devs' = [devs EXCEPT ![j] = {}]
    /\ alloc' = IF e \in Engines THEN [alloc EXCEPT ![e][j] = {}] ELSE alloc

NonNegative(x) == IF x < 0 THEN 0 ELSE x

(* Mutant: a job that succeeds gives back all it claimed.                  *)
ReturnedInFull(j, to) == StartUse[j]

(* job_done(): a job that succeeds keeps what it leaves on the disk.       *)
Returned(j, to) == IF to = "COMPLETED" THEN EndUse[j] ELSE StartUse[j]

(* job_done(); without a node nothing was reserved.                        *)
JobDone(j, to) ==
    /\ state' = [state EXCEPT ![j] = to]
    /\ node' = [node EXCEPT ![j] = NoEngine]
    /\ IF node[j] = NoEngine THEN UNCHANGED <<devs, alloc, inUse>>
       ELSE ReleaseDevices(node[j], j) /\ inUse' = inUse - Returned(j, to)
    /\ UNCHANGED registered

-----------------------------------------------------------------------------
(* Grants.                                                                 *)

(* The answer of request_jobs() arrives or is lost; a chief skips a job it *)
(* runs already.                                                           *)
Receive(e, j, D) ==
    \/ /\ ~Child(e, j)
       /\ hand' = [hand EXCEPT ![e][j] = [at |-> "granted", devs |-> D]]
    \/ UNCHANGED hand

(* request_jobs(): a queued job.  reserve_devices() raises, and with it    *)
(* the call, for a job that has an entry left on this engine.              *)
Grant(e, j) ==
    /\ e \in registered /\ Queued(j) /\ grants < MaxGrants
    /\ StartUse[j] = 0 \/ inUse + StartUse[j] <= Budget
    /\ alloc[e][j] = {}
    /\ \E D \in SUBSET Available(e) :
          /\ Cardinality(D) = Need[j]
          /\ Reserve(e, j, D) /\ Receive(e, j, D)
    /\ state' = [state EXCEPT ![j] = "ASSIGNED"]
    /\ node' = [node EXCEPT ![j] = e]
    /\ inUse' = inUse + StartUse[j]
    /\ grants' = grants + 1
    /\ UNCHANGED <<registered, unreported, astray>>

(* request_jobs(): the grant of a lost answer is replayed as it was.       *)
Replay(e, j) ==
    /\ e \in registered /\ state[j] = "ASSIGNED" /\ node[j] = e
    /\ Receive(e, j, devs[j])
    /\ UNCHANGED <<manager, unreported, astray, grants>>

(* request_jobs(): a grant of another engine is moved here.  No device is  *)
(* touched, and the job is sent with the environment it was submitted in.  *)
Move(e, j) ==
    /\ e \in registered /\ state[j] = "ASSIGNED" /\ node[j] # e
    /\ grants < MaxGrants /\ grants' = grants + 1
    /\ Cardinality(Available(e)) >= Need[j]
    /\ node' = [node EXCEPT ![j] = e]
    /\ Receive(e, j, {})
    /\ UNCHANGED <<state, devs, alloc, registered, inUse, unreported, astray>>

(* DEASSIGN, for a grant that moved away or was cancelled.                 *)
Deassign(e, j) ==
    /\ hand[e][j].at = "granted" /\ ~(state[j] = "ASSIGNED" /\ node[j] = e)
    /\ hand' = [hand EXCEPT ![e][j] = Empty]
    /\ UNCHANGED <<manager, unreported, astray, grants>>

-----------------------------------------------------------------------------
(* Starts.                                                                 *)

(* Mutant: the devices the chief was given are not compared.               *)
AnyDevices(e, j) == TRUE

(* expected == job.gpu_devices                                             *)
SameDevices(e, j) == hand[e][j].devs = devs[j]

(* gpu_ok *)
DevicesReserved(e, j) ==
    /\ Cardinality(devs[j]) = Need[j]
    /\ alloc[e][j] = devs[j]

Start(e, j) ==
    /\ state' = [state EXCEPT ![j] = "RUNNING"]
    /\ UNCHANGED <<node, devs, alloc, registered, inUse>>

(* can_run_assigned_job() refuses and takes the grant back.                *)
Refuse(e, j) ==
    /\ state' = [state EXCEPT ![j] = "PENDING"]
    /\ node' = [node EXCEPT ![j] = NoEngine]
    /\ ReleaseDevices(e, j)
    /\ inUse' = NonNegative(inUse - StartUse[j])
    /\ UNCHANGED registered

(* The answer to an acknowledgement; without one the chief asks again.     *)
Hears(e, j, permission) ==
    \/ hand' = [hand EXCEPT ![e][j] =
                    IF permission THEN [@ EXCEPT !.at = "starting"] ELSE Empty]
    \/ UNCHANGED hand

(* can_run_assigned_job(); the tests of SSD, capacity and monitor may fail. *)
Acknowledge(e, j) ==
    LET mine == Live(j) /\ SameDevices(e, j) /\ node[j] = e
    IN  /\ hand[e][j].at = "granted"
        /\ \/ /\ mine /\ state[j] = "ASSIGNED" /\ DevicesReserved(e, j)
              /\ Start(e, j) /\ Hears(e, j, TRUE)
           \/ /\ mine /\ state[j] = "ASSIGNED"
              /\ Refuse(e, j) /\ Hears(e, j, FALSE)
           \/ /\ mine /\ state[j] = "RUNNING"
              /\ UNCHANGED manager /\ Hears(e, j, TRUE)
           \/ /\ ~mine
              /\ UNCHANGED manager /\ Hears(e, j, FALSE)
        /\ UNCHANGED <<unreported, astray, grants>>

(* The deferred start spawns the child.                                    *)
Spawn(e, j) ==
    /\ hand[e][j].at = "starting"
    /\ hand' = [hand EXCEPT ![e][j].at = "running"]
    /\ UNCHANGED <<manager, unreported, astray, grants>>

(* The child exits, or its start is given up.                              *)
Exit(e, j) ==
    /\ Child(e, j)
    /\ hand' = [hand EXCEPT ![e][j] = Empty]
    /\ unreported' = [unreported EXCEPT ![e] = @ \union {j}]
    /\ UNCHANGED <<manager, astray, grants>>

-----------------------------------------------------------------------------
(* Ends.                                                                   *)

(* job_finished(), with retries left or not; its answer may be lost, and   *)
(* then the end is reported again (which end it was is not remembered).    *)
Report(e, j) ==
    /\ j \in unreported[e]
    /\ \/ \E to \in {"REQUEUED", "COMPLETED", "ENDED"} : Live(j) /\ JobDone(j, to)
       \/ ~Live(j) /\ UNCHANGED manager
    /\ \/ unreported' = [unreported EXCEPT ![e] = @ \ {j}] /\ UNCHANGED astray
       \/ astray' = astray \union {j} /\ UNCHANGED unreported
    /\ UNCHANGED <<hand, grants>>

(* cancel_job() of a job that is not running.                              *)
Cancel(j) ==
    /\ Queued(j) \/ state[j] = "ASSIGNED"
    /\ JobDone(j, "ENDED")
    /\ UNCHANGED <<chiefs, astray, grants>>

(* Mutant: a running job missing from a heartbeat is taken back, though    *)
(* its start is only deferred.                                             *)
UnknownUntilSpawned(e, j) == hand[e][j].at # "running" /\ j \notin unreported[e]

(* Neither a child, nor a start, nor an unreported end.                    *)
Unknown(e, j) == ~Child(e, j) /\ j \notin unreported[e]

(* reconcile_engine_heartbeat() *)
LostGrant(e, j) ==
    /\ e \in registered /\ state[j] = "RUNNING" /\ node[j] = e /\ Unknown(e, j)
    /\ JobDone(j, "REQUEUED")
    /\ UNCHANGED <<chiefs, astray, grants>>

(* A queued job gave its storage back, a granted one did not.              *)
ChargedAgain(j) == IF Queued(j) THEN StartUse[j] ELSE 0

(* poll(): the chief runs a job the manager has not as RUNNING.  Its       *)
(* storage is reserved again; its devices are not.                         *)
Adopt(e, j) ==
    /\ e \in registered /\ Child(e, j)
    /\ Live(j) /\ state[j] # "RUNNING"
    /\ state' = [state EXCEPT ![j] = "RUNNING"]
    /\ node' = [node EXCEPT ![j] = e]
    /\ inUse' = inUse + ChargedAgain(j)
    /\ UNCHANGED <<devs, alloc, registered, chiefs, astray, grants>>

(* engine_removed(), and the record goes with its allocations.             *)
Hosted(e) == {j \in Jobs : node[j] = e /\ Granted(j)}
Dismiss(e) ==
    /\ e \in registered
    /\ registered' = registered \ {e}
    /\ state' = [j \in Jobs |->
          CASE j \in Hosted(e) /\ state[j] = "RUNNING"  -> "REQUEUED"
            [] j \in Hosted(e) /\ state[j] = "ASSIGNED" -> "PENDING"
            [] OTHER                                    -> state[j]]
    /\ node' = [j \in Jobs |-> IF j \in Hosted(e) THEN NoEngine ELSE node[j]]
    /\ devs' = [j \in Jobs |-> IF j \in Hosted(e) THEN {} ELSE devs[j]]
    /\ alloc' = [alloc EXCEPT ![e] = [j \in Jobs |-> {}]]
    /\ inUse' = NonNegative(inUse - SumFunctionOnSet(StartUse, Hosted(e)))

(* The pilot is gone.                                                      *)
EngineLost(e) ==
    /\ Dismiss(e)
    /\ hand' = [hand EXCEPT ![e] = [j \in Jobs |-> Empty]]
    /\ unreported' = [unreported EXCEPT ![e] = {}]
    /\ UNCHANGED <<astray, grants>>

(* The pilot lives on: scancel was only accepted, or the network is back.  *)
EngineDismissed(e) ==
    /\ Dismiss(e)
    /\ astray' = astray \union {j \in Jobs : Child(e, j) \/ j \in unreported[e]}
    /\ UNCHANGED <<chiefs, grants>>

(* register(), as a new record.                                            *)
Register(e) ==
    /\ e \notin registered
    /\ registered' = registered \union {e}
    /\ UNCHANGED <<state, node, devs, alloc, inUse, chiefs, astray, grants>>

-----------------------------------------------------------------------------
GrantNext ==
    \/ \E e \in Engines, j \in Jobs :
          \/ Grant(e, j) \/ Replay(e, j) \/ Move(e, j) \/ Deassign(e, j)
          \/ Acknowledge(e, j) \/ Spawn(e, j) \/ Exit(e, j) \/ Report(e, j)
          \/ LostGrant(e, j) \/ Adopt(e, j)
    \/ \E j \in Jobs : Cancel(j)
    \/ \E e \in Engines : EngineLost(e) \/ EngineDismissed(e) \/ Register(e)

GrantSpec == GrantInit /\ [][GrantNext]_vars

-----------------------------------------------------------------------------
(* A child computes on devices that are reserved for it on its pilot, all  *)
(* the time and all of them, whichever answers are lost and grants are     *)
(* moved, unless the manager ended its attempt behind its back.            *)
ChildHoldsDevices ==
    \A e \in Engines, j \in Jobs \ astray :
        Child(e, j) =>
            /\ state[j] = "RUNNING" /\ node[j] = e
            /\ hand[e][j].devs = devs[j] /\ alloc[e][j] = devs[j]
            /\ Cardinality(devs[j]) = Need[j]

(* Two children on a pilot share a device only if one of them went astray  *)
(* (its engine was dismissed and came back, or its end was reported twice). *)
NoSharedDevice ==
    \A e \in Engines, j, k \in Jobs \ astray :
        j # k /\ Child(e, j) /\ Child(e, k) =>
            hand[e][j].devs \intersect hand[e][k].devs = {}

(* The storage in use is what the granted jobs claim and the completed     *)
(* ones left, through every loss, adoption, refusal and duplicate report:  *)
(* the max(0, ...) of the code never hides a difference.  Only what a job  *)
(* left that completed astray, while it was queued again, may be missing.  *)
Claim(j) ==
    CASE Granted(j)             -> StartUse[j]
      [] state[j] = "COMPLETED" -> StartUse[j] - EndUse[j]
      [] OTHER                  -> 0
StorageBalanced ==
    \E uncounted \in SUBSET {j \in astray : state[j] = "COMPLETED"} :
        inUse = SumFunctionOnSet([j \in Jobs |-> Claim(j)], Jobs \ uncounted)

(* "Devices are reserved at grant time, retained while a start is          *)
(* deferred, and released after completion/failure or a rejected start":   *)
(* a job that waits in the queue has no device on any engine.              *)
QueuedHoldsNothing ==
    \A e \in Engines, j \in Jobs : Queued(j) => alloc[e][j] = {}
=============================================================================
