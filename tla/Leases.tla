------------------------------- MODULE Leases -------------------------------
(***************************************************************************)
(* The CPU/memory leases of one pilot: ChiefLeaseController                *)
(* (src/zslurm_lease.py), the job starts and ends of the chief that share  *)
(* its lock, and the manager's bookings on this engine (src/zslurm):       *)
(* grants, acknowledgements, resizes, adoption by a heartbeat, removal of  *)
(* the engine while its chief lives on, and its return.                    *)
(*                                                                         *)
(* Every local action is one critical section of status.lock.  A request   *)
(* thread of the lease server leaves the lock only inside condition.wait() *)
(* and there it is "waiting"; the RPC to the manager is made with the lock *)
(* held.  A resource is a dimension of Dim; an amount is a function on Dim.*)
(***************************************************************************)
EXTENDS Integers, Sequences, FiniteSets, Functions

CONSTANTS
    Jobs, Requests,     \* the jobs; the request threads of the lease server
    Releases,           \* the release ids the consumers of a job use
    NoRelease,          \* the request is a "set", not a "release"
    Total,              \* the pilot's cores and memory
    Max,                \* the request of a job: its full-size lease
    Amount,             \* what the consumer with a release id gives back
    Goals,              \* the targets of "set"; Keep leaves a dimension alone
    CpuFloor,           \* min_cpu
    MemHeadroom,        \* memory_headroom_mb
    Usages,             \* the observed memory of a process tree
    Overshoot,          \* may a job use more memory than its lease leaves free?
    MaxSends, MaxAttempts  \* bounds: requests sent; leases prepared, by job

Dim  == {"cpu", "mem"}
Keep == -1
Zero == [d \in Dim |-> 0]
AsHeld == [d \in Dim |-> Keep]

ASSUME LeaseConstants ==
    /\ IsFiniteSet(Jobs) /\ NoRelease \notin Releases
    /\ Total \in [Dim -> Nat] /\ Max \in [Jobs -> [Dim -> Nat]]
    /\ Amount \in [Releases -> [Dim -> Nat]]
    /\ Goals \subseteq [Dim -> Nat \union {Keep}]
    /\ CpuFloor \in Nat /\ MemHeadroom \in Nat /\ Usages \subseteq Nat
    /\ Overshoot \in BOOLEAN /\ MaxSends \in Nat /\ MaxAttempts \in [Jobs -> Nat]

VARIABLES
    free,       \* status.current_cpu, status.current_mem
    local,      \* the chief's view of a job, see Places
    issued,     \* the tokens drawn for a job so far
    lease,      \* the token in leases[job], 0 when there is no record
    held,       \* record.held_cpu, record.held_mem_mb
    applied,    \* record.completed_releases
    observed,   \* status.current_mem_usage
    ended,      \* status.return_codes: jobs whose code is to be reported
    waiters,    \* the FIFO queue of growth requests
    req,        \* the requests, by thread
    registered, \* the manager has a record of the engine
    state,      \* the manager's job.state; RUNNING and ASSIGNED mean: here,
                \* QUEUED: queued or on another pilot
    booked,     \* the manager's job.held_ncpu, job.held_mem
    lost,       \* history: the manager resized, its answer got lost
    unchecked,  \* history: booked in full, the capacity was not tested
    cut,        \* history: what each release id took off the lease
    sends       \* requests sent

leaseVars  == <<issued, lease, held, applied>>
chiefVars  == <<free, local, leaseVars, observed, ended>>
serverVars == <<waiters, req>>
managerVars == <<registered, state, booked, lost, unchecked>>
vars == <<chiefVars, serverVars, managerVars, cut, sends>>

(* kept: a grant whose acknowledgement got no answer; prepared: a lease    *)
(* whose child failed to spawn, to be discarded.                           *)
Places == {"none", "kept", "pending", "prepared", "running"}
Idle   == [at |-> "idle"]
RequestRecords ==
    [at : {"sent", "waiting"}, job : Jobs, token : Nat \ {0},
     goal : Goals \union {AsHeld}, release : Releases \union {NoRelease}]

WaitersWait == \A i \in DOMAIN waiters : req[waiters[i]].at = "waiting"

(* Every variable has its type, and who is in the growth queue waits: the  *)
(* lease controller of zslurm_lease.py and the manager's tables.           *)
LeaseTypeOK ==
    /\ free \in [Dim -> Nat]
    /\ local \in [Jobs -> Places]
    /\ issued \in [Jobs -> Nat] /\ lease \in [Jobs -> Nat]
    /\ held \in [Jobs -> [Dim -> Nat]]
    /\ applied \in [Jobs -> SUBSET Releases]
    /\ observed \in [Jobs -> Nat]
    /\ waiters \in Seq(Requests)
    /\ req \in [Requests -> RequestRecords \union {Idle}]
    /\ WaitersWait
    /\ ended \in SUBSET Jobs
    /\ registered \in BOOLEAN
    /\ state \in [Jobs -> {"QUEUED", "ASSIGNED", "RUNNING", "DONE"}]
    /\ booked \in [Jobs -> [Dim -> Nat]]
    /\ lost \in SUBSET Jobs /\ unchecked \in SUBSET Jobs
    /\ cut \in [Jobs -> [Releases -> [Dim -> Int]]]
    /\ sends \in 0..MaxSends

LeaseInit ==
    /\ free = Total
    /\ local = [j \in Jobs |-> "none"]
    /\ issued = [j \in Jobs |-> 0] /\ lease = [j \in Jobs |-> 0]
    /\ held = [j \in Jobs |-> Zero]
    /\ applied = [j \in Jobs |-> {}]
    /\ observed = [j \in Jobs |-> 0]
    /\ waiters = <<>>
    /\ req = [q \in Requests |-> Idle]
    /\ ended = {}
    /\ registered = TRUE
    /\ state = [j \in Jobs |-> "QUEUED"]
    /\ booked = [j \in Jobs |-> Zero]
    /\ lost = {} /\ unchecked = {}
    /\ cut = [j \in Jobs |-> [r \in Releases |-> Zero]]
    /\ sends = 0

-----------------------------------------------------------------------------
(* Amounts.                                                                *)

Least(a, b)    == IF a < b THEN a ELSE b
Greatest(a, b) == IF a > b THEN a ELSE b
Clamp(x, d)    == Least(Total[d], Greatest(0, x))
Fits(x, y)     == \A d \in Dim : x[d] <= y[d]
Plus(x, y)     == [d \in Dim |-> x[d] + y[d]]
Minus(x, y)    == [d \in Dim |-> x[d] - y[d]]
(* What a lease must grow by to reach a target.                            *)
Delta(x, t)    == [d \in Dim |-> Greatest(0, t[d] - x[d])]

(* The holding a job cannot give up: min_cpu, and the observed memory with *)
(* its headroom.                                                           *)
Floor(j) ==
    [d \in Dim |-> Least(Max[j][d], IF d = "cpu" THEN CpuFloor
                                    ELSE observed[j] + MemHeadroom)]

TooLarge(j, goal) == \E d \in Dim : goal[d] > Max[j][d]

SafeTarget(j, goal) ==
    [d \in Dim |-> Greatest(IF goal[d] = Keep THEN held[j][d] ELSE goal[d],
                            Floor(j)[d])]

-----------------------------------------------------------------------------
(* The manager.                                                            *)

(* What the manager counts for a job on this engine.                       *)
Booking(j) ==
    CASE state[j] = "RUNNING"  -> booked[j]
      [] state[j] = "ASSIGNED" -> Max[j]
      [] OTHER                 -> Zero

Bookings(d) == [k \in Jobs |-> Booking(k)[d]]

(* _engine_headroom_locked(): what the others leave; an engine that is not *)
(* known has room for anything.                                            *)
Headroom(j) ==
    [d \in Dim |-> Greatest(0, Total[d] - SumFunctionOnSet(Bookings(d), Jobs \ {j}))]
HasHeadroom(j, x) == registered => Fits(x, Headroom(j))

(* Mutant: the engine's capacity is not checked.                           *)
AcceptsUnbounded(j, t) == registered /\ state[j] = "RUNNING" /\ Fits(t, Max[j])

(* resize_running_job() changes the reservation, or finds it as asked.     *)
Accepts(j, t) ==
    /\ registered /\ state[j] = "RUNNING" /\ Fits(t, Max[j])
    /\ t = booked[j] \/ Fits(t, Headroom(j))

(* The manager takes j in at its full request (Job.started(), assigned()), *)
(* with or without a test of the capacity.                                 *)
BookInFull(j, s) ==
    /\ state' = [state EXCEPT ![j] = s]
    /\ booked' = [booked EXCEPT ![j] = IF s = "RUNNING" THEN Max[j] ELSE Zero]
    /\ lost' = lost \ {j}
Checked(j)   == unchecked' = unchecked \ {j}
Unchecked(j) == unchecked' = unchecked \union {j}
Tested(j)    == (registered /\ Checked(j)) \/ (~registered /\ Unchecked(j))

(* The job is no more ASSIGNED or RUNNING here.                            *)
Unbook(j, s) ==
    /\ state' = [state EXCEPT ![j] = s]
    /\ booked' = [booked EXCEPT ![j] = Zero]
    /\ lost' = lost \ {j}
    /\ Checked(j)

(* What the chief's request leaves for new jobs: its free counters less    *)
(* the grants it has not taken up.                                         *)
Advertised ==
    [d \in Dim |-> Greatest(0, free[d] - SumFunctionOnSet(
        [k \in Jobs |-> IF state[k] = "ASSIGNED" THEN Max[k][d] ELSE 0], Jobs))]

(* Mutant: the free counters of the chief are believed.                    *)
OffersTrusting(j) == Fits(Max[j], Advertised)

Offers(j) == Fits(Max[j], Advertised) /\ HasHeadroom(j, Max[j])

(* request_jobs() moves the unacknowledged grant to another pilot.         *)
MoveGrant(j) ==
    /\ state[j] = "ASSIGNED" /\ Unbook(j, "QUEUED")
    /\ UNCHANGED <<chiefVars, serverVars, registered, cut, sends>>

(* engine_removed(), the chief and its children live on.                   *)
RemoveEngine ==
    /\ registered /\ registered' = FALSE
    /\ state' = [j \in Jobs |-> IF state[j] = "DONE" THEN "DONE" ELSE "QUEUED"]
    /\ booked' = [j \in Jobs |-> Zero]
    /\ lost' = {} /\ unchecked' = {}
    /\ UNCHANGED <<chiefVars, serverVars, cut, sends>>

(* poll() was answered with REREGISTER.                                    *)
Reregister ==
    /\ ~registered /\ registered' = TRUE
    /\ UNCHANGED <<chiefVars, serverVars, state, booked, lost, unchecked, cut, sends>>

(* The jobs a heartbeat names.                                             *)
Known(j) == local[j] \in {"pending", "prepared", "running"} \/ j \in ended

(* poll(): a job the chief has is RUNNING here again, at its full request, *)
(* whatever its lease holds and whatever else has been granted meanwhile.  *)
Adopt(j) ==
    /\ registered /\ Known(j) /\ state[j] \in {"QUEUED", "ASSIGNED"}
    /\ BookInFull(j, "RUNNING") /\ Unchecked(j)
    /\ UNCHANGED <<chiefVars, serverVars, registered, cut, sends>>

(* reconcile_engine_heartbeat(): the chief has not named the job for long. *)
LostGrant(j) ==
    /\ registered /\ ~Known(j) /\ state[j] = "RUNNING"
    /\ Unbook(j, "QUEUED")
    /\ UNCHANGED <<chiefVars, serverVars, registered, cut, sends>>

-----------------------------------------------------------------------------
(* Starting and ending a child.                                            *)

(* Mutant: grants are taken while a growth request waits.                  *)
AlwaysAdmits == TRUE

(* not lease_controller.has_pending_acquire()                              *)
AdmitsJobs == waiters = <<>>

(* can_run_assigned_job() *)
HasRoom(j) == (\A d \in Dim : free[d] > 0) /\ Fits(Max[j], free)

(* request_jobs() gives the job to this engine: asked with the lock held,  *)
(* by a chief that has nothing left to acknowledge or to start.            *)
Grant(j) ==
    /\ AdmitsJobs /\ \A k \in Jobs : local[k] \notin {"kept", "pending", "prepared"}
    /\ \A d \in Dim : free[d] > 0
    /\ state[j] = "QUEUED" /\ Offers(j)
    /\ BookInFull(j, "ASSIGNED") /\ Tested(j)
    /\ UNCHANGED <<chiefVars, serverVars, registered, cut, sends>>

Claim(j) ==
    /\ local' = [local EXCEPT ![j] = "pending"]
    /\ free' = Minus(free, Max[j])
    /\ observed' = [observed EXCEPT ![j] = 0]
KeepGrant(j) ==
    /\ local' = [local EXCEPT ![j] = "kept"]
    /\ UNCHANGED <<free, observed>>
Drop(j) ==
    /\ local' = [local EXCEPT ![j] = "none"]
    /\ UNCHANGED <<free, observed>>

(* The main loop acknowledges a grant it does not run yet, or retries with *)
(* one it kept; can_run_assigned_job() starts the job, has started it      *)
(* before, or takes the grant back.                                        *)
StartGrant(j) ==
    /\ AdmitsJobs /\ HasRoom(j)
    /\ local[j] = "kept" \/ (local[j] = "none" /\ state[j] = "ASSIGNED")
    /\ \/ /\ \/ /\ state[j] = "ASSIGNED" /\ HasHeadroom(j, Max[j])
                /\ BookInFull(j, "RUNNING") /\ Tested(j)
             \/ state[j] = "RUNNING" /\ UNCHANGED <<state, booked, lost, unchecked>>
          /\ Claim(j) \/ KeepGrant(j)
       \/ UNCHANGED <<state, booked, lost, unchecked>> /\ KeepGrant(j)   \* not reached
       \/ /\ \/ state[j] = "ASSIGNED" /\ Unbook(j, "QUEUED")
             \/ /\ state[j] \notin {"ASSIGNED", "RUNNING"}
                /\ UNCHANGED <<state, booked, lost, unchecked>>
          /\ Drop(j) \/ KeepGrant(j)
    /\ UNCHANGED <<leaseVars, ended, serverVars, registered, cut, sends>>

(* DEASSIGN: the grant was moved, perhaps long ago.                        *)
Deassign(j) ==
    /\ local[j] = "kept" /\ Drop(j)
    /\ UNCHANGED <<leaseVars, ended, serverVars, managerVars, cut, sends>>

(* prepare_job() *)
Prepare(j) ==
    /\ issued[j] < MaxAttempts[j] /\ lease[j] = 0
    /\ issued' = [issued EXCEPT ![j] = @ + 1]
    /\ lease' = [lease EXCEPT ![j] = issued[j] + 1]
    /\ held' = [held EXCEPT ![j] = Max[j]]
    /\ applied' = [applied EXCEPT ![j] = {}]

(* The lease is prepared, then the child is spawned or fails to.           *)
Spawn(j) ==
    /\ local[j] = "pending" /\ Prepare(j)
    /\ local' = [local EXCEPT ![j] = "running"]
    /\ UNCHANGED <<free, observed, ended, serverVars, managerVars, cut, sends>>

SpawnFails(j) ==
    /\ local[j] = "pending" /\ Prepare(j)
    /\ local' = [local EXCEPT ![j] = "prepared"]
    /\ UNCHANGED <<free, observed, ended, serverVars, managerVars, cut, sends>>

(* The waiters of S, in their order: [item for item in self.waiters if ...] *)
Only(S, queue) ==
    LET only[i \in 0..Len(queue)] ==
            IF i = 0 THEN <<>>
            ELSE IF queue[i] \in S THEN Append(only[i - 1], queue[i]) ELSE only[i - 1]
    IN  only[Len(queue)]

(* leases.pop(key), and the job's waiters leave the queue.                 *)
DropLease(j) ==
    /\ lease' = [lease EXCEPT ![j] = 0]
    /\ held' = [held EXCEPT ![j] = Zero]
    /\ applied' = [applied EXCEPT ![j] = {}]
    /\ cut' = [cut EXCEPT ![j] = [r \in Releases |-> Zero]]
    /\ waiters' = Only({q \in Requests : req[q].at = "waiting" /\ req[q].job # j}, waiters)

(* discard_prepared_job(): the start is to be retried.                     *)
DiscardPrepared(j) ==
    /\ local[j] = "prepared"
    /\ local' = [local EXCEPT ![j] = "pending"]
    /\ DropLease(j)
    /\ UNCHANGED <<free, issued, observed, ended, req, managerVars, sends>>

(* DeferredJobStarts.cancel()                                              *)
CancelStart(j) ==
    /\ local[j] = "pending"
    /\ local' = [local EXCEPT ![j] = "none"]
    /\ ended' = ended \union {j}
    /\ free' = Plus(free, Max[j])
    /\ observed' = [observed EXCEPT ![j] = 0]
    /\ UNCHANGED <<leaseVars, serverVars, managerVars, cut, sends>>

(* job_monitor(): a sample of the memory of the process tree.              *)
UseMemory(j, m) ==
    /\ local[j] = "running" /\ observed[j] # m
    /\ Overshoot \/ Least(Max[j]["mem"], m + MemHeadroom) <= held[j]["mem"]
    /\ observed' = [observed EXCEPT ![j] = m]
    /\ UNCHANGED <<free, local, leaseVars, ended, serverVars, managerVars, cut, sends>>

(* Mutant: a child that exits gives back its request, not its holding.     *)
FinishWithRequest(j) ==
    /\ free' = [d \in Dim |-> Clamp(free[d] + Max[j][d], d)]
    /\ DropLease(j)

(* finish_job() *)
FinishJob(j) ==
    /\ free' = [d \in Dim |-> Clamp(free[d] + held[j][d], d)]
    /\ DropLease(j)

(* The child exits; claim_finished_attempt() holds for its one monitor.    *)
ChildExits(j) ==
    /\ local[j] = "running" /\ sends < MaxSends
    /\ local' = [local EXCEPT ![j] = "none"]
    /\ ended' = ended \union {j}
    /\ FinishJob(j)
    /\ observed' = [observed EXCEPT ![j] = 0]
    /\ UNCHANGED <<issued, req, managerVars, sends>>

(* job_finished() reaches the manager: the job is done or queued again,    *)
(* wherever it is by now.  A lost answer makes the chief report once more. *)
Report(j) ==
    /\ j \in ended
    /\ ended' \in {ended, ended \ {j}}
    /\ IF state[j] = "DONE" THEN UNCHANGED <<state, booked, lost, unchecked>>
       ELSE \E s \in {"QUEUED", "DONE"} : Unbook(j, s)
    /\ UNCHANGED <<free, local, leaseVars, observed, serverVars, registered, cut, sends>>

-----------------------------------------------------------------------------
(* Requests.                                                               *)

(* A process of the running attempt sends a request; with the token of its *)
(* attempt it may be handled much later.                                   *)
Send(q, j, goal, release) ==
    /\ req[q] = Idle /\ local[j] = "running" /\ sends < MaxSends
    /\ req' = [req EXCEPT ![q] = [at |-> "sent", job |-> j, token |-> lease[j],
                                  goal |-> goal, release |-> release]]
    /\ sends' = sends + 1
    /\ UNCHANGED <<chiefVars, waiters, managerVars, cut>>

(* Mutant: any request for a job with a lease is served.                   *)
KnownJob(q) == lease[req[q].job] # 0

(* _authenticate_locked() *)
Authentic(q) == lease[req[q].job] # 0 /\ lease[req[q].job] = req[q].token

Target(q)       == SafeTarget(req[q].job, req[q].goal)
NeedsGrowth(q)  == ~Fits(Target(q), held[req[q].job])
Without(queue, q) == Only(Requests \ {q}, queue)

(* Mutant: the thread gives up, its waiter stays in the queue.             *)
LeavesWaiter(q, queue) ==
    /\ req' = [req EXCEPT ![q] = Idle]
    /\ waiters' = queue

(* The request is answered and its waiter removed.                         *)
Answer(q, queue) ==
    /\ req' = [req EXCEPT ![q] = Idle]
    /\ waiters' = Without(queue, q)

(* Mutant: only the memory of the agreed lease is taken over.              *)
ResizedMemory(j, t) ==
    /\ free' = [free EXCEPT !["mem"] = Clamp(free["mem"] + held[j]["mem"] - t["mem"], "mem")]
    /\ held' = [held EXCEPT ![j]["mem"] = t["mem"]]

(* The chief takes over the lease the manager agreed to.                   *)
Resized(j, t) ==
    /\ free' = [d \in Dim |-> Clamp(free[d] + held[j][d] - t[d], d)]
    /\ held' = [held EXCEPT ![j] = t]

ChiefUnchanged == UNCHANGED <<free, held, applied, cut>>

(* The call to the manager: it agrees and the answer arrives; it agrees    *)
(* and the answer is lost; or it refuses or is never reached.              *)
Booked(j, t) ==
    /\ Accepts(j, t)
    /\ booked' = [booked EXCEPT ![j] = t]
    /\ unchecked' = IF t = booked[j] THEN unchecked ELSE unchecked \ {j}

ManagerAgrees(j, t) == Booked(j, t) /\ lost' = lost \ {j}
AnswerLost(j, t)    == Booked(j, t) /\ lost' = lost \union {j} /\ ChiefUnchanged
Refused == ChiefUnchanged /\ UNCHANGED <<booked, lost, unchecked>>

(* Mutant: capacity goes to whoever looks first.                           *)
AnyTurn(q, queue) == TRUE

(* waiter is None or self.waiters[0] is waiter                             *)
MyTurn(q, queue) == (\E i \in DOMAIN queue : queue[i] = q) => Head(queue) = q

CapacityReady(q) == Fits(Delta(held[req[q].job], Target(q)), free)

(* One pass of the loop of set_target() over the queue.                    *)
Pass(q, queue) ==
    LET j == req[q].job
    IN  \/ /\ \/ ~Authentic(q)                       \* gone
              \/ Target(q) = held[j]                 \* unchanged
           /\ Answer(q, queue) /\ Refused
        \/ /\ Authentic(q) /\ Target(q) # held[j]
           /\ MyTurn(q, queue) /\ CapacityReady(q)
           /\ \/ ManagerAgrees(j, Target(q)) /\ Resized(j, Target(q))
                 /\ UNCHANGED <<applied, cut>>
              \/ AnswerLost(j, Target(q))
              \/ Refused
           /\ Answer(q, queue)

(* What _actual_memory_available_locked() measures may be too little for   *)
(* any growth of memory.                                                   *)
MemoryShort(q) == Delta(held[req[q].job], Target(q))["mem"] > 0

MustWait(q, queue) ==
    /\ Authentic(q) /\ Target(q) # held[req[q].job]
    /\ ~(MyTurn(q, queue) /\ CapacityReady(q)) \/ MemoryShort(q)

requestFrame == <<local, issued, lease, observed, ended, registered, state, sends>>

(* A request that is refused before the lease is looked at.                *)
Deny(q) ==
    /\ req[q].at = "sent"
    /\ ~Authentic(q) \/ TooLarge(req[q].job, req[q].goal)
    /\ Answer(q, waiters) /\ Refused
    /\ UNCHANGED requestFrame

(* set_target(): the first pass.                                           *)
SetTarget(q) ==
    LET queue == IF NeedsGrowth(q) THEN Append(waiters, q) ELSE waiters
    IN  /\ req[q].at = "sent" /\ req[q].release = NoRelease
        /\ Authentic(q) /\ ~TooLarge(req[q].job, req[q].goal)
        /\ \/ Pass(q, queue)
           \/ /\ MustWait(q, queue)
              /\ waiters' = queue
              /\ req' = [req EXCEPT ![q].at = "waiting"]
              /\ Refused
        /\ UNCHANGED requestFrame

(* set_target(): a later pass, after a notify or a second.                 *)
Recheck(q) ==
    /\ req[q].at = "waiting"
    /\ Pass(q, waiters)
    /\ UNCHANGED requestFrame

(* Mutant: a request waits for as long as its job runs.                    *)
NoDeadline(q) == FALSE

(* set_target(): the deadline has passed.                                  *)
Expire(q) ==
    /\ req[q].at = "waiting" /\ MustWait(q, waiters)
    /\ Answer(q, waiters) /\ Refused
    /\ UNCHANGED requestFrame

ReleaseTarget(q) ==
    LET j == req[q].job
    IN  SafeTarget(j, [d \in Dim |-> Greatest(0, held[j][d] - Amount[req[q].release][d])])

(* Mutant: the id of a release is forgotten.                               *)
ForgetsRelease(j, r) ==
    /\ applied' = applied
    /\ cut' = [cut EXCEPT ![j][r] = Plus(@, Minus(held[j], held'[j]))]

(* completed[release_id] = ...                                             *)
RecordsRelease(j, r) ==
    /\ applied' = [applied EXCEPT ![j] = @ \union {r}]
    /\ cut' = [cut EXCEPT ![j][r] = Plus(@, Minus(held[j], held'[j]))]

(* release_resources(): no queue and no look at the free counters.         *)
ReleaseResources(q) ==
    LET j == req[q].job
        r == req[q].release
        t == ReleaseTarget(q)
    IN  /\ req[q].at = "sent" /\ r # NoRelease /\ Authentic(q)
        /\ \/ r \in applied[j] /\ Refused                     \* already-released
           \/ /\ r \notin applied[j] /\ t = held[j]           \* unchanged
              /\ UNCHANGED <<free, held, booked, lost, unchecked>>
              /\ RecordsRelease(j, r)
           \/ /\ r \notin applied[j] /\ t # held[j]
              /\ \/ ManagerAgrees(j, t) /\ Resized(j, t) /\ RecordsRelease(j, r)
                 \/ AnswerLost(j, t)
                 \/ Refused
        /\ Answer(q, waiters)
        /\ UNCHANGED requestFrame

-----------------------------------------------------------------------------
JobStep ==
    \E j \in Jobs :
        \/ Grant(j) \/ MoveGrant(j) \/ Adopt(j) \/ LostGrant(j)
        \/ StartGrant(j) \/ Deassign(j) \/ Spawn(j) \/ SpawnFails(j) \/ DiscardPrepared(j)
        \/ CancelStart(j) \/ ChildExits(j) \/ Report(j)
        \/ \E m \in Usages : UseMemory(j, m)

ClientStep ==
    \E q \in Requests, j \in Jobs :
        \/ \E g \in Goals : Send(q, j, g, NoRelease)
        \/ \E r \in Releases : Send(q, j, AsHeld, r)

ServerStep ==
    \E q \in Requests :
        req[q] # Idle /\ (Deny(q) \/ SetTarget(q) \/ Recheck(q) \/ Expire(q)
                          \/ ReleaseResources(q))

LeaseNext == JobStep \/ RemoveEngine \/ Reregister \/ ClientStep \/ ServerStep
LeaseSpec == LeaseInit /\ [][LeaseNext]_vars

(* Waiting threads wake up at least once a second, so one of them sees     *)
(* that it can be served or that its deadline has passed.                  *)
Wake(q) == req[q] # Idle /\ (Recheck(q) \/ Expire(q))
LeaseFairSpec == LeaseSpec /\ WF_vars(\E q \in Requests : Wake(q))

-----------------------------------------------------------------------------
(* Properties.                                                             *)

ChiefHolding(j) ==
    CASE local[j] \in {"pending", "prepared"} -> Max[j]
      [] local[j] = "running"                 -> held[j]
      [] OTHER                                -> Zero
ChiefBalanced ==
    \A d \in Dim :
        free[d] + SumFunctionOnSet([j \in Jobs |-> ChiefHolding(j)[d]], Jobs) = Total[d]
BookingFollowsLease ==
    \A j \in Jobs :
        local[j] = "running" /\ state[j] = "RUNNING" /\ j \notin lost =>
            IF j \in unchecked THEN Fits(held[j], booked[j]) ELSE booked[j] = held[j]

(* The chief's free counters and the holdings of its jobs add up to the    *)
(* pilot in every dimension, through claims, failed spawns, shrinks,       *)
(* growths, releases and ends, in any order of the threads: the clamps     *)
(* min(total, ...) and max(0, ...) of zslurm_lease.py never lose anything. *)
(* And for a job that both sides take for running here, the manager's      *)
(* reservation is the chief's lease, unless the last answer of             *)
(* resize_running_job() got lost: absolute targets repair the difference   *)
(* with the next answer that arrives.  A job adopted from a heartbeat is   *)
(* booked in full and not below its lease until it is resized.             *)
LedgersAgree == ChiefBalanced /\ BookingFollowsLease

(* What the manager has tested against the engine (grants, start           *)
(* acknowledgements, lease growth: "check the same holdings",              *)
(* docs/operations.md) fits it, lost answers, removals and returns of the  *)
(* engine included.  Only a job that a heartbeat made it adopt, or a start *)
(* on an engine it did not know, may come on top.                          *)
EngineNotOverbooked ==
    \A d \in Dim : SumFunctionOnSet(
        [j \in Jobs |-> IF j \in unchecked THEN 0 ELSE Booking(j)[d]], Jobs) <= Total[d]

(* "A pre-existing overbooked pilot keeps its live children, but receives  *)
(* no additional work until its holdings fit again" (docs/operations.md):  *)
(* after an adoption has overbooked the engine no step that grants, starts *)
(* or grows a job leaves it overbooked; only another adoption may.         *)
OverbookedTakesNothing ==
    [][UNCHANGED <<state, booked>> \/
       \A d \in Dim :
          (\E j \in Jobs : Booking(j)'[d] > Booking(j)[d]) /\ unchecked' \subseteq unchecked
              => SumFunctionOnSet(Bookings(d)', Jobs) <= Total[d]]_vars

(* A release id takes its amount off the lease of an attempt at most once, *)
(* whatever is retried and whichever answers are lost.                     *)
ReleasedOnce ==
    \A j \in Jobs, r \in Releases : Fits(cut[j][r], Amount[r])

(* While growth requests wait, free capacity is consumed only by a step    *)
(* that serves the first of them: no new job, no later request and no      *)
(* other thread takes what it waits for.                                   *)
GrowthProtected ==
    [][waiters = <<>> \/ Fits(free, free')
       \/ ~\E i \in DOMAIN waiters' : waiters'[i] = Head(waiters)]_vars

(* A request of an earlier attempt, queued or late, changes nothing: job   *)
(* ids are reused by retries, tokens are not.                              *)
StaleRequestsHarmless ==
    [][\A q \in Requests :
        req[q] # Idle /\ req'[q] # req[q] /\ req[q].token # lease[req[q].job] =>
            UNCHANGED <<free, held, applied, booked>>]_vars

(* Every growth request leaves the queue, by a grant, its deadline or the  *)
(* end of its job, so the chief admits jobs again.                         *)
QueueDrains == <>[](waiters = <<>>)
=============================================================================
