------------------------------ MODULE Dispatch -------------------------------
(***************************************************************************)
(* Which queued jobs a pilot gets (src/zslurm, request_jobs and what       *)
(* submits, ends and requeues the jobs it chooses from): dependencies,     *)
(* strict priorities, free memory, and the capacity wait by which one      *)
(* pilot collects the slot of a large job instead of refilling every hole  *)
(* with small ones.  Grants whose answers are lost, fences and the chiefs' *)
(* side are in PilotScheduling; here a grant is acknowledged or moved.     *)
(* Memory stands for both dimensions of a job; time is counted in ticks,   *)
(* in each of which every pilot asks at least once.                        *)
(***************************************************************************)
EXTENDS Dependencies, Integers, Functions

CONSTANTS
    Nodes, NoNode, NoJob, NoWait,
    Memory,             \* engine.totmem
    FirstMem,           \* the memory a job is submitted with
    Priority,           \* job.priority
    Retries,            \* job.requeue at the submission
    Endless,            \* each stands for an endless supply of such jobs
    MaxRun,             \* a job runs for at most so many ticks
    MinAge, MaxWait, Cooldown,   \* capacity_wait_min_age_sec, _max_sec, _cooldown_sec
    MaxDisturbances     \* bound: pilots that disappear, and requests that are
                        \* answered while another pilot has a grant to acknowledge

ASSUME DispatchConstants ==
    /\ Memory \in [Nodes -> Nat] /\ FirstMem \in [Jobs -> Nat \ {0}]
    /\ Priority \in [Jobs -> Int] /\ Retries \in [Jobs -> Nat]
    /\ Endless \subseteq Jobs /\ NoJob \notin Jobs
    /\ \A j \in Jobs : \A d \in Dependency[j] : \A c \in d.conditions : c.on \intersect Endless = {}
    /\ {MaxRun, MinAge, MaxWait, Cooldown, MaxDisturbances} \subseteq Nat

VARIABLES
    node,           \* job.node_id
    mem, requeue,   \* job.mem, job.requeue
    age,            \* ticks since job.submit_ts, up to MinAge
    run,            \* the ticks a running job has left
    wait,           \* the capacity wait of the partition
    cooldown,       \* ticks until another capacity wait may begin
    up, asked,      \* the pilots with a record; those that asked in this tick
    disturbed       \* what happened of MaxDisturbances

jobVars == <<node, mem, requeue, age, run, started, dependencies>>
vars    == <<state, jobVars, wait, cooldown, up, asked, disturbed>>

Waits      == [job : Jobs, node : Nodes, left : 0..MaxWait]
Placed(j)  == state[j] \in {"ASSIGNED", "RUNNING"}
HeldBy(n)  == {j \in Jobs : Placed(j) /\ node[j] = n}

(* _engine_headroom_locked(): a grant holds its memory at once.            *)
Headroom(n) == Memory[n] - SumFunctionOnSet(mem, HeldBy(n))

DispatchTypeOK ==
    /\ DependenciesTypeOK
    /\ node \in [Jobs -> Nodes \union {NoNode}]
    /\ \A j \in Jobs : node[j] \in IF Placed(j) THEN up ELSE {NoNode}
    /\ mem \in [Jobs -> Nat] /\ requeue \in [Jobs -> Nat]
    /\ age \in [Jobs -> 0..MinAge] /\ run \in [Jobs -> 0..MaxRun]
    /\ wait \in Waits \union {NoWait} /\ cooldown \in 0..Cooldown
    /\ asked \subseteq up /\ up \subseteq Nodes /\ disturbed \in 0..MaxDisturbances
    /\ \A n \in Nodes : Headroom(n) >= 0

DispatchInit ==
    /\ state = [j \in Jobs |-> "unknown"]
    /\ started = {}
    /\ dep = [j \in Jobs |-> Nothing]
    /\ met = [j \in Jobs |-> {}]
    /\ verdict = [j \in Jobs |-> "waiting"]
    /\ node = [j \in Jobs |-> NoNode]
    /\ mem = FirstMem /\ requeue = Retries
    /\ age = [j \in Jobs |-> 0] /\ run = [j \in Jobs |-> 0]
    /\ wait = NoWait /\ cooldown = 0
    /\ up = Nodes /\ asked = {} /\ disturbed = 0

-----------------------------------------------------------------------------
(* Clients, ends of jobs, pilots that come and go, time.                   *)

(* submit_job().                                                           *)
Submit(j) ==
    /\ state[j] = "unknown"
    /\ \E d \in Dependency[j] : Prepare(j, d)
    /\ state' = [state EXCEPT ![j] = "PENDING"]
    /\ UNCHANGED <<started, node, mem, requeue, age, run, wait, cooldown, up, asked, disturbed>>

(* job_done(), last branch: the record goes, the outcome stays; the next   *)
(* job of an endless supply is a new one.                                  *)
Leaves(j, outcome) ==
    LET next == IF j \in Endless THEN "unknown" ELSE outcome
    IN  /\ state' = [state EXCEPT ![j] = next]
        /\ started' = IF j \in Endless THEN started \ {j} ELSE started
        /\ node' = [node EXCEPT ![j] = NoNode]
        /\ run' = [run EXCEPT ![j] = 0]
        /\ age' = [age EXCEPT ![j] = 0]
        /\ requeue' = [requeue EXCEPT ![j] = Retries[j]]
        /\ mem' = [mem EXCEPT ![j] = FirstMem[j]]
        /\ UNCHANGED <<dependencies, wait, cooldown, up, asked, disturbed>>

(* job_done(), retry: twice the memory.                                    *)
Retry(j) ==
    /\ requeue[j] > 0
    /\ state' = [state EXCEPT ![j] = "REQUEUED"]
    /\ node' = [node EXCEPT ![j] = NoNode]
    /\ requeue' = [requeue EXCEPT ![j] = @ - 1]
    /\ mem' = [mem EXCEPT ![j] = 2 * @]
    /\ run' = [run EXCEPT ![j] = 0]
    /\ UNCHANGED <<age, started, dependencies, wait, cooldown, up, asked, disturbed>>

(* job_finished(): a success, a termination (never retried), a failure.    *)
(* A job of an endless supply takes at least a tick.                       *)
End(j) ==
    /\ state[j] = "RUNNING"
    /\ j \in Endless => run[j] < MaxRun
    /\ \/ Leaves(j, "COMPLETED")
       \/ Leaves(j, "CANCELLED")
       \/ requeue[j] = 0 /\ Leaves(j, "FAILED")
       \/ Retry(j)

(* cancel_job(): a running job loses its retries and is told to end.       *)
Cancel(j) ==
    /\ state[j] \in Active /\ j \notin Endless
    /\ \/ state[j] # "RUNNING" /\ Leaves(j, "CANCELLED")
       \/ /\ state[j] = "RUNNING" /\ requeue' = [requeue EXCEPT ![j] = 0]
          /\ UNCHANGED <<state, node, mem, age, run, started, dependencies,
                         wait, cooldown, up, asked, disturbed>>

(* engine_removed(): what ran is requeued, whatever its retries, what was  *)
(* only granted is pending again.                                          *)
EngineRemoved(n) ==
    LET lost    == {j \in HeldBy(n) : state[j] = "RUNNING"}
        retried == {j \in lost : requeue[j] > 0}
    IN  /\ n \in up /\ disturbed < MaxDisturbances
        /\ state' = [j \in Jobs |-> IF j \in lost THEN "REQUEUED"
                                    ELSE IF j \in HeldBy(n) THEN "PENDING" ELSE state[j]]
        /\ node' = [j \in Jobs |-> IF j \in HeldBy(n) THEN NoNode ELSE node[j]]
        /\ run' = [j \in Jobs |-> IF j \in lost THEN 0 ELSE run[j]]
        /\ requeue' = [j \in Jobs |-> IF j \in retried THEN requeue[j] - 1 ELSE requeue[j]]
        /\ mem' = [j \in Jobs |-> IF j \in retried THEN 2 * mem[j] ELSE mem[j]]
        /\ up' = up \ {n} /\ asked' = asked \ {n} /\ disturbed' = disturbed + 1
        /\ UNCHANGED <<age, started, dependencies, wait, cooldown>>

Register(n) ==
    /\ n \notin up
    /\ up' = up \union {n}
    /\ UNCHANGED <<state, jobVars, wait, cooldown, asked, disturbed>>

Less(n) == IF n > 0 THEN n - 1 ELSE 0

(* The next tick, after every pilot has asked and been served.             *)
Tick ==
    /\ asked = up
    /\ \A j \in Jobs : state[j] # "ASSIGNED" /\ (state[j] = "RUNNING" => run[j] > 0)
    /\ run' = [j \in Jobs |-> Less(run[j])]
    /\ age' = [j \in Jobs |-> IF state[j] \in Active /\ age[j] < MinAge
                              THEN age[j] + 1 ELSE age[j]]
    /\ wait' = IF wait = NoWait THEN wait ELSE [wait EXCEPT !.left = Less(@)]
    /\ cooldown' = Less(cooldown)
    /\ asked' = {}
    /\ UNCHANGED <<state, node, mem, requeue, started, dependencies, up, disturbed>>

-----------------------------------------------------------------------------
(* request_jobs().                                                         *)

(* _jobs_in_priority_order(): higher priorities first.  Equals come in the *)
(* order of submission or its reverse, unless an operator reorders them:   *)
(* any order.                                                              *)
Best(s) == {j \in s : \A i \in s : Priority[i] <= Priority[j]}

(* Mutant: every hole may be filled.                                       *)
FitsAnyHole(j, free, target) == mem[j] <= free

(* Mutant: the job that capacity was saved for is taken to fit.            *)
FitsIfProtected(j, free, target) == j = target \/ mem[j] <= free

(* _fits_free_capacity(): while a target is protected, jobs below its      *)
(* priority get only the surplus.                                          *)
FitsFreeCapacity(j, free, target) ==
    /\ mem[j] <= free
    /\ target # NoJob /\ target # j /\ Priority[j] < Priority[target] =>
           mem[j] + mem[target] <= free

(* eligible(check_free=False), for a job in the queue and for one that is  *)
(* granted to another pilot.                                               *)
EligibleQueued(j, n)   == Queued(j) /\ AllowsRun(j) /\ mem[j] <= Memory[n]
EligibleAssigned(j, n) == state[j] = "ASSIGNED" /\ node[j] # n /\ mem[j] <= Memory[n]

(* The wait is dropped by whoever asks once it has expired, its job or its *)
(* pilot is gone, or they no longer suit each other.                       *)
Invalid ==
    \/ wait.left = 0
    \/ ~Queued(wait.job) \/ ~AllowsRun(wait.job)
    \/ wait.node \notin up \/ mem[wait.job] > Memory[wait.node]
CooldownNow == IF wait # NoWait /\ wait.left = 0 THEN Cooldown ELSE cooldown

(* The jobs that a small one in front of a hole would delay: old enough,   *)
(* of higher priority than some job that fits the hole, too large for it.  *)
Contenders(n) ==
    LET fitting == {j \in Jobs : EligibleQueued(j, n) /\ mem[j] <= Headroom(n)}
    IN  {j \in Jobs : /\ EligibleQueued(j, n) /\ age[j] >= MinAge
                      /\ mem[j] > Headroom(n)
                      /\ \E i \in fitting : Priority[i] < Priority[j]}

(* Mutant: nobody waits for capacity.                                      *)
NobodyWaits(n) == {NoJob}

(* A new wait begins on a pilot that runs something, for the first of them.*)
NewTargets(n) ==
    IF /\ MaxWait > 0 /\ CooldownNow = 0 /\ Contenders(n) # {}
       /\ \E j \in HeldBy(n) : state[j] = "RUNNING"
    THEN Best(Contenders(n)) ELSE {NoJob}

(* Again and again the best of the jobs that still fit, where the best has *)
(* the highest priority and, among equals, the best shape for the pilot    *)
(* (any of them, here): the sets that may be taken, given the jobs that    *)
(* fit after each set.                                                     *)
Selections(fitting) ==
    LET after[g \in SUBSET Jobs] ==
            IF fitting[g] = {} THEN {g}
            ELSE UNION {after[g \union {j}] : j \in Best(fitting[g])}
    IN  after[{}]

(* What a pass may grant.  The window of 500 jobs holds the whole queue.   *)
Passes(n, target) ==
    LET candidates == {j \in Jobs : EligibleQueued(j, n)}
        Left(g)    == Headroom(n) - SumFunctionOnSet(mem, g)
        still(g)   == IF target \in g THEN NoJob ELSE target
    IN  Selections([g \in SUBSET Jobs |->
            {j \in candidates \ g : FitsFreeCapacity(j, Left(g), still(g))}])

(* The grants of other pilots that are moved to this one: again by         *)
(* priority, with what is left.                                            *)
Moves(n, target, granted) ==
    LET elsewhere == {j \in Jobs : EligibleAssigned(j, n)}
        Left(g)   == Headroom(n) - SumFunctionOnSet(mem, granted \union g)
        still     == IF target \in granted THEN NoJob ELSE target
    IN  Selections([g \in SUBSET Jobs |->
            {j \in elsewhere \ g : FitsFreeCapacity(j, Left(g), still)}])

(* The whole handler.  A chief acknowledges what it was granted before it  *)
(* asks again (a lost answer and its replay are in PilotScheduling), and   *)
(* so soon that the requests of others rarely come in between.             *)
RequestJobs(n) ==
    /\ n \in up
    /\ \A j \in HeldBy(n) : state[j] = "RUNNING"
    /\ disturbed' = disturbed + (IF \E j \in Jobs : state[j] = "ASSIGNED" THEN 1 ELSE 0)
    /\ disturbed' <= MaxDisturbances
    /\ LET kept    == wait # NoWait /\ ~Invalid
           targets == IF ~kept THEN NewTargets(n)
                      ELSE {IF wait.node = n THEN wait.job ELSE NoJob}
       IN  \E target \in targets :
              /\ \E granted \in Passes(n, target) :
                    \E moved \in Moves(n, target, granted) :
                       LET taken == granted \union moved
                       IN  /\ state' = [j \in Jobs |-> IF j \in taken THEN "ASSIGNED" ELSE state[j]]
                           /\ node' = [j \in Jobs |-> IF j \in taken THEN n ELSE node[j]]
              /\ wait' = IF kept THEN wait ELSE IF target = NoJob THEN NoWait
                         ELSE [job |-> target, node |-> n, left |-> MaxWait]
    /\ cooldown' = CooldownNow
    /\ Evaluated({j \in Jobs : Queued(j)})
    /\ asked' = asked \union {n}
    /\ UNCHANGED <<mem, requeue, age, run, started, up>>

(* can_run_assigned_job(), job_start(): first_starttime is set once.       *)
Acknowledge(j) ==
    /\ state[j] = "ASSIGNED"
    /\ state' = [state EXCEPT ![j] = "RUNNING"]
    /\ started' = started \union {j}
    /\ run' = [run EXCEPT ![j] = MaxRun]
    /\ UNCHANGED <<node, mem, requeue, age, dependencies, wait, cooldown, up, asked, disturbed>>

JobStep  == \E j \in Jobs : Submit(j) \/ End(j) \/ Cancel(j) \/ Acknowledge(j)
NodeStep == \E n \in Nodes : RequestJobs(n) \/ EngineRemoved(n) \/ Register(n)

DispatchNext == JobStep \/ NodeStep \/ Tick
DispatchSpec == DispatchInit /\ [][DispatchNext]_vars

(* What a chief does by itself within a tick (it asks every PING_INTERVAL  *)
(* seconds and acknowledges what it was granted), a job that reaches its   *)
(* longest run, an allocation that is replaced, and time.                  *)
Clockwork ==
    \/ \E n \in Nodes : n \notin asked /\ RequestJobs(n)
    \/ \E j \in Jobs : Acknowledge(j) \/ (run[j] = 0 /\ End(j))
    \/ Tick
FairDispatch == DispatchSpec /\ WF_vars(Clockwork) /\ \A n \in Nodes : WF_vars(Register(n))

-----------------------------------------------------------------------------
(* Properties.                                                             *)

(* The reference for dependencies, on the outcomes themselves.             *)
Fulfilled(d) ==
    IF d.mode = "any" THEN \E c \in d.conditions : Holds(c) ELSE \A c \in d.conditions : Holds(c)
Hopeless(d) ==
    IF d.mode = "any" THEN \A c \in d.conditions : Impossible(c)
    ELSE \E c \in d.conditions : Impossible(c)
Singleton(d) == d.mode = "all" /\ \E c \in d.conditions : c.type = "singleton"

(* A job is granted or runs only when the outcomes of the others say that  *)
(* its dependency holds, whenever it was evaluated and however often it    *)
(* was requeued since; of the singletons of a name at most one is granted  *)
(* or runs.                                                                *)
DependenciesKept ==
    /\ \A j \in Jobs : Placed(j) => dep[j] = Nothing \/ Fulfilled(dep[j])
    /\ \A i, j \in Jobs :
          /\ i # j /\ JobName[i] = JobName[j]
          /\ Singleton(dep[i]) /\ Singleton(dep[j])
          => ~(Placed(i) /\ Placed(j))

(* While a pilot saves its free memory for a job, what it takes of lower   *)
(* priority leaves that job's memory free: each job that ends there brings *)
(* the large one closer.                                                   *)
SlotIsCollected ==
    [][\A n \in Nodes :
        LET target == wait'.job
            new    == HeldBy(n)' \ HeldBy(n)
            lower  == {j \in new : Priority[j] < Priority[target]}
        IN  /\ wait' # NoWait /\ wait'.node = n
            /\ state'[target] \in QueueStates /\ lower # {}
            => Headroom(n)' + SumFunctionOnSet(mem, new \ lower) >= mem[target]]_vars

(* Every job ends, unless its dependency has become impossible: nothing    *)
(* waits for ever for its dependencies, and an endless supply of small     *)
(* jobs of lower priority does not starve a large one.                     *)
JobsSettle ==
    \A j \in Jobs \ Endless :
        state[j] \in Active ~> (Over(j) \/ Hopeless(dep[j]))
=============================================================================
