# ZSlurm: specification, model checking and proofs

ZSlurm packs many small jobs onto whole-node Slurm allocations. A **manager**
(`zslurm`) keeps the queue and the fleet; in every allocation (a *pilot*, called an
*engine* in the manager) a worker, the **chief** (`zslurm_chief`), registers, asks for
jobs, spawns them and reports their ends. The manager never calls a chief: everything
travels in RPCs of the chief and in their answers, any of which may be lost.

This directory holds TLA+ modules translated from the source, TLC configurations that
check them on small instances, and proofs of the main safety properties for every
instance. Paths such as `zslurm:3897` are file and line of the repository.

## 1. Inventory

| Part | State | Operations | Who calls it |
|---|---|---|---|
| **Job table** `JobManager` (`zslurm`, under the re-entrant `jobs.lock`) | `jobs_by_id` with state, `node_id`, `requeue`, `heartbeat_miss_count`, held shape, storage and transfer counters, dependency outcomes | `submit_job`, `cancel_job`, `request_jobs`, `can_run_assigned_job`, `job_finished`/`job_done`, `reconcile_engine_heartbeat`, `engine_removed`, `resize_running_job` | clients (port + 1), chiefs (port), controller |
| **Engine table** `EngineManager` (`zslurm`, under `engines.lock`) | `engine_by_id` with status, `stopping`, `jobs`, `pending_commands`, resource ledger, Slurm observation | `register`, `poll`, `unregister`, `toggle_phasing_out`, `stop_slurm`/`cancel_cid`, `reconcile_timed_out_engine`, hold and release | chiefs, operator, controller |
| **Chief main loop** (`zslurm_chief`) | `status.assigned_jobs`, `running_processes`, `return_codes`, `current_cpu/mem`, mode | report, ask, acknowledge, start, poll, obey, unregister | one thread, plus one monitor thread per child, under `status.lock` |
| **Deferred starts** (`zslurm_startup.py`) | `pending`, `owned`, attempts | `claim`, `run_ready`, `cancel`, `cancel_all` | main loop |
| **Per-job leases** (`zslurm_lease.py`) | per-job targets, pending acquire | acquire, release, set target | socket threads of the chief |
| **Controller** (`zslurm`, `thread_check_commands`) | squeue snapshot, autogrow memory | fence and removal of silent chiefs, observation, autogrow, consolidation, drain | one thread |
| **Dependencies** (`zslurm`) | per job: conditions, which were met, a verdict; outcomes of ended jobs | prepare at submission; evaluate after, afterany, afterok, afternotok, singleton | `submit_job`, `request_jobs`, listings |
| **Packing** (`zslurm`, in `request_jobs`) | capacity wait of one protected job | priority order, LIFO/FIFO, protected headroom | `request_jobs` |
| **Resource ledger** (`zslurm`) | storage budgets, SSD, reserved cores and memory | reserve and release on every job transition | job table |
| **GPU devices** (`zslurm_gpu.py`) | device ids per engine and job | reserve, release, fence of acknowledgements | job table |
| **Handover** (`zslurm`) | handover phase, snapshot, forwarding | prepare, receive, activate, commit, abort | operator, target manager, chiefs |
| **Coordination** (`zslurm_coord.py`) | owner record, agent leases, file lock | claim, renew, release, provision, tear down | agents |
| RPC helpers, clients, configuration, reports | none that is shared | formatting, parsing, one RPC each | users |

**How they interact.** A grant takes two phases. `request_jobs` makes queued jobs
ASSIGNED to the asking engine; the chief then acknowledges them one at a time with
`can_run_assigned_job`, which makes a job RUNNING and is the permission to start it. An
ASSIGNED job that has not been acknowledged may be taken over by another engine that
asks. The chief claims a slot and defers the start (`DeferredJobStarts`); a monitor
thread turns the exit into a return code; the main loop delivers codes with
`job_finished`. The heartbeat (`poll`) names every job the chief knows, so that the
manager can requeue a job that is RUNNING in its table but unknown to its chief, and it
brings back CANCEL, DEASSIGN, STOP and REREGISTER. A chief silent for `TIMEOUT` is
fenced (`engine.stopping`), `scancel` is sent, and only when Slurm confirms the end are
its jobs requeued.

**What is hard**, and what makes each part correct:

* *Grant protocol* (lost answers, replays, thefts, stale grants): no job has two
  processes; whatever a chief holds is RUNNING on it in the job table; grants that were
  lost come back; jobs end.
* *End of pilots* (silence, kill, SIGTERM, operator stop, re-registration): jobs are
  requeued once and only when their processes are gone; a fenced pilot takes nothing.
* *Ledgers* (transfer slots, slots of a pilot, the chief's free counter): each quantity
  equals what the jobs account for, on every path; limits are kept.
* *Cancelling*: a cancel reaches a job in whatever place it is.
* *Dependencies and packing*: a job starts only when the outcomes of others say so;
  strict priorities and free memory; small jobs must not starve a large one.
* *Devices and storage*: a child computes on devices reserved for its job; what is in
  use is what jobs claim, on each of the paths by which a grant ends.
* *Leases*: the books of chief and manager agree whatever answers are lost; growth is
  served in order and its queue never blocks the pilot.
* *Handover*: one manager schedules; no submission, child or accepted end is lost or
  repeated; every chief arrives.
* *Coordination*: agents that share one manager pay for one, stop none in use, submit
  once per key, whichever of them dies where.
* *Locks*: the threads that nest `jobs.lock` and `engines.lock` must not wait for each
  other.
* *Observation, holds, autogrow, consolidation*: listed with their hazards in
  `PROJECT.json`, not modelled (section 8).

## 2. Modules

```
Pilots                     jobs, engines, codes, states
  JobManager               tables of the manager: one operator per handler
  Chief                    the worker: main loop, deferred starts, monitors, end
    PilotScheduling        joins both halves of every step; faults; fairness; properties
      MCPilotScheduling    instances for TLC (symmetry)
JobLease                   abstract: what the scheduler promises about a job
                           (implemented by PilotScheduling and by Handover)
Leases        MCLeases     the lease server of a chief and the manager's bookings
GrantLedger   MCGrantLedger    GPU devices and storage along the paths of a grant
Dependencies               what a queued job waits for
  Dispatch    MCDispatch   which queued jobs a pilot gets: priorities, memory, waits
Handover      MCHandover   two managers, the chiefs between them, instance records
Coordination  MCCoordination   agents, file lock, owner marker, leases, submissions
ManagerLocks               the order in which handlers take the two locks

SumLemmas                  induction on finite sets, sums over them
PilotSchedulingProofs  ->  LedgerProofs (with SumLemmas: the counters; the refinement)
GrantLedgerProofs, LeasesProofs, DispatchProofs (with SumLemmas)
CoordinationProofs, HandoverProofs
```

The modules cut the system by question. `PilotScheduling` has every fault of the RPCs
between one manager and its chiefs, and jobs of one slot. The others take a grant as it
is shown to behave there and add what it leaves out: shapes and what may change them
(`Leases`), devices and storage (`GrantLedger`), choice (`Dispatch`), a second manager
(`Handover`), and the agents outside (`Coordination`).

### 2.1 PilotScheduling

`JobManager` and `Chief` constrain only their own variables. An action of
`PilotScheduling` is an RPC: the handler's operator in conjunction with the chief's
reaction to the answer, or with its reaction to no answer.

| Module | Variable | Code |
|---|---|---|
| `JobManager` | `state`, `node`, `requeue`, `misses` | `job.state`, `node_id`, `requeue`, `heartbeat_miss_count`; a terminal state stands for the removal from `jobs_by_id` |
| | `transferInUse` | `dcache_*_inuse`, `s3_download_inuse` |
| | `registered`, `stopping`, `phasing` | keys of `engine_by_id`, `engine.stopping`, status PHASING_OUT |
| | `engineJobs`, `cancelCmds`, `deassignCmds` | `engine.jobs`, `engine.pending_commands` |
| | `cancelled` | history only: plain cancels accepted |
| `Chief` | `pc`, `mode` | place in the main loop, RUNNING / STOPPING |
| | `batch`, `assigned`, `pending` | the tuples being acknowledged, `status.assigned_jobs`, `job_starter.pending` |
| | `running`, `doomed`, `codes`, `freeSlots` | `running_processes`, children that were signalled, `return_codes`, `current_cpu` |
| `PilotScheduling` | `budget`, `condemned` | how many faults are left; live allocations whose `scancel` was accepted |

**Atomicity.** A handler runs under `jobs.lock` and the chief waits for its answer, so
an RPC is one step. While it acknowledges (`pc = "ack"`) the chief holds `status.lock`,
so no monitor thread records an exit then; everywhere else exits interleave with the
loop. Two RPCs of one chief are separate steps, between which any other chief, client,
operator or controller step may come.

**Abstractions.**

* A job is one slot wide. The tests of `request_jobs` on shape, partition, wall time,
  SSD, GPU, storage, dependencies, priority and capacity waits may refuse any queued
  job: any part of the queue that fits headroom and transfer limit may be granted.
* `GrantChecks` is the outcome of the tests that `can_run_assigned_job` makes besides
  ownership, fence and headroom (SSD, monitor role, GPU devices).
* Measured memory and a lease acquisition in progress are a *shortage*: the pass takes
  no grants, or one grant is kept (`MaxShortages` times).
* The time graces of the heartbeat (180 s) are folded into `MissLimit`: a miss is one
  that counts.
* Return codes are the five classes `job_done` tells apart.
* A chief registers under its own allocation; the id is used by a new pilot only after
  the old one is unregistered and dead.
* A live chief is silent for `TIMEOUT` only because its calls are lost, so fencing it
  spends a loss.
* The commands DIE and MIGRATE_MANAGER, a DENIED registration, partition counters, and
  what only reporting uses are left out.

`JobLease` is the promise: at most one holder; only the holder executes; a job goes back
to the queue, moves or ends only while it has no process. `ImplementsLease` is
`Lease!Spec` under `phase <- PhaseOf(state)`, `holder <- node`,
`exec <- {e : j \in running[e]}`.

### 2.2 Leases

`free`, `held`, `applied`, `observed`, `waiters` are `current_cpu/mem`, the per-job
targets, the release ids seen, the measured memory and the FIFO of growth requests of
`ChiefLeaseController`; `issued` and `lease` count attempts and name the one whose token
is valid; `req` is one socket thread per request; `local` is where the chief has a job
and `ended` its unreported codes; `registered` is whether the manager has a record of the
engine, `state` and `booked` are its job state and `held_ncpu/held_mem` on this engine.
`lost`, `unchecked` and `cut` are history. Actions:

* grants: `Grant` (`request_jobs`), `MoveGrant` and `Deassign` (it is moved, the chief is
  told), `StartGrant` (the acknowledgement, whose answer may be lost and which a kept
  grant repeats);
* the chief: `Spawn`, `SpawnFails`, `DiscardPrepared`, `CancelStart`, `ChildExits`,
  `UseMemory`, and `Report`, also twice;
* the manager behind the chief's back: `RemoveEngine` (all its jobs go back to the queue,
  their children live on), `Reregister`, `LostGrant` (requeued by a heartbeat that did not
  name the job), and `Adopt`;
* the threads: `Send`, `Deny`, `SetTarget`, `Recheck` after a wait, `Expire`,
  `ReleaseResources`. The call of `resize_running_job` is made under the lock and is part
  of the step, with its three outcomes: agreed, refused, answer lost.

**Adoption.** A heartbeat that names a job which the manager has in its queue, or granted
but not acknowledged, makes it RUNNING again (`zslurm:6594-6608`, `Job.started`,
`1469-1485`): `held_*` is its complete request again, whatever its lease holds, and no
capacity is tested, whatever was granted in between. So after an adoption the two ledgers
differ without any lost answer, and the engine may be overbooked. `unchecked` are the
jobs whose present booking was not tested: they were adopted (also from an unacknowledged
grant), or granted or acknowledged while the engine was not known (there is nothing to
test against then, `zslurm:3257`). A resize that changes the reservation tests it and
takes the job out of the set. The properties say what the code keeps in spite of this: an adopted job is
booked at not less than its lease (`LedgersAgree`); what is tested fits
(`EngineNotOverbooked`); and every test counts the adopted jobs, so an overbooked engine
is given nothing more (`OverbookedTakesNothing`, the promise of `docs/operations.md:43`).

Abstracted: phases and usage reports (`mark_phase`, `record_usage`), what one job may
ask for in a second dimension of time; the removal of an engine and the requeue of its
jobs are one step; a heartbeat is handled when it is built (late ones are in
`PilotScheduling`), and adopts or declares lost one job at a time; a job's request is
fixed, so the doubling of its memory by a retry (`zslurm:4267`) is left out; shape,
fence (`stopping`) and `res_cpu_reserved` are possible refusals of an acknowledgement,
and a grant may be kept for them; there is one pilot, and QUEUED also stands for a job
that another one has, which the code adopts only while it is not RUNNING there. A job's
memory use may grow only while the observed floor fits the lease (`Overshoot = FALSE`,
section 6).

### 2.3 GrantLedger

`alloc` is `engine.gpu_allocations`, `devs` the devices tagged in `job.env`, `hand` what a
chief holds of a job (a grant, a start, a child, with the devices it was told), `inUse`
one storage budget, `astray` the jobs that were moved after a grant had reserved devices. Each way a grant can go is an
action: granted, replayed, moved, refused, started, lost, lost with its pilot, dismissed
with its pilot, adopted from a heartbeat, reported (also twice), cancelled.
A job gives back at its end no more than it took (`EndUse <= StartUse`).

### 2.4 Dependencies and Dispatch

`Dependencies` has `dep`, `met` and `verdict` (`dependency_spec`,
`dependency_satisfied_conditions`, and the two latches); an ended job keeps its terminal
state, which is `dependency_history`. Conditions are evaluated at submission and by every
request, in any order. `Dispatch` is `request_jobs` as one step: the wait that is kept,
dropped or begun (`Invalid`, `Contenders`, `NewTargets`), the greedy pass over the queue
(`Passes`), and the unacknowledged grants of others that are moved (`Moves`); both are
`Selections`, the recursive function that takes the best job that fits until none does. `wait` and
`cooldown` are `capacity_waits` and `capacity_wait_cooldowns` of one partition. Time is a
`Tick` in which every pilot has asked at least once and acknowledged its grants.

Abstracted: memory stands for both dimensions and the advertised free memory for the
manager's own headroom; the window of 500 candidates holds the whole queue; among equal
priorities any order (LIFO, FIFO, scores and the operator's reordering); no SSD, GPU,
storage, transfer slots, walltime left, draining pilots or `after` delays. Jobs of the endless
supply take at least a tick, and requests that overtake an acknowledgement are
bounded (section 3).

### 2.5 Handover

Two managers `src` and `dst` with a job table and an engine table each, `mode` of both,
`record` (the instance record that chiefs and clients follow), the steps of
`handover_to` (`Begin`, `TakeLocks`, `Transfer`, `Redirect`, `Commit`, `Undo`) and of the
target (`Import`, `Activate`, `ReconcileOrphan`), and chiefs that boot, ask, acknowledge,
execute, report, heartbeat, are moved (`Migrate`) or find the new record by themselves
(`Reconnect`), leave and die. A call that arrives while the source prepares waits; after
the commit it is forwarded, except those that the source refuses.

Abstracted: one instance name; a record that cannot be written stays as it is; a chief
that boots may read a record just before it changes; an import that arrives late is a
lost answer; the source exits only after its name was redirected; no cancels, retries or
lost reports (they are in `PilotScheduling`), no second handover from the target.
`LateSpec` adds the calls that the locks hold up between the test of the mode and the
tables (`EnterLate`, `ReturnLate`).

### 2.6 Coordination

Agents on login hosts run `up`, `down`, `submit` and the reaper one command at a time,
step by step between any two file operations. `at` is the place of an agent's program with what it has read,
`owner` the marker with its phases, `lock` the `flock`, `lease` and `done` the agent
leases and idempotency records, `life` the managers, some of which are Slurm jobs and
others login processes, whose ids can be reused. Slurm may not answer `squeue`; `sbatch`
and `zsbatch` may fail, or time out after being accepted; an agent may be killed, which
drops its lock; a manager may end.

Abstracted: the ranking of `pick_instance`; a submit always has a key, and it asks
`adopt` for the manager, so `submit` without a key or with a named instance is not
modelled (`zslurm_coord.py:1061`, `1067`); one unsure `zsbatch` per key; the grace clock
of `zsreap`; `write_owner` under the lock is one step (without it, `ReadMarker` and
`Bind` are two); a manager that is ending may still answer.

### 2.7 ManagerLocks

A handler is the sequence in which it takes and returns the two `RLock`s; each server
thread executes one handler at a time.

## 3. Runs

| Run | Instance | What it shows |
|---|---|---|
| `pilot_faults` | 2 jobs, 2 pilots of 1 slot, 1 retry, 1 loss, 1 shortage, 1 kill; 527 k states | `TypeOK`, `AtMostOneExecution`, `ExecutionIsOwned`, `PilotCapacity`, `FencedTakesNothing`, `ImplementsLease` hold under every combination of these faults |
| `pilot_progress` | 1 job that needs the transfer slot, 2 pilots of 2 slots, 1 loss, 1 lost report, 1 kill, 1 operator stop, `FairSpec`; 166 k | `TransferBalanced`, `SlotsConserved` through adoption, replay and duplicate reports; `JobsTerminate` |
| `pilot_cancel` | 1 job that may run for ever, 2 pilots, refused starts, 1 cancel, 1 cancel for restart, 1 phase toggle, `CancelSpec` | `CancelTakesEffect` |
| `leases` | a wide and a narrow job, 2 requests, 1 release id, 3 sends, 2 attempts of the wide job, 1 of the narrow one; 941 k | `LeaseTypeOK`, `LedgersAgree`, `EngineNotOverbooked`, `OverbookedTakesNothing`, `ReleasedOnce`, `GrowthProtected`, `StaleRequestsHarmless`, `QueueDrains` |
| `grant_ledger` | 2 jobs, 2 pilots with 3 devices in all, budget 3, 4 grants; 1.5 M | `ChildHoldsDevices`, `NoSharedDevice`, `StorageBalanced` |
| `dispatch` | a parent (1 retry), a large job with one of 3 dependencies, 2 endless small jobs, pilots of 2 and 1 units, 1 disturbance; 302 k | `DispatchTypeOK`, `DependenciesKept`, `SlotIsCollected`, `JobsSettle` |
| `handover` | 1 job, 2 chiefs, 2 attempts, 2 losses, 1 unwritable record, 2 kills, 1 exit of the source; 355 k | `HandoverTypeOK`, `CompletionsKept`, `ChildrenOwned`, `HandoverIsInvisible`, `MigrationEnds` |
| `coordination` | 2 agents on two hosts, 2 managers, 1 key, 3 commands, 1 fault; 529 k | `CoordinationTypeOK`, `OneSelfManager`, `MarkerNamesManager`, `StopsOnlyOwn`, `SubmittedOnce`, `StopsNothingInUse`, `ReservationEnds` |
| `cancel_requeued` | violation | `CancelIsTerminal` does not hold (section 6) |
| `moved_grant` | violation | `QueuedHoldsNothing` does not hold |
| `late_call` | violation, `LateSpec` | `CompletionsKept` does not hold |
| `lock_order` | violation | `NoLockCycle` does not hold |

**Why these bounds are enough.**

* *Pilots.* The hazards need two chiefs (a stale holder and a competitor) and a job per
  slot plus one that competes; one slot makes the competition happen at once. One lost
  answer separates the two tables in each of the five kinds of RPC; one kill after it
  makes recovery run with separated tables. `MissLimit = 2` is the smallest value the
  code accepts (`zslurm:3998`). The ownership properties and the ledgers are proved for
  all bounds (section 5): the runs are the sanity check of the statements, and the
  arithmetic of several jobs in several slots and the transfer limit are left to the
  proofs.
* *Leases.* One job can grow only when the other shrinks, releases or ends; the third
  send lets a stale, a waiting and a competing request meet, and the second attempt
  reuses a job id. The pilot holds the wide job alone or, once it has shrunk, both: the
  shrunk job is taken back, the narrow one is granted, the wide one adopted at its full
  size, and the engine is overbooked. Grants, adoptions and removals have no bound.
* *GrantLedger.* Four grants are two of each job: a grant, its move or loss, and
  another one, while the other job takes the devices.
* *Dispatch.* Two small jobs can hold both units of the large pilot in turn for ever,
  which is the smallest starvation; `MaxWait = 2` is the shortest wait in which both
  end. The second pilot is needed for moved grants. A larger instance (`MinAge = 1`,
  515 k states) was explored once without a violation.
* *Handover.* Two attempts put a retry after a rollback; two chiefs can be on
  different sides. The safety part was explored once with two jobs (3.6 M states).
* *Coordination.* Every race of two commands with a third before or after them; with
  four commands the safety part and the inductive invariant were explored once
  (5.3 M states). A teardown together with a robbed marker needs four.

In a liveness run a fault budget is finite: without bound, losses alone would prevent
progress, in the code as in the model. `MaxDisturbances` of `dispatch` is such a budget
for a real weakness: a hole that is refilled by moving an unacknowledged grant of
another pilot arms no wait (the test at `zslurm:3603` looks at queued jobs only), nor
does a pilot that holds only grants (`zslurm:3600`); if that happened at every turn, the
large job would starve. `CHECK_DEADLOCK FALSE` stands where a system may stop: all jobs have ended, or
the commands and budgets are spent.

## 4. Fairness

* `WF(LoopStep(e))`: the chief's main loop is a thread that waits for nothing but RPC
  time-outs and sleeps. Its places follow one another, so one condition per chief is
  enough. It may use the losing branch of an RPC only while the budget lasts.
* `WF(Recovery(e))`: the controller loop (`thread_check_commands`) runs every few seconds; Slurm
  confirms the end of an allocation that has ended; autogrow or the operator starts
  another pilot.
* `WF(SlurmCancels(e))`: Slurm ends an allocation whose `scancel` it has accepted.
* `SF` for *requested*, *acknowledged*, *started*, *exited*: each of these is disabled
  and enabled again by other steps of the loop or by the other chief. Two chiefs that
  take an unacknowledged grant from each other for ever are excluded because the
  acknowledgement follows the answer at once while chiefs ask every `PING_INTERVAL`
  seconds; a request that never includes the job is excluded because the queue order
  reaches every job (starvation by packing is the subject of `Dispatch`).
* `FairSpec` assumes that children end by themselves; `CancelSpec` assumes only that a
  child that was signalled ends (SIGKILL follows after ten seconds), and nothing about
  grants.
* `Leases`, `WF(\E q : Wake(q))`: a waiting thread wakes up at least once a second
  (`condition.wait` of at most a second) and then sees that it can be served or that its
  deadline has passed.
* `Dispatch`, `WF(Clockwork)` and `WF(Register(n))`: chiefs ask and acknowledge, a job
  that has reached its longest run ends, time goes on, a lost pilot is replaced. Which
  pilot asks first, and which equal job is taken, is not constrained.
* `Handover`, `WF(Migrate \/ Reconnect)` of each chief, whose loop polls, and
  `WF(ReconcileOrphan)` of each, a call of the controller's loop.
* `Coordination`, `WF(AgentStep)` of each agent, a program that runs to its end or is
  killed, and `WF(Age)`: the reservation gets old by itself.

## 5. Proofs

Checked by TLAPS for every value of the constants that the named assumptions allow.
`PilotSchedulingProofs` holds the lemmas about the two halves of the protocol, its types,
fence and ownership, `LedgerProofs` its counters and the refinement; every other proof
module is about the module it is named after. Every safety invariant and every action
property that a run checks is a theorem. "Ownership assumptions" below are `MaxStops = 0`
and `MaxReportLosses = 0`; "no overshoot" is `Overshoot = FALSE`. What the modules assume
of their constants (`...Constants`) says that jobs, pilots and devices are finite sets,
that amounts and bounds are natural numbers, that a model value such as `NoJob` is none of
the jobs, and for `Dispatch` that a client's dependency is one the parser lets through
and names single jobs, not an endless supply.

| Theorem | Statement |
|---|---|
| `TypeCorrect` | `Spec => []TypeOK` |
| `FenceHolds` | `Spec => FencedTakesNothing`, with every fault allowed |
| `OwnershipHolds` | `Spec => []ExecutionIsOwned` under the ownership assumptions |
| `NoDoubleExecution` | `Spec => []AtMostOneExecution` under the ownership assumptions |
| `SlotsHold` | `Spec => []SlotsConserved`, with every fault allowed |
| `TransferHolds` | `Spec => []TransferBalanced`, with every fault allowed |
| `CapacityHolds` | `Spec => []PilotCapacity` under the ownership assumptions |
| `LimitHolds` | `Spec => []TransferWithinLimit` under the ownership assumptions |
| `LeaseImplemented` | `Spec => ImplementsLease` under the ownership assumptions |
| `DevicesHeld`, `DevicesExclusive`, `StorageHolds` | `GrantSpec => []ChildHoldsDevices`, `[]NoSharedDevice`, `[]StorageBalanced`, with every fault |
| `LeaseTypes`, `NotOverbooked`, `OverbookedStops`, `ReleaseCountsOnce`, `StaleHarmless` | `LeaseSpec => []LeaseTypeOK`, `[]EngineNotOverbooked`, `OverbookedTakesNothing`, `[]ReleasedOnce`, `StaleRequestsHarmless` |
| `LedgersHold`, `GrowthKeepsTurn` | `LeaseSpec => []LedgersAgree`, `GrowthProtected`, without overshoot |
| `DispatchTypes`, `DependenciesHold`, `SlotsAreCollected` | `DispatchSpec => []DispatchTypeOK`, `[]DependenciesKept`, `SlotIsCollected` |
| `CoordinationTyped`, `OneManager`, `MarkerTrue`, `OnlyOwnStopped`, `KeySubmittedOnce`, `NothingInUseStopped` | each safety property of `coordination`, for any agents, managers, keys and commands |
| `HandoverTyped`, `ChildrenStayOwned`, `CompletionsStay` | `HandoverSpec => []HandoverTypeOK`, `[]ChildrenOwned`, `[]CompletionsKept` |
| `HandoverImplementsLease` | `HandoverSpec => HandoverIsInvisible` |

*Types.* `TypeOK` is inductive: the lemmas `...Types` show it handler by handler, and
`StepHalves` puts the halves together. The same case split carries the fence: only
`ClaimGrant` adds a deferred start, and it needs `CanRun`, which refuses a fenced engine.

*Ownership.* `ExecutionIsOwned` (what a heartbeat of `e` names is RUNNING on `e`) is not
inductive: a chief whose job is both running and unreported would report it while it
runs, and a chief that had a known job in its batch would keep a grant for it. The
inductive invariant `OwnershipInv` adds the chief's bookkeeping:

* `OneStage`: a job is at most one of deferred, running, unreported;
* `GrantsUnknown`: what is in the batch or kept is not known;
* `GoneIsEmpty`: a chief that is gone knows no job.

The argument has two halves. In the manager, every handler leaves RUNNING jobs of other
engines alone (`KeepsRunning` lemmas): a heartbeat takes only jobs it does not name, a
report only the reported job, a removal only jobs of the removed engine. In the chief,
no step but a claim makes a job known (`KnownShrinks`), and the claim follows the answer
of `can_run_assigned_job` that made the job RUNNING. `AtMostOneExecution` follows, since
`node` is a function.

*Ledgers.* Each counter needs a relation between two pieces of state that the code keeps
without saying so. `SlotsInv`: a claimed job is deferred or running, never both, or its
slot would be given back twice. `TransferInv`: a job has a place exactly when it is
ASSIGNED or RUNNING, because some paths release by state and others by place; then each
path moves the counter by what it takes from or adds to the set of placed jobs. Neither
needs the ownership assumptions, so also adopted jobs and duplicate reports keep the sums.
`CapacityInv`: a chief that works is registered and an engine that is not registered holds
nothing, since `request_jobs` limits registered engines only; an operator stop breaks it.
`LimitHolds` needs ownership because an adopted job takes its transfer slot whatever is
left: a chief that owns all it knows has nothing adopted.

*Refinement.* `StepMoves` shows that each handler leaves a job with its holder, grants it
while it is queued or ASSIGNED, or lets it go. `ExecutionIsOwned` before the step then says
that a job that is granted, or let go without a report, has no process, and
`ChildrenKnown` (no step forgets a child while the manager changes its job) says the same
of a report. After the step, `ExecutionIsOwned` says that only the new holder executes.

*The two assumptions are needed.* `job_finished` does not compare the reporting engine
with `job.node_id`. If the answer to a report is lost, the manager has requeued the job
already; once another chief runs it, the repeated report ends or requeues that newer
attempt (`MaxReportLosses`). And `cancel_cid` unregisters an engine as soon as `scancel`
is accepted: its jobs are requeued while its children still run (`MaxStops`). Both are
part of the model, of the runs of the ledgers and of `SlotsHold` and `TransferHolds`; the
other theorems exclude them.

*Devices.* `ChildHoldsDevices` alone says nothing of the grant that becomes a child. The
invariant `LedgerInv` adds, job by job, that a grant's devices are reserved where it was
placed (`Placed`, `Reserved`), that a chief executes only what is RUNNING on it
(`Owned`), and that no two jobs share a device of a pilot (`Exclusive`). A moved grant
breaks the first two until it is refused or lost, so they speak of grants that were not
moved; that is exactly the gap `moved_grant` shows.

*Sums and recursion.* The library's induction theorems have an operator as parameter,
which the provers cannot instantiate. `FiniteInduction` and `CountingInduction`
(`SumLemmas`) state induction with a set instead: the set of the subsets, or numbers, of
which the statement is true. From the well-founded order on the subsets of a finite set
they give what the proofs need of `SumFunctionOnSet` (`SumTakeOut`, `SumSplit`,
`SumChange`, `SumPart`, ...), of `Only`, the list comprehension of the lease server
(`OnlyKeeps`), and of `Selections` (`SelectionsKeep`).

*Storage.* `StorageInv` adds to `LedgerInv` that a queued job is at no engine, and names
the set of completed astray jobs that were not counted; then every path of a grant
changes one summand, by what it adds to or takes from the budget, or adds one job to that
set, and the clamp at zero is never reached because a summand is at most its sum.

*Leases.* `BaseInv` needs no assumption on overshoot: a request's token was drawn for an
attempt and not for one still to come (`TokensDrawn`); a thread that waits with a valid
token is in the queue (`WaitersQueued`); a release that is not on record has taken nothing
off the lease (`CutWhenRecorded`); until its child runs a started job has its full
size at the manager (`StartedInFull`), and no lease is larger than that
(`HeldWithinMax`), so an adoption books at least the lease; and what was not tested is
booked (`UncheckedBooked`), so no grant starts from an untested record. Every step
does one of five things to the bookings (`StepFacts`): it leaves them alone, it clears
those of one job, it books one job tested against what all others have (`Fits` their
`Headroom`), it books one job untested, or it clears all of them. From
that follow `EngineNotOverbooked` (what is tested is at most what is booked, so what
fits the headroom also fits beside the tested jobs) and
`OverbookedTakesNothing` (a booking that grows is tested or untested; if it was tested,
it fits beside everything that is booked). `RoomInv` adds that a lease covers the memory that was observed
(`FloorHeld`), so that a release never asks for more than is held, and that free and held
capacity add up (`ChiefBalanced`). With overshoot a release grows a lease past what is
free (hazard at `zslurm_lease.py:1014`) and both `LedgersAgree` and `GrowthProtected`
fail, which is why their theorems exclude it.

*Dispatch.* What a pass takes is defined by recursion on the jobs taken so far.
`SolutionExists` constructs the function (as what can be reached by single steps) and
`SelectionsKeep` shows by induction on the jobs left that every selection lies in any set
that has the empty selection and is closed under taking one more job. For memory that set
is "the sum fits the headroom"; for the collected slot it is `LeavesRoom`: as long as the
large job is not taken itself, the smaller ones of lower priority leave its memory free.
It is kept over both stages, the queue and the moved grants. Dependencies need
`DispatchInv`: conditions that hold never cease to (`HoldsStays`, terminal states are
final and a first start is never unset), so latched conditions still hold (`MetHold`) and
verdicts stay earned (`VerdictsEarned`); and of two active singletons of a name one was
captured by the other at its submission (`SingletonsOrdered`), which only works because
the capture and the insertion are one critical section.

*Coordination.* `CoordinationInv` has six parts: `Typed`; `Locked`, at most one agent is
between taking and dropping the lock; `Once`, at most one manager not lost by a named
gap; `Guarded`, what the agent inside has read of marker and leases still holds;
`Fresh`, an id not yet used names nothing; `Marked`, the marker and the copies agents
have of it name the right manager. `OneSelfManager` needs `Guarded`: an agent decides on
what it read, and only the lock keeps that true. The named gaps are those in which the
code loses a manager from sight: `sbatch` timed out but accepted, a slow login manager,
a marker cleared unseen or taken back, a crash before the record.

*Handover.* `HandoverInv` is `Control` (types, the order of the steps, and which names
lead where), `Frozen` (after the commit the source's tables do not change), `Orderly`,
and `Queue`: children are RUNNING at the manager the record names, accepted ends are
DONE there, and an absent job is absent at both. The step that carries it is the
forwarding of calls (`ForwardsToAlias`): a call that a committed source receives takes
effect at the manager the record names. It speaks of `HandoverSpec`, in which no call is held
up between the test of the mode and the lock; `late_call` shows that the assumption
is needed.

*Model-checked only*: liveness, whose fairness conditions are beyond the prover
(`JobsTerminate`, `CancelTakesEffect`, `QueueDrains`, `JobsSettle`, `MigrationEnds`,
`ReservationEnds`), and the four violations of section 6.

## 6. Disagreements between text and code

* `zslurm:2976` says a normal cancel must be terminal in every state. A cancelled RUNNING
  job whose engine is unregistered before the child's end is reported becomes REQUEUED:
  `job_done` requeues `RC_ENGINE_TERMINATED` whatever the retries (`zslurm:4271`). Run
  `cancel_requeued`. `CancelTakesEffect` is therefore checked without kills.
* `docs/scheduling.md:382` says that devices are released after a rejected start. A grant
  that was moved keeps its devices on the first pilot; if the second refuses it or goes
  away, the job is queued with devices still reserved (`zslurm:3838`). Run `moved_grant`.
* `zslurm:4457` says that calls decide their destination only after commit or rollback.
  One that passes the test before the mode changes, or that gets the lock between mode
  and locks, ends its job in the abandoned tables (`zslurm:4460`). Run `late_call`.
* `zslurm:2667` and `zslurm:1960` say how a lock-order inversion is avoided. `cancel_job`
  and `request_jobs` take `engines.lock` under `jobs.lock`, `_unregister` called by the
  controller takes `jobs.lock` under `engines.lock` (`zslurm:6234`). Run `lock_order`.

Read in the code and not stated by a run:

* `zslurm:4043` says that a lost grant must not consume the retry allowance or inflate
  memory; `job_done(jobid, RC_ENGINE_TERMINATED)` takes the retry branch whenever
  `job.requeue > 0`.
* `zslurm:5203` says that the scheduler cannot dispatch to an unregistered chief;
  `request_jobs` serves an unknown id as a 24-core node (`zslurm:3276`).
* `down()` clears the marker of a manager that `squeue` did not answer for, or that is a
  process on another host (`zslurm_coord.py:941`). `prune_expired_leases` reads a lease and
  removes whatever has its name by then (`:244`), though `zsreap:42` calls it always safe.
  `up` writes the instance without the lock (`:917`).
* `is_idle` reads a field that `zsstatus` never prints, and a manager that comes up after
  `wait_s` keeps no instance: neither is ever idle for `down()`. Without an
  answer about its identity a job is cancelled (`:986`).
* A `zsbatch` that times out after it was accepted loses its claim, and a retry submits
  again; a crash after the claim leaves the key in flight for ever.
* A release that asks for less than the observed floor grows the lease
  (`zslurm_lease.py:1014`). A growth the manager refuses ends at once, though
  `docs/resources.md:230` says the request stays blocked.
* Adoption by `poll` books the full request with no test of the capacity
  (`zslurm:6608`), while the job's lease may be shrunk and what it gave back granted to
  others: the engine is overbooked until a job ends or is resized. The first
  property that fails is the plain sum of all bookings, which is why
  `EngineNotOverbooked` speaks of tested ones. `docs/operations.md:43` knows of "a
  pre-existing overbooked pilot" that "receives no additional work until its holdings fit
  again"; a further adoption does add to one, and a shrink on one that stays overbooked
  may be refused, since `resize_running_job` tests every changed target.
* Adoption by `poll` reserves storage and transfer slots, not GPU devices. A cancel of a job whose imported
  engine has not registered is lost (`zslurm:2990`).
* A lost answer to an activation, with its chief dead, leaves orphans unreconciled when
  autogrow is off; a lost answer to `receive_handover` leaves the target imported and
  blocks a retry; a record that is written but cannot be read back lets both managers
  schedule (comment at `zslurm:7372`).

## 7. Not modelled

Pure input and output (argument parsing, printing, report files, curses, plots), the XML-RPC
transport except for the loss of calls and answers, packaging, configuration files. The
child's resource monitoring is present only as its effects: an exit code and a shortage.
Also left out: SSD reservations and `res_cpu_reserved`; the backfill of draining pilots;
sizing of what an agent asks for (`_walltime_seconds`, `configure_self_manager`);
packing of pilots by GPU count (`pack_workers`).

Two components are left out as a whole. *Allocation observation and holds* and *autogrow
and consolidation* are arithmetic over `squeue` text, statistics and thresholds in
seconds; what they conclude (a pilot started, ended, was cancelled, is phasing out) are
events of `PilotScheduling`, in any order, so nothing there relies on their being right.

## 8. What is left

1. What still holds of ownership under lost reports and operator stops, and what is
   guaranteed when a poll's answer is lost.
2. SSD and reserved cores in `GrantLedger`; storage of jobs that remove more than they add.
3. Cancels and retries during a handover; a second handover from the target.
4. Hysteresis of the observation and the drain of pilots as modules of their own.
