------------------------------- MODULE Chief -------------------------------
(***************************************************************************)
(* The pilot worker (src/zslurm_chief with src/zslurm_startup.py): its     *)
(* main loop, its monitor threads and its end.  Every operator is the      *)
(* local half of a step; PilotScheduling joins it with the manager's half. *)
(*                                                                         *)
(* pc is the place in the main loop:                                       *)
(*   boot    registering                                                   *)
(*   report  while status.return_codes: job_finished()                     *)
(*   grant   about to ask for jobs, or to retry a kept batch               *)
(*   ack     acknowledging the batch one by one, status.lock held          *)
(*   start   run_ready() / cancel_all() and the exit test                  *)
(*   poll    poll() and the commands it returns                            *)
(*   rereg   poll() answered REREGISTER: about to register again           *)
(*   exit    the loop is left and the children are gone; unregister()      *)
(*   dead    no process                                                    *)
(***************************************************************************)
EXTENDS Pilots

VARIABLES
    pc,         \* the place in the main loop, see above
    mode,       \* RUNNING or STOPPING
    batch,      \* the grants still to be acknowledged in this pass
    assigned,   \* status.assigned_jobs: grants kept for a later pass
    pending,    \* job_starter.pending: acknowledged, not yet spawned
    running,    \* status.running_processes
    doomed,     \* the running children that have been sent SIGTERM/SIGKILL
    codes,      \* status.return_codes
    freeSlots   \* status.current_cpu

chiefVars == <<pc, mode, batch, assigned, pending, running, doomed, codes, freeSlots>>

Locations == {"boot", "report", "grant", "ack", "start", "poll", "rereg", "exit", "dead"}

ChiefTypeOK ==
    /\ pc \in [Engines -> Locations]
    /\ mode \in [Engines -> {"RUNNING", "STOPPING"}]
    /\ batch \in [Engines -> SUBSET Jobs]
    /\ assigned \in [Engines -> SUBSET Jobs]
    /\ pending \in [Engines -> SUBSET Jobs]
    /\ running \in [Engines -> SUBSET Jobs]
    /\ doomed \in [Engines -> SUBSET Jobs]
    /\ codes \in [Engines -> [Jobs -> ChildCodes \union {NoCode}]]
    /\ freeSlots \in [Engines -> Int]

NoCodes == [j \in Jobs |-> NoCode]

ChiefInit ==
    /\ pc = [e \in Engines |-> "boot"]
    /\ mode = [e \in Engines |-> "RUNNING"]
    /\ batch = [e \in Engines |-> {}]
    /\ assigned = [e \in Engines |-> {}]
    /\ pending = [e \in Engines |-> {}]
    /\ running = [e \in Engines |-> {}]
    /\ doomed = [e \in Engines |-> {}]
    /\ codes = [e \in Engines |-> NoCodes]
    /\ freeSlots = [e \in Engines |-> Slots]

Unreported(e) == {j \in Jobs : codes[e][j] # NoCode}
Alive(e)      == pc[e] \notin {"exit", "dead"}
(* Mutant: a heartbeat without the deferred starts.                        *)
KnownStarted(e) == running[e] \union Unreported(e)
(* The jobs a heartbeat names.                                             *)
Known(e)      == pending[e] \union running[e] \union Unreported(e)
GoTo(e, place) == pc' = [pc EXCEPT ![e] = place]

-----------------------------------------------------------------------------
(* Reporting.                                                              *)

ReportDelivered(e, j) ==
    /\ codes' = [codes EXCEPT ![e][j] = NoCode]
    /\ UNCHANGED <<pc, mode, batch, assigned, pending, running, doomed, freeSlots>>

NothingToReport(e) ==
    /\ pc[e] = "report" /\ Unreported(e) = {}
    /\ GoTo(e, "grant")
    /\ UNCHANGED <<mode, batch, assigned, pending, running, doomed, codes, freeSlots>>

-----------------------------------------------------------------------------
(* Taking grants.                                                          *)

AsksForJobs(e) == mode[e] = "RUNNING" /\ pending[e] = {} /\ freeSlots[e] > 0

(* No grants in this pass.                                                 *)
SkipGrants(e) ==
    /\ pc[e] = "grant"
    /\ GoTo(e, "start")
    /\ UNCHANGED <<mode, batch, assigned, pending, running, doomed, codes, freeSlots>>

TakeBatch(e, jobs) ==
    /\ batch' = [batch EXCEPT ![e] = jobs]
    /\ GoTo(e, IF jobs = {} THEN "start" ELSE "ack")
    /\ UNCHANGED <<mode, assigned, pending, running, doomed, codes, freeSlots>>

RetryKeptGrants(e) ==
    /\ pc[e] = "grant" /\ AsksForJobs(e) /\ assigned[e] # {}
    /\ TakeBatch(e, assigned[e])

(* One job of the batch is dealt with; the last one ends the pass.         *)
Handled(e, j) ==
    /\ batch' = [batch EXCEPT ![e] = @ \ {j}]
    /\ GoTo(e, IF batch[e] = {j} THEN "start" ELSE "ack")

(* Mutant: only deferred starts are recognised.                            *)
AlreadyPending(e, j) == j \in pending[e]

(* A job this chief already runs or is about to start.                     *)
AlreadyHere(e, j) == j \in running[e] \union pending[e]

SkipKnownGrant(e, j) ==
    /\ pc[e] = "ack" /\ j \in batch[e] /\ AlreadyHere(e, j)
    /\ Handled(e, j)
    /\ UNCHANGED <<mode, assigned, pending, running, doomed, codes, freeSlots>>

(* The grant is kept for a later pass: it does not fit, or its             *)
(* acknowledgement got no answer.                                          *)
KeepGrant(e, j) ==
    /\ Handled(e, j)
    /\ assigned' = [assigned EXCEPT ![e] = @ \union {j}]
    /\ UNCHANGED <<mode, pending, running, doomed, codes, freeSlots>>

Acknowledges(e, j) ==
    pc[e] = "ack" /\ j \in batch[e] /\ ~AlreadyHere(e, j) /\ freeSlots[e] >= 1

(* Permission given: DeferredJobStarts.claim() takes the slot.             *)
ClaimGrant(e, j) ==
    /\ Handled(e, j)
    /\ assigned' = [assigned EXCEPT ![e] = @ \ {j}]
    /\ pending' = [pending EXCEPT ![e] = @ \union {j}]
    /\ freeSlots' = [freeSlots EXCEPT ![e] = @ - 1]
    /\ UNCHANGED <<mode, running, doomed, codes>>

DropGrant(e, j) ==
    /\ Handled(e, j)
    /\ assigned' = [assigned EXCEPT ![e] = @ \ {j}]
    /\ UNCHANGED <<mode, pending, running, doomed, codes, freeSlots>>

-----------------------------------------------------------------------------
(* Starting children.                                                      *)

StartChild(e, j) ==
    /\ pc[e] = "start" /\ mode[e] = "RUNNING" /\ j \in pending[e]
    /\ pending' = [pending EXCEPT ![e] = @ \ {j}]
    /\ running' = [running EXCEPT ![e] = @ \union {j}]
    /\ UNCHANGED <<pc, mode, batch, assigned, doomed, codes, freeSlots>>

(* DeferredJobStarts.cancel() for every job of D.                          *)
CancelPending(e, D) ==
    /\ pending' = [pending EXCEPT ![e] = @ \ D]
    /\ freeSlots' = [freeSlots EXCEPT ![e] = @ + Cardinality(D \intersect pending[e])]
    /\ codes' = [codes EXCEPT ![e] =
                    [j \in Jobs |-> IF j \in D \intersect pending[e] THEN "FAILURE" ELSE @[j]]]

(* A start that fails for good; a transient failure leaves the job pending *)
(* until a later pass, which is FinishStarts.                              *)
StartFails(e, j) ==
    /\ pc[e] = "start" /\ mode[e] = "RUNNING" /\ j \in pending[e]
    /\ CancelPending(e, {j})
    /\ UNCHANGED <<pc, mode, batch, assigned, running, doomed>>

FinishStarts(e) ==
    /\ pc[e] = "start"
    /\ \/ /\ mode[e] = "RUNNING"
          /\ GoTo(e, "poll")
          /\ UNCHANGED <<pending, codes, freeSlots>>
       \/ /\ mode[e] = "STOPPING"
          /\ CancelPending(e, pending[e])
          /\ GoTo(e, IF running[e] = {} /\ pending[e] = {} /\ Unreported(e) = {}
                     THEN "exit" ELSE "poll")
    /\ UNCHANGED <<mode, batch, assigned, running, doomed>>

-----------------------------------------------------------------------------
(* The answers to a poll.                                                  *)

(* STOP and DEASSIGN as they arrive, then CANCEL: a pending start is       *)
(* withdrawn, a child is terminated and, ten seconds later, killed.        *)
ObeyCommands(e, stop, deassign, cancel) ==
    LET withdrawn == IF stop THEN pending[e] ELSE cancel
    IN  /\ pc[e] = "poll" /\ GoTo(e, "report")
        /\ mode' = [mode EXCEPT ![e] = IF stop THEN "STOPPING" ELSE @]
        /\ assigned' = [assigned EXCEPT ![e] = @ \ deassign]
        /\ CancelPending(e, withdrawn)
        /\ doomed' = [doomed EXCEPT ![e] = @ \union (cancel \intersect running[e])]
        /\ UNCHANGED <<batch, running>>

(* No answer: go on, or stop after PING_TIMEOUT without one.               *)
PollUnanswered(e) ==
    /\ pc[e] = "poll" /\ GoTo(e, "report")
    /\ \E m \in {mode[e], "STOPPING"} : mode' = [mode EXCEPT ![e] = m]
    /\ UNCHANGED <<batch, assigned, pending, running, doomed, codes, freeSlots>>

(* The manager does not know this engine.                                  *)
ObeyReregister(e) ==
    /\ pc[e] = "poll" /\ GoTo(e, "rereg")
    /\ UNCHANGED <<mode, batch, assigned, pending, running, doomed, codes, freeSlots>>

Registered(e) ==
    /\ pc[e] \in {"boot", "rereg"} /\ GoTo(e, "report")
    /\ UNCHANGED <<mode, batch, assigned, pending, running, doomed, codes, freeSlots>>

-----------------------------------------------------------------------------
(* Children and the process itself.                                        *)

(* Mutant: the slot of a child that exits is not given back.               *)
ChildExitsWithSlot(e, j, rc) ==
    /\ pc[e] # "ack" /\ j \in running[e]
    /\ running' = [running EXCEPT ![e] = @ \ {j}]
    /\ doomed' = [doomed EXCEPT ![e] = @ \ {j}]
    /\ codes' = [codes EXCEPT ![e][j] = rc]
    /\ UNCHANGED <<pc, mode, batch, assigned, pending, freeSlots>>

(* job_monitor(): the exit of a child, under status.lock.                  *)
ChildExits(e, j, rc) ==
    /\ pc[e] # "ack" /\ j \in running[e]
    /\ running' = [running EXCEPT ![e] = @ \ {j}]
    /\ doomed' = [doomed EXCEPT ![e] = @ \ {j}]
    /\ codes' = [codes EXCEPT ![e][j] = rc]
    /\ freeSlots' = [freeSlots EXCEPT ![e] = @ + 1]
    /\ UNCHANGED <<pc, mode, batch, assigned, pending>>

(* The process, its children and its memory are gone.                      *)
LoseState(e, place) ==
    /\ GoTo(e, place)
    /\ mode' = [mode EXCEPT ![e] = "STOPPING"]
    /\ batch' = [batch EXCEPT ![e] = {}]
    /\ assigned' = [assigned EXCEPT ![e] = {}]
    /\ pending' = [pending EXCEPT ![e] = {}]
    /\ running' = [running EXCEPT ![e] = {}]
    /\ doomed' = [doomed EXCEPT ![e] = {}]
    /\ codes' = [codes EXCEPT ![e] = NoCodes]
    /\ freeSlots' = [freeSlots EXCEPT ![e] = Slots]

(* A node failure or SIGKILL.                                              *)
Die(e) == pc[e] # "dead" /\ LoseState(e, "dead")

(* SIGTERM: handler() and the final except clause end the children, and    *)
(* only unregister() is left.                                              *)
Terminate(e) == Alive(e) /\ pc[e] # "boot" /\ LoseState(e, "exit")

(* unregister() has been sent, answered or not.                            *)
Leave(e) == pc[e] = "exit" /\ LoseState(e, "dead")

NewPilot(e) ==
    /\ pc[e] = "dead"
    /\ GoTo(e, "boot")
    /\ mode' = [mode EXCEPT ![e] = "RUNNING"]
    /\ UNCHANGED <<batch, assigned, pending, running, doomed, codes, freeSlots>>
=============================================================================
