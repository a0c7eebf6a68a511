---------------------------- MODULE Dependencies -----------------------------
(***************************************************************************)
(* What a queued job waits for (src/zslurm, _prepare_dependency_locked to  *)
(* _dependency_allows_run_locked).  A dependency is a set of conditions,   *)
(* of which all or any must hold.  It is evaluated now and then: whenever  *)
(* a scheduler pass or a listing asks; conditions that held once and       *)
(* verdicts are latched.  The outcome of a job that ended is kept for      *)
(* ever, so a terminal state here stands for an entry of                   *)
(* dependency_history.                                                     *)
(***************************************************************************)
EXTENDS Naturals, FiniteSets

CONSTANTS
    Jobs,
    JobName,        \* job.job_name, with the owner
    Dependency      \* the dependencies a client may submit a job with

VARIABLES
    state,          \* job.state; "unknown" before the submission
    started,        \* the jobs with a first_starttime
    dep,            \* job.dependency_spec
    met,            \* job.dependency_satisfied_conditions
    verdict         \* job.dependency_released, dependency_never_satisfied

dependencies == <<dep, met, verdict>>

QueueStates == {"PENDING", "REQUEUED"}
Active      == QueueStates \union {"ASSIGNED", "RUNNING"}
Terminal    == {"COMPLETED", "FAILED", "CANCELLED"}
Verdicts    == {"waiting", "satisfied", "never_satisfied"}

Queued(j) == state[j] \in QueueStates
Over(j)   == state[j] \in Terminal

(* A condition names the jobs it is about: one, or for singleton all that  *)
(* were active under the same name and owner at the submission.            *)
Conditions   == [type : {"after", "afterany", "afterok", "afternotok", "singleton"},
                 on : SUBSET Jobs]
Specs        == [mode : {"all", "any"}, conditions : SUBSET Conditions]
Nothing      == [mode |-> "all", conditions |-> {}]

ASSUME DependencyConstants ==
    IsFiniteSet(Jobs) /\ \A j \in Jobs : \A d \in Dependency[j] : d \in Specs

(* Mutant: a singleton looks only at jobs that run.                        *)
PredecessorsRunning(j) == {i \in Jobs : state[i] = "RUNNING" /\ JobName[i] = JobName[j]}

(* _prepare_dependency_locked(): singleton.                                *)
Predecessors(j) == {i \in Jobs : state[i] \in Active /\ JobName[i] = JobName[j]}

(* _prepare_dependency_locked(): the conditions that are kept with the job.*)
Prepared(j, d) ==
    LET Captured(c) == IF c.type = "singleton" THEN [c EXCEPT !.on = Predecessors(j)] ELSE c
    IN  [d EXCEPT !.conditions = {Captured(c) : c \in d.conditions}]

(* A dependency on a job that was never submitted is rejected.             *)
Acceptable(d) == \A c \in d.conditions : \A i \in c.on : state[i] # "unknown"

Successful(i) == state[i] = "COMPLETED"

(* _dependency_condition_status_locked().                                  *)
Holds(c) ==
    \A i \in c.on :
        CASE c.type = "after"      -> i \in started \/ Over(i)
          [] c.type = "afterok"    -> Over(i) /\ Successful(i)
          [] c.type = "afternotok" -> Over(i) /\ ~Successful(i)
          [] OTHER                 -> Over(i)
Impossible(c) ==
    \E i \in c.on :
        \/ c.type = "afterok" /\ Over(i) /\ ~Successful(i)
        \/ c.type = "afternotok" /\ Over(i) /\ Successful(i)

(* _dependency_status_locked(): the conditions latched by an evaluation.   *)
MetNow(j) == met[j] \union {c \in dep[j].conditions : Holds(c)}

Released(j) ==
    IF dep[j].mode = "any" THEN MetNow(j) # {} ELSE MetNow(j) = dep[j].conditions
NeverReleased(j) ==
    LET lost == {c \in dep[j].conditions \ MetNow(j) : Impossible(c)}
    IN  IF dep[j].mode = "any" THEN lost = dep[j].conditions ELSE lost # {}

(* _dependency_status_locked(): a verdict is final.                        *)
VerdictNow(j) ==
    CASE verdict[j] # "waiting" -> verdict[j]
      [] Released(j)            -> "satisfied"
      [] NeverReleased(j)       -> "never_satisfied"
      [] OTHER                  -> "waiting"

(* _dependency_allows_run_locked().                                        *)
AllowsRun(j) == VerdictNow(j) = "satisfied"

(* An evaluation of all queued jobs of D.                                  *)
Evaluated(D) ==
    /\ met' = [j \in Jobs |-> IF j \in D /\ verdict[j] = "waiting" THEN MetNow(j) ELSE met[j]]
    /\ verdict' = [j \in Jobs |-> IF j \in D THEN VerdictNow(j) ELSE verdict[j]]
    /\ dep' = dep

(* submit_job(): validation, capture and insertion in one critical section.*)
Prepare(j, d) ==
    /\ Acceptable(d)
    /\ dep' = [dep EXCEPT ![j] = Prepared(j, d)]
    /\ met' = [met EXCEPT ![j] = {}]
    /\ verdict' = [verdict EXCEPT ![j] = IF d = Nothing THEN "satisfied" ELSE "waiting"]

DependenciesTypeOK ==
    /\ state \in [Jobs -> Active \union Terminal \union {"unknown"}]
    /\ started \subseteq Jobs
    /\ dep \in [Jobs -> Specs]
    /\ met \in [Jobs -> SUBSET Conditions] /\ \A j \in Jobs : met[j] \subseteq dep[j].conditions
    /\ verdict \in [Jobs -> Verdicts]
=============================================================================
