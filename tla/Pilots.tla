------------------------------- MODULE Pilots -------------------------------
(***************************************************************************)
(* The vocabulary shared by the manager (src/zslurm) and by the pilot      *)
(* worker, the "chief" (src/zslurm_chief): the jobs, the pilots (called    *)
(* engines in the manager), and the classes of return codes that the       *)
(* manager tells apart.                                                    *)
(*                                                                         *)
(* A job is one slot wide: the CPU/memory shape of a job is abstracted to  *)
(* "it needs one of the Slots of a pilot".  TransferJobs are the jobs that *)
(* also need one of the TransferLimit shared transfer slots (dCache / S3). *)
(***************************************************************************)
EXTENDS Integers, FiniteSets

CONSTANTS
    Jobs,           \* the job ids that may ever be submitted
    Engines,        \* the engine ids
    NoEngine,       \* job.node_id is None
    NoCode,         \* no return code is waiting
    Slots,          \* slots of one pilot
    TransferJobs,   \* the jobs that need a transfer slot
    TransferLimit   \* shared transfer slots

ASSUME JobsAssumption ==
    IsFiniteSet(Jobs) /\ TransferJobs \subseteq Jobs
ASSUME EnginesAssumption ==
    IsFiniteSet(Engines) /\ NoEngine \notin Engines
ASSUME LimitsAssumption ==
    Slots \in Nat \ {0} /\ TransferLimit \in Nat

(* Return codes, by what job_done() does with them.                        *)
(*   SUCCESS           RC_SUCCESS = 0                                      *)
(*   TERMINATED        RC_TERMINATED = 15: the job exits with 15 itself    *)
(*   CANCELLED         RC_CANCELLED = -255: cancelled before it started    *)
(*   ENGINE_TERMINATED RC_ENGINE_TERMINATED = -1: the pilot is gone        *)
(*   FAILURE           every other code, those of killed children (-15,    *)
(*                     143, 137) and of failed starts (-20) included       *)
ReturnCodes ==
    {"SUCCESS", "TERMINATED", "CANCELLED", "ENGINE_TERMINATED", "FAILURE"}

ASSUME NoCodeAssumption == NoCode \notin ReturnCodes

(* What can come out of a worker for a child that ran or failed to start.  *)
ChildCodes == {"SUCCESS", "TERMINATED", "FAILURE"}

JobStates ==
    {"ABSENT", "PENDING", "REQUEUED", "ASSIGNED", "RUNNING",
     "COMPLETED", "FAILED", "CANCELLED"}
QueueStates    == {"PENDING", "REQUEUED"}
TerminalStates == {"COMPLETED", "FAILED", "CANCELLED"}
LiveStates     == QueueStates \union {"ASSIGNED", "RUNNING"}
=============================================================================
