------------------------------ MODULE JobLease ------------------------------
(***************************************************************************)
(* What the scheduler promises about a job, whatever its pilots do: the    *)
(* job is held by at most one pilot, only that pilot executes it, and the  *)
(* job goes back to the queue, moves to another pilot or ends only while   *)
(* no process of it exists.  A step may treat any number of jobs, each in  *)
(* its own way.                                                            *)
(***************************************************************************)
EXTENDS FiniteSets

CONSTANTS Jobs, Engines, NoEngine

VARIABLES
    phase,      \* where a job is in its life
    holder,     \* the pilot that may execute it
    exec        \* the pilots that are executing it

leaseVars == <<phase, holder, exec>>

Init ==
    /\ phase = [j \in Jobs |-> "absent"]
    /\ holder = [j \in Jobs |-> NoEngine]
    /\ exec = [j \in Jobs |-> {}]

Idle(j) == exec[j] = {}

Becomes(j, p, h, x) == phase'[j] = p /\ holder'[j] = h /\ exec'[j] = x

Submit(j) == phase[j] = "absent" /\ Becomes(j, "queued", NoEngine, {})

(* Granted to a pilot, also one that replaces the holder.                  *)
Place(j) ==
    /\ phase[j] \in {"queued", "held"} /\ Idle(j)
    /\ \E e \in Engines : Becomes(j, "held", e, {})

Begin(j) ==
    phase[j] = "held" /\ Idle(j) /\ Becomes(j, "held", holder[j], {holder[j]})

End(j) ==
    phase[j] = "held" /\ ~Idle(j) /\ Becomes(j, "held", holder[j], {})

Vacate(j) == phase[j] = "held" /\ Idle(j) /\ Becomes(j, "queued", NoEngine, {})

Finish(j) ==
    phase[j] \in {"queued", "held"} /\ Idle(j) /\ Becomes(j, "done", NoEngine, {})

Stays(j) == Becomes(j, phase[j], holder[j], exec[j])

Next ==
    \A j \in Jobs :
        \/ Submit(j) \/ Place(j) \/ Begin(j) \/ End(j)
        \/ Vacate(j) \/ Finish(j) \/ Stays(j)

Spec == Init /\ [][Next]_leaseVars
=============================================================================
