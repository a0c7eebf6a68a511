---------------------------- MODULE ManagerLocks -----------------------------
(***************************************************************************)
(* The two reentrant locks of the manager and the threads that nest them   *)
(* (src/zslurm).  Every other module takes a handler for one atomic step,  *)
(* which supposes that it comes to an end.  Here a handler is the order in *)
(* which it takes and returns jobs.lock and engines.lock, and two threads  *)
(* interleave between any two of these steps.  What a handler does under   *)
(* the locks, and whether its conditions hold, is left open.  The lock of  *)
(* the screen is always the last one taken and is left out.                *)
(***************************************************************************)
EXTENDS Naturals, Sequences

CONSTANTS Nobody

Locks   == {"jobs", "engines"}
Threads == {"jobServer", "managerServer", "controller", "screen"}

VARIABLES
    todo,       \* what is left of the handler a thread executes
    owner,      \* the thread that has a lock
    depth       \* how often it has taken it

vars == <<todo, owner, depth>>

Take(l) == [op |-> "take", lock |-> l]
Give(l) == [op |-> "give", lock |-> l]
Under(l, inner) == <<Take(l)>> \o inner \o <<Give(l)>>

-----------------------------------------------------------------------------
(* What the handlers are made of.                                          *)

SendCommand    == Under("engines", <<>>)
EngineRemoved  == Under("jobs", <<>>)
RemoveRecord   == EngineRemoved \o Under("engines", <<>>)      \* _unregister()
CancelCid      == Under("engines", RemoveRecord)
StopSlurm      == Under("engines", CancelCid)

(* Under each lock a handler may do less than this: the branches that      *)
(* return early nest fewer locks.                                          *)
Plain(l)       == Under(l, <<>>)

CancelJob      == Under("jobs", SendCommand)
ForecastBudget == Plain("engines") \o Plain("jobs")
SetConsolidate == Under("jobs", Plain("engines"))
HandoverTo     == Under("jobs", Plain("engines"))

RequestJobs    == Under("jobs", SendCommand)
Poll           == Plain("engines") \o Plain("jobs") \o Plain("jobs")
ReceiveHandover == Under("jobs", Plain("engines"))

Observe        == Plain("engines")
FenceSilent    == Under("engines", Plain("engines"))
ConfirmEnd     == Under("engines", RemoveRecord)

(* Each server executes one request at a time; the controller and the      *)
(* screen are threads of their own.                                        *)
Handlers == [
    jobServer     |-> {Plain("jobs"), Plain("engines"), CancelJob, ForecastBudget,
                      SetConsolidate, HandoverTo, StopSlurm},
    managerServer |-> {Plain("jobs"), Plain("engines"), RequestJobs, Poll,
                      RemoveRecord, ReceiveHandover},
    controller    |-> {Observe, FenceSilent, ConfirmEnd},
    screen        |-> {Plain("jobs"), Plain("engines"), StopSlurm}]

LocksInit ==
    /\ todo = [t \in Threads |-> <<>>]
    /\ owner = [l \in Locks |-> Nobody]
    /\ depth = [l \in Locks |-> 0]

(* A request arrives, the controller's loop comes to its next call, or the *)
(* operator presses a key.                                                 *)
Begin(t) ==
    /\ todo[t] = <<>>
    /\ \E handler \in Handlers[t] : todo' = [todo EXCEPT ![t] = handler]
    /\ UNCHANGED <<owner, depth>>

Due(t)  == Head(todo[t])
Busy(t) == todo[t] # <<>>

(* threading.RLock: its owner may take it again.                           *)
Acquire(t) ==
    /\ Busy(t) /\ Due(t).op = "take" /\ owner[Due(t).lock] \in {t, Nobody}
    /\ owner' = [owner EXCEPT ![Due(t).lock] = t]
    /\ depth' = [depth EXCEPT ![Due(t).lock] = @ + 1]
    /\ todo' = [todo EXCEPT ![t] = Tail(@)]

Release(t) ==
    /\ Busy(t) /\ Due(t).op = "give"
    /\ owner' = [owner EXCEPT ![Due(t).lock] =
                                   IF depth[Due(t).lock] = 1 THEN Nobody ELSE @]
    /\ depth' = [depth EXCEPT ![Due(t).lock] = @ - 1]
    /\ todo' = [todo EXCEPT ![t] = Tail(@)]

LocksNext == \E t \in Threads : Begin(t) \/ Acquire(t) \/ Release(t)
LocksSpec == LocksInit /\ [][LocksNext]_vars

-----------------------------------------------------------------------------
(* No two threads wait for each other: a handler that has one of the locks *)
(* can always come to its end.  When it is violated, both servers and the  *)
(* controller stop for good.                                               *)
WaitsFor(t, s) == Busy(t) /\ Due(t).op = "take" /\ owner[Due(t).lock] = s /\ s # t
NoLockCycle == ~\E t, s \in Threads : WaitsFor(t, s) /\ WaitsFor(s, t)
=============================================================================
