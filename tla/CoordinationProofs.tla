-------------------------- MODULE CoordinationProofs --------------------------
(***************************************************************************)
(* Coordination for any number of agents, managers and keys, whatever dies *)
(* when.  An agent's step changes its own control and, of the files, only  *)
(* what its place allows; most of what matters it does under the lock.     *)
(* The invariant has a part per concern: the lock (Locked), the keys       *)
(* (Once), the leases (Guarded), the names (Fresh) and the marker          *)
(* (Marked).                                                               *)
(***************************************************************************)
EXTENDS Coordination, FiniteSetTheorems, TLAPS

-----------------------------------------------------------------------------
(* Types.                                                                  *)

(* What an agent deals with fits its place.                                *)
Raising(a) == pc[a] \in {"upRecord", "upPoll", "upBind", "upWrite", "upWait"}
Keyed(a) == pc[a] \in {"subLock", "subClaim", "subLease", "subSend", "subFinal", "subRenew"}
Bound ==
    \A a \in Agents :
        /\ pc[a] = "reapRemove" => my[a] \in Agents
        /\ Raising(a) => my[a] \in Managers
        /\ Keyed(a) => key[a] \in Keys

ControlTyped ==
    /\ lock \in Agents \union {None}
    /\ pc \in [Agents -> Places]
    /\ my \in [Agents -> Managers \union Agents \union {Human, None}]
    /\ seen \in [Agents -> Owners]
    /\ force \in [Agents -> BOOLEAN]
    /\ key \in [Agents -> Keys \union {None}]
    /\ Bound

FilesTyped ==
    /\ owner \in Owners
    /\ lease \in [Agents -> {"none", "live", "expired"}]
    /\ record \in [Keys -> {"none", "inflight", "done"}]

RestTyped ==
    /\ mgr \in [Managers -> Lives]
    /\ human \in BOOLEAN
    /\ busy \in SUBSET Managers
    /\ forgotten \in SUBSET Managers /\ robbed \in SUBSET Agents
    /\ jobs \in [Keys -> Nat] /\ unsure \in SUBSET Keys /\ blind \in SUBSET Managers
    /\ ops \in 0..MaxOps /\ faults \in 0..MaxFaults

Typed == ControlTyped /\ FilesTyped /\ RestTyped

LEMMA NoOwnerTyped == NoOwner \in Owners
  BY DEF NoOwner, Owners

LEMMA InitTyped == CoordinationInit => Typed
  BY CoordinationConstants, NoOwnerTyped
  DEF CoordinationInit, Typed, ControlTyped, FilesTyped, RestTyped, Bound, Raising, Keyed,
      Places, Lives

(* The end of a command.                                                   *)
LEMMA ReturnTyped ==
    ASSUME ControlTyped, NEW a \in Agents, Return(a)
    PROVE  ControlTyped'
  BY NoOwnerTyped DEF Return, GoTo, Unlock, ControlTyped, Bound, Raising, Keyed, Places

LEMMA CommandTyped ==
    ASSUME Typed, NEW a \in Agents, Command(a)
    PROVE  Typed'
<1>0. ControlTyped /\ FilesTyped /\ RestTyped
  BY DEF Typed
<1>1. CASE StartUp(a) \/ StartDown(a) \/ StartSubmit(a) \/ StartReap(a)
  <2>1. ControlTyped'
    BY <1>0, <1>1
    DEF StartUp, StartDown, StartSubmit, StartReap, Starts, At, GoTo, files, ControlTyped, Bound,
        Raising, Keyed, Places
  <2>2. FilesTyped' /\ RestTyped'
    BY <1>0, <1>1, CoordinationConstants
    DEF StartUp, StartDown, StartSubmit, StartReap, Starts, files, world, history, FilesTyped,
        RestTyped
  <2> QED
    BY <2>1, <2>2 DEF Typed
<1>2. CASE Release(a)
  BY <1>0, <1>2
  DEF Release, world, control, history, Typed, ControlTyped, FilesTyped, RestTyped, Bound,
      Raising, Keyed
<1> QED
  BY <1>1, <1>2 DEF Command

LEMMA ReapTyped ==
    ASSUME Typed, NEW a \in Agents,
           TakeLock(a) \/ LockTimeout(a) \/ RemoveExpired(a) \/ ReapLooks(a) \/ Crash(a)
    PROVE  Typed'
<1>0. ControlTyped /\ FilesTyped /\ RestTyped
  BY DEF Typed
<1>1. CASE TakeLock(a)
  BY <1>0, <1>1
  DEF TakeLock, At, GoTo, world, history, Typed, ControlTyped, FilesTyped, RestTyped, Bound,
      Raising, Keyed, Places
<1>2. CASE LockTimeout(a) \/ Crash(a)
  <2>1. ControlTyped'
    BY <1>0, <1>2, ReturnTyped DEF LockTimeout, Crash, Dies
  <2>2. FilesTyped' /\ RestTyped'
    BY <1>0, <1>2, CoordinationConstants
    DEF LockTimeout, Crash, world, history, FilesTyped, RestTyped, ControlTyped, Bound, Raising
  <2> QED
    BY <2>1, <2>2 DEF Typed
<1>3. CASE RemoveExpired(a)
  BY <1>0, <1>3
  DEF RemoveExpired, At, GoTo, world, Typed, ControlTyped, FilesTyped, RestTyped, Bound,
      Raising, Keyed, Places
<1>4. CASE ReapLooks(a)
  <2>1. FilesTyped' /\ RestTyped'
    BY <1>0, <1>4 DEF ReapLooks, world, history, FilesTyped, RestTyped
  <2>2. CASE GoTo(a, "downLock") /\ UNCHANGED <<my, seen, force, key, lock>>
    BY <1>0, <2>1, <2>2 DEF GoTo, Typed, ControlTyped, Bound, Raising, Keyed, Places
  <2>3. CASE Return(a)
    BY <1>0, <2>1, <2>3, ReturnTyped DEF Typed
  <2> QED
    BY <1>4, <2>2, <2>3 DEF ReapLooks
<1> QED
  BY <1>1, <1>2, <1>3, <1>4

LEMMA UpTyped ==
    ASSUME Typed, NEW a \in Agents,
           \/ UpAdopts(a) \/ UpRefuses(a) \/ Reserve(a) \/ Sbatch(a) \/ Undo(a) \/ Record(a)
           \/ Poll(a) \/ ReadMarker(a) \/ Bind(a) \/ Popen(a) \/ WaitLogin(a)
    PROVE  Typed'
<1>0. ControlTyped /\ FilesTyped /\ RestTyped
  BY DEF Typed
<1>1. CASE UpAdopts(a) \/ UpRefuses(a) \/ Undo(a)
  <2>1. ControlTyped'
    BY <1>0, <1>1, ReturnTyped DEF UpAdopts, UpRefuses, Undo
  <2>2. FilesTyped' /\ RestTyped'
    BY <1>0, <1>1, NoOwnerTyped DEF UpAdopts, UpRefuses, Undo, world, history, FilesTyped, RestTyped
  <2> QED
    BY <2>1, <2>2 DEF Typed
<1>2. CASE Reserve(a)
  <2>1. ControlTyped' /\ RestTyped'
    BY <1>0, <1>2
    DEF Reserve, GoTo, Keep, OutOfSight, Exists, world, ControlTyped, RestTyped, Bound, Raising,
        Keyed, Places
  <2>2. FilesTyped'
    BY <1>0, <1>2 DEF Reserve, FilesTyped, NoOwner, Owners
  <2> QED
    BY <2>1, <2>2 DEF Typed
<1>3. CASE Sbatch(a) \/ Popen(a)
  <2>1. ControlTyped'
    BY <1>0, <1>3
    DEF Sbatch, Popen, Starting, GoTo, files, ControlTyped, Bound, Raising, Keyed, Places
  <2>2. FilesTyped' /\ RestTyped'
    BY <1>0, <1>3
    DEF Sbatch, Popen, Starting, OutOfSight, Exists, files, FilesTyped, RestTyped, Lives
  <2> QED
    BY <2>1, <2>2 DEF Typed
<1>4. CASE Record(a)
  <2>1. ControlTyped' /\ RestTyped'
    BY <1>0, <1>4
    DEF Record, Holding, GoTo, Unlock, Keep, world, history, ControlTyped, RestTyped, Bound,
        Raising, Keyed, Places
  <2>2. my[a] \in Managers
    BY <1>0, <1>4 DEF Record, Holding, ControlTyped, Bound, Raising
  <2>3. FilesTyped'
    BY <1>0, <1>4, <2>2 DEF Record, FilesTyped, Owners
  <2> QED
    BY <2>1, <2>3 DEF Typed
<1>5. CASE Poll(a)
  <2>1. FilesTyped' /\ RestTyped'
    BY <1>0, <1>5 DEF Poll, world, history, FilesTyped, RestTyped
  <2>2. CASE Return(a)
    BY <1>0, <2>1, <2>2, ReturnTyped DEF Typed
  <2>3. CASE \E i \in BannerInstance(a) :
                my' = [my EXCEPT ![a] = i] /\ GoTo(a, "upBind")
                /\ UNCHANGED <<seen, force, key, lock>>
    <3>1. my[a] \in Managers
      BY <1>0, <1>5 DEF Poll, At, ControlTyped, Bound, Raising
    <3>2. ControlTyped'
      BY <1>0, <2>3, <3>1
      DEF BannerInstance, GoTo, ControlTyped, Bound, Raising, Keyed, Places
    <3> QED
      BY <2>1, <3>2 DEF Typed
  <2> QED
    BY <1>5, <2>2, <2>3 DEF Poll
<1>6. CASE ReadMarker(a)
  BY <1>0, <1>6
  DEF ReadMarker, At, GoTo, files, world, history, Typed, ControlTyped, FilesTyped, RestTyped,
      Bound, Raising, Keyed, Places
<1>7. CASE Bind(a)
  <2>1. ControlTyped'
    BY <1>0, <1>7, ReturnTyped DEF Bind
  <2>2. my[a] \in Managers /\ seen[a] \in Owners
    BY <1>0, <1>7 DEF Bind, At, ControlTyped, Bound, Raising
  <2>3. owner' \in Owners
    BY <1>7, <2>2 DEF Bind, Owners
  <2>4. FilesTyped' /\ RestTyped'
    BY <1>0, <1>7, <2>3 DEF Bind, Alive, world, FilesTyped, RestTyped
  <2> QED
    BY <2>1, <2>4 DEF Typed
<1>8. CASE WaitLogin(a)
  <2>1. ControlTyped'
    BY <1>0, <1>8, ReturnTyped DEF WaitLogin
  <2>2. my[a] \in Managers
    BY <1>0, <1>8 DEF WaitLogin, Holding, ControlTyped, Bound, Raising
  <2>3. owner' \in Owners
    <3>1. CASE owner' = [NoOwner EXCEPT !.backend = "login", !.id = my[a], !.host = HostOf[a],
                                        !.instance = my[a]]
      BY <2>2, <3>1 DEF NoOwner, Owners
    <3> QED
      BY <1>0, <1>8, <3>1 DEF WaitLogin, FilesTyped
  <2>4. FilesTyped' /\ RestTyped'
    BY <1>0, <1>8, <2>2, <2>3 DEF WaitLogin, world, FilesTyped, RestTyped
  <2> QED
    BY <2>1, <2>4 DEF Typed
<1> QED
  BY <1>1, <1>2, <1>3, <1>4, <1>5, <1>6, <1>7, <1>8

LEMMA DownTyped ==
    ASSUME Typed, NEW a \in Agents,
           \/ DownCheck(a) \/ DownStatus(a) \/ StopNode(a) \/ StopLogin(a) \/ StopFails(a)
           \/ DownClear(a)
    PROVE  Typed'
<1>0. ControlTyped /\ FilesTyped /\ RestTyped
  BY DEF Typed
<1>1. CASE DownCheck(a)
  <2>1. FilesTyped' /\ RestTyped'
    BY <1>0, <1>1, NoOwnerTyped
    DEF DownCheck, ClearBlindly, OutOfSight, Exists, world, FilesTyped, RestTyped
  <2>2. CASE Return(a)
    BY <1>0, <2>1, <2>2, ReturnTyped DEF Typed
  <2>3. CASE /\ GoTo(a, "downStatus") /\ seen' = [seen EXCEPT ![a] = owner]
             /\ UNCHANGED <<lock, my, force, key>>
    <3>1. ControlTyped'
      BY <1>0, <2>3 DEF GoTo, ControlTyped, FilesTyped, Bound, Raising, Keyed, Places
    <3> QED
      BY <2>1, <3>1 DEF Typed
  <2> QED
    BY <1>1, <2>2, <2>3 DEF DownCheck
<1>2. CASE DownStatus(a)
  <2>1. FilesTyped' /\ RestTyped'
    BY <1>0, <1>2 DEF DownStatus, world, history, FilesTyped, RestTyped
  <2>2. CASE Return(a)
    BY <1>0, <2>1, <2>2, ReturnTyped DEF Typed
  <2>3. CASE GoTo(a, "downStop") /\ UNCHANGED <<lock, my, seen, force, key>>
    BY <1>0, <2>1, <2>3 DEF GoTo, Typed, ControlTyped, Bound, Raising, Keyed, Places
  <2> QED
    BY <1>2, <2>2, <2>3 DEF DownStatus
<1>3. CASE StopNode(a)
  <2>1. PICK identity \in IdentityAnswers(seen[a].id) :
          IF MayBeOurs(identity)
          THEN /\ mgr' = [mgr EXCEPT ![seen[a].id] =
                            CASE @ \in {"coming", "serving"} -> "dying"
                              [] @ = "reused"                -> "struck"
                              [] OTHER                       -> @]
               /\ blind' = IF identity = "unknown" THEN blind \union {seen[a].id} ELSE blind
               /\ GoTo(a, "downClear") /\ Keep
               /\ UNCHANGED <<lock, owner>>
          ELSE /\ owner' = NoOwner /\ Return(a)
               /\ UNCHANGED <<mgr, blind>>
    BY <1>3 DEF StopNode
  <2>2. CASE MayBeOurs(identity)
    <3>1. seen[a].id \in Managers
      BY <1>0, <2>2 DEF IdentityAnswers, MayBeOurs, ControlTyped, Owners
    <3>2. ControlTyped'
      BY <1>0, <2>1, <2>2 DEF GoTo, Keep, ControlTyped, Bound, Raising, Keyed, Places
    <3>3. FilesTyped'
      BY <1>0, <1>3, <2>1, <2>2 DEF StopNode, FilesTyped
    <3>4. RestTyped'
      BY <1>0, <1>3, <2>1, <2>2, <3>1 DEF StopNode, RestTyped, Lives
    <3> QED
      BY <3>2, <3>3, <3>4 DEF Typed
  <2>3. CASE ~MayBeOurs(identity)
    BY <1>0, <1>3, <2>1, <2>3, ReturnTyped, NoOwnerTyped
    DEF StopNode, Typed, FilesTyped, RestTyped
  <2> QED
    BY <2>2, <2>3
<1>4. CASE StopLogin(a)
  <2>1. seen[a].id \in Managers
    BY <1>4 DEF StopLogin, PidIsOurs, Exists
  <2> QED
    BY <1>0, <1>4, <2>1
    DEF StopLogin, GoTo, Keep, files, history, Typed, ControlTyped, FilesTyped, RestTyped, Bound,
        Raising, Keyed, Places, Lives
<1>5. CASE StopFails(a) \/ DownClear(a)
  <2>1. FilesTyped' /\ RestTyped'
    BY <1>0, <1>5, NoOwnerTyped DEF StopFails, DownClear, world, history, FilesTyped, RestTyped
  <2> QED
    BY <1>0, <1>5, <2>1, ReturnTyped DEF StopFails, DownClear, Typed
<1> QED
  BY <1>1, <1>2, <1>3, <1>4, <1>5

LEMMA SubmitTyped ==
    ASSUME Typed, NEW a \in Agents,
           \/ SubClaim(a) \/ SubLease(a) \/ SendAccepted(a) \/ SendUnsure(a) \/ SendFails(a)
           \/ SubFinal(a) \/ SubRenew(a)
    PROVE  Typed'
<1>0. ControlTyped /\ FilesTyped /\ RestTyped
  BY DEF Typed
<1>1. CASE SubClaim(a)
  <2>1. FilesTyped' /\ RestTyped'
    BY <1>0, <1>1
    DEF SubClaim, Holding, world, history, FilesTyped, RestTyped, ControlTyped, Bound, Keyed
  <2>2. CASE Return(a)
    BY <1>0, <2>1, <2>2, ReturnTyped DEF Typed
  <2>3. CASE \E i \in Reachable :
                my' = [my EXCEPT ![a] = i] /\ GoTo(a, "subLease")
                /\ UNCHANGED <<lock, seen, force, key>>
    <3>1. ControlTyped'
      BY <1>0, <1>1, <2>3
      DEF SubClaim, Holding, Reachable, GoTo, ControlTyped, Bound, Raising, Keyed, Places
    <3> QED
      BY <2>1, <3>1 DEF Typed
  <2> QED
    BY <1>1, <2>2, <2>3 DEF SubClaim
<1>2. CASE SubLease(a)
  BY <1>0, <1>2
  DEF SubLease, WriteLease, Holding, GoTo, Unlock, Keep, world, Typed, ControlTyped, FilesTyped,
      RestTyped, Bound, Raising, Keyed, Places
<1>3. CASE SendAccepted(a) \/ SendUnsure(a)
  <2>1. ControlTyped' /\ FilesTyped'
    BY <1>0, <1>3
    DEF SendAccepted, SendUnsure, At, GoTo, Keep, files, control, ControlTyped, FilesTyped, Bound,
        Raising, Keyed, Places
  <2>2. key[a] \in Keys
    BY <1>0, <1>3 DEF SendAccepted, SendUnsure, At, ControlTyped, Bound, Keyed
  <2>3. RestTyped'
    BY <1>0, <1>3, <2>2 DEF SendAccepted, SendUnsure, TakesJob, RestTyped
  <2> QED
    BY <2>1, <2>3 DEF Typed
<1>4. CASE SendFails(a) \/ SubRenew(a)
  <2>1. FilesTyped' /\ RestTyped'
    BY <1>0, <1>4
    DEF SendFails, SubRenew, WriteLease, At, world, history, FilesTyped, RestTyped, ControlTyped,
        Bound, Keyed
  <2> QED
    BY <1>0, <1>4, <2>1, ReturnTyped DEF SendFails, SubRenew, Typed
<1>5. CASE SubFinal(a)
  BY <1>0, <1>5
  DEF SubFinal, At, GoTo, Keep, world, history, Typed, ControlTyped, FilesTyped, RestTyped, Bound,
      Raising, Keyed, Places
<1> QED
  BY <1>1, <1>2, <1>3, <1>4, <1>5

LEMMA WorldTyped ==
    ASSUME Typed, World
    PROVE  Typed'
<1>0. ControlTyped /\ FilesTyped /\ RestTyped
  BY DEF Typed
<1>1. CASE \E m \in Managers : Serves(m) \/ Ends(m) \/ Reused(m) \/ WorkDone(m)
  <2>1. ControlTyped' /\ FilesTyped'
    BY <1>0, <1>1
    DEF Serves, Ends, Reused, WorkDone, files, control, ControlTyped, FilesTyped, Bound, Raising,
        Keyed
  <2>2. RestTyped'
    BY <1>0, <1>1, CoordinationConstants
    DEF Serves, Ends, Reused, WorkDone, history, RestTyped, Lives
  <2> QED
    BY <2>1, <2>2 DEF Typed
<1>2. CASE HumanStops \/ Age \/ \E a \in Agents : ExpireLease(a)
  <2>1. ControlTyped' /\ RestTyped'
    BY <1>0, <1>2
    DEF HumanStops, Age, ExpireLease, files, world, control, history, ControlTyped, RestTyped,
        Bound, Raising, Keyed
  <2>2. FilesTyped'
    BY <1>0, <1>2 DEF HumanStops, Age, ExpireLease, files, FilesTyped, Owners
  <2> QED
    BY <2>1, <2>2 DEF Typed
<1> QED
  BY <1>1, <1>2 DEF World

LEMMA StepTyped == Typed /\ [CoordinationNext]_vars => Typed'
<1> SUFFICES ASSUME Typed, [CoordinationNext]_vars PROVE Typed'
  OBVIOUS
<1>1. CASE UNCHANGED vars
  BY <1>1
  DEF vars, files, world, control, history, Typed, ControlTyped, FilesTyped, RestTyped, Bound,
      Raising, Keyed
<1>2. CASE \E a \in Agents : Command(a) \/ AgentStep(a) \/ Crash(a)
  BY <1>2, CommandTyped, ReapTyped, UpTyped, DownTyped, SubmitTyped DEF AgentStep
<1>3. CASE World
  BY <1>3, WorldTyped
<1> QED
  BY <1>1, <1>2, <1>3 DEF CoordinationNext

-----------------------------------------------------------------------------
(* Who writes what, and how an agent gets where it is.                     *)

Acts(a) == Command(a) \/ AgentStep(a) \/ Crash(a)

LEMMA Writers ==
    ASSUME NEW a \in Agents, Acts(a)
    PROVE  /\ human' = human
           /\ UNCHANGED <<record, jobs, unsure>> \/ SubClaim(a) \/ SendAccepted(a)
              \/ SendUnsure(a) \/ SendFails(a) \/ SubFinal(a)
           /\ UNCHANGED lease \/ Release(a) \/ RemoveExpired(a) \/ SubLease(a) \/ SubRenew(a)
           /\ UNCHANGED robbed \/ RemoveExpired(a) \/ SubLease(a)
           /\ UNCHANGED busy \/ SendAccepted(a) \/ SendUnsure(a)
           /\ UNCHANGED <<mgr, blind>> \/ Sbatch(a) \/ Popen(a) \/ StopNode(a) \/ StopLogin(a)
           /\ UNCHANGED owner \/ Reserve(a) \/ Undo(a) \/ Record(a) \/ Bind(a) \/ WaitLogin(a)
              \/ DownCheck(a) \/ StopNode(a) \/ DownClear(a)
           /\ UNCHANGED forgotten \/ Crash(a) \/ Reserve(a) \/ Sbatch(a) \/ Bind(a) \/ Popen(a)
              \/ WaitLogin(a) \/ DownCheck(a)
<1>1. CASE Command(a)
  BY <1>1
  DEF Command, StartUp, StartDown, StartSubmit, StartReap, Release, files, world, history
<1>2. CASE TakeLock(a) \/ LockTimeout(a) \/ RemoveExpired(a) \/ ReapLooks(a) \/ Crash(a)
  BY <1>2 DEF TakeLock, LockTimeout, RemoveExpired, ReapLooks, Crash, world, history
<1>3. CASE \/ UpAdopts(a) \/ UpRefuses(a) \/ Reserve(a) \/ Sbatch(a) \/ Undo(a) \/ Record(a)
  BY <1>3 DEF UpAdopts, UpRefuses, Reserve, Sbatch, Undo, Record, files, world, history
<1>4. CASE \/ Poll(a) \/ ReadMarker(a) \/ Bind(a) \/ Popen(a) \/ WaitLogin(a)
  BY <1>4 DEF Poll, ReadMarker, Bind, Popen, WaitLogin, files, world, history
<1>5. CASE \/ DownCheck(a) \/ DownStatus(a) \/ StopNode(a) \/ StopLogin(a) \/ StopFails(a)
           \/ DownClear(a)
  BY <1>5
  DEF DownCheck, DownStatus, StopNode, StopLogin, StopFails, DownClear, files, world, history
<1>6. CASE \/ SubClaim(a) \/ SubLease(a) \/ SendAccepted(a) \/ SendUnsure(a) \/ SendFails(a)
           \/ SubFinal(a) \/ SubRenew(a)
  BY <1>6
  DEF SubClaim, SubLease, SendAccepted, SendUnsure, SendFails, SubFinal, SubRenew, files, world,
      history
<1> QED
  BY <1>1, <1>2, <1>3, <1>4, <1>5, <1>6 DEF Acts, AgentStep

LEMMA Landing ==
    ASSUME Typed, NEW a \in Agents, Acts(a)
    PROVE  /\ pc'[a] = "upSbatch"   => Reserve(a)
           /\ pc'[a] = "upUndo"     => Sbatch(a)
           /\ pc'[a] = "upRecord"   => Sbatch(a)
           /\ pc'[a] = "upPoll"     => Record(a)
           /\ pc'[a] = "upBind"     => Poll(a)
           /\ pc'[a] = "upWrite"    => ReadMarker(a)
           /\ pc'[a] = "upWait"     => Popen(a)
           /\ pc'[a] = "downStatus" => DownCheck(a)
           /\ pc'[a] = "downStop"   => DownStatus(a)
           /\ pc'[a] = "downClear"  => StopNode(a) \/ StopLogin(a)
           /\ pc'[a] = "subLease"   => SubClaim(a)
           /\ pc'[a] = "subSend"    => SubLease(a) \/ SendUnsure(a)
           /\ pc'[a] = "subFinal"   => SendAccepted(a)
<1>0. ControlTyped
  BY DEF Typed
<1>1. CASE Return(a)
  BY <1>0, <1>1 DEF Return, GoTo, ControlTyped
<1>2. CASE Command(a)
  BY <1>0, <1>2
  DEF Command, StartUp, StartDown, StartSubmit, StartReap, Release, Starts, At, GoTo, control,
      ControlTyped
<1>3. CASE /\ ~Return(a)
           /\ \/ TakeLock(a) \/ LockTimeout(a) \/ RemoveExpired(a) \/ ReapLooks(a) \/ Crash(a)
  BY <1>0, <1>3
  DEF TakeLock, LockTimeout, RemoveExpired, ReapLooks, Crash, Dies, GoTo, ControlTyped
<1>4. CASE /\ ~Return(a)
           /\ \/ UpAdopts(a) \/ UpRefuses(a) \/ Reserve(a) \/ Sbatch(a) \/ Undo(a) \/ Record(a)
              \/ Poll(a) \/ ReadMarker(a) \/ Bind(a) \/ Popen(a) \/ WaitLogin(a)
  BY <1>0, <1>4
  DEF UpAdopts, UpRefuses, Reserve, Sbatch, Undo, Record, Poll, ReadMarker, Bind, Popen, WaitLogin,
      GoTo, ControlTyped
<1>5. CASE /\ ~Return(a)
           /\ \/ DownCheck(a) \/ DownStatus(a) \/ StopNode(a) \/ StopLogin(a) \/ StopFails(a)
              \/ DownClear(a)
  BY <1>0, <1>5
  DEF DownCheck, DownStatus, StopNode, StopLogin, StopFails, DownClear, GoTo, ControlTyped
<1>6. CASE /\ ~Return(a)
           /\ \/ SubClaim(a) \/ SubLease(a) \/ SendAccepted(a) \/ SendUnsure(a) \/ SendFails(a)
              \/ SubFinal(a) \/ SubRenew(a)
  BY <1>0, <1>6
  DEF SubClaim, SubLease, SendAccepted, SendUnsure, SendFails, SubFinal, SubRenew, At, GoTo,
      control, ControlTyped
<1> QED
  BY <1>1, <1>2, <1>3, <1>4, <1>5, <1>6 DEF Acts, AgentStep

-----------------------------------------------------------------------------
(* The lock.                                                               *)

Critical ==
    {"upDecide", "upSbatch", "upUndo", "upRecord", "upWait", "downCheck", "downStatus",
     "downStop", "downClear", "subClaim", "subLease"}
Locked == \A a \in Agents : pc[a] \in Critical => lock = a

(* The control of an agent, and the lock if it is that agent's.            *)
SameControl(b) ==
    /\ pc'[b] = pc[b] /\ my'[b] = my[b] /\ seen'[b] = seen[b]
    /\ force'[b] = force[b] /\ key'[b] = key[b]
    /\ lock = b => lock' = b

LEMMA ReturnAlone ==
    ASSUME NEW a \in Agents, Return(a), NEW b \in Agents, b # a, ControlTyped
    PROVE  SameControl(b)
  BY DEF Return, GoTo, Unlock, SameControl, ControlTyped

LEMMA Alone ==
    ASSUME Typed, NEW a \in Agents, Acts(a), NEW b \in Agents, b # a
    PROVE  SameControl(b)
<1>0. ControlTyped
  BY DEF Typed
<1>1. CASE Return(a)
  BY <1>0, <1>1, ReturnAlone
<1>2. CASE Command(a)
  BY <1>0, <1>2
  DEF Command, StartUp, StartDown, StartSubmit, StartReap, Release, Starts, GoTo, files, control,
      SameControl, ControlTyped
<1>3. CASE /\ ~Return(a)
           /\ \/ TakeLock(a) \/ LockTimeout(a) \/ RemoveExpired(a) \/ ReapLooks(a) \/ Crash(a)
  BY <1>0, <1>3, CoordinationConstants
  DEF TakeLock, LockTimeout, RemoveExpired, ReapLooks, Crash, Dies, GoTo, SameControl, ControlTyped
<1>4. CASE /\ ~Return(a)
           /\ \/ UpAdopts(a) \/ UpRefuses(a) \/ Reserve(a) \/ Sbatch(a) \/ Undo(a) \/ Record(a)
              \/ Poll(a) \/ ReadMarker(a) \/ Bind(a) \/ Popen(a) \/ WaitLogin(a)
  BY <1>0, <1>4
  DEF UpAdopts, UpRefuses, Reserve, Sbatch, Undo, Record, Poll, ReadMarker, Bind, Popen, WaitLogin,
      GoTo, Keep, Unlock, files, SameControl, ControlTyped
<1>5. CASE /\ ~Return(a)
           /\ \/ DownCheck(a) \/ DownStatus(a) \/ StopNode(a) \/ StopLogin(a) \/ StopFails(a)
              \/ DownClear(a)
  BY <1>0, <1>5
  DEF DownCheck, DownStatus, StopNode, StopLogin, StopFails, DownClear, GoTo, Keep, files,
      SameControl, ControlTyped
<1>6. CASE /\ ~Return(a)
           /\ \/ SubClaim(a) \/ SubLease(a) \/ SendAccepted(a) \/ SendUnsure(a) \/ SendFails(a)
              \/ SubFinal(a) \/ SubRenew(a)
  BY <1>0, <1>6
  DEF SubClaim, SubLease, SendAccepted, SendUnsure, SendFails, SubFinal, SubRenew, GoTo, Keep,
      Unlock, files, control, SameControl, ControlTyped
<1> QED
  BY <1>1, <1>2, <1>3, <1>4, <1>5, <1>6 DEF Acts, AgentStep

LEMMA WorldAlone == World => UNCHANGED <<control, lock>>
  BY DEF World, Serves, Ends, Reused, WorkDone, HumanStops, Age, ExpireLease, files

LEMMA StepLocked ==
    ASSUME Typed, Locked, [CoordinationNext]_vars
    PROVE  Locked'
<1>0. ControlTyped
  BY DEF Typed
<1>1. CASE UNCHANGED <<control, lock>>
  BY <1>1 DEF control, Locked
<1>2. ASSUME NEW a \in Agents, Acts(a)
      PROVE  Locked'
  <2>1. ASSUME NEW b \in Agents, b # a PROVE pc'[b] \in Critical => lock' = b
    BY <1>2, <2>1, Alone DEF SameControl, Locked
  <2>2. pc'[a] \in Critical => lock' = a
    <3>1. CASE Return(a)
      BY <1>0, <3>1 DEF Return, GoTo, ControlTyped, Critical
    <3>2. CASE Command(a)
      BY <1>0, <3>2
      DEF Command, StartUp, StartDown, StartSubmit, StartReap, Release, Starts, At, GoTo, control,
          ControlTyped, Critical
    <3>3. CASE /\ ~Return(a)
               /\ \/ TakeLock(a) \/ LockTimeout(a) \/ RemoveExpired(a) \/ ReapLooks(a) \/ Crash(a)
      BY <1>0, <3>3
      DEF TakeLock, LockTimeout, RemoveExpired, ReapLooks, Crash, Dies, GoTo, ControlTyped, Critical
    <3>4. CASE /\ ~Return(a)
               /\ \/ UpAdopts(a) \/ UpRefuses(a) \/ Reserve(a) \/ Sbatch(a) \/ Undo(a)
                  \/ Record(a) \/ Poll(a) \/ ReadMarker(a) \/ Bind(a) \/ Popen(a) \/ WaitLogin(a)
      BY <1>0, <3>4
      DEF UpAdopts, UpRefuses, Reserve, MayProvision, Holding, Sbatch, Undo, Record, Poll,
          ReadMarker, Bind, Popen, WaitLogin, GoTo, files, ControlTyped, Critical
    <3>5. CASE /\ ~Return(a)
               /\ \/ DownCheck(a) \/ DownStatus(a) \/ StopNode(a) \/ StopLogin(a) \/ StopFails(a)
                  \/ DownClear(a)
      BY <1>0, <3>5
      DEF DownCheck, DownStatus, StopNode, StopLogin, StopFails, DownClear, Holding, GoTo, files,
          ControlTyped, Critical
    <3>6. CASE /\ ~Return(a)
               /\ \/ SubClaim(a) \/ SubLease(a) \/ SendAccepted(a) \/ SendUnsure(a) \/ SendFails(a)
                  \/ SubFinal(a) \/ SubRenew(a)
      BY <1>0, <3>6
      DEF SubClaim, SubLease, SendAccepted, SendUnsure, SendFails, SubFinal, SubRenew, At, Holding,
          GoTo, control, ControlTyped, Critical
    <3> QED
      BY <1>2, <3>1, <3>2, <3>3, <3>4, <3>5, <3>6 DEF Acts, AgentStep
  <2> QED
    BY <2>1, <2>2 DEF Locked
<1>3. UNCHANGED vars => UNCHANGED <<control, lock>>
  BY DEF vars, files
<1> QED
  BY <1>1, <1>2, <1>3, WorldAlone DEF CoordinationNext, Acts

(* Two agents are never both in the critical section.                      *)
LEMMA OneInside ==
    ASSUME Locked, NEW a \in Agents, NEW b \in Agents, pc[a] \in Critical, pc[b] \in Critical
    PROVE  a = b
  BY DEF Locked

-----------------------------------------------------------------------------
(* The keys.                                                               *)

(* A key that is being submitted is claimed by one agent, in flight, and   *)
(* without a job until the send is over; a key without a record has none.  *)
KeyOnce(k) ==
    /\ jobs[k] <= 1
    /\ record[k] = "none" => jobs[k] = 0
    /\ \A a \in Agents : Submitting(a) /\ key[a] = k =>
          /\ record[k] = "inflight"
          /\ pc[a] # "subFinal" => jobs[k] = 0
          /\ \A b \in Agents \ {a} : ~(Submitting(b) /\ key[b] = k)
Once == \A k \in Keys \ unsure : KeyOnce(k)

(* A step that touches no key, and makes nobody a submitter.               *)
KeysKept ==
    /\ UNCHANGED <<record, jobs, unsure>>
    /\ \A b \in Agents :
          \/ pc'[b] = pc[b] /\ key'[b] = key[b]
          \/ ~Submitting(b)'

LEMMA KeptOnce == ASSUME Once, KeysKept PROVE Once'
  BY DEF Once, KeyOnce, KeysKept, Submitting

LEMMA OtherSteps ==
    ASSUME Typed, NEW a \in Agents, Acts(a),
           ~(SubClaim(a) \/ SubLease(a) \/ SendAccepted(a) \/ SendUnsure(a) \/ SendFails(a)
             \/ SubFinal(a))
    PROVE  KeysKept
<1>1. \A b \in Agents \ {a} : pc'[b] = pc[b] /\ key'[b] = key[b]
  BY Alone DEF SameControl
<1>2. UNCHANGED <<record, jobs, unsure>>
  BY Writers
<1>3. ~Submitting(a)'
  BY Landing DEF Submitting
<1> QED
  BY <1>1, <1>2, <1>3 DEF KeysKept

(* The claim is made when there is no record; from then on the record      *)
(* keeps other agents out, and each step of the submit passes its part on. *)
LEMMA SubmitOnce ==
    ASSUME Typed, Once, NEW a \in Agents,
           SubClaim(a) \/ SubLease(a) \/ SendAccepted(a) \/ SendFails(a) \/ SubFinal(a)
    PROVE  Once'
<1>0. ControlTyped /\ FilesTyped /\ RestTyped
  BY DEF Typed
<1>1. /\ \A b \in Agents \ {a} : pc'[b] = pc[b] /\ key'[b] = key[b]
      /\ unsure' = unsure /\ key[a] \in Keys
  <2>1. Acts(a)
    BY DEF Acts, AgentStep
  <2>2. key[a] \in Keys
    BY <1>0
    DEF SubClaim, SubLease, SendAccepted, SendFails, SubFinal, At, Holding, ControlTyped, Bound,
        Keyed
  <2> QED
    BY <2>1, <2>2, Alone
    DEF SubClaim, SubLease, SendAccepted, SendFails, SubFinal, history, SameControl
<1>2. ASSUME NEW k \in Keys \ unsure', KeyOnce(k) PROVE KeyOnce(k)'
  <2>1. CASE SubClaim(a)
    <3>1. CASE Return(a) /\ UNCHANGED record
      BY <1>0, <1>1, <1>2, <2>1, <3>1
      DEF SubClaim, Return, GoTo, history, KeyOnce, Submitting, ControlTyped
    <3>2. CASE /\ record[key[a]] = "none" /\ record' = [record EXCEPT ![key[a]] = "inflight"]
               /\ GoTo(a, "subLease") /\ UNCHANGED key
      BY <1>0, <1>1, <1>2, <2>1, <3>2
      DEF SubClaim, Holding, GoTo, history, KeyOnce, Submitting, ControlTyped, FilesTyped
    <3> QED
      BY <2>1, <3>1, <3>2 DEF SubClaim, Replayed
  <2>2. CASE SubLease(a)
    BY <1>0, <1>1, <1>2, <2>2
    DEF SubLease, Holding, GoTo, Keep, KeyOnce, Submitting, ControlTyped
  <2>3. CASE SendAccepted(a)
    <3>1. k # key[a] => jobs'[k] = jobs[k]
      BY <1>0, <2>3 DEF SendAccepted, TakesJob, RestTyped
    <3>2. k = key[a] => jobs[k] = 0 /\ jobs'[k] = 1
      BY <1>0, <1>1, <1>2, <2>3
      DEF SendAccepted, TakesJob, At, RestTyped, KeyOnce, Submitting
    <3> QED
      BY <1>0, <1>1, <1>2, <2>3, <3>1, <3>2
      DEF SendAccepted, At, GoTo, Keep, files, KeyOnce, Submitting, ControlTyped
  <2>4. CASE SendFails(a)
    BY <1>0, <1>1, <1>2, <2>4
    DEF SendFails, At, Return, GoTo, history, KeyOnce, Submitting, ControlTyped, FilesTyped
  <2>5. CASE SubFinal(a)
    BY <1>0, <1>1, <1>2, <2>5
    DEF SubFinal, At, GoTo, Keep, history, KeyOnce, Submitting, ControlTyped, FilesTyped
  <2> QED
    BY <2>1, <2>2, <2>3, <2>4, <2>5
<1> QED
  BY <1>1, <1>2 DEF Once

LEMMA StepOnce ==
    ASSUME Typed, Once, [CoordinationNext]_vars
    PROVE  Once'
<1>1. ASSUME NEW a \in Agents, Acts(a) PROVE Once'
  <2>1. CASE SubClaim(a) \/ SubLease(a) \/ SendAccepted(a) \/ SendFails(a) \/ SubFinal(a)
    BY <2>1, SubmitOnce
  <2>2. CASE SendUnsure(a)
    <3>1. /\ UNCHANGED <<record, control>> /\ unsure' = unsure \union {key[a]}
          /\ \A k \in Keys \ unsure' : jobs'[k] = jobs[k]
      BY <2>2 DEF SendUnsure, TakesJob, files, Typed, RestTyped
    <3> QED
      BY <3>1 DEF control, Once, KeyOnce, Submitting
  <2> QED
    BY <1>1, <2>1, <2>2, OtherSteps, KeptOnce
<1>2. CASE World \/ UNCHANGED vars
  <2>1. UNCHANGED <<record, jobs, unsure, pc, key>>
    BY <1>2
    DEF World, Serves, Ends, Reused, WorkDone, HumanStops, Age, ExpireLease, vars, files, control,
        history
  <2> QED
    BY <2>1, KeptOnce DEF KeysKept
<1> QED
  BY <1>1, <1>2 DEF CoordinationNext, Acts

-----------------------------------------------------------------------------
(* The leases.                                                             *)

(* A submitter outside the lock has a live lease; inside down() there is   *)
(* no submitter, and without force the manager asked is idle.              *)
Leased(b) == b \notin robbed /\ pc[b] \in {"subSend", "subFinal"} => lease[b] = "live"
Tearing(a) == pc[a] \in {"downStatus", "downStop", "downClear"}
Undisturbed(a) == Tearing(a) => \A b \in Agents \ robbed : ~Submitting(b)
Asked(a) ==
    pc[a] = "downStop" /\ ~force[a] /\ robbed = {} => seen[a].instance \notin busy
Guarded == \A a \in Agents : Leased(a) /\ Undisturbed(a) /\ Asked(a)

LEMMA StepGuarded ==
    ASSUME Typed, Locked, Guarded, NEW a \in Agents, Acts(a)
    PROVE  Guarded'
<1>0. ControlTyped /\ FilesTyped /\ RestTyped /\ Locked'
  BY StepLocked DEF Typed, CoordinationNext, Acts
<1>1. \A b \in Agents \ {a} : SameControl(b)
  BY Alone
<1>2. ASSUME NEW b \in Agents PROVE Leased(b)'
  <2>1. CASE SubLease(a)
    <3>1. pc[a] = "subLease" /\ pc'[a] = "subSend" /\ lease' = [lease EXCEPT ![a] = "live"]
          /\ robbed' = robbed \ {a}
      BY <1>0, <2>1 DEF SubLease, WriteLease, Holding, GoTo, ControlTyped
    <3> QED
      BY <1>0, <1>1, <3>1 DEF Guarded, Leased, SameControl, FilesTyped
  <2>2. CASE RemoveExpired(a)
    <3>1. /\ pc'[a] = "reapLook" /\ my[a] \in Agents /\ lease' = [lease EXCEPT ![my[a]] = "none"]
          /\ robbed' = IF lease[my[a]] = "live" THEN robbed \union {my[a]} ELSE robbed
      BY <1>0, <2>2 DEF RemoveExpired, At, GoTo, ControlTyped, Bound
    <3> QED
      BY <1>0, <1>1, <3>1 DEF Guarded, Leased, SameControl, FilesTyped
  <2>3. CASE ~SubLease(a) /\ ~RemoveExpired(a) /\ b # a
    <3>1. robbed' = robbed /\ lease'[b] = lease[b]
      BY <1>0, <2>3, Writers DEF Release, SubRenew, WriteLease, FilesTyped
    <3> QED
      BY <1>1, <2>3, <3>1 DEF Guarded, Leased, SameControl
  <2>4. CASE ~SubLease(a) /\ ~RemoveExpired(a) /\ b = a
    <3>1. pc'[a] \in {"subSend", "subFinal"} =>
            /\ pc[a] = "subSend" /\ UNCHANGED <<lease, robbed>>
      BY <2>4, Landing DEF SendUnsure, SendAccepted, At, files
    <3> QED
      BY <2>4, <3>1 DEF Guarded, Leased
  <2> QED
    BY <2>1, <2>2, <2>3, <2>4
<1>3. ASSUME NEW c \in Agents, Tearing(c)' PROVE \A b \in Agents \ robbed' : ~Submitting(b)'
  <2>1. lock' = c /\ \A b \in Agents : pc'[b] = "subLease" => b = c
    BY <1>0, <1>3 DEF Locked, Tearing, Critical
  <2>2. CASE c # a
    <3>1. Tearing(c) /\ lock = c
      BY <1>1, <1>3, <2>2 DEF Tearing, SameControl, Locked, Critical
    <3>2. ~SubLease(a) /\ ~SubClaim(a)
      BY <2>2, <3>1 DEF SubLease, SubClaim, Holding
    <3>3. robbed \subseteq robbed'
      BY <3>2, Writers DEF RemoveExpired
    <3>4. Submitting(a)' => Submitting(a)
      BY <3>2, Landing DEF Submitting, SendUnsure, SendAccepted, At
    <3> QED
      BY <1>1, <3>1, <3>3, <3>4 DEF Guarded, Undisturbed, Submitting, SameControl
  <2>3. CASE c = a
    <3>1. ~Submitting(a)'
      BY <1>3, <2>3 DEF Tearing, Submitting
    <3>2. \/ DownCheck(a)
          \/ Tearing(a) /\ (DownStatus(a) \/ StopNode(a) \/ StopLogin(a))
      BY <1>3, <2>3, Landing DEF Tearing, DownStatus, StopNode, StopLogin, Holding
    <3>3. UNCHANGED <<robbed, lease>>
      BY <3>2 DEF DownCheck, DownStatus, StopNode, StopLogin, files, history
    <3>4. CASE Tearing(a)
      BY <1>1, <3>1, <3>3, <3>4 DEF Guarded, Undisturbed, Submitting, SameControl
    <3>5. CASE DownCheck(a)
      <4>1. NoLiveLease
        BY <1>0, <1>3, <2>3, <3>5
        DEF DownCheck, NotLeased, Return, GoTo, Tearing, ControlTyped
      <4>2. \A b \in Agents \ robbed : pc[b] \notin {"subSend", "subFinal"}
        BY <4>1 DEF Guarded, Leased, NoLiveLease
      <4> QED
        BY <1>1, <2>1, <2>3, <3>1, <3>3, <4>2 DEF Submitting, SameControl
    <3> QED
      BY <3>2, <3>4, <3>5
  <2> QED
    BY <2>2, <2>3
<1>4. ASSUME NEW c \in Agents, pc'[c] = "downStop", ~force'[c], robbed' = {}
      PROVE  seen'[c].instance \notin busy'
  <2>1. CASE c # a
    <3>1. pc[c] = "downStop" /\ ~force[c] /\ seen'[c] = seen[c] /\ lock = c /\ Tearing(c)
      BY <1>1, <1>4, <2>1 DEF SameControl, Locked, Critical, Tearing
    <3>2. ~SubLease(a)
      BY <2>1, <3>1 DEF SubLease, Holding
    <3>3. robbed = {}
      BY <1>4, <3>2, Writers DEF RemoveExpired
    <3>4. busy' = busy
      BY <3>1, <3>3, Writers DEF SendAccepted, SendUnsure, At, Guarded, Undisturbed, Submitting
    <3> QED
      BY <3>1, <3>3, <3>4 DEF Guarded, Asked
  <2>2. CASE c = a
    <3>1. DownStatus(a)
      BY <1>4, <2>2, Landing
    <3>2. UNCHANGED <<seen, force, busy>> /\ ShowsIdle(seen[a].instance)
      BY <1>0, <1>4, <2>2, <3>1 DEF DownStatus, Return, GoTo, world, ControlTyped
    <3> QED
      BY <2>2, <3>2 DEF ShowsIdle
  <2> QED
    BY <2>1, <2>2
<1> QED
  BY <1>2, <1>3, <1>4 DEF Guarded, Undisturbed, Asked

-----------------------------------------------------------------------------
(* The names.                                                              *)

(* Inside up() with a manager that no marker names yet.                    *)
Mine(a) == pc[a] \in {"upRecord", "upWait"}

(* Agents bring up different managers, and the name of a manager that no   *)
(* marker names yet is in no marker.                                       *)
Fresh ==
    /\ owner.instance \in Managers => mgr[owner.instance] # "unused"
    /\ \A a \in Agents :
          /\ Raising(a) => mgr[my[a]] # "unused"
          /\ Mine(a) => owner.instance # my[a]
          /\ \A b \in Agents : Raising(a) /\ Raising(b) /\ my[a] = my[b] => a = b

LEMMA StartingNew ==
    ASSUME NEW m \in Managers, Starting(m)
    PROVE  mgr[m] = "unused" /\ mgr' = [mgr EXCEPT ![m] = "coming"]
<1>1. PICK n \in Managers : Unused(n)
  BY DEF Starting
<1>2. m = CHOOSE k \in Managers : Unused(k)
  BY DEF Starting
<1>3. Unused(m)
  BY <1>1, <1>2
<1> QED
  BY <1>3 DEF Starting, Unused

(* What becomes of managers: none is new again, and one comes to life by   *)
(* an sbatch or a process whose agent knows it or has lost it.             *)
LEMMA Onward ==
    ASSUME Typed, NEW a \in Agents, Acts(a), NEW m \in Managers
    PROVE  /\ mgr[m] # "unused" => mgr'[m] # "unused"
           /\ Alive(m)' =>
                \/ Alive(m)
                \/ /\ mgr[m] = "unused" /\ (Sbatch(a) \/ Popen(a))
                   /\ (my'[a] = m /\ Mine(a)') \/ m \in forgotten'
<1>0. ControlTyped /\ RestTyped
  BY DEF Typed
<1>1. CASE UNCHANGED mgr
  BY <1>1 DEF Alive
<1>2. CASE Sbatch(a) /\ mgr' # mgr
  <2>1. PICK n \in Managers :
          /\ Starting(n)
          /\ \/ my' = [my EXCEPT ![a] = n] /\ GoTo(a, "upRecord")
             \/ forgotten' = forgotten \union {n}
    BY <1>2 DEF Sbatch
  <2>2. mgr' = [mgr EXCEPT ![n] = "coming"] /\ mgr[n] = "unused"
    BY <2>1, StartingNew
  <2> QED
    BY <1>0, <1>2, <2>1, <2>2 DEF GoTo, Mine, RestTyped, ControlTyped, Alive
<1>3. CASE Popen(a)
  <2>1. PICK n \in Managers : Starting(n) /\ my' = [my EXCEPT ![a] = n] /\ GoTo(a, "upWait")
    BY <1>3 DEF Popen
  <2>2. mgr' = [mgr EXCEPT ![n] = "coming"] /\ mgr[n] = "unused"
    BY <2>1, StartingNew
  <2> QED
    BY <1>0, <1>3, <2>1, <2>2 DEF GoTo, Mine, RestTyped, ControlTyped, Alive
<1>4. CASE StopNode(a) \/ StopLogin(a)
  BY <1>0, <1>4 DEF StopNode, StopLogin, RestTyped, Alive
<1> QED
  BY <1>1, <1>2, <1>3, <1>4, Writers

(* An agent that brings a manager up goes on with it, or has just named it. *)
LEMMA Raised ==
    ASSUME Typed, NEW a \in Agents, Acts(a), Raising(a)'
    PROVE  \/ Raising(a) /\ my'[a] = my[a]
           \/ mgr[my'[a]] = "unused" /\ UNCHANGED owner
<1>0. ControlTyped
  BY DEF Typed
<1>1. CASE pc'[a] = "upRecord"
  <2>1. Sbatch(a)
    BY <1>1, Landing
  <2>2. PICK m \in Managers : Starting(m) /\ my' = [my EXCEPT ![a] = m]
    BY <1>0, <1>1, <2>1 DEF Sbatch, GoTo, ControlTyped
  <2> QED
    BY <1>0, <2>1, <2>2, StartingNew DEF Sbatch, files, ControlTyped
<1>2. CASE pc'[a] = "upWait"
  <2>1. Popen(a)
    BY <1>2, Landing
  <2>2. PICK m \in Managers : Starting(m) /\ my' = [my EXCEPT ![a] = m]
    BY <2>1 DEF Popen
  <2> QED
    BY <1>0, <2>1, <2>2, StartingNew DEF Popen, files, ControlTyped
<1>3. CASE pc'[a] \in {"upPoll", "upBind", "upWrite"}
  <2>1. Record(a) \/ Poll(a) \/ ReadMarker(a)
    BY <1>3, Landing
  <2>2. CASE Poll(a)
    BY <1>0, <1>3, <2>2 DEF Poll, At, Return, GoTo, BannerInstance, Raising, ControlTyped
  <2> QED
    BY <2>1, <2>2 DEF Record, ReadMarker, Keep, At, Holding, Raising
<1> QED
  BY <1>1, <1>2, <1>3 DEF Raising

(* The instance in the marker is written by an agent that then is through. *)
LEMMA Instances ==
    ASSUME Typed, NEW a \in Agents, Acts(a)
    PROVE  \/ owner'.instance \in {owner.instance, None}
           \/ owner'.instance = my[a] /\ Raising(a) /\ ~Raising(a)'
<1>0. ControlTyped /\ FilesTyped
  BY DEF Typed
<1>1. CASE UNCHANGED owner
  BY <1>1
<1>2. CASE Reserve(a) \/ Undo(a) \/ DownCheck(a) \/ StopNode(a) \/ DownClear(a)
  <2>1. owner' = owner \/ owner' = NoOwner \/ Reserve(a)
    BY <1>2 DEF Undo, DownCheck, ClearBlindly, StopNode, DownClear
  <2>2. Reserve(a) => owner'.instance = None
    BY DEF Reserve, NoOwner
  <2> QED
    BY <2>1, <2>2 DEF NoOwner
<1>3. CASE Record(a)
  BY <1>0, <1>3 DEF Record, FilesTyped, Owners
<1>4. CASE Bind(a)
  <2>1. owner'.instance = my[a]
    BY <1>0, <1>4 DEF Bind, ControlTyped, Owners
  <2> QED
    BY <1>0, <1>4, <2>1 DEF Bind, At, Return, GoTo, Raising, ControlTyped
<1>5. CASE WaitLogin(a)
  <2>1. owner' = owner \/ owner'.instance = my[a]
    BY <1>5 DEF WaitLogin, NoOwner
  <2> QED
    BY <1>0, <1>5, <2>1 DEF WaitLogin, Holding, Return, GoTo, Raising, ControlTyped
<1> QED
  BY <1>1, <1>2, <1>3, <1>4, <1>5, Writers

LEMMA StepFresh ==
    ASSUME Typed, Fresh, NEW a \in Agents, Acts(a)
    PROVE  Fresh'
<1>0. ControlTyped /\ ControlTyped' /\ None \notin Managers
  BY StepTyped, CoordinationConstants DEF Typed, CoordinationNext, Acts
<1>1. \A b \in Agents \ {a} : SameControl(b)
  BY Alone
<1>2. \A b \in Agents : Raising(b) => my[b] \in Managers
  BY <1>0 DEF ControlTyped, Bound
<1>3. ASSUME owner'.instance \in Managers PROVE mgr'[owner'.instance] # "unused"
  BY <1>0, <1>2, <1>3, Instances, Onward DEF Fresh
<1>4. ASSUME NEW c \in Agents, Raising(c)' PROVE mgr'[my'[c]] # "unused"
  <2>1. my'[c] \in Managers
    BY <1>0, <1>4 DEF ControlTyped, Bound
  <2>2. CASE c # a
    BY <1>1, <1>4, <2>1, <2>2, Onward DEF Fresh, SameControl, Raising
  <2>3. CASE c = a /\ Raising(a) /\ my'[a] = my[a]
    BY <2>1, <2>3, Onward DEF Fresh
  <2>4. CASE c = a /\ pc'[a] = "upRecord"
    <3>1. Sbatch(a)
      BY <2>4, Landing
    <3>2. PICK m \in Managers : Starting(m) /\ my' = [my EXCEPT ![a] = m]
      BY <1>0, <2>4, <3>1 DEF Sbatch, GoTo, ControlTyped
    <3> QED
      BY <1>0, <2>4, <3>2, StartingNew DEF ControlTyped, Typed, RestTyped
  <2>5. CASE c = a /\ pc'[a] = "upWait"
    <3>1. Popen(a)
      BY <2>5, Landing
    <3>2. PICK m \in Managers : Starting(m) /\ my' = [my EXCEPT ![a] = m]
      BY <3>1 DEF Popen
    <3> QED
      BY <1>0, <2>5, <3>2, StartingNew DEF ControlTyped, Typed, RestTyped
  <2>6. CASE c = a /\ pc'[a] \in {"upPoll", "upBind", "upWrite"}
    <3>1. Record(a) \/ Poll(a) \/ ReadMarker(a)
      BY <2>6, Landing
    <3>2. Raising(a) /\ UNCHANGED mgr
      BY <3>1 DEF Record, Poll, ReadMarker, At, Holding, Raising, world
    <3>3. my'[a] = my[a] \/ mgr[my'[a]] = "unused"
      BY <1>4, <2>6, Raised
    <3>4. my'[a] = my[a]
      BY <1>0, <2>6, <3>1
      DEF Record, Poll, ReadMarker, Keep, At, Return, GoTo, BannerInstance, ControlTyped
    <3> QED
      BY <2>6, <3>2, <3>4 DEF Fresh
  <2> QED
    BY <1>4, <2>2, <2>4, <2>5, <2>6 DEF Raising
<1>5. ASSUME NEW c \in Agents, Mine(c)' PROVE owner'.instance # my'[c]
  <2>0. Raising(c)' /\ my'[c] \in Managers
    BY <1>0, <1>5 DEF Mine, Raising, ControlTyped, Bound
  <2>1. CASE c # a
    <3>1. Mine(c) /\ Raising(c) /\ my'[c] = my[c]
      BY <1>1, <1>5, <2>1 DEF Mine, Raising, SameControl
    <3> QED
      BY <1>0, <2>0, <2>1, <3>1, Instances DEF Fresh
  <2>2. CASE c = a
    <3>1. Sbatch(a) \/ Popen(a)
      BY <1>5, <2>2, Landing DEF Mine
    <3>2. UNCHANGED owner /\ ~Raising(a)
      BY <3>1 DEF Sbatch, Popen, MayProvision, Holding, files, Raising
    <3> QED
      BY <2>0, <2>2, <3>2, Raised DEF Fresh
  <2> QED
    BY <2>1, <2>2
<1>6. ASSUME NEW c \in Agents, NEW d \in Agents, Raising(c)', Raising(d)', my'[c] = my'[d]
      PROVE  c = d
  <2>1. ASSUME NEW e \in Agents, e # a, Raising(e)'
        PROVE  Raising(e) /\ my'[e] = my[e] /\ mgr[my[e]] # "unused"
    BY <1>1, <2>1 DEF SameControl, Raising, Fresh
  <2>2. Raising(a)' => (Raising(a) /\ my'[a] = my[a]) \/ mgr[my'[a]] = "unused"
    BY Raised
  <2> QED
    BY <1>6, <2>1, <2>2 DEF Fresh
<1> QED
  BY <1>3, <1>4, <1>5, <1>6 DEF Fresh

-----------------------------------------------------------------------------
(* The marker.                                                             *)

(* Alive, and not lost by a known gap.                                     *)
Known(m) == Alive(m) /\ m \notin forgotten

Named(o) == o.backend = "none" => o.id = None

(* A known manager is in the marker, or in the hands of the agent that has *)
(* just started it and holds the lock.                                     *)
Traced ==
    \A m \in Managers :
        Known(m) => owner.id = m \/ \E a \in Agents : Mine(a) /\ my[a] = m

(* What the agent inside the lock relies on: there is no known manager, or *)
(* the one it deals with.                                                  *)
Inside(a) ==
    \A m \in Managers : Known(m) =>
        /\ pc[a] \notin {"upSbatch", "upUndo", "downClear"}
        /\ Mine(a) => m = my[a]
        /\ pc[a] \in {"downStatus", "downStop"} => m = seen[a].id

Marked == Named(owner) /\ Traced /\ \A a \in Agents : Named(seen[a]) /\ Inside(a)

LEMMA Knowing ==
    ASSUME Typed, NEW a \in Agents, Acts(a), NEW m \in Managers, Known(m)'
    PROVE  \/ Known(m)
           \/ (Sbatch(a) \/ Popen(a)) /\ my'[a] = m /\ Mine(a)'
<1>1. forgotten \subseteq forgotten'
  BY Writers DEF Crash, Reserve, Sbatch, Bind, Popen, WaitLogin, DownCheck, ClearBlindly
<1> QED
  BY <1>1, Onward DEF Known

(* Whoever may provision knows that no manager is, or loses it now.        *)
LEMMA NoneInFlight ==
    ASSUME Typed, Locked, Marked, NEW a \in Agents, MayProvision(a),
           forgotten' = forgotten \union OutOfSight(a), NEW m \in Managers, Known(m)
    PROVE  m \in forgotten'
<1>0. owner \in Owners /\ None \notin Managers
  BY CoordinationConstants DEF Typed, FilesTyped
<1>1. owner.id = m
  <2>1. \A b \in Agents : ~Mine(b)
    BY OneInside DEF MayProvision, Holding, Mine, Critical
  <2> QED
    BY <2>1 DEF Marked, Traced
<1>2. Exists(m) /\ m # None
  BY <1>0 DEF Known, Alive, Exists
<1>3. PICK active \in ActiveAnswers(m), identity \in IdentityAnswers(m) :
         ~InFlight(a, active, identity)
  BY <1>1 DEF MayProvision
<1>4. active \in {"unknown", "yes"} /\ identity \in {"unknown", "yes"}
  BY <1>2 DEF ActiveAnswers, IdentityAnswers
<1>5. CASE owner.backend = "none"
  BY <1>1, <1>2, <1>5 DEF Marked, Named
<1>6. CASE owner.backend = "login"
  BY <1>1, <1>2, <1>3, <1>6 DEF InFlight, PidIsOurs, OutOfSight
<1>7. CASE owner.backend = "node"
  BY <1>1, <1>2, <1>3, <1>4, <1>7 DEF InFlight
<1> QED
  BY <1>0, <1>5, <1>6, <1>7 DEF Owners

(* down() clears the marker of a manager it loses, or of none.             *)
LEMMA ClearedUnseen ==
    ASSUME Typed, Marked, NEW a \in Agents, NEW m \in Managers, Known(m), owner.id = m,
           NEW active \in ActiveAnswers(m), NEW identity \in IdentityAnswers(m),
           ~SelfAlive(a, active, identity), ClearBlindly(a, active)
    PROVE  m \in forgotten'
<1>0. owner \in Owners /\ None \notin Managers
  BY CoordinationConstants DEF Typed, FilesTyped
<1>2. Exists(m) /\ m # None
  BY <1>0 DEF Known, Alive, Exists
<1>4. active \in {"unknown", "yes"} /\ identity \in {"unknown", "yes"}
  BY <1>2 DEF ActiveAnswers, IdentityAnswers
<1>5. CASE owner.backend = "none"
  BY <1>2, <1>5 DEF Marked, Named
<1>6. CASE owner.backend = "login"
  BY <1>2, <1>6 DEF SelfAlive, PidIsOurs, OutOfSight, ClearBlindly
<1>7. CASE owner.backend = "node"
  BY <1>2, <1>4, <1>7 DEF SelfAlive, ClearBlindly
<1> QED
  BY <1>0, <1>5, <1>6, <1>7 DEF Owners

(* The marker keeps the known manager, whatever is done to it.             *)
LEMMA KeepsMark ==
    ASSUME Typed, Locked, Marked, NEW a \in Agents, Acts(a), NEW m \in Managers,
           Known(m), Known(m)', owner.id = m
    PROVE  owner'.id = m
<1>0. ControlTyped /\ FilesTyped /\ RestTyped /\ m # None /\ m \notin forgotten'
  BY CoordinationConstants DEF Typed, Known
<1>1. CASE Reserve(a)
  BY <1>0, <1>1, NoneInFlight DEF Reserve
<1>2. CASE Undo(a) \/ DownClear(a)
  BY <1>2 DEF Undo, DownClear, Holding, Marked, Inside
<1>3. CASE Record(a)
  <2>1. pc[a] = "upRecord" /\ owner'.id = my[a]
    BY <1>0, <1>3 DEF Record, Holding, FilesTyped, Owners
  <2> QED
    BY <2>1 DEF Marked, Inside, Mine
<1>4. CASE Bind(a)
  <2>1. owner'.id = seen[a].id
    BY <1>0, <1>4 DEF Bind, ControlTyped, Owners
  <2> QED
    BY <1>0, <1>4, <2>1 DEF Bind, Known
<1>5. CASE WaitLogin(a)
  <2>1. m = my[a]
    BY <1>5 DEF WaitLogin, Holding, Marked, Inside, Mine
  <2> QED
    BY <1>0, <1>5, <2>1 DEF WaitLogin, NoOwner
<1>6. CASE DownCheck(a)
  <2>1. PICK active \in ActiveAnswers(m), identity \in IdentityAnswers(m) :
          \/ UNCHANGED owner
          \/ ~SelfAlive(a, active, identity) /\ ClearBlindly(a, active)
    BY <1>6 DEF DownCheck
  <2> QED
    BY <1>0, <2>1, ClearedUnseen
<1>7. CASE StopNode(a)
  <2>1. m = seen[a].id /\ Exists(m)
    BY <1>7 DEF StopNode, Holding, Marked, Inside, Known, Alive, Exists
  <2>2. UNCHANGED owner
    BY <1>0, <1>7, <2>1 DEF StopNode, IdentityAnswers, MayBeOurs
  <2> QED
    BY <2>2
<1> QED
  BY <1>1, <1>2, <1>3, <1>4, <1>5, <1>6, <1>7, Writers

LEMMA StepTraced ==
    ASSUME Typed, Locked, Marked, NEW a \in Agents, Acts(a)
    PROVE  Traced'
<1>0. ControlTyped /\ FilesTyped
  BY DEF Typed
<1> SUFFICES ASSUME NEW m \in Managers, Known(m)'
             PROVE  owner'.id = m \/ \E b \in Agents : Mine(b)' /\ my'[b] = m
  BY DEF Traced
<1>1. CASE ~Known(m)
  BY <1>1, Knowing
<1>2. CASE Known(m) /\ owner.id = m
  BY <1>2, KeepsMark
<1>3. ASSUME NEW b \in Agents, Mine(b), my[b] = m, Known(m)
      PROVE  owner'.id = m \/ \E c \in Agents : Mine(c)' /\ my'[c] = m
  <2>1. CASE b # a
    BY <1>3, <2>1, Alone DEF SameControl, Mine
  <2>2. CASE b = a
    <3>1. Record(a) \/ WaitLogin(a) \/ Crash(a)
      <4>1. ~Command(a)
        BY <1>3, <2>2
        DEF Mine, Command, StartUp, StartDown, StartSubmit, StartReap, Release, Starts, At
      <4>2. ~(TakeLock(a) \/ LockTimeout(a) \/ RemoveExpired(a) \/ ReapLooks(a))
        BY <1>3, <2>2 DEF Mine, TakeLock, LockTimeout, RemoveExpired, ReapLooks, At
      <4>3. ~(UpAdopts(a) \/ UpRefuses(a) \/ Reserve(a) \/ Sbatch(a) \/ Undo(a) \/ Poll(a)
              \/ ReadMarker(a) \/ Bind(a) \/ Popen(a))
        BY <1>3, <2>2
        DEF Mine, UpAdopts, UpRefuses, Reserve, Sbatch, Undo, Poll, ReadMarker, Bind, Popen,
            MayProvision, At, Holding
      <4>4. ~(DownCheck(a) \/ DownStatus(a) \/ StopNode(a) \/ StopLogin(a) \/ StopFails(a)
              \/ DownClear(a))
        BY <1>3, <2>2
        DEF Mine, DownCheck, DownStatus, StopNode, StopLogin, StopFails, DownClear, Holding
      <4>5. ~(SubClaim(a) \/ SubLease(a) \/ SendAccepted(a) \/ SendUnsure(a) \/ SendFails(a)
              \/ SubFinal(a) \/ SubRenew(a))
        BY <1>3, <2>2
        DEF Mine, SubClaim, SubLease, SendAccepted, SendUnsure, SendFails, SubFinal, SubRenew, At,
            Holding
      <4> QED
        BY <4>1, <4>2, <4>3, <4>4, <4>5 DEF Acts, AgentStep
    <3>2. CASE Record(a)
      BY <1>0, <1>3, <2>2, <3>2 DEF Record, FilesTyped, Owners
    <3>3. CASE WaitLogin(a)
      <4>1. m \notin forgotten'
        BY DEF Known
      <4> QED
        BY <1>3, <2>2, <3>3, <4>1 DEF WaitLogin, NoOwner
    <3>4. CASE Crash(a)
      BY <1>3, <2>2, <3>4 DEF Crash, Known, Mine
    <3> QED
      BY <3>1, <3>2, <3>3, <3>4
  <2> QED
    BY <2>1, <2>2
<1> QED
  BY <1>1, <1>2, <1>3 DEF Marked, Traced

(* What an agent has read is a marker there was.                           *)
LEMMA StepNamed ==
    ASSUME Typed, Marked, NEW a \in Agents, Acts(a)
    PROVE  Named(owner)' /\ \A b \in Agents : Named(seen[b])'
<1>0. ControlTyped /\ FilesTyped
  BY DEF Typed
<1>1. Named(NoOwner)
  BY DEF Named, NoOwner
<1>2. Named(owner)'
  <2>1. CASE Reserve(a)
    <3>1. owner'.backend = "node"
      BY <2>1 DEF Reserve, NoOwner
    <3> QED
      BY <3>1 DEF Named
  <2>2. CASE Record(a)
    BY <1>0, <2>2 DEF Record, FilesTyped, Owners, Named
  <2>3. CASE Bind(a)
    <3>1. owner'.backend = seen[a].backend /\ owner'.id = seen[a].id
      BY <1>0, <2>3 DEF Bind, ControlTyped, Owners
    <3> QED
      BY <3>1 DEF Marked, Named
  <2>4. CASE WaitLogin(a)
    <3>1. UNCHANGED owner \/ owner'.backend = "login"
      BY <2>4 DEF WaitLogin, NoOwner
    <3> QED
      BY <3>1 DEF Marked, Named
  <2>5. CASE Undo(a) \/ DownCheck(a) \/ StopNode(a) \/ DownClear(a)
    <3>1. owner' = owner \/ owner' = NoOwner
      BY <2>5 DEF Undo, DownCheck, ClearBlindly, StopNode, DownClear
    <3> QED
      BY <1>1, <3>1 DEF Marked
  <2> QED
    BY <2>1, <2>2, <2>3, <2>4, <2>5, Writers DEF Marked, Named
<1>3. ASSUME NEW b \in Agents PROVE Named(seen[b])'
  <2>1. seen'[b] = seen[b] \/ seen'[b] = owner \/ seen'[b] = NoOwner
    <3>1. CASE b # a
      BY <3>1, Alone DEF SameControl
    <3>2. CASE Return(a)
      BY <1>0, <3>2 DEF Return, ControlTyped
    <3>3. CASE Command(a)
      BY <1>0, <3>3
      DEF Command, StartUp, StartDown, StartSubmit, StartReap, Release, control, ControlTyped
    <3>4. CASE /\ ~Return(a)
               /\ \/ TakeLock(a) \/ LockTimeout(a) \/ RemoveExpired(a) \/ ReapLooks(a) \/ Crash(a)
      BY <3>4 DEF TakeLock, LockTimeout, RemoveExpired, ReapLooks, Crash, Dies
    <3>5. CASE /\ ~Return(a)
               /\ \/ UpAdopts(a) \/ UpRefuses(a) \/ Reserve(a) \/ Sbatch(a) \/ Undo(a)
                  \/ Record(a) \/ Poll(a) \/ ReadMarker(a) \/ Bind(a) \/ Popen(a) \/ WaitLogin(a)
      BY <1>0, <3>5
      DEF UpAdopts, UpRefuses, Reserve, Sbatch, Undo, Record, Poll, ReadMarker, Bind, Popen,
          WaitLogin, Keep, ControlTyped
    <3>6. CASE /\ ~Return(a)
               /\ \/ DownCheck(a) \/ DownStatus(a) \/ StopNode(a) \/ StopLogin(a) \/ StopFails(a)
                  \/ DownClear(a)
      BY <1>0, <3>6
      DEF DownCheck, DownStatus, StopNode, StopLogin, StopFails, DownClear, Keep, ControlTyped
    <3>7. CASE /\ ~Return(a)
               /\ \/ SubClaim(a) \/ SubLease(a) \/ SendAccepted(a) \/ SendUnsure(a) \/ SendFails(a)
                  \/ SubFinal(a) \/ SubRenew(a)
      BY <3>7
      DEF SubClaim, SubLease, SendAccepted, SendUnsure, SendFails, SubFinal, SubRenew, Keep, control
    <3> QED
      BY <3>1, <3>2, <3>3, <3>4, <3>5, <3>6, <3>7 DEF Acts, AgentStep
  <2> QED
    BY <1>1, <2>1 DEF Marked, Named
<1> QED
  BY <1>2, <1>3

LEMMA StepInside ==
    ASSUME Typed, Locked, Marked, NEW a \in Agents, Acts(a), NEW c \in Agents
    PROVE  Inside(c)'
<1>0. /\ ControlTyped /\ RestTyped /\ Locked' /\ Traced' /\ None \notin Managers
      /\ \A b \in Agents : Inside(b)
  BY StepLocked, StepTraced, CoordinationConstants DEF Typed, CoordinationNext, Acts, Marked
<1> SUFFICES ASSUME NEW m \in Managers, Known(m)'
             PROVE  /\ pc'[c] \notin {"upSbatch", "upUndo", "downClear"}
                    /\ Mine(c)' => m = my'[c]
                    /\ pc'[c] \in {"downStatus", "downStop"} => m = seen'[c].id
  BY DEF Inside
<1>1. CASE c # a
  <2>1. CASE pc[c] \in Critical
    <3>1. ~Sbatch(a) /\ ~Popen(a)
      BY <1>1, <2>1 DEF Locked, Sbatch, Popen, MayProvision, Holding
    <3> QED
      BY <1>0, <1>1, <3>1, Knowing, Alone DEF SameControl, Inside, Mine
  <2> QED
    BY <1>1, <2>1, Alone DEF SameControl, Critical, Mine
<1>2. CASE c = a /\ pc'[a] = "upSbatch"
  <2>1. owner'.id = None
    BY <1>2, Landing DEF Reserve, NoOwner
  <2>2. \A b \in Agents : ~Mine(b)'
    BY <1>0, <1>2 DEF Locked, Mine, Critical
  <2> QED
    BY <1>0, <2>1, <2>2 DEF Traced
<1>3. CASE c = a /\ pc'[a] \in {"upUndo", "upRecord"}
  <2>1. Sbatch(a)
    BY <1>3, Landing
  <2>2. ~Known(m)
    BY <1>0, <2>1 DEF Sbatch, Holding, Inside
  <2> QED
    BY <1>3, <2>2, Knowing DEF Mine
<1>4. CASE c = a /\ pc'[a] = "upWait"
  <2>1. Popen(a)
    BY <1>4, Landing
  <2>2. ~Known(m)
    BY <2>1, NoneInFlight DEF Popen, Known
  <2> QED
    BY <1>4, <2>2, Knowing DEF Mine
<1>5. CASE c = a /\ pc'[a] = "downStatus"
  <2>1. DownCheck(a)
    BY <1>5, Landing
  <2>2. UNCHANGED owner /\ seen'[a] = owner /\ pc[a] = "downCheck"
    BY <1>0, <1>5, <2>1 DEF DownCheck, Holding, Return, GoTo, ControlTyped
  <2>3. \A b \in Agents : ~Mine(b)'
    BY <1>0, <1>5 DEF Locked, Mine, Critical
  <2> QED
    BY <1>0, <1>5, <2>2, <2>3 DEF Traced, Mine
<1>6. CASE c = a /\ pc'[a] = "downStop"
  <2>1. DownStatus(a)
    BY <1>6, Landing
  <2>2. pc[a] = "downStatus" /\ seen'[a] = seen[a]
    BY <1>0, <1>6, <2>1 DEF DownStatus, Holding, Return, GoTo, ControlTyped
  <2>3. Known(m)
    BY <2>1, Knowing DEF DownStatus, Holding, Sbatch, Popen, MayProvision
  <2> QED
    BY <1>0, <1>6, <2>2, <2>3 DEF Inside, Mine
<1>7. CASE c = a /\ pc'[a] = "downClear"
  <2>1. StopNode(a) \/ StopLogin(a)
    BY <1>7, Landing
  <2>2. pc[a] = "downStop" /\ Known(m)
    BY <2>1, Knowing DEF StopNode, StopLogin, Holding, Sbatch, Popen, MayProvision
  <2>3. m = seen[a].id /\ mgr[m] \in {"coming", "serving"}
    BY <1>0, <2>2 DEF Inside, Known, Alive
  <2>4. mgr'[m] = "dying"
    <3>1. CASE StopLogin(a)
      BY <1>0, <2>3, <3>1 DEF StopLogin, RestTyped
    <3>2. CASE StopNode(a)
      BY <1>0, <1>7, <2>3, <3>2 DEF StopNode, Return, GoTo, RestTyped, ControlTyped
    <3> QED
      BY <2>1, <3>1, <3>2
  <2> QED
    BY <2>4 DEF Known, Alive
<1> QED
  BY <1>1, <1>2, <1>3, <1>4, <1>5, <1>6, <1>7 DEF Mine

LEMMA StepMarked ==
    ASSUME Typed, Locked, Marked, NEW a \in Agents, Acts(a)
    PROVE  Marked'
  BY StepNamed, StepTraced, StepInside DEF Marked
-----------------------------------------------------------------------------
(* The world.                                                              *)

(* What Slurm, the human and time do to what the invariant is about.       *)
LEMMA WorldKeeps ==
    ASSUME Typed, World
    PROVE  /\ UNCHANGED <<control, lock, forgotten, robbed, blind>> /\ busy' \subseteq busy
           /\ owner'.id = owner.id /\ owner'.backend = owner.backend
           /\ owner'.instance = owner.instance
           /\ \A m \in Managers :
                 /\ Alive(m)' => Alive(m)
                 /\ mgr[m] # "unused" => mgr'[m] # "unused"
                 /\ mgr'[m] \in {"dying", "struck"} => mgr[m] = mgr'[m]
           /\ \A b \in Agents : pc[b] \in {"subSend", "subFinal"} => lease'[b] = lease[b]
<1>0. FilesTyped /\ RestTyped
  BY DEF Typed
<1>1. CASE \E m \in Managers : Serves(m) \/ Ends(m) \/ Reused(m)
  BY <1>0, <1>1 DEF Serves, Ends, Reused, Alive, files, history, RestTyped
<1>2. CASE HumanStops \/ \E m \in Managers : WorkDone(m)
  BY <1>0, <1>2 DEF HumanStops, WorkDone, Alive, files, history, RestTyped
<1>3. CASE Age
  <2>1. owner'.id = owner.id /\ owner'.backend = owner.backend /\ owner'.instance = owner.instance
    BY <1>0, <1>3 DEF Age, FilesTyped, Owners
  <2> QED
    BY <1>3, <2>1 DEF Age, Alive, world, history
<1>4. CASE \E a \in Agents : ExpireLease(a)
  BY <1>0, <1>4 DEF ExpireLease, Alive, world, history, FilesTyped
<1> QED
  BY <1>1, <1>2, <1>3, <1>4 DEF World

LEMMA WorldSteps ==
    ASSUME Typed, Guarded, Fresh, Marked, World
    PROVE  Guarded' /\ Fresh' /\ Marked'
<1>0. ControlTyped /\ None \notin Managers
  BY CoordinationConstants DEF Typed
<1>1. Guarded'
  BY WorldKeeps DEF control, Guarded, Leased, Undisturbed, Asked, Submitting, Tearing
<1>2. Fresh'
  <2>1. \A a \in Agents : Raising(a) => my[a] \in Managers
    BY <1>0 DEF ControlTyped, Bound
  <2> QED
    BY <2>1, WorldKeeps DEF control, Fresh, Raising, Mine
<1>3. Marked'
  BY WorldKeeps DEF control, Marked, Named, Traced, Inside, Known, Mine
<1> QED
  BY <1>1, <1>2, <1>3

-----------------------------------------------------------------------------
(* The invariant.                                                          *)

CoordinationInv == Typed /\ Locked /\ Once /\ Guarded /\ Fresh /\ Marked /\ StopsOnlyOwn

(* Only scancel strikes an id, and it did not know whose.                  *)
LEMMA StepOwn ==
    ASSUME Typed, StopsOnlyOwn, NEW a \in Agents, Acts(a)
    PROVE  StopsOnlyOwn'
<1>0. ControlTyped /\ RestTyped
  BY DEF Typed
<1> SUFFICES ASSUME NEW m \in Managers, mgr'[m] = "struck"
             PROVE  m \in blind'
  BY DEF StopsOnlyOwn
<1>1. CASE UNCHANGED <<mgr, blind>>
  BY <1>1 DEF StopsOnlyOwn
<1>2. CASE Sbatch(a) \/ Popen(a)
  <2>1. UNCHANGED mgr \/ \E n \in Managers : Starting(n)
    BY <1>2 DEF Sbatch, Popen
  <2>2. mgr[m] = "struck"
    BY <1>0, <2>1 DEF Starting, RestTyped
  <2> QED
    BY <1>2, <2>2 DEF Sbatch, Popen, StopsOnlyOwn
<1>3. CASE StopLogin(a)
  BY <1>0, <1>3 DEF StopLogin, history, RestTyped, StopsOnlyOwn
<1>4. CASE StopNode(a)
  <2>1. PICK identity \in IdentityAnswers(seen[a].id) :
          \/ UNCHANGED <<mgr, blind>>
          \/ /\ MayBeOurs(identity)
             /\ mgr' = [mgr EXCEPT ![seen[a].id] =
                          CASE @ \in {"coming", "serving"} -> "dying"
                            [] @ = "reused"                -> "struck"
                            [] OTHER                       -> @]
             /\ blind' = IF identity = "unknown" THEN blind \union {seen[a].id} ELSE blind
    BY <1>4 DEF StopNode
  <2>2. CASE UNCHANGED <<mgr, blind>>
    BY <2>2 DEF StopsOnlyOwn
  <2>3. CASE ~UNCHANGED <<mgr, blind>>
    <3>1. mgr[m] = "struck" \/ (seen[a].id = m /\ mgr[m] = "reused")
      BY <1>0, <2>1, <2>3 DEF RestTyped
    <3>2. seen[a].id = m /\ mgr[m] = "reused" => identity = "unknown"
      BY <2>1, <2>3 DEF IdentityAnswers, MayBeOurs, Exists
    <3> QED
      BY <2>1, <2>3, <3>1, <3>2 DEF StopsOnlyOwn
  <2> QED
    BY <2>1, <2>2, <2>3
<1> QED
  BY <1>1, <1>2, <1>3, <1>4, Writers

LEMMA InitInv == CoordinationInit => CoordinationInv
<1> SUFFICES ASSUME CoordinationInit PROVE CoordinationInv
  OBVIOUS
<1>1. Typed
  BY InitTyped
<1>2. Locked /\ Once
  BY DEF CoordinationInit, Locked, Critical, Once, KeyOnce, Submitting
<1>3. Guarded
  BY DEF CoordinationInit, Guarded, Leased, Undisturbed, Asked, Tearing
<1>4. Fresh
  BY CoordinationConstants DEF CoordinationInit, Fresh, Raising, Mine, NoOwner
<1>5. Marked
  BY DEF CoordinationInit, Marked, Named, NoOwner, Traced, Inside, Known, Alive
<1>6. StopsOnlyOwn
  BY DEF CoordinationInit, StopsOnlyOwn
<1> QED
  BY <1>1, <1>2, <1>3, <1>4, <1>5, <1>6 DEF CoordinationInv

LEMMA StepInv == CoordinationInv /\ [CoordinationNext]_vars => CoordinationInv'
<1> SUFFICES ASSUME CoordinationInv, [CoordinationNext]_vars PROVE CoordinationInv'
  OBVIOUS
<1>1. Typed' /\ Locked' /\ Once'
  BY StepTyped, StepLocked, StepOnce DEF CoordinationInv
<1>2. ASSUME NEW a \in Agents, Acts(a)
      PROVE  Guarded' /\ Fresh' /\ Marked' /\ StopsOnlyOwn'
  BY <1>2, StepGuarded, StepFresh, StepMarked, StepOwn DEF CoordinationInv
<1>3. CASE World
  <2>1. StopsOnlyOwn'
    BY <1>3, WorldKeeps DEF CoordinationInv, StopsOnlyOwn
  <2> QED
    BY <1>1, <1>3, <2>1, WorldSteps DEF CoordinationInv
<1>4. CASE UNCHANGED vars
  <2>1. Guarded' /\ Fresh'
    BY <1>4
    DEF vars, files, world, control, history, CoordinationInv, Guarded, Leased, Undisturbed, Asked,
        Tearing, Submitting, Fresh, Raising, Mine
  <2>2. Marked' /\ StopsOnlyOwn'
    BY <1>4
    DEF vars, files, world, control, history, CoordinationInv, Marked, Named, Traced, Inside, Known,
        Alive, Mine, StopsOnlyOwn
  <2> QED
    BY <1>1, <2>1, <2>2 DEF CoordinationInv
<1> QED
  BY <1>1, <1>2, <1>3, <1>4 DEF CoordinationNext, Acts, CoordinationInv

LEMMA AlwaysInv == CoordinationSpec => []CoordinationInv
  BY InitInv, StepInv, PTL DEF CoordinationSpec

-----------------------------------------------------------------------------
(* What follows.                                                           *)

(* The shared files and the agents stay well-formed.                       *)
THEOREM CoordinationTyped == CoordinationSpec => []CoordinationTypeOK
<1>1. CoordinationInv => CoordinationTypeOK
  BY DEF CoordinationInv, Typed, ControlTyped, FilesTyped, RestTyped, CoordinationTypeOK
<1> QED
  BY <1>1, AlwaysInv, PTL

(* However many agents bring up, tear down, crash and read old markers, at *)
(* most one live manager is known: the others were lost by a named gap.    *)
THEOREM OneManager == CoordinationSpec => []OneSelfManager
<1>1. CoordinationInv => OneSelfManager
  <2> SUFFICES ASSUME CoordinationInv PROVE OneSelfManager
    OBVIOUS
  <2> DEFINE K == {m \in Managers : Alive(m) /\ m \notin forgotten}
  <2>1. ASSUME NEW m \in K, NEW n \in K PROVE m = n
    <3>1. Known(m) /\ Known(n) /\ Traced /\ \A a \in Agents : Inside(a)
      BY DEF Known, CoordinationInv, Marked
    <3>2. CASE \E a \in Agents : Mine(a) /\ (my[a] = m \/ my[a] = n)
      BY <3>1, <3>2 DEF Inside
    <3> QED
      BY <3>1, <3>2 DEF Traced
  <2>2. CASE K = {}
    BY <2>2, FS_EmptySet DEF OneSelfManager
  <2>3. CASE K # {}
    <3>1. PICK m \in K : K = {m}
      BY <2>1, <2>3
    <3> QED
      BY <3>1, FS_Singleton DEF OneSelfManager
  <2> QED
    BY <2>2, <2>3
<1> QED
  BY <1>1, AlwaysInv, PTL

(* The instance in the marker, asked for its work before a teardown, is    *)
(* the manager that the teardown stops, or it is lost or stopped already.  *)
THEOREM MarkerTrue == CoordinationSpec => []MarkerNamesManager
<1>1. CoordinationInv => MarkerNamesManager
  <2> SUFFICES ASSUME CoordinationInv, owner.instance \in Reachable,
                      owner.instance \notin forgotten, owner.instance # owner.id
               PROVE  owner.instance # Human /\ mgr[owner.instance] = "dying"
    BY DEF MarkerNamesManager
  <2>1. owner.instance \in Managers /\ owner.instance # Human
    BY CoordinationConstants DEF CoordinationInv, Typed, FilesTyped, Owners, Reachable
  <2>2. \A a \in Agents : Mine(a) => my[a] # owner.instance
    BY DEF CoordinationInv, Fresh
  <2>3. ~Known(owner.instance)
    BY <2>1, <2>2 DEF CoordinationInv, Marked, Traced
  <2> QED
    BY <2>1, <2>3 DEF Known, Alive, Reachable
<1> QED
  BY <1>1, AlwaysInv, PTL

(* A job of the user that is no manager is cancelled only when squeue did  *)
(* not answer the last question about its id.                              *)
THEOREM OnlyOwnStopped == CoordinationSpec => []StopsOnlyOwn
<1>1. CoordinationInv => StopsOnlyOwn
  BY DEF CoordinationInv
<1> QED
  BY <1>1, AlwaysInv, PTL

(* One key, at most one job, for any number of submits, retries and deaths *)
(* (of those zsbatch knew the outcome of).                                 *)
THEOREM KeySubmittedOnce == CoordinationSpec => []SubmittedOnce
<1>1. CoordinationInv => SubmittedOnce
  BY DEF CoordinationInv, Once, KeyOnce, SubmittedOnce
<1> QED
  BY <1>1, AlwaysInv, PTL

(* No agent stops a manager another one is submitting to; without force    *)
(* none with work.                                                         *)
THEOREM NothingInUseStopped == CoordinationSpec => StopsNothingInUse
<1>1. ASSUME CoordinationInv, [CoordinationNext]_vars, NEW m \in Managers,
             Alive(m), mgr'[m] = "dying"
      PROVE  /\ \A b \in Agents \ robbed : my[b] = m => ~Submitting(b)
             /\ \/ m \notin busy \/ force[lock] \/ robbed # {}
                \/ seen[lock].instance # m
  <2>0. Typed /\ ControlTyped /\ RestTyped
    BY <1>1 DEF CoordinationInv, Typed
  <2>1. PICK a \in Agents : StopNode(a) \/ StopLogin(a)
    <3>1. mgr'[m] # mgr[m]
      BY <1>1 DEF Alive
    <3>2. ~World
      BY <1>1, <2>0, <3>1, WorldKeeps
    <3>3. ~UNCHANGED vars
      BY <3>1 DEF vars, world
    <3>4. PICK a \in Agents : Acts(a)
      BY <1>1, <3>2, <3>3 DEF CoordinationNext, Acts
    <3>5. ~(Sbatch(a) \/ Popen(a))
      <4>1. ASSUME NEW n \in Managers, Starting(n) PROVE FALSE
        BY <1>1, <2>0, <3>1, <4>1 DEF Starting, RestTyped
      <4> QED
        BY <3>1, <4>1 DEF Sbatch, Popen
    <3> QED
      BY <3>1, <3>4, <3>5, Writers
  <2>2. lock = a /\ pc[a] = "downStop"
    BY <2>1 DEF StopNode, StopLogin, Holding
  <2> QED
    BY <1>1, <2>2 DEF CoordinationInv, Guarded, Undisturbed, Asked, Tearing
<1> QED
  <2>1. CoordinationInv /\ [CoordinationNext]_vars =>
          [\A m \in Managers : Alive(m) /\ mgr'[m] = "dying" =>
             /\ \A b \in Agents \ robbed : my[b] = m => ~Submitting(b)
             /\ \/ m \notin busy \/ force[lock] \/ robbed # {}
                \/ seen[lock].instance # m]_vars
    BY <1>1
  <2> QED
    BY <2>1, AlwaysInv, PTL DEF CoordinationSpec, StopsNothingInUse
=============================================================================
