-------------------------- MODULE GrantLedgerProofs --------------------------
(***************************************************************************)
(* A child computes on devices reserved for it, for any number of pilots,  *)
(* jobs and devices.  The bounds of the instance (Budget, MaxGrants) and   *)
(* the storage counter play no part.  An action is about one job: a job it *)
(* does not touch stays sound (Frame), and of the job it is about the      *)
(* manager's state says who may be busy with it.                           *)
(***************************************************************************)
EXTENDS GrantLedger, SumLemmas

(* The types the argument needs; the counters are left out.                *)
LedgerType ==
    /\ state \in [Jobs -> States]
    /\ node \in [Jobs -> Engines \union {NoEngine}]
    /\ devs \in [Jobs -> SUBSET Device]
    /\ alloc \in [Engines -> [Jobs -> SUBSET Device]]
    /\ registered \subseteq Engines
    /\ hand \in [Engines -> [Jobs -> Hands \union {Empty}]]
    /\ unreported \in [Engines -> SUBSET Jobs]
    /\ astray \subseteq Jobs

(* A device is reserved for one job.                                       *)
Exclusive ==
    \A e \in Engines, j, k \in Jobs : j # k => alloc[e][j] \intersect alloc[e][k] = {}

(* What an engine still does for a job: it has a child or an end to report. *)
Busy(e, j) == Child(e, j) \/ j \in unreported[e]

(* A granted job is at an engine that has a record.                        *)
Placed(j) == Granted(j) => node[j] \in registered

(* Who is busy with a job is the engine the job runs at, knows its devices *)
(* and does one thing for it at a time.                                    *)
Owned(j) ==
    \A e \in Engines :
        Busy(e, j) =>
            /\ state[j] = "RUNNING" /\ node[j] = e
            /\ Child(e, j) => hand[e][j].devs = devs[j]
            /\ j \in unreported[e] => hand[e][j] = Empty

(* A running job has its devices reserved.                                 *)
Reserved(j) ==
    state[j] = "RUNNING" =>
        /\ alloc[node[j]][j] = devs[j]
        /\ Cardinality(devs[j]) = Need[j]

Sound(j) == Placed(j) /\ (j \notin astray => Owned(j) /\ Reserved(j))

LedgerInv == LedgerType /\ Exclusive /\ \A j \in Jobs : Sound(j)

(* A step that leaves a job alone.                                         *)
Untouched(j) ==
    /\ state'[j] = state[j] /\ node'[j] = node[j] /\ devs'[j] = devs[j]
    /\ \A e \in Engines :
          /\ alloc'[e][j] = alloc[e][j] /\ hand'[e][j] = hand[e][j]
          /\ j \in unreported'[e] <=> j \in unreported[e]
    /\ j \in astray => j \in astray'

-----------------------------------------------------------------------------
LEMMA Initially == GrantInit => LedgerInv
<1> SUFFICES ASSUME GrantInit PROVE LedgerInv
  OBVIOUS
<1>1. LedgerType
  BY DEF GrantInit, LedgerType, States
<1>2. Exclusive
  BY DEF GrantInit, Exclusive
<1>3. \A j \in Jobs : Sound(j)
  BY DEF GrantInit, Sound, Placed, Owned, Reserved, Busy, Child, Granted, Empty
<1> QED
  BY <1>1, <1>2, <1>3 DEF LedgerInv

(* A job the step leaves alone stays sound.                                *)
LEMMA Frame ==
    ASSUME LedgerType, NEW j \in Jobs, Sound(j), Untouched(j), registered \subseteq registered'
    PROVE  Sound(j)'
<1>1. Placed(j)'
  BY DEF Sound, Placed, Untouched, Granted
<1>2. ASSUME j \notin astray' PROVE Owned(j)'
  <2>1. Owned(j)
    BY <1>2 DEF Sound, Untouched
  <2> QED
    BY <2>1 DEF Owned, Busy, Child, Untouched
<1>3. ASSUME j \notin astray' PROVE Reserved(j)'
  <2>1. Reserved(j) /\ Placed(j)
    BY <1>3 DEF Sound, Untouched
  <2>2. state[j] = "RUNNING" => alloc'[node[j]][j] = alloc[node[j]][j]
    BY <2>1 DEF Placed, Granted, Untouched, LedgerType
  <2> QED
    BY <2>1, <2>2 DEF Reserved, Untouched
<1> QED
  BY <1>1, <1>2, <1>3 DEF Sound

(* No engine is busy with a job that does not run.                         *)
LEMMA Idle ==
    ASSUME NEW j \in Jobs, Sound(j), j \notin astray, state[j] # "RUNNING", NEW e \in Engines
    PROVE  ~Busy(e, j)
  BY DEF Sound, Owned

(* A job that does not run and that no engine is busy with is sound.       *)
LEMMA Rests ==
    ASSUME NEW j \in Jobs, Placed(j)', state'[j] # "RUNNING",
           j \notin astray' => \A e \in Engines : ~Busy(e, j)'
    PROVE  Sound(j)'
  BY DEF Sound, Owned, Reserved

(* Giving devices back takes no job's devices away from another.           *)
LEMMA Shrinks ==
    ASSUME Exclusive, \A e \in Engines, j \in Jobs : alloc'[e][j] \subseteq alloc[e][j]
    PROVE  Exclusive'
  BY DEF Exclusive

(* The manager's tables for the jobs other than j.                         *)
OthersKept(j) ==
    \A k \in Jobs \ {j} :
        /\ state'[k] = state[k] /\ node'[k] = node[k] /\ devs'[k] = devs[k]
        /\ \A e \in Engines : alloc'[e][k] = alloc[e][k]

(* The manager's part of the type.                                         *)
TablesType ==
    /\ state \in [Jobs -> States]
    /\ node \in [Jobs -> Engines \union {NoEngine}]
    /\ devs \in [Jobs -> SUBSET Device]
    /\ alloc \in [Engines -> [Jobs -> SUBSET Device]]
    /\ registered \subseteq Engines

-----------------------------------------------------------------------------
(* Grants.                                                                 *)

(* Receiving an answer disturbs no child, and no end that is due.          *)
LEMMA Receives ==
    ASSUME LedgerType, NEW e \in Engines, NEW j \in Jobs, NEW D \in SUBSET Device,
           Receive(e, j, D)
    PROVE  /\ hand' \in [Engines -> [Jobs -> Hands \union {Empty}]]
           /\ \A f \in Engines, k \in Jobs : k # j => hand'[f][k] = hand[f][k]
           /\ \A f \in Engines : Child(f, j)' <=> Child(f, j)
<1>1. CASE UNCHANGED hand
  BY <1>1 DEF LedgerType, Child
<1>2. CASE ~Child(e, j) /\ hand' = [hand EXCEPT ![e][j] = [at |-> "granted", devs |-> D]]
  BY <1>2 DEF LedgerType, Child, Hands
<1> QED
  BY <1>1, <1>2 DEF Receive

LEMMA GrantKeeps ==
    ASSUME LedgerInv, NEW e \in Engines, NEW j \in Jobs, Grant(e, j)
    PROVE  LedgerInv'
<1>0. LedgerType /\ Exclusive /\ \A k \in Jobs : Sound(k)
  BY DEF LedgerInv
<1>1. PICK D \in SUBSET Available(e) : Reserve(e, j, D) /\ Receive(e, j, D)
  BY DEF Grant
<1>2. D \in SUBSET Device
  BY DEF Available, Device
<1>3. /\ hand' \in [Engines -> [Jobs -> Hands \union {Empty}]]
      /\ \A f \in Engines, k \in Jobs : k # j => hand'[f][k] = hand[f][k]
      /\ \A f \in Engines : Child(f, j)' <=> Child(f, j)
  BY <1>0, <1>1, <1>2, Receives
<1>4. LedgerType'
  BY <1>0, <1>1, <1>2, <1>3 DEF Grant, Reserve, LedgerType, States
<1>5. Exclusive'
  <2>1. \A k \in Jobs : D \intersect alloc[e][k] = {}
    BY DEF Available
  <2>2. \A f \in Engines, k \in Jobs :
            alloc'[f][k] = IF f = e /\ k = j THEN D ELSE alloc[f][k]
    BY <1>0, <1>1 DEF Reserve, LedgerType
  <2> QED
    BY <1>0, <2>1, <2>2 DEF Exclusive
<1>6. ASSUME NEW k \in Jobs, k # j PROVE Sound(k)'
  <2>1. Untouched(k)
    BY <1>0, <1>1, <1>3, <1>6 DEF Grant, Reserve, LedgerType, Untouched
  <2> QED
    BY <1>0, <2>1, Frame DEF Grant
<1>7. Sound(j)'
  <2>1. state[j] # "RUNNING" /\ state'[j] = "ASSIGNED" /\ node'[j] = e /\ Placed(j)'
    BY <1>0 DEF Grant, Queued, LedgerType, Placed
  <2>2. ASSUME j \notin astray', NEW f \in Engines PROVE ~Busy(f, j)'
    <3>1. ~Busy(f, j)
      BY <1>0, <2>1, <2>2, Idle DEF Grant
    <3> QED
      BY <1>3, <3>1 DEF Grant, Busy
  <2> QED
    BY <2>1, <2>2, Rests
<1> QED
  BY <1>4, <1>5, <1>6, <1>7 DEF LedgerInv

(* An assigned job stays assigned: no engine is busy with it.              *)
LEMMA AssignedKeeps ==
    ASSUME LedgerInv, NEW e \in Engines, NEW j \in Jobs, Replay(e, j) \/ Move(e, j)
    PROVE  LedgerInv'
<1>0. LedgerType /\ Exclusive /\ \A k \in Jobs : Sound(k)
  BY DEF LedgerInv
<1>1. PICK D \in SUBSET Device : Receive(e, j, D)
  BY <1>0 DEF Replay, Move, LedgerType
<1>2. /\ state[j] = "ASSIGNED" /\ e \in registered
      /\ UNCHANGED <<state, devs, alloc, registered, unreported, astray>>
      /\ node' = node \/ node' = [node EXCEPT ![j] = e]
      /\ node'[j] = e
  BY <1>0 DEF Replay, Move, manager, LedgerType
<1>3. /\ hand' \in [Engines -> [Jobs -> Hands \union {Empty}]]
      /\ \A f \in Engines, k \in Jobs : k # j => hand'[f][k] = hand[f][k]
      /\ \A f \in Engines : Child(f, j)' <=> Child(f, j)
  BY <1>0, <1>1, Receives
<1>4. LedgerType'
  BY <1>0, <1>2, <1>3 DEF LedgerType
<1>5. Exclusive'
  BY <1>0, <1>2 DEF Exclusive
<1>6. ASSUME NEW k \in Jobs, k # j PROVE Sound(k)'
  <2>1. Untouched(k)
    BY <1>0, <1>2, <1>3, <1>6 DEF LedgerType, Untouched
  <2> QED
    BY <1>0, <1>2, <2>1, Frame
<1>7. Sound(j)'
  <2>1. ASSUME j \notin astray', NEW f \in Engines PROVE ~Busy(f, j)'
    <3>1. ~Busy(f, j)
      BY <1>0, <1>2, <2>1, Idle
    <3> QED
      BY <1>2, <1>3, <3>1 DEF Busy
  <2>2. Placed(j)' /\ state'[j] # "RUNNING"
    BY <1>2 DEF Placed
  <2> QED
    BY <2>1, <2>2, Rests
<1> QED
  BY <1>4, <1>5, <1>6, <1>7 DEF LedgerInv

(* A grant that is given up was no child.                                  *)
LEMMA DeassignKeeps ==
    ASSUME LedgerInv, NEW e \in Engines, NEW j \in Jobs, Deassign(e, j)
    PROVE  LedgerInv'
<1>0. LedgerType /\ Exclusive /\ \A k \in Jobs : Sound(k)
  BY DEF LedgerInv
<1>1. LedgerType' /\ Exclusive'
  BY <1>0 DEF Deassign, manager, LedgerType, Exclusive
<1>2. ASSUME NEW k \in Jobs, k # j PROVE Sound(k)'
  <2>1. Untouched(k)
    BY <1>0, <1>2 DEF Deassign, manager, LedgerType, Untouched
  <2> QED
    BY <1>0, <2>1, Frame DEF Deassign, manager
<1>3. Sound(j)'
  <2>1. \A f \in Engines : hand'[f][j] = IF f = e THEN Empty ELSE hand[f][j]
    BY <1>0 DEF Deassign, LedgerType
  <2>2. Placed(j)' /\ (j \notin astray' => Reserved(j)')
    BY <1>0 DEF Deassign, manager, Sound, Placed, Granted, Reserved
  <2>3. ASSUME j \notin astray' PROVE Owned(j)'
    BY <1>0, <2>1, <2>3 DEF Deassign, manager, Sound, Owned, Busy, Child, Empty
  <2> QED
    BY <2>2, <2>3 DEF Sound
<1> QED
  BY <1>1, <1>2, <1>3 DEF LedgerInv

-----------------------------------------------------------------------------
(* Starts.                                                                 *)

(* The answer to an acknowledgement, heard or not, makes at most a start   *)
(* of what was granted.                                                    *)
LEMMA Heard ==
    ASSUME LedgerType, NEW e \in Engines, NEW j \in Jobs, NEW permission \in BOOLEAN,
           hand[e][j].at = "granted", Hears(e, j, permission)
    PROVE  /\ hand' \in [Engines -> [Jobs -> Hands \union {Empty}]]
           /\ \A f \in Engines, k \in Jobs :
                 f # e \/ k # j => hand'[f][k] = hand[f][k]
           /\ hand'[e][j].devs = hand[e][j].devs \/ ~Child(e, j)'
           /\ Child(e, j)' => permission
<1>1. CASE UNCHANGED hand
  BY <1>1 DEF LedgerType, Child
<1>2. CASE permission /\ hand' = [hand EXCEPT ![e][j] = [@ EXCEPT !.at = "starting"]]
  <2>1. hand[e][j] \in Hands
    BY DEF LedgerType, Empty
  <2>2. [hand[e][j] EXCEPT !.at = "starting"] \in Hands
    BY <2>1 DEF Hands
  <2> QED
    BY <1>2, <2>1, <2>2 DEF LedgerType, Hands
<1>3. CASE ~permission /\ hand' = [hand EXCEPT ![e][j] = Empty]
  BY <1>3 DEF LedgerType, Child, Empty
<1> QED
  BY <1>1, <1>2, <1>3 DEF Hears

(* A refusal gives the devices back.                                       *)
LEMMA Refusal ==
    ASSUME LedgerInv, NEW e \in Engines, NEW j \in Jobs, Refuse(e, j)
    PROVE  /\ TablesType' /\ Exclusive' /\ registered' = registered
           /\ OthersKept(j) /\ state'[j] = "PENDING" /\ Placed(j)'
<1>0. LedgerType /\ Exclusive
  BY DEF LedgerInv
<1>1. TablesType'
  BY <1>0 DEF Refuse, ReleaseDevices, LedgerType, TablesType, States
<1>2. Exclusive'
  BY <1>0, Shrinks DEF Refuse, ReleaseDevices, LedgerType
<1>3. OthersKept(j)
  BY <1>0 DEF Refuse, ReleaseDevices, LedgerType, OthersKept
<1> QED
  BY <1>0, <1>1, <1>2, <1>3 DEF Refuse, LedgerType, Placed, Granted

(* A start is allowed where the devices are.                               *)
LEMMA AcknowledgeKeeps ==
    ASSUME LedgerInv, NEW e \in Engines, NEW j \in Jobs, Acknowledge(e, j)
    PROVE  LedgerInv'
<1> DEFINE mine == Live(j) /\ SameDevices(e, j) /\ node[j] = e
<1>0. /\ LedgerType /\ Exclusive /\ \A k \in Jobs : Sound(k)
      /\ hand[e][j].at = "granted" /\ UNCHANGED <<unreported, astray>>
  BY DEF LedgerInv, Acknowledge
<1>1. ASSUME NEW permission \in BOOLEAN, Hears(e, j, permission),
             TablesType', Exclusive', registered' = registered, OthersKept(j), Sound(j)'
      PROVE  LedgerInv'
  <2>1. /\ hand' \in [Engines -> [Jobs -> Hands \union {Empty}]]
        /\ \A f \in Engines, k \in Jobs : k # j => hand'[f][k] = hand[f][k]
    BY <1>0, <1>1, Heard
  <2>2. LedgerType'
    BY <1>0, <1>1, <2>1 DEF LedgerType, TablesType
  <2>3. ASSUME NEW k \in Jobs, k # j PROVE Sound(k)'
    <3>1. Untouched(k)
      BY <1>0, <1>1, <2>1, <2>3 DEF OthersKept, Untouched
    <3> QED
      BY <1>0, <1>1, <3>1, Frame
  <2> QED
    BY <1>1, <2>2, <2>3 DEF LedgerInv
<1>2. CASE mine /\ state[j] = "ASSIGNED" /\ DevicesReserved(e, j)
           /\ Start(e, j) /\ Hears(e, j, TRUE)
  <2>1. TablesType' /\ Exclusive' /\ registered' = registered /\ OthersKept(j)
    BY <1>0, <1>2 DEF Start, LedgerType, TablesType, Exclusive, OthersKept, States
  <2>2. /\ state'[j] = "RUNNING" /\ node'[j] = e /\ UNCHANGED <<node, devs, alloc>>
        /\ Placed(j)' /\ Reserved(j)'
    BY <1>0, <1>2 DEF Start, DevicesReserved, LedgerType, Sound, Placed, Reserved, Granted
  <2>3. ASSUME j \notin astray' PROVE Owned(j)'
    <3>1. \A f \in Engines : ~Busy(f, j)
      BY <1>0, <1>2, <2>3, Idle
    <3>2. /\ \A f \in Engines : f # e => hand'[f][j] = hand[f][j]
          /\ hand'[e][j].devs = hand[e][j].devs \/ ~Child(e, j)'
      BY <1>0, <1>2, Heard
    <3> QED
      BY <1>0, <1>2, <2>2, <3>1, <3>2 DEF Owned, Busy, Child, SameDevices
  <2>4. Sound(j)'
    BY <2>2, <2>3 DEF Sound
  <2> QED
    BY <1>1, <1>2, <2>1, <2>4
<1>3. CASE mine /\ state[j] = "ASSIGNED" /\ Refuse(e, j) /\ Hears(e, j, FALSE)
  <2>1. /\ TablesType' /\ Exclusive' /\ registered' = registered
        /\ OthersKept(j) /\ state'[j] = "PENDING" /\ Placed(j)'
    BY <1>3, Refusal
  <2>2. ASSUME j \notin astray', NEW f \in Engines PROVE ~Busy(f, j)'
    <3>1. ~Busy(f, j)
      BY <1>0, <1>3, <2>2, Idle
    <3>2. /\ f # e => hand'[f][j] = hand[f][j]
          /\ ~Child(e, j)'
      BY <1>0, <1>3, Heard
    <3> QED
      BY <1>0, <3>1, <3>2 DEF Busy, Child
  <2>3. Sound(j)'
    BY <2>1, <2>2, Rests
  <2> QED
    BY <1>1, <1>3, <2>1, <2>3
<1>4. CASE mine /\ state[j] = "RUNNING" /\ UNCHANGED manager /\ Hears(e, j, TRUE)
  <2>1. TablesType' /\ Exclusive' /\ registered' = registered /\ OthersKept(j)
    BY <1>0, <1>4 DEF manager, LedgerType, TablesType, Exclusive, OthersKept
  <2>2. Placed(j)' /\ (j \notin astray' => Reserved(j)')
    BY <1>0, <1>4 DEF manager, Sound, Placed, Granted, Reserved
  <2>3. ASSUME j \notin astray' PROVE Owned(j)'
    <3>1. /\ Owned(j) /\ j \notin unreported[e]
          /\ \A f \in Engines : Busy(f, j) => f = e
      BY <1>0, <1>4, <2>3 DEF Sound, Owned, Busy, Empty
    <3>2. /\ \A f \in Engines : f # e => hand'[f][j] = hand[f][j]
          /\ hand'[e][j].devs = hand[e][j].devs \/ ~Child(e, j)'
      BY <1>0, <1>4, Heard
    <3> QED
      BY <1>0, <1>4, <3>1, <3>2 DEF manager, Owned, Busy, Child, SameDevices
  <2>4. Sound(j)'
    BY <2>2, <2>3 DEF Sound
  <2> QED
    BY <1>1, <1>4, <2>1, <2>4
<1>5. CASE ~mine /\ UNCHANGED manager /\ Hears(e, j, FALSE)
  <2>1. TablesType' /\ Exclusive' /\ registered' = registered /\ OthersKept(j)
    BY <1>0, <1>5 DEF manager, LedgerType, TablesType, Exclusive, OthersKept
  <2>2. Placed(j)' /\ (j \notin astray' => Reserved(j)')
    BY <1>0, <1>5 DEF manager, Sound, Placed, Granted, Reserved
  <2>3. ASSUME j \notin astray' PROVE Owned(j)'
    <3>1. Owned(j) /\ j \notin unreported[e]
      BY <1>0, <2>3 DEF Sound, Owned, Busy, Empty
    <3>2. /\ \A f \in Engines : f # e => hand'[f][j] = hand[f][j]
          /\ ~Child(e, j)'
      BY <1>0, <1>5, Heard
    <3> QED
      BY <1>0, <1>5, <3>1, <3>2 DEF manager, Owned, Busy, Child
  <2>4. Sound(j)'
    BY <2>2, <2>3 DEF Sound
  <2> QED
    BY <1>1, <1>5, <2>1, <2>4
<1> QED
  BY <1>2, <1>3, <1>4, <1>5 DEF Acknowledge

(* A child at work is the child that was allowed to start.                 *)
LEMMA SpawnKeeps ==
    ASSUME LedgerInv, NEW e \in Engines, NEW j \in Jobs, Spawn(e, j)
    PROVE  LedgerInv'
<1>0. LedgerType /\ Exclusive /\ \A k \in Jobs : Sound(k)
  BY DEF LedgerInv
<1>1. hand[e][j] \in Hands /\ [hand[e][j] EXCEPT !.at = "running"] \in Hands
  <2>1. hand[e][j] \in Hands
    BY <1>0 DEF Spawn, LedgerType, Empty
  <2>2. [hand[e][j] EXCEPT !.at = "running"] \in Hands
    BY <2>1 DEF Hands
  <2> QED
    BY <2>1, <2>2
<1>2. LedgerType' /\ Exclusive'
  BY <1>0, <1>1 DEF Spawn, manager, LedgerType, Exclusive
<1>3. ASSUME NEW k \in Jobs, k # j PROVE Sound(k)'
  <2>1. Untouched(k)
    BY <1>0, <1>3 DEF Spawn, manager, LedgerType, Untouched
  <2> QED
    BY <1>0, <2>1, Frame DEF Spawn, manager
<1>4. Sound(j)'
  <2>1. /\ \A f \in Engines : f # e => hand'[f][j] = hand[f][j]
        /\ hand'[e][j].devs = hand[e][j].devs
    BY <1>0, <1>1 DEF Spawn, LedgerType, Hands
  <2>2. Placed(j)' /\ (j \notin astray' => Reserved(j)')
    BY <1>0 DEF Spawn, manager, Sound, Placed, Granted, Reserved
  <2>3. ASSUME j \notin astray' PROVE Owned(j)'
    <3>1. Owned(j) /\ Child(e, j)
      BY <1>0, <2>3 DEF Spawn, Sound, Child
    <3>2. j \notin unreported[e]
      BY <3>1 DEF Owned, Busy, Child, Empty
    <3> QED
      BY <2>1, <3>1, <3>2 DEF Spawn, manager, Owned, Busy, Child
  <2> QED
    BY <2>2, <2>3 DEF Sound
<1> QED
  BY <1>2, <1>3, <1>4 DEF LedgerInv

(* A child that exits leaves an end to report.                             *)
LEMMA ExitKeeps ==
    ASSUME LedgerInv, NEW e \in Engines, NEW j \in Jobs, Exit(e, j)
    PROVE  LedgerInv'
<1>0. LedgerType /\ Exclusive /\ \A k \in Jobs : Sound(k)
  BY DEF LedgerInv
<1>1. LedgerType' /\ Exclusive'
  BY <1>0 DEF Exit, manager, LedgerType, Exclusive
<1>2. ASSUME NEW k \in Jobs, k # j PROVE Sound(k)'
  <2>1. Untouched(k)
    BY <1>0, <1>2 DEF Exit, manager, LedgerType, Untouched
  <2> QED
    BY <1>0, <2>1, Frame DEF Exit, manager
<1>3. Sound(j)'
  <2>1. /\ \A f \in Engines : hand'[f][j] = IF f = e THEN Empty ELSE hand[f][j]
        /\ \A f \in Engines : j \in unreported'[f] <=> f = e \/ j \in unreported[f]
    BY <1>0 DEF Exit, LedgerType
  <2>2. Placed(j)' /\ (j \notin astray' => Reserved(j)')
    BY <1>0 DEF Exit, manager, Sound, Placed, Granted, Reserved
  <2>3. ASSUME j \notin astray' PROVE Owned(j)'
    BY <1>0, <2>1, <2>3 DEF Exit, manager, Sound, Owned, Busy, Child, Empty
  <2> QED
    BY <2>2, <2>3 DEF Sound
<1> QED
  BY <1>1, <1>2, <1>3 DEF LedgerInv

-----------------------------------------------------------------------------
(* Ends.                                                                   *)

(* A job that is done has no devices and is at no engine.                  *)
LEMMA Ending ==
    ASSUME LedgerInv, NEW j \in Jobs, NEW to \in {"REQUEUED", "COMPLETED", "ENDED"},
           JobDone(j, to)
    PROVE  /\ TablesType' /\ Exclusive' /\ registered' = registered
           /\ OthersKept(j) /\ state'[j] = to /\ Placed(j)'
<1>0. LedgerType /\ Exclusive
  BY DEF LedgerInv
<1>1. TablesType'
  <2>1. /\ state' \in [Jobs -> States] /\ node' \in [Jobs -> Engines \union {NoEngine}]
        /\ registered' \subseteq Engines
    BY <1>0 DEF JobDone, LedgerType, States
  <2>2. devs' \in [Jobs -> SUBSET Device] /\ alloc' \in [Engines -> [Jobs -> SUBSET Device]]
    <3>1. CASE UNCHANGED <<devs, alloc>>
      BY <1>0, <3>1 DEF LedgerType
    <3>2. CASE ReleaseDevices(node[j], j)
      BY <1>0, <3>2 DEF ReleaseDevices, LedgerType
    <3> QED
      BY <3>1, <3>2 DEF JobDone
  <2> QED
    BY <2>1, <2>2 DEF TablesType
<1>2. Exclusive'
  BY <1>0, Shrinks DEF JobDone, ReleaseDevices, LedgerType
<1>3. OthersKept(j)
  BY <1>0 DEF JobDone, ReleaseDevices, LedgerType, OthersKept
<1> QED
  BY <1>0, <1>1, <1>2, <1>3 DEF JobDone, LedgerType, Placed, Granted

(* A step that ends a job no engine is busy with afterwards, and changes   *)
(* nothing else, keeps the invariant.                                      *)
LEMMA DoneKeeps ==
    ASSUME LedgerInv, NEW j \in Jobs, NEW to \in {"REQUEUED", "COMPLETED", "ENDED"},
           JobDone(j, to), hand' = hand,
           unreported' \in [Engines -> SUBSET Jobs], astray' \in SUBSET Jobs,
           \A f \in Engines, k \in Jobs :
              k # j => (k \in unreported'[f] <=> k \in unreported[f]),
           \A k \in Jobs : k \in astray => k \in astray',
           j \notin astray' => \A f \in Engines : ~Busy(f, j)'
    PROVE  LedgerInv'
<1>0. /\ LedgerType /\ \A k \in Jobs : Sound(k)
      /\ TablesType' /\ Exclusive' /\ registered' = registered
      /\ OthersKept(j) /\ state'[j] = to /\ Placed(j)'
  BY Ending DEF LedgerInv
<1>1. LedgerType'
  BY <1>0 DEF LedgerType, TablesType
<1>2. ASSUME NEW k \in Jobs, k # j PROVE Sound(k)'
  <2>1. Untouched(k)
    BY <1>0, <1>2 DEF OthersKept, Untouched
  <2> QED
    BY <1>0, <2>1, Frame
<1>3. Sound(j)'
  BY <1>0, Rests
<1> QED
  BY <1>0, <1>1, <1>2, <1>3 DEF LedgerInv

(* A report is about a job that runs, or about one that went astray.       *)
LEMMA ReportKeeps ==
    ASSUME LedgerInv, NEW e \in Engines, NEW j \in Jobs, Report(e, j)
    PROVE  LedgerInv'
<1>0. LedgerType /\ Exclusive /\ \A k \in Jobs : Sound(k)
  BY DEF LedgerInv
<1>1. /\ hand' = hand /\ unreported' \in [Engines -> SUBSET Jobs] /\ astray' \in SUBSET Jobs
      /\ \A f \in Engines, k \in Jobs :
            k # j => (k \in unreported'[f] <=> k \in unreported[f])
      /\ \A k \in Jobs : k \in astray => k \in astray'
      /\ \A f \in Engines : j \in unreported'[f] => j \in unreported[f]
      /\ j \notin astray' => j \notin unreported'[e]
  <2>1. CASE unreported' = [unreported EXCEPT ![e] = @ \ {j}] /\ UNCHANGED astray
    BY <1>0, <2>1 DEF Report, LedgerType
  <2>2. CASE astray' = astray \union {j} /\ UNCHANGED unreported
    BY <1>0, <2>2 DEF Report, LedgerType
  <2> QED
    BY <2>1, <2>2 DEF Report
<1>2. ASSUME j \notin astray'
      PROVE  state[j] = "RUNNING" /\ \A f \in Engines : ~Busy(f, j)'
  <2>1. Owned(j)
    BY <1>0, <1>1, <1>2 DEF Sound
  <2>2. state[j] = "RUNNING" /\ node[j] = e /\ hand[e][j] = Empty
    BY <2>1 DEF Report, Owned, Busy
  <2>3. \A f \in Engines : Busy(f, j) => f = e
    BY <2>1, <2>2 DEF Owned
  <2> QED
    BY <1>1, <1>2, <2>2, <2>3 DEF Busy, Child, Empty
<1>3. CASE \E to \in {"REQUEUED", "COMPLETED", "ENDED"} : Live(j) /\ JobDone(j, to)
  BY <1>1, <1>2, <1>3, DoneKeeps
<1>4. CASE ~Live(j) /\ UNCHANGED manager
  <2>1. j \in astray'
    BY <1>2, <1>4 DEF Live, Granted
  <2>2. LedgerType' /\ Exclusive'
    BY <1>0, <1>1, <1>4 DEF manager, LedgerType, Exclusive
  <2>3. ASSUME NEW k \in Jobs, k # j PROVE Sound(k)'
    <3>1. Untouched(k)
      BY <1>1, <1>4, <2>3 DEF manager, Untouched
    <3> QED
      BY <1>0, <1>4, <3>1, Frame DEF manager
  <2>4. Sound(j)'
    BY <1>0, <1>4, <2>1 DEF manager, Sound, Placed, Granted
  <2> QED
    BY <2>2, <2>3, <2>4 DEF LedgerInv
<1> QED
  BY <1>3, <1>4 DEF Report

(* A job that is cancelled does not run.                                   *)
LEMMA CancelKeeps ==
    ASSUME LedgerInv, NEW j \in Jobs, Cancel(j)
    PROVE  LedgerInv'
<1>0. LedgerType /\ \A k \in Jobs : Sound(k)
  BY DEF LedgerInv
<1>1. JobDone(j, "ENDED") /\ UNCHANGED <<hand, unreported, astray>>
  BY DEF Cancel, chiefs
<1>2. ASSUME j \notin astray, NEW f \in Engines PROVE ~Busy(f, j)
  BY <1>0, <1>2, Idle DEF Cancel, Queued
<1>3. j \notin astray' => \A f \in Engines : ~Busy(f, j)'
  BY <1>1, <1>2 DEF Busy, Child
<1> QED
  BY <1>0, <1>1, <1>3, DoneKeeps DEF LedgerType

(* A lost grant is one its engine is not busy with.                        *)
LEMMA LostGrantKeeps ==
    ASSUME LedgerInv, NEW e \in Engines, NEW j \in Jobs, LostGrant(e, j)
    PROVE  LedgerInv'
<1>0. LedgerType /\ \A k \in Jobs : Sound(k)
  BY DEF LedgerInv
<1>1. JobDone(j, "REQUEUED") /\ UNCHANGED <<hand, unreported, astray>>
  BY DEF LostGrant, chiefs
<1>2. ASSUME j \notin astray, NEW f \in Engines PROVE ~Busy(f, j)
  BY <1>0, <1>2 DEF LostGrant, Unknown, Sound, Owned, Busy
<1>3. j \notin astray' => \A f \in Engines : ~Busy(f, j)'
  BY <1>1, <1>2 DEF Busy, Child
<1> QED
  BY <1>0, <1>1, <1>3, DoneKeeps DEF LedgerType

(* Only a job that went astray is adopted.                                 *)
LEMMA AdoptKeeps ==
    ASSUME LedgerInv, NEW e \in Engines, NEW j \in Jobs, Adopt(e, j)
    PROVE  LedgerInv'
<1>0. LedgerType /\ Exclusive /\ \A k \in Jobs : Sound(k)
  BY DEF LedgerInv
<1>1. j \in astray'
  BY <1>0 DEF Adopt, Sound, Owned, Busy
<1>2. LedgerType' /\ Exclusive'
  BY <1>0 DEF Adopt, chiefs, LedgerType, Exclusive, States
<1>3. ASSUME NEW k \in Jobs, k # j PROVE Sound(k)'
  <2>1. Untouched(k)
    BY <1>0, <1>3 DEF Adopt, chiefs, LedgerType, Untouched
  <2> QED
    BY <1>0, <2>1, Frame DEF Adopt
<1>4. Sound(j)'
  BY <1>0, <1>1 DEF Adopt, LedgerType, Sound, Placed
<1> QED
  BY <1>2, <1>3, <1>4 DEF LedgerInv

-----------------------------------------------------------------------------
(* Engines.                                                                *)

(* The record goes, with its allocations and the jobs that were placed.    *)
LEMMA Dismissal ==
    ASSUME LedgerType, NEW e \in Engines, Dismiss(e)
    PROVE  /\ TablesType' /\ registered' = registered \ {e}
           /\ \A k \in Jobs \ Hosted(e) :
                 state'[k] = state[k] /\ node'[k] = node[k] /\ devs'[k] = devs[k]
           /\ \A k \in Hosted(e) :
                 state'[k] \in {"PENDING", "REQUEUED"} /\ node'[k] = NoEngine
           /\ \A f \in Engines, k \in Jobs :
                 alloc'[f][k] = IF f = e THEN {} ELSE alloc[f][k]
<1>1. ASSUME NEW k \in Jobs \ Hosted(e)
      PROVE  state'[k] = state[k] /\ node'[k] = node[k] /\ devs'[k] = devs[k]
  BY DEF Dismiss
<1>2. ASSUME NEW k \in Hosted(e)
      PROVE  /\ k \in Jobs /\ state'[k] \in {"PENDING", "REQUEUED"}
             /\ node'[k] = NoEngine /\ devs'[k] = {}
  <2>1. k \in Jobs /\ state[k] \in {"ASSIGNED", "RUNNING"}
    BY DEF Hosted, Granted
  <2> QED
    BY <2>1 DEF Dismiss
<1>3. alloc' = [alloc EXCEPT ![e] = [k \in Jobs |-> {}]] /\ registered' = registered \ {e}
  BY DEF Dismiss
<1>4. /\ alloc' \in [Engines -> [Jobs -> SUBSET Device]]
      /\ \A f \in Engines, k \in Jobs : alloc'[f][k] = IF f = e THEN {} ELSE alloc[f][k]
  BY <1>3 DEF LedgerType
<1>5. node' \in [Jobs -> Engines \union {NoEngine}] /\ devs' \in [Jobs -> SUBSET Device]
  <2>1. /\ node' = [k \in Jobs |-> IF k \in Hosted(e) THEN NoEngine ELSE node[k]]
        /\ devs' = [k \in Jobs |-> IF k \in Hosted(e) THEN {} ELSE devs[k]]
    BY DEF Dismiss
  <2> QED
    BY <2>1 DEF LedgerType
<1>6. state' \in [Jobs -> States]
  <2>1. \A k \in Jobs : state'[k] \in States
    BY <1>1, <1>2 DEF LedgerType, States
  <2>2. DOMAIN state' = Jobs /\ state' = [k \in Jobs |-> state'[k]]
    BY DEF Dismiss
  <2> QED
    BY <2>1, <2>2
<1> QED
  BY <1>1, <1>2, <1>3, <1>4, <1>5, <1>6 DEF TablesType, LedgerType

(* An engine that is dismissed is busy with no job that is not astray      *)
(* afterwards; what runs elsewhere is not touched.                         *)
LEMMA DismissKeeps ==
    ASSUME LedgerInv, NEW e \in Engines, EngineLost(e) \/ EngineDismissed(e)
    PROVE  LedgerInv'
<1>0. LedgerType /\ Exclusive /\ \A k \in Jobs : Sound(k)
  BY DEF LedgerInv
<1>1. /\ TablesType' /\ registered' = registered \ {e}
      /\ \A k \in Jobs \ Hosted(e) :
            state'[k] = state[k] /\ node'[k] = node[k] /\ devs'[k] = devs[k]
      /\ \A k \in Hosted(e) : state'[k] \in {"PENDING", "REQUEUED"} /\ node'[k] = NoEngine
      /\ \A f \in Engines, k \in Jobs :
            alloc'[f][k] = IF f = e THEN {} ELSE alloc[f][k]
  BY <1>0, Dismissal DEF EngineLost, EngineDismissed
<1>2. astray \subseteq astray' /\ astray' \subseteq Jobs
  BY <1>0 DEF EngineLost, EngineDismissed, LedgerType
<1>3. LedgerType'
  <2>1. /\ hand' \in [Engines -> [Jobs -> Hands \union {Empty}]]
        /\ unreported' \in [Engines -> SUBSET Jobs]
    <3>1. CASE EngineLost(e)
      <4>1. [j \in Jobs |-> Empty] \in [Jobs -> Hands \union {Empty}]
        OBVIOUS
      <4> QED
        BY <1>0, <3>1, <4>1 DEF EngineLost, LedgerType
    <3>2. CASE EngineDismissed(e)
      BY <1>0, <3>2 DEF EngineDismissed, chiefs, LedgerType
    <3> QED
      BY <3>1, <3>2
  <2> QED
    BY <1>1, <1>2, <2>1 DEF LedgerType, TablesType
<1>4. Exclusive'
  BY <1>0, <1>1, Shrinks
<1>5. ASSUME NEW k \in Jobs, NEW f \in Engines, k \notin astray', Busy(f, k)'
      PROVE  /\ f # e /\ Busy(f, k)
             /\ hand'[f][k] = hand[f][k] /\ unreported'[f] = unreported[f]
  BY <1>0, <1>5 DEF EngineLost, EngineDismissed, chiefs, Busy, Child, Empty, LedgerType
<1>6. ASSUME NEW k \in Jobs PROVE Sound(k)'
  <2>1. Placed(k)'
    BY <1>0, <1>1 DEF Sound, Placed, Granted, Hosted
  <2>2. ASSUME k \notin astray' PROVE Owned(k)'
    <3>1. Owned(k)
      BY <1>0, <1>2, <2>2 DEF Sound
    <3>2. ASSUME NEW f \in Engines, Busy(f, k)'
          PROVE  /\ state'[k] = "RUNNING" /\ node'[k] = f
                 /\ Child(f, k)' => hand'[f][k].devs = devs'[k]
                 /\ k \in unreported'[f] => hand'[f][k] = Empty
      <4>1. /\ f # e /\ Busy(f, k)
            /\ hand'[f][k] = hand[f][k] /\ unreported'[f] = unreported[f]
        BY <1>5, <2>2, <3>2
      <4>2. state[k] = "RUNNING" /\ node[k] = f /\ k \notin Hosted(e)
        BY <3>1, <4>1 DEF Owned, Hosted
      <4> QED
        BY <1>1, <3>1, <4>1, <4>2 DEF Owned, Child
    <3> QED
      BY <3>2 DEF Owned, Child
  <2>3. ASSUME k \notin astray', state'[k] = "RUNNING"
        PROVE  alloc'[node'[k]][k] = devs'[k] /\ Cardinality(devs'[k]) = Need[k]
    <3>1. k \notin Hosted(e) /\ state[k] = "RUNNING" /\ Placed(k) /\ Reserved(k)
      BY <1>0, <1>1, <1>2, <2>3 DEF Sound
    <3>2. node[k] \in Engines /\ node[k] # e
      BY <1>0, <3>1 DEF Placed, Granted, Hosted, LedgerType
    <3> QED
      BY <1>1, <3>1, <3>2 DEF Reserved
  <2> QED
    BY <2>1, <2>2, <2>3 DEF Sound, Reserved
<1> QED
  BY <1>3, <1>4, <1>6 DEF LedgerInv

LEMMA RegisterKeeps ==
    ASSUME LedgerInv, NEW e \in Engines, Register(e)
    PROVE  LedgerInv'
<1>0. LedgerType /\ Exclusive /\ \A k \in Jobs : Sound(k)
  BY DEF LedgerInv
<1>1. LedgerType' /\ Exclusive'
  BY <1>0 DEF Register, chiefs, LedgerType, Exclusive
<1>2. ASSUME NEW k \in Jobs PROVE Sound(k)'
  <2>1. Untouched(k)
    BY DEF Register, chiefs, Untouched
  <2> QED
    BY <1>0, <2>1, Frame DEF Register
<1> QED
  BY <1>1, <1>2 DEF LedgerInv

-----------------------------------------------------------------------------
LEMMA StepKeeps == LedgerInv /\ [GrantNext]_vars => LedgerInv'
<1> SUFFICES ASSUME LedgerInv, [GrantNext]_vars PROVE LedgerInv'
  OBVIOUS
<1>1. CASE UNCHANGED vars
  BY <1>1
  DEF vars, manager, chiefs, LedgerInv, LedgerType, Exclusive, Sound, Placed, Owned, Reserved,
      Busy, Child, Granted
<1>2. CASE \E e \in Engines, j \in Jobs :
              \/ Grant(e, j) \/ Replay(e, j) \/ Move(e, j) \/ Deassign(e, j)
              \/ Acknowledge(e, j) \/ Spawn(e, j) \/ Exit(e, j) \/ Report(e, j)
              \/ LostGrant(e, j) \/ Adopt(e, j)
  BY <1>2, GrantKeeps, AssignedKeeps, DeassignKeeps, AcknowledgeKeeps, SpawnKeeps, ExitKeeps,
     ReportKeeps, LostGrantKeeps, AdoptKeeps
<1>3. CASE \E j \in Jobs : Cancel(j)
  BY <1>3, CancelKeeps
<1>4. CASE \E e \in Engines : EngineLost(e) \/ EngineDismissed(e) \/ Register(e)
  BY <1>4, DismissKeeps, RegisterKeeps
<1> QED
  BY <1>1, <1>2, <1>3, <1>4 DEF GrantNext

THEOREM LedgerSound == GrantSpec => []LedgerInv
  BY Initially, StepKeeps, PTL DEF GrantSpec

(* Whatever answers are lost, grants moved and engines dismissed, and for  *)
(* every number of pilots, jobs and devices: a child whose attempt was not *)
(* ended behind its back has all its devices reserved all the time.        *)
THEOREM DevicesHeld == GrantSpec => []ChildHoldsDevices
<1>1. LedgerInv => ChildHoldsDevices
  <2> SUFFICES ASSUME LedgerInv, NEW e \in Engines, NEW j \in Jobs \ astray, Child(e, j)
               PROVE  /\ state[j] = "RUNNING" /\ node[j] = e
                      /\ hand[e][j].devs = devs[j] /\ alloc[e][j] = devs[j]
                      /\ Cardinality(devs[j]) = Need[j]
    BY DEF ChildHoldsDevices
  <2>1. Owned(j) /\ Reserved(j)
    BY DEF LedgerInv, Sound
  <2> QED
    BY <2>1 DEF Owned, Reserved, Busy
<1> QED
  BY <1>1, LedgerSound, PTL

(* Two such children on a pilot never have a device in common.             *)
THEOREM DevicesExclusive == GrantSpec => []NoSharedDevice
<1>1. LedgerInv => NoSharedDevice
  <2> SUFFICES ASSUME LedgerInv, NEW e \in Engines, NEW j \in Jobs \ astray,
                      NEW k \in Jobs \ astray, j # k, Child(e, j), Child(e, k)
               PROVE  hand[e][j].devs \intersect hand[e][k].devs = {}
    BY DEF NoSharedDevice
  <2>1. /\ Owned(j) /\ Reserved(j) /\ Owned(k) /\ Reserved(k) /\ Exclusive
    BY DEF LedgerInv, Sound
  <2>2. hand[e][j].devs = alloc[e][j] /\ hand[e][k].devs = alloc[e][k]
    BY <2>1 DEF Owned, Reserved, Busy
  <2> QED
    BY <2>1, <2>2 DEF Exclusive
<1> QED
  BY <1>1, LedgerSound, PTL

-----------------------------------------------------------------------------
(* Storage.  What the counter holds is a sum over the jobs, except a set U *)
(* of completed ones that nobody counted.                                  *)

Claims == [j \in Jobs |-> Claim(j)]
Counted(U) ==
    /\ U \subseteq {j \in astray : state[j] = "COMPLETED"}
    /\ inUse = SumFunctionOnSet(Claims, Jobs \ U)

(* A queued job is at no engine: its storage is not given back again.      *)
QueuedNowhere == \A j \in Jobs : Queued(j) => node[j] = NoEngine

StorageInv == LedgerInv /\ QueuedNowhere /\ \E U \in SUBSET Jobs : Counted(U)

(* Claims are natural numbers.                                             *)
LEMMA ClaimsNatural ==
    ASSUME NEW j \in Jobs
    PROVE  Claims[j] = Claim(j) /\ Claim(j) \in Nat
BY GrantConstants DEF Claims, Claim

LEMMA ClaimsNaturalNext ==
    ASSUME NEW j \in Jobs
    PROVE  Claims'[j] = Claim(j)' /\ Claim(j)' \in Nat
BY GrantConstants DEF Claims, Claim

LEMMA SumOfClaims ==
    ASSUME NEW U
    PROVE  /\ IsFiniteSet(Jobs \ U)
           /\ SumFunctionOnSet(Claims, Jobs \ U) \in Nat
           /\ SumFunctionOnSet(Claims', Jobs \ U) \in Nat
<1>1. IsFiniteSet(Jobs \ U)
  BY GrantConstants, FS_Difference
<1>2. \A j \in Jobs \ U : Claims[j] \in Nat /\ Claims'[j] \in Nat
  BY ClaimsNatural, ClaimsNaturalNext
<1> QED
  BY <1>1, <1>2, SumNat

(* A step that changes the claim of one job and the counter by as much.    *)
LEMMA OneClaim ==
    ASSUME NEW U \in SUBSET Jobs, Counted(U), NEW j \in Jobs, state[j] # "COMPLETED",
           \A k \in Jobs \ {j} : state'[k] = state[k],
           astray \subseteq astray', inUse' = inUse + Claim(j)' - Claim(j)
    PROVE  Counted(U)'
<1> DEFINE S == Jobs \ U
<1>1. j \in S /\ IsFiniteSet(S)
  BY SumOfClaims DEF Counted
<1>2. \A k \in S : Claims[k] \in Int /\ Claims'[k] \in Int
  BY ClaimsNatural, ClaimsNaturalNext
<1>3. \A k \in S : k # j => Claims[k] = Claims'[k]
  <2>1. \A k \in S : k # j => Claim(k)' = Claim(k)
    BY DEF Claim, Granted
  <2> QED
    BY <2>1, ClaimsNatural, ClaimsNaturalNext
<1> HIDE DEF S
<1>4. SumFunctionOnSet(Claims', S) = SumFunctionOnSet(Claims, S) + Claims'[j] - Claims[j]
  BY <1>1, <1>2, <1>3, SumChange
<1>5. Claims'[j] = Claim(j)' /\ Claims[j] = Claim(j)
  BY ClaimsNatural, ClaimsNaturalNext
<1>6. inUse' = SumFunctionOnSet(Claims', S)
  BY <1>4, <1>5 DEF Counted, S
<1>7. U \subseteq {k \in astray' : state'[k] = "COMPLETED"}
  BY DEF Counted
<1> QED
  BY <1>6, <1>7 DEF Counted, S

(* A job that completes unexpectedly joins those that nobody counts.       *)
LEMMA OneUncounted ==
    ASSUME NEW U \in SUBSET Jobs, Counted(U), NEW j \in Jobs, Queued(j),
           state'[j] = "COMPLETED", j \in astray',
           \A k \in Jobs \ {j} : state'[k] = state[k],
           astray \subseteq astray', inUse' = inUse
    PROVE  Counted(U \union {j})'
<1> DEFINE S == Jobs \ U
           T == Jobs \ (U \union {j})
<1>1. j \in S /\ T = S \ {j} /\ IsFiniteSet(S)
  BY SumOfClaims DEF Counted, Queued
<1>2. \A k \in S : Claims[k] \in Int
  BY ClaimsNatural
<1>3. Claims[j] = 0
  BY ClaimsNatural DEF Claim, Queued, Granted
<1>4. SumFunctionOnSet(Claims, S) = Claims[j] + SumFunctionOnSet(Claims, T)
  <2> HIDE DEF S, T
  <2>1. SumFunctionOnSet(Claims, S) = Claims[j] + SumFunctionOnSet(Claims, S \ {j})
    BY <1>1, <1>2, SumTakeOut
  <2> QED BY <1>1, <2>1
<1>5. SumFunctionOnSet(Claims, T) = SumFunctionOnSet(Claims', T)
  <2>1. \A k \in T : Claim(k)' = Claim(k)
    BY DEF Claim, Granted
  <2>2. \A k \in T : Claims[k] = Claims'[k]
    BY <2>1, ClaimsNatural, ClaimsNaturalNext
  <2>3. IsFiniteSet(T)
    BY SumOfClaims
  <2> HIDE DEF T
  <2> QED BY <2>2, <2>3, SumSame
<1>6. SumFunctionOnSet(Claims', T) \in Nat
  BY SumOfClaims
<1> HIDE DEF S, T
<1>7. inUse' = SumFunctionOnSet(Claims', T)
  BY <1>3, <1>4, <1>5, <1>6 DEF Counted, S
<1>8. U \union {j} \subseteq {k \in astray' : state'[k] = "COMPLETED"}
  BY DEF Counted, Queued
<1> QED
  BY <1>7, <1>8 DEF Counted, T

(* Nothing about storage changes.                                          *)
LEMMA ClaimsKept ==
    ASSUME NEW U \in SUBSET Jobs, Counted(U), state' = state, inUse' = inUse,
           astray \subseteq astray'
    PROVE  Counted(U)'
<1>1. Claims' = Claims
  BY DEF Claims, Claim, Granted
<1> QED
  BY <1>1 DEF Counted

(* A claim that is counted is in the counter.                              *)
LEMMA ClaimInUse ==
    ASSUME NEW U \in SUBSET Jobs, Counted(U), NEW j \in Jobs, state[j] # "COMPLETED"
    PROVE  Claim(j) <= inUse /\ inUse \in Nat /\ Claim(j) \in Nat
<1>1. j \in Jobs \ U /\ IsFiniteSet(Jobs \ U)
  BY SumOfClaims DEF Counted
<1>2. \A k \in Jobs \ U : Claims[k] \in Nat
  BY ClaimsNatural
<1>3. Claims[j] <= SumFunctionOnSet(Claims, Jobs \ U)
  BY <1>1, <1>2, SumMember
<1> QED
  BY <1>3, ClaimsNatural, SumOfClaims DEF Counted

-----------------------------------------------------------------------------
LEMMA StorageAtFirst == GrantInit => StorageInv
<1> SUFFICES ASSUME GrantInit PROVE StorageInv
  OBVIOUS
<1>1. QueuedNowhere
  BY DEF GrantInit, QueuedNowhere
<1>2. Counted({})
  <2>1. \A j \in Jobs \ {} : Claims[j] = 0
    BY DEF GrantInit, Claims, Claim, Granted
  <2>2. SumFunctionOnSet(Claims, Jobs \ {}) = 0
    BY <2>1, SumOfClaims, SumZero
  <2> QED
    BY <2>2 DEF GrantInit, Counted
<1> QED
  BY <1>1, <1>2, Initially DEF StorageInv

(* A job that is done gives back what it claimed, as far as it is counted. *)
LEMMA DoneCounted ==
    ASSUME LedgerInv, QueuedNowhere, NEW j \in Jobs, Live(j),
           NEW to \in {"REQUEUED", "COMPLETED", "ENDED"}, JobDone(j, to),
           astray \subseteq astray', to = "COMPLETED" /\ j \notin astray' => state[j] = "RUNNING",
           NEW U \in SUBSET Jobs, Counted(U)
    PROVE  QueuedNowhere' /\ \E V \in SUBSET Jobs : Counted(V)'
<1>0. LedgerType
  BY DEF LedgerInv
<1>1. /\ state'[j] = to /\ node'[j] = NoEngine
      /\ \A k \in Jobs \ {j} : state'[k] = state[k] /\ node'[k] = node[k]
      /\ state[j] # "COMPLETED"
  BY <1>0 DEF JobDone, LedgerType, Live, Queued, Granted
<1>2. QueuedNowhere'
  BY <1>1 DEF QueuedNowhere, Queued
<1>3. CASE node[j] = NoEngine
  <2>1. Queued(j) /\ inUse' = inUse
    BY <1>0, <1>3, GrantConstants
    DEF JobDone, Live, LedgerInv, Sound, Placed, LedgerType
  <2>2. CASE to = "COMPLETED"
    <3>1. j \in astray'
      BY <2>1, <2>2 DEF Queued
    <3>2. Counted(U \union {j})'
      BY <1>1, <2>1, <2>2, <3>1, OneUncounted
    <3> QED
      BY <1>2, <3>2
  <2>3. CASE to # "COMPLETED"
    <3>1. Claim(j) = 0 /\ Claim(j)' = 0
      BY <1>1, <2>1, <2>3 DEF Claim, Queued, Granted
    <3>2. inUse' = inUse + Claim(j)' - Claim(j)
      BY <2>1, <3>1, ClaimInUse, <1>1
    <3> QED
      BY <1>1, <1>2, <3>2, OneClaim
  <2> QED
    BY <2>2, <2>3
<1>4. CASE node[j] # NoEngine
  <2>1. Granted(j) /\ inUse' = inUse - Returned(j, to)
    BY <1>4 DEF JobDone, Live, QueuedNowhere
  <2>2. Claim(j) = StartUse[j] /\ Claim(j)' = StartUse[j] - Returned(j, to)
    BY <1>1, <2>1, GrantConstants DEF Claim, Granted, Returned
  <2>3. inUse' = inUse + Claim(j)' - Claim(j)
    BY <1>1, <2>1, <2>2, ClaimInUse, GrantConstants DEF Returned
  <2> QED
    BY <1>1, <1>2, <2>3, OneClaim
<1> QED
  BY <1>3, <1>4

(* A dismissed engine's jobs give back exactly what they claimed.          *)
LEMMA DismissCounted ==
    ASSUME LedgerInv, QueuedNowhere, NEW e \in Engines, Dismiss(e), astray \subseteq astray',
           NEW U \in SUBSET Jobs, Counted(U)
    PROVE  QueuedNowhere' /\ Counted(U)'
<1> DEFINE S == Jobs \ U
           H == Hosted(e)
           R == S \ H
<1>1. /\ \A k \in Jobs \ H : state'[k] = state[k] /\ node'[k] = node[k]
      /\ \A k \in H : state'[k] \in {"PENDING", "REQUEUED"} /\ node'[k] = NoEngine
  BY Dismissal DEF LedgerInv
<1>2. QueuedNowhere'
  <2>1. \A k \in Jobs \ H : Queued(k)' => Queued(k) /\ node'[k] = node[k]
    BY <1>1 DEF Queued
  <2>2. \A k \in H : node'[k] = NoEngine
    BY <1>1
  <2> HIDE DEF H
  <2> QED
    BY <2>1, <2>2 DEF QueuedNowhere
<1>3. /\ H \in SUBSET S /\ IsFiniteSet(S) /\ IsFiniteSet(H) /\ IsFiniteSet(R)
      /\ R \in SUBSET Jobs /\ H \in SUBSET Jobs
  <2>1. H \in SUBSET S /\ IsFiniteSet(S)
    BY SumOfClaims DEF Counted, Hosted, Granted
  <2> HIDE DEF H
  <2> QED
    BY <2>1, FS_Subset
<1>4. \A k \in H : Claims[k] = StartUse[k] /\ Claims'[k] = 0
  <2>1. \A k \in H : k \in Jobs /\ Granted(k) /\ Queued(k)'
    BY <1>1 DEF Hosted, Queued
  <2>2. \A k \in H : Claim(k) = StartUse[k] /\ Claim(k)' = 0
    BY <2>1 DEF Claim, Granted, Queued
  <2> HIDE DEF H
  <2> QED
    BY <1>3, <2>2, ClaimsNatural, ClaimsNaturalNext
<1>5. \A k \in R : Claims[k] = Claims'[k]
  <2>1. \A k \in R : Claim(k)' = Claim(k)
    BY <1>1 DEF Claim, Granted
  <2> QED
    BY <1>3, <2>1, ClaimsNatural, ClaimsNaturalNext
<1>6. \A k \in S : Claims[k] \in Int /\ Claims'[k] \in Int
  BY ClaimsNatural, ClaimsNaturalNext
<1>7. inUse' = NonNegative(inUse - SumFunctionOnSet(StartUse, H))
  BY DEF Dismiss
<1>8. /\ inUse = SumFunctionOnSet(Claims, S)
      /\ U \subseteq {k \in astray' : state'[k] = "COMPLETED"}
  BY <1>1 DEF Counted, Hosted, Granted
<1>9. SumFunctionOnSet(Claims, R) \in Nat
  <2>1. \A k \in R : Claims[k] \in Nat
    BY ClaimsNatural
  <2> HIDE DEF R
  <2> QED BY <1>3, <2>1, SumNat
<1>10. SumFunctionOnSet(Claims, H) \in Nat
  <2>1. \A k \in H : Claims[k] \in Nat
    BY <1>3, ClaimsNatural
  <2> HIDE DEF H
  <2> QED BY <1>3, <2>1, SumNat
<1>11. inUse' = SumFunctionOnSet(Claims', S)
  <2> HIDE DEF S, H
  <2>1. SumFunctionOnSet(Claims, S) = SumFunctionOnSet(Claims, H) + SumFunctionOnSet(Claims, R)
    BY <1>3, <1>6, SumSplit
  <2>2. SumFunctionOnSet(Claims', S) = SumFunctionOnSet(Claims', H) + SumFunctionOnSet(Claims', R)
    BY <1>3, <1>6, SumSplit
  <2> HIDE DEF R
  <2>3. SumFunctionOnSet(Claims, H) = SumFunctionOnSet(StartUse, H)
    BY <1>3, <1>4, SumSame
  <2>4. SumFunctionOnSet(Claims', H) = 0
    BY <1>3, <1>4, SumZero
  <2>5. SumFunctionOnSet(Claims, R) = SumFunctionOnSet(Claims', R)
    BY <1>3, <1>5, SumSame
  <2> QED
    BY <1>7, <1>8, <1>9, <1>10, <2>1, <2>2, <2>3, <2>4, <2>5 DEF NonNegative
<1> QED
  BY <1>2, <1>8, <1>11 DEF Counted

(* A step at one job that changes its claim by what the counter gains.     *)
LEMMA StepAt ==
    ASSUME QueuedNowhere, NEW U \in SUBSET Jobs, Counted(U), astray \subseteq astray',
           NEW j \in Jobs, state[j] # "COMPLETED", Queued(j)' => node'[j] = NoEngine,
           \A k \in Jobs \ {j} : state'[k] = state[k] /\ node'[k] = node[k],
           inUse' = inUse + Claim(j)' - Claim(j)
    PROVE  QueuedNowhere' /\ \E V \in SUBSET Jobs : Counted(V)'
<1>1. QueuedNowhere'
  BY DEF QueuedNowhere, Queued
<1>2. Counted(U)'
  BY OneClaim
<1> QED
  BY <1>1, <1>2

(* A step that leaves the job table and the counter alone.                 *)
LEMMA StepElsewhere ==
    ASSUME QueuedNowhere, NEW U \in SUBSET Jobs, Counted(U), astray \subseteq astray',
           state' = state, node' = node, inUse' = inUse
    PROVE  QueuedNowhere' /\ \E V \in SUBSET Jobs : Counted(V)'
<1>1. QueuedNowhere'
  BY DEF QueuedNowhere, Queued
<1> QED
  BY <1>1, ClaimsKept

LEMMA StorageStep ==
    ASSUME LedgerInv, QueuedNowhere, NEW U \in SUBSET Jobs, Counted(U), GrantNext
    PROVE  QueuedNowhere' /\ \E V \in SUBSET Jobs : Counted(V)'
<1> USE DEF LedgerType
<1>0. LedgerType /\ \A j \in Jobs : Sound(j)
  BY DEF LedgerInv
<1>1. ASSUME NEW e \in Engines, NEW j \in Jobs, Grant(e, j)
      PROVE  QueuedNowhere' /\ \E V \in SUBSET Jobs : Counted(V)'
  <2>1. /\ state'[j] = "ASSIGNED" /\ inUse' = inUse + StartUse[j]
        /\ \A k \in Jobs \ {j} : state'[k] = state[k] /\ node'[k] = node[k]
        /\ astray' = astray /\ Queued(j)
    BY <1>0, <1>1 DEF Grant
  <2>2. Claim(j) = 0 /\ Claim(j)' = StartUse[j] /\ state[j] # "COMPLETED" /\ ~Queued(j)'
    BY <2>1 DEF Claim, Granted, Queued
  <2>3. inUse' = inUse + Claim(j)' - Claim(j)
    BY <2>1, <2>2, ClaimInUse, GrantConstants
  <2> QED
    BY <2>1, <2>2, <2>3, StepAt
<1>2. ASSUME NEW e \in Engines, NEW j \in Jobs, Move(e, j)
      PROVE  QueuedNowhere' /\ \E V \in SUBSET Jobs : Counted(V)'
  <2>1. /\ state' = state /\ inUse' = inUse /\ astray' = astray
        /\ \A k \in Jobs \ {j} : node'[k] = node[k]
        /\ state[j] = "ASSIGNED"
    BY <1>0, <1>2 DEF Move
  <2>2. QueuedNowhere'
    BY <2>1 DEF QueuedNowhere, Queued
  <2> QED
    BY <2>1, <2>2, ClaimsKept
<1>3. ASSUME NEW e \in Engines, NEW j \in Jobs,
             Replay(e, j) \/ Deassign(e, j) \/ Spawn(e, j) \/ Exit(e, j)
      PROVE  QueuedNowhere' /\ \E V \in SUBSET Jobs : Counted(V)'
  <2>1. state' = state /\ node' = node /\ inUse' = inUse /\ astray' = astray
    BY <1>3 DEF Replay, Deassign, Spawn, Exit, manager
  <2> QED
    BY <2>1, StepElsewhere
<1>4. ASSUME NEW e \in Engines, NEW j \in Jobs, Acknowledge(e, j)
      PROVE  QueuedNowhere' /\ \E V \in SUBSET Jobs : Counted(V)'
  <2>0. astray' = astray
    BY <1>4 DEF Acknowledge
  <2>1. CASE UNCHANGED manager
    <3>1. state' = state /\ node' = node /\ inUse' = inUse
      BY <2>1 DEF manager
    <3> QED
      BY <2>0, <3>1, StepElsewhere
  <2>2. CASE state[j] = "ASSIGNED" /\ Start(e, j)
    <3>1. /\ state'[j] = "RUNNING" /\ inUse' = inUse
          /\ \A k \in Jobs \ {j} : state'[k] = state[k] /\ node'[k] = node[k]
      BY <1>0, <2>2 DEF Start
    <3>2. Claim(j) = StartUse[j] /\ Claim(j)' = StartUse[j] /\ ~Queued(j)'
      BY <2>2, <3>1 DEF Claim, Granted, Queued
    <3>3. inUse' = inUse + Claim(j)' - Claim(j)
      BY <2>2, <3>1, <3>2, ClaimInUse
    <3> QED
      BY <2>0, <2>2, <3>1, <3>2, <3>3, StepAt
  <2>3. CASE state[j] = "ASSIGNED" /\ Refuse(e, j)
    <3>1. /\ state'[j] = "PENDING" /\ inUse' = NonNegative(inUse - StartUse[j])
          /\ node'[j] = NoEngine
          /\ \A k \in Jobs \ {j} : state'[k] = state[k] /\ node'[k] = node[k]
      BY <1>0, <2>3 DEF Refuse
    <3>2. Claim(j) = StartUse[j] /\ Claim(j)' = 0
      BY <2>3, <3>1 DEF Claim, Granted
    <3>3. inUse' = inUse + Claim(j)' - Claim(j)
      BY <2>3, <3>1, <3>2, ClaimInUse DEF NonNegative
    <3> QED
      BY <2>0, <2>3, <3>1, <3>2, <3>3, StepAt
  <2> QED
    BY <1>4, <2>1, <2>2, <2>3 DEF Acknowledge
<1>5. ASSUME NEW e \in Engines, NEW j \in Jobs, Report(e, j)
      PROVE  QueuedNowhere' /\ \E V \in SUBSET Jobs : Counted(V)'
  <2>1. astray \subseteq astray'
    BY <1>5 DEF Report
  <2>2. CASE UNCHANGED manager
    <3>1. state' = state /\ node' = node /\ inUse' = inUse
      BY <2>2 DEF manager
    <3> QED
      BY <2>1, <3>1, StepElsewhere
  <2>3. CASE \E to \in {"REQUEUED", "COMPLETED", "ENDED"} : Live(j) /\ JobDone(j, to)
    <3>1. j \notin astray' => state[j] = "RUNNING"
      BY <1>0, <1>5, <2>1 DEF Report, Sound, Owned, Busy
    <3> QED
      BY <2>1, <2>3, <3>1, DoneCounted
  <2> QED
    BY <1>5, <2>2, <2>3 DEF Report
<1>6. ASSUME NEW e \in Engines, NEW j \in Jobs, LostGrant(e, j)
      PROVE  QueuedNowhere' /\ \E V \in SUBSET Jobs : Counted(V)'
  <2>1. Live(j) /\ JobDone(j, "REQUEUED") /\ state[j] = "RUNNING" /\ astray' = astray
    BY <1>6 DEF LostGrant, Live, Granted
  <2> QED
    BY <2>1, DoneCounted
<1>7. ASSUME NEW j \in Jobs, Cancel(j)
      PROVE  QueuedNowhere' /\ \E V \in SUBSET Jobs : Counted(V)'
  <2>1. Live(j) /\ JobDone(j, "ENDED") /\ astray' = astray
    BY <1>7 DEF Cancel, Live, Granted
  <2> QED
    BY <2>1, DoneCounted
<1>8. ASSUME NEW e \in Engines, NEW j \in Jobs, Adopt(e, j)
      PROVE  QueuedNowhere' /\ \E V \in SUBSET Jobs : Counted(V)'
  <2>1. /\ state'[j] = "RUNNING" /\ inUse' = inUse + ChargedAgain(j)
        /\ \A k \in Jobs \ {j} : state'[k] = state[k] /\ node'[k] = node[k]
        /\ astray' = astray /\ Live(j) /\ state[j] # "RUNNING"
    BY <1>0, <1>8 DEF Adopt
  <2>2. Claim(j)' = StartUse[j] /\ state[j] # "COMPLETED" /\ ~Queued(j)'
    BY <2>1 DEF Claim, Granted, Queued, Live
  <2>3. Claim(j) = StartUse[j] - ChargedAgain(j) /\ ChargedAgain(j) \in Nat
    BY <2>1, GrantConstants DEF Claim, Granted, Queued, Live, ChargedAgain
  <2>4. inUse' = inUse + Claim(j)' - Claim(j)
    BY <2>1, <2>2, <2>3, ClaimInUse, GrantConstants
  <2> QED
    BY <2>1, <2>2, <2>4, StepAt
<1>9. ASSUME NEW e \in Engines, EngineLost(e) \/ EngineDismissed(e)
      PROVE  QueuedNowhere' /\ \E V \in SUBSET Jobs : Counted(V)'
  <2>1. Dismiss(e) /\ astray \subseteq astray'
    BY <1>9 DEF EngineLost, EngineDismissed
  <2> QED
    BY <2>1, DismissCounted
<1>10. ASSUME NEW e \in Engines, Register(e)
       PROVE  QueuedNowhere' /\ \E V \in SUBSET Jobs : Counted(V)'
  <2>1. state' = state /\ node' = node /\ inUse' = inUse /\ astray' = astray
    BY <1>10 DEF Register
  <2> QED
    BY <2>1, StepElsewhere
<1> QED
  BY <1>1, <1>2, <1>3, <1>4, <1>5, <1>6, <1>7, <1>8, <1>9, <1>10 DEF GrantNext

LEMMA StorageKeeps == StorageInv /\ [GrantNext]_vars => StorageInv'
<1> SUFFICES ASSUME StorageInv, [GrantNext]_vars PROVE StorageInv'
  OBVIOUS
<1>1. LedgerInv'
  BY StepKeeps DEF StorageInv
<1>2. PICK U \in SUBSET Jobs : LedgerInv /\ QueuedNowhere /\ Counted(U)
  BY DEF StorageInv
<1>3. CASE UNCHANGED vars
  <2>1. state' = state /\ node' = node /\ inUse' = inUse /\ astray' = astray
    BY <1>3 DEF vars, manager
  <2> QED
    BY <1>1, <1>2, <2>1, StepElsewhere DEF StorageInv
<1>4. CASE GrantNext
  BY <1>1, <1>2, <1>4, StorageStep DEF StorageInv
<1> QED
  BY <1>3, <1>4

THEOREM StorageSound == GrantSpec => []StorageInv
  BY StorageAtFirst, StorageKeeps, PTL DEF GrantSpec

(* For any number of jobs and engines: the storage counter is exactly what *)
(* the granted jobs claim and the completed ones left, the max(0, ...) of  *)
(* job refusals and engine removals never bites, and what is missing was   *)
(* left by a job that completed while it was queued again.                 *)
THEOREM StorageHolds == GrantSpec => []StorageBalanced
<1>1. StorageInv => StorageBalanced
  <2> SUFFICES ASSUME NEW U \in SUBSET Jobs, Counted(U) PROVE StorageBalanced
    BY DEF StorageInv
  <2>1. U \in SUBSET {j \in astray : state[j] = "COMPLETED"}
    BY DEF Counted
  <2>2. inUse = SumFunctionOnSet([j \in Jobs |-> Claim(j)], Jobs \ U)
    BY DEF Counted, Claims
  <2> QED
    BY <2>1, <2>2 DEF StorageBalanced
<1> QED
  BY <1>1, StorageSound, PTL
=============================================================================
