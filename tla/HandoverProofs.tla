--------------------------- MODULE HandoverProofs ---------------------------
(***************************************************************************)
(* The handover for any number of jobs, pilots, faults and attempts, while *)
(* no call is held up by the source's locks (HandoverSpec).  A call is     *)
(* served by the manager that the instance record names, or forwarded to   *)
(* it (ForwardsToAlias), because the source is locked from the snapshot to *)
(* the commit; so the table of that manager is the queue, and it changes   *)
(* hands in one step, Redirect, at which both tables agree (Frozen).       *)
(***************************************************************************)
EXTENDS Handover, TLAPS

-----------------------------------------------------------------------------
(* The inductive invariant.                                                *)

(* Where handover_to() is, whom the record names, and who schedules.       *)
Staged ==
    /\ alias = "target" <=> step \in {"aliased", "activating", "over"}
    /\ Committed => alias = "target" /\ step # "aliased"
    /\ alias = "target" /\ sourceUp /\ step # "aliased" => Committed
    /\ ~sourceUp => step = "over"

(* Nobody comes to the target before the record names it.                  *)
Named ==
    /\ \A e \in Engines : at[e] = "target" => alias = "target"
    /\ alias = "source" => registered["target"] = {}
    /\ mode["target"] \in {"TARGET_MIGRATING", "TARGET_ACTIVE"} => alias = "target"
    /\ \A e \in terminal : up[e] = "gone"

(* Between the import and the redirection neither table changes.           *)
Frozen ==
    step = "imported" =>
        \A j \in Jobs : /\ state["target"][j] = SnapshotState(j)
                        /\ node["target"][j] = SnapshotNode(j)

(* A job has one place on a chief, and none on a chief that is not up.     *)
Orderly ==
    \A e \in Engines :
        /\ kept[e] \intersect Known(e) = {} /\ running[e] \intersect codes[e] = {}
        /\ up[e] # "up" => kept[e] = {} /\ Known(e) = {}

(* A submission the queue does not know is nowhere.                        *)
AbsentNowhere == \A j \in Jobs : state[alias][j] = "ABSENT" => node[alias][j] = NoEngine

Typed == HandoverTypeOK /\ late = NoCall

Control == Typed /\ Staged /\ Named
Queue   == ChildrenOwned /\ CompletionsKept /\ AbsentNowhere
HandoverInv == Control /\ Frozen /\ Orderly /\ Queue

LEMMA InitInv == HandoverInit => HandoverInv
<1> SUFFICES ASSUME HandoverInit PROVE HandoverInv
  OBVIOUS
<1>1. Typed
  <2>1. budget \in [DOMAIN Budgets -> Nat]
    BY HandoverAssumption DEF HandoverInit, Budgets
  <2> QED
    BY <2>1
    DEF HandoverInit, Typed, HandoverTypeOK, Managers, Modes, JobStates, Steps, EmptyState,
        NoNodes, Nothing
<1>2. Staged /\ Named /\ Frozen
  BY DEF HandoverInit, Staged, Named, Frozen, Committed, Managers
<1>3. Orderly /\ Queue
  BY DEF HandoverInit, Orderly, Queue, ChildrenOwned, CompletionsKept, AbsentNowhere, Known,
         Nothing, Managers, EmptyState, NoNodes
<1> QED
  BY <1>1, <1>2, <1>3 DEF HandoverInv, Control

-----------------------------------------------------------------------------
(* The steps: of a client, of a chief or a controller about one engine,    *)
(* and of the two managers between themselves.                             *)
ChiefStep(e) ==
    \/ \E new \in SUBSET Jobs : Request(e, new)
    \/ \E j \in Jobs : Acknowledge(e, j) \/ Exit(e, j) \/ Report(e, j)
    \/ \E lost \in SUBSET Jobs : Heartbeat(e, lost)
    \/ Migrate(e) \/ Reconnect(e) \/ Die(e) \/ Leave(e) \/ ReconcileOrphan(e)
    \/ \E m \in Managers : Boot(e, m) \/ ConfirmTermination(m, e)
TransferStep ==
    Begin \/ TakeLocks \/ Transfer \/ Redirect \/ Commit \/ Undo \/ Activate \/ SourceExits

-----------------------------------------------------------------------------
(* Types.                                                                  *)

(* The groups of variables.                                                *)
TablesTyped ==
    /\ state \in [Managers -> [Jobs -> JobStates]]
    /\ node \in [Managers -> [Jobs -> Engines \union {NoEngine}]]
    /\ registered \in [Managers -> SUBSET Engines]
TransferTyped ==
    /\ mode \in [Managers -> Modes]
    /\ step \in Steps /\ alias \in Managers /\ sourceUp \in BOOLEAN
    /\ expected \subseteq Engines /\ arrived \subseteq Engines
    /\ terminal \subseteq expected \ arrived
ChiefsTyped ==
    /\ up \in [Engines -> {"queued", "up", "gone"}] /\ at \in [Engines -> Managers]
    /\ kept \in [Engines -> SUBSET Jobs] /\ running \in [Engines -> SUBSET Jobs]
    /\ codes \in [Engines -> SUBSET Jobs]
    /\ reported \subseteq Jobs
BudgetTyped == budget \in [DOMAIN Budgets -> Nat]

LEMMA TypedParts ==
    ASSUME late = NoCall
    PROVE  Typed <=> TablesTyped /\ TransferTyped /\ ChiefsTyped /\ BudgetTyped
  BY DEF Typed, HandoverTypeOK, TablesTyped, TransferTyped, ChiefsTyped, BudgetTyped

LEMMA SpendTyped ==
    ASSUME BudgetTyped, NEW k, NoFault \/ Spend(k)
    PROVE  BudgetTyped'
<1>1. DOMAIN Budgets = (DOMAIN Budgets)'
  BY DEF Budgets
<1> QED
  BY <1>1 DEF BudgetTyped, NoFault, Spend

LEMMA RequeueTyped ==
    ASSUME TablesTyped, NEW m \in Managers, NEW D, Requeue(m, D)
    PROVE  /\ state' \in [Managers -> [Jobs -> JobStates]]
           /\ node' \in [Managers -> [Jobs -> Engines \union {NoEngine}]]
  BY DEF Requeue, TablesTyped, JobStates

LEMMA RemovedTyped ==
    ASSUME TablesTyped, NEW m \in Managers, NEW e \in Engines, EngineRemoved(m, e)
    PROVE  TablesTyped'
<1>1. /\ state' \in [Managers -> [Jobs -> JobStates]]
      /\ node' \in [Managers -> [Jobs -> Engines \union {NoEngine}]]
  BY RequeueTyped DEF EngineRemoved
<1> QED
  BY <1>1 DEF EngineRemoved, TablesTyped

(* A registering chief is up or queued, so it is not among the ended.      *)
LEMMA RegisterTyped ==
    ASSUME TablesTyped, TransferTyped, Named, NEW m \in Managers, NEW e \in Engines,
           up[e] # "gone", RegisterAt(m, e)
    PROVE  registered' \in [Managers -> SUBSET Engines] /\ TransferTyped'
<1>1. registered' \in [Managers -> SUBSET Engines]
  BY DEF RegisterAt, TablesTyped
<1>2. e \notin terminal
  BY DEF Named
<1> QED
  BY <1>1, <1>2 DEF RegisterAt, TransferTyped, Settled, Modes, TargetModes

LEMMA FinishTyped ==
    ASSUME TablesTyped, ChiefsTyped, NEW m \in Managers, NEW j \in Jobs, Finish(m, j)
    PROVE  /\ state' \in [Managers -> [Jobs -> JobStates]]
           /\ node' \in [Managers -> [Jobs -> Engines \union {NoEngine}]]
           /\ reported' \subseteq Jobs
  BY DEF Finish, TablesTyped, ChiefsTyped, JobStates, LiveStates

LEMMA ForwardedTyped == \A m \in Managers : ForwardedTo(m) \in Managers
  BY DEF ForwardedTo, Managers

LEMMA SubmitTyped ==
    ASSUME Typed, NEW m \in Managers, NEW j \in Jobs, Submit(m, j)
    PROVE  Typed'
<1>1. TablesTyped' /\ BudgetTyped'
  BY TypedParts, SpendTyped DEF Submit, TablesTyped, JobStates, Typed
<1> QED
  BY <1>1, TypedParts
  DEF Submit, transferVars, chiefVars, Typed, HandoverTypeOK, TablesTyped, BudgetTyped

(* What a chief or a controller does keeps the types.                      *)
LEMMA ChiefStepTyped ==
    ASSUME Typed, Named, NEW e \in Engines, ChiefStep(e)
    PROVE  Typed'
<1>0. /\ TablesTyped /\ TransferTyped /\ ChiefsTyped /\ BudgetTyped
      /\ late = NoCall /\ at[e] \in Managers
  BY TypedParts DEF Typed, ChiefsTyped
<1>a. late' = NoCall /\ BudgetTyped'
  BY <1>0, SpendTyped
  DEF ChiefStep, Request, Acknowledge, Exit, Report, Heartbeat, Migrate, Reconnect,
      MoveToTarget, Die, Leave, ReconcileOrphan, Boot, ConfirmTermination
<1>b. SUFFICES TablesTyped' /\ TransferTyped' /\ ChiefsTyped'
  BY <1>a DEF Typed, HandoverTypeOK, TablesTyped, TransferTyped, ChiefsTyped, BudgetTyped
<1>c. /\ UNCHANGED transferVars => TransferTyped'
      /\ UNCHANGED <<state, node, registered>> => TablesTyped'
      /\ UNCHANGED <<up, at, kept, running, codes, reported>> => ChiefsTyped'
  BY <1>0 DEF transferVars, TransferTyped, TablesTyped, ChiefsTyped
<1>2. ASSUME NEW new \in SUBSET Jobs, Request(e, new)
      PROVE  TablesTyped' /\ TransferTyped' /\ ChiefsTyped'
  <2>1. AssignedTo(at[e], e) \subseteq Jobs
    BY DEF AssignedTo
  <2>2. ChiefsTyped'
    BY <1>0, <1>2, <2>1 DEF Request, ChiefsTyped
  <2>3. TablesTyped'
    BY <1>0, <1>2 DEF Request, TablesTyped, JobStates
  <2> QED
    BY <1>2, <1>c, <2>2, <2>3 DEF Request
<1>3. ASSUME NEW j \in Jobs, Acknowledge(e, j)
      PROVE  TablesTyped' /\ TransferTyped' /\ ChiefsTyped'
  <2>1. ChiefsTyped'
    BY <1>0, <1>3 DEF Acknowledge, Spawn, ChiefsTyped
  <2>2. TablesTyped'
    BY <1>0, <1>3 DEF Acknowledge, Started, TablesTyped, JobStates
  <2> QED
    BY <1>3, <1>c, <2>1, <2>2 DEF Acknowledge
<1>4. ASSUME NEW j \in Jobs, Exit(e, j)
      PROVE  TablesTyped' /\ TransferTyped' /\ ChiefsTyped'
  <2>1. ChiefsTyped'
    BY <1>0, <1>4 DEF Exit, ChiefsTyped
  <2> QED
    BY <1>4, <1>c, <2>1 DEF Exit, tableVars
<1>5. ASSUME NEW j \in Jobs, Report(e, j)
      PROVE  TablesTyped' /\ TransferTyped' /\ ChiefsTyped'
  <2>1. /\ state' \in [Managers -> [Jobs -> JobStates]]
        /\ node' \in [Managers -> [Jobs -> Engines \union {NoEngine}]]
        /\ reported' \subseteq Jobs
    BY <1>0, <1>5, FinishTyped, ForwardedTyped DEF Report
  <2> QED
    BY <1>0, <1>5, <1>c, <2>1 DEF Report, TablesTyped, ChiefsTyped
<1>6. ASSUME NEW lost \in SUBSET Jobs, Heartbeat(e, lost)
      PROVE  TablesTyped' /\ TransferTyped' /\ ChiefsTyped'
  <2>1. TablesTyped'
    BY <1>0, <1>6 DEF Heartbeat, TablesTyped, JobStates
  <2> QED
    BY <1>6, <1>c, <2>1 DEF Heartbeat, chiefVars
<1>7. CASE Migrate(e) \/ Reconnect(e)
  <2>1. MoveToTarget(e) /\ up[e] = "up"
    BY <1>7 DEF Migrate, Reconnect
  <2>2. registered' \in [Managers -> SUBSET Engines] /\ TransferTyped'
    BY <1>0, <2>1, RegisterTyped DEF MoveToTarget, Managers
  <2>3. ChiefsTyped'
    BY <1>0, <2>1 DEF MoveToTarget, ChiefsTyped, Managers
  <2> QED
    BY <1>0, <2>1, <2>2, <2>3 DEF MoveToTarget, TablesTyped
<1>8. CASE Die(e)
  <2>1. ChiefsTyped'
    BY <1>0, <1>8 DEF Die, LoseChief, ChiefsTyped
  <2> QED
    BY <1>8, <1>c, <2>1 DEF Die, tableVars
<1>9. CASE Leave(e)
  <2>1. ChiefsTyped'
    BY <1>0, <1>9 DEF Leave, LoseChief, ChiefsTyped
  <2>2. TablesTyped'
    BY <1>0, <1>9, <1>c, RemovedTyped, ForwardedTyped DEF Leave, tableVars
  <2> QED
    BY <1>9, <1>c, <2>1, <2>2 DEF Leave
<1>10. CASE ReconcileOrphan(e)
  <2>1. TablesTyped'
    BY <1>0, <1>10, RemovedTyped DEF ReconcileOrphan, Managers
  <2>2. TransferTyped'
    BY <1>0, <1>10 DEF ReconcileOrphan, TransferTyped, Settled, Modes, TargetModes
  <2> QED
    BY <1>10, <1>c, <2>1, <2>2 DEF ReconcileOrphan, chiefVars
<1>11. ASSUME NEW m \in Managers, Boot(e, m)
      PROVE  TablesTyped' /\ TransferTyped' /\ ChiefsTyped'
  <2>1. registered' \in [Managers -> SUBSET Engines] /\ TransferTyped'
    BY <1>0, <1>11, RegisterTyped DEF Boot
  <2>2. ChiefsTyped'
    BY <1>0, <1>11 DEF Boot, ChiefsTyped
  <2> QED
    BY <1>0, <1>11, <2>1, <2>2 DEF Boot, TablesTyped
<1>12. ASSUME NEW m \in Managers, ConfirmTermination(m, e)
      PROVE  TablesTyped' /\ TransferTyped' /\ ChiefsTyped'
  BY <1>0, <1>12, <1>c, RemovedTyped DEF ConfirmTermination, chiefVars
<1> QED
  BY <1>2, <1>3, <1>4, <1>5, <1>6, <1>7, <1>8, <1>9, <1>10, <1>11, <1>12 DEF ChiefStep

(* So does what the two managers do.                                       *)
LEMMA TransferStepTyped ==
    ASSUME Typed, TransferStep
    PROVE  Typed'
<1>0. /\ TablesTyped /\ TransferTyped /\ ChiefsTyped /\ BudgetTyped
      /\ late = NoCall
  BY TypedParts DEF Typed
<1>a. late' = NoCall /\ BudgetTyped'
  BY <1>0, SpendTyped
  DEF TransferStep, Begin, TakeLocks, Transfer, Redirect, Commit, Undo, Activate, SourceExits
<1>b. ChiefsTyped'
  BY <1>0
  DEF TransferStep, Begin, TakeLocks, Transfer, Redirect, Commit, Undo, Activate, SourceExits,
      chiefVars, ChiefsTyped
<1>c. TablesTyped'
  <2>1. CASE Transfer
    BY <1>0, <2>1
    DEF Transfer, Import, NotImported, SnapshotState, SnapshotNode, TablesTyped, JobStates, Managers
  <2>2. CASE Undo
    <3>1. EmptyState \in [Jobs -> JobStates] /\ NoNodes \in [Jobs -> Engines \union {NoEngine}]
      BY DEF EmptyState, NoNodes, JobStates
    <3> QED
      BY <1>0, <2>2, <3>1 DEF Undo, TablesTyped, tableVars
  <2> QED
    BY <1>0, <2>1, <2>2
    DEF TransferStep, Begin, TakeLocks, Redirect, Commit, Activate, SourceExits, tableVars,
        TablesTyped
<1>d. TransferTyped'
  <2>1. CASE Transfer
    <3>1. /\ step' \in Steps /\ UNCHANGED <<alias, sourceUp>>
          /\ mode' \in [Managers -> Modes]
      BY <1>0, <2>1 DEF Transfer, TransferTyped, Modes, TargetModes, Steps
    <3>2. CASE Import
      BY <1>0, <3>1, <3>2 DEF Import, SnapshotChiefs, TransferTyped, TablesTyped, Managers
    <3>3. CASE NotImported
      BY <1>0, <3>1, <3>3 DEF NotImported, TransferTyped
    <3> QED
      BY <2>1, <3>2, <3>3 DEF Transfer
  <2>2. CASE Undo \/ Activate
    BY <1>0, <2>2 DEF Undo, Activate, Settled, TransferTyped, Modes, TargetModes, Steps
  <2>3. CASE Begin \/ TakeLocks \/ Redirect \/ Commit \/ SourceExits
    BY <1>0, <2>3
    DEF Begin, TakeLocks, Redirect, Commit, SourceExits, TransferTyped, Modes, Steps, Managers
  <2> QED
    BY <2>1, <2>2, <2>3 DEF TransferStep
<1> QED
  BY <1>a, <1>b, <1>c, <1>d
  DEF Typed, HandoverTypeOK, TablesTyped, TransferTyped, ChiefsTyped, BudgetTyped
-----------------------------------------------------------------------------
(* Who serves.                                                             *)

(* A call that is answered is served by the manager the record names.      *)
LEMMA ForwardsToAlias ==
    ASSUME Control, NEW e \in Engines, Answers(at[e])
    PROVE  /\ ForwardedTo(at[e]) = alias
           /\ Schedules(at[e]) => at[e] = alias
<1>1. at[e] \in Managers /\ alias \in Managers /\ late = NoCall
  BY DEF Control, Typed, HandoverTypeOK
<1>2. CASE at[e] = "target"
  BY <1>1, <1>2 DEF Control, Named, ForwardedTo, Schedules
<1>3. CASE at[e] = "source"
  <2>1. sourceUp /\ ~Locked
    BY <1>3 DEF Answers
  <2>2. Committed <=> alias = "target"
    BY <2>1 DEF Locked, Control, Staged
  <2> QED
    BY <1>1, <1>3, <2>2 DEF ForwardedTo, Schedules, Managers
<1> QED
  BY <1>1, <1>2, <1>3 DEF Managers

(* A controller removes engines of the manager the record names only.      *)
LEMMA ConfirmsAtAlias ==
    ASSUME Control, NEW m \in Managers, NEW e \in Engines, ConfirmTermination(m, e)
    PROVE  m = alias
<1>1. alias \in Managers
  BY DEF Control, Typed, HandoverTypeOK
<1>2. CASE m = "target"
  BY <1>1, <1>2 DEF ConfirmTermination, Control, Named, Managers
<1>3. CASE m = "source"
  BY <1>1, <1>3 DEF ConfirmTermination, Schedules, Locked, Control, Staged, Managers
<1> QED
  BY <1>2, <1>3 DEF Managers

(* While the locks are held neither table changes, but for the import and  *)
(* its abort.                                                              *)
LEMMA SubmitsAtAlias ==
    ASSUME Control, NEW m \in Managers, NEW j \in Jobs, Submit(m, j)
    PROVE  m = alias /\ step # "imported"
  BY DEF Submit, Reaches, Control, Staged, Typed, HandoverTypeOK, Managers

(* Steps that leave the stages alone.                                      *)
LEMMA StagedKept ==
    ASSUME Staged, UNCHANGED <<step, alias, sourceUp>>, mode'["source"] = mode["source"]
    PROVE  Staged'
  BY DEF Staged, Committed

LEMMA NamedKept ==
    ASSUME Named, UNCHANGED <<mode, alias, terminal, at, registered>>, terminal \subseteq Engines,
           \A e \in Engines : up[e] = "gone" => up'[e] = "gone"
    PROVE  Named'
  BY DEF Named

LEMMA RegisterKeepsStage ==
    ASSUME Control, NEW m \in Managers, NEW e \in Engines, RegisterAt(m, e)
    PROVE  /\ Staged' /\ UNCHANGED <<step, alias, sourceUp, terminal>>
           /\ m # "target" => registered'["target"] = registered["target"] /\ UNCHANGED mode
<1>1. mode'["source"] = mode["source"] /\ UNCHANGED <<step, alias, sourceUp>>
  BY DEF RegisterAt, Control, Typed, HandoverTypeOK, Managers
<1> QED
  BY <1>1, StagedKept DEF RegisterAt, Control, Typed, HandoverTypeOK, Managers

LEMMA RemovedKeepsNamed ==
    ASSUME Control, NEW m \in Managers, NEW e \in Engines, EngineRemoved(m, e),
           UNCHANGED <<mode, alias, terminal, at>>,
           \A f \in Engines : up[f] = "gone" => up'[f] = "gone"
    PROVE  Named'
<1>1. registered'["target"] \subseteq registered["target"]
  BY DEF EngineRemoved, Control, Typed, HandoverTypeOK, Managers
<1>2. terminal \subseteq Engines
  BY DEF Control, Typed, HandoverTypeOK
<1> QED
  BY <1>1, <1>2 DEF Control, Named

LEMMA SubmitControl ==
    ASSUME Control, NEW m \in Managers, NEW j \in Jobs, Submit(m, j)
    PROVE  Control'
<1>1. /\ UNCHANGED <<transferVars, registered, up, at>>
      /\ Typed' /\ terminal \subseteq Engines
  BY SubmitTyped DEF Submit, chiefVars, Control, Typed, HandoverTypeOK
<1> QED
  BY <1>1, StagedKept, NamedKept DEF transferVars, Control

LEMMA ChiefStepControl ==
    ASSUME Control, NEW e \in Engines, ChiefStep(e)
    PROVE  Control'
<1>0. /\ Typed /\ Staged /\ Named /\ Typed'
      /\ up \in [Engines -> {"queued", "up", "gone"}] /\ at \in [Engines -> Managers]
      /\ alias \in Managers /\ mode \in [Managers -> Modes]
      /\ registered \in [Managers -> SUBSET Engines] /\ terminal \subseteq Engines
  BY ChiefStepTyped DEF Control, Typed, HandoverTypeOK
<1>1. SUFFICES Staged' /\ Named'
  BY <1>0 DEF Control
<1>2. CASE UNCHANGED <<transferVars, registered, up, at>>
  BY <1>0, <1>2, StagedKept, NamedKept DEF transferVars
<1>3. CASE Migrate(e) \/ Reconnect(e)
  <2>1. /\ MoveToTarget(e) /\ up[e] = "up"
        /\ alias = "target"
    BY <1>0, <1>3 DEF Migrate, Reconnect, Staged
  <2>2. Staged' /\ UNCHANGED <<alias, terminal, up>>
    BY <2>1, RegisterKeepsStage DEF MoveToTarget, Managers
  <2> QED
    BY <1>0, <2>1, <2>2 DEF Named
<1>4. ASSUME NEW m \in Managers, Boot(e, m)
      PROVE  Staged' /\ Named'
  <2>1. /\ Staged' /\ UNCHANGED <<alias, terminal>>
        /\ m # "target" => registered'["target"] = registered["target"] /\ UNCHANGED mode
    BY <1>4, RegisterKeepsStage DEF Boot
  <2>2. m = "target" => alias = "target"
    BY <1>0, <1>4 DEF Boot
  <2> QED
    BY <1>0, <1>4, <2>1, <2>2 DEF Boot, Named, Managers
<1>5. CASE Die(e)
  BY <1>0, <1>5, StagedKept, NamedKept DEF Die, LoseChief, tableVars, transferVars
<1>6. CASE Leave(e)
  <2>1. Staged' /\ UNCHANGED <<mode, alias, terminal, at>>
    BY <1>0, <1>6, StagedKept DEF Leave, LoseChief, transferVars
  <2>2. \A f \in Engines : up[f] = "gone" => up'[f] = "gone"
    BY <1>0, <1>6 DEF Leave, LoseChief
  <2>3. ForwardedTo(at[e]) \in Managers
    BY <1>0, ForwardedTyped
  <2> QED
    BY <1>0, <1>6, <2>1, <2>2, <2>3, NamedKept, RemovedKeepsNamed DEF Leave, tableVars
<1>7. CASE ReconcileOrphan(e)
  <2>1. Staged'
    BY <1>0, <1>7, StagedKept DEF ReconcileOrphan
  <2>2. alias = "target" /\ UNCHANGED <<alias, at, up>> /\ terminal' = terminal \union {e}
        /\ up[e] = "gone"
    BY <1>0, <1>7 DEF ReconcileOrphan, Named, chiefVars
  <2> QED
    BY <1>0, <2>1, <2>2 DEF Named
<1>8. ASSUME NEW m \in Managers, ConfirmTermination(m, e)
      PROVE  Staged' /\ Named'
  BY <1>0, <1>8, StagedKept, RemovedKeepsNamed DEF ConfirmTermination, transferVars, chiefVars
<1>10. CASE \E new \in SUBSET Jobs : Request(e, new)
  BY <1>2, <1>10 DEF Request
<1>11. CASE \E j \in Jobs : Acknowledge(e, j) \/ Exit(e, j) \/ Report(e, j)
  BY <1>2, <1>11 DEF Acknowledge, Exit, Report, tableVars
<1>12. CASE \E lost \in SUBSET Jobs : Heartbeat(e, lost)
  BY <1>2, <1>12 DEF Heartbeat, chiefVars
<1> QED
  BY <1>3, <1>4, <1>5, <1>6, <1>7, <1>8, <1>10, <1>11, <1>12 DEF ChiefStep

LEMMA TransferStepControl ==
    ASSUME Control, TransferStep
    PROVE  Control'
<1>0. /\ Typed /\ Staged /\ Named /\ Typed'
      /\ alias \in Managers /\ mode \in [Managers -> Modes] /\ sourceUp \in BOOLEAN
      /\ registered \in [Managers -> SUBSET Engines]
      /\ at \in [Engines -> Managers]
  BY TransferStepTyped DEF Control, Typed, HandoverTypeOK
<1>1. SUFFICES Staged' /\ Named'
  BY <1>0 DEF Control
<1>2. UNCHANGED <<up, at>>
  BY DEF TransferStep, Begin, TakeLocks, Transfer, Redirect, Commit, Undo, Activate, SourceExits,
     chiefVars
<1>3. CASE Begin \/ TakeLocks
  BY <1>0, <1>2, <1>3 DEF Begin, TakeLocks, Staged, Named, Committed, tableVars, Managers
<1>4. CASE Transfer
  <2>1. /\ UNCHANGED <<alias, sourceUp, registered>> /\ step = "sent"
        /\ step' \in {"imported", "idle"}
        /\ mode'["source"] \in {mode["source"], "ACTIVE"}
        /\ mode'["target"] \in {mode["target"], "TARGET_IMPORTED"}
    BY <1>0, <1>4 DEF Transfer, Managers
  <2>2. terminal' = terminal \/ terminal' = {}
    BY <1>4 DEF Transfer, Import, NotImported
  <2> QED
    BY <1>0, <1>2, <2>1, <2>2 DEF Staged, Named, Committed
<1>5. CASE Redirect \/ Commit \/ SourceExits
  BY <1>0, <1>2, <1>5 DEF Redirect, Commit, SourceExits, Staged, Named, Committed, tableVars,
     Managers
<1>6. CASE Undo
  <2>1. /\ UNCHANGED <<alias, sourceUp>> /\ step = "undoing" /\ step' = "idle"
        /\ mode'["source"] = "ACTIVE"
        /\ mode'["target"] \in {mode["target"], "ACTIVE"}
        /\ registered'["target"] \subseteq registered["target"]
        /\ terminal' \subseteq terminal
    BY <1>0, <1>6 DEF Undo, tableVars, Managers
  <2> QED
    BY <1>0, <1>2, <2>1 DEF Staged, Named, Committed
<1>7. CASE Activate
  <2>1. /\ UNCHANGED <<alias, sourceUp, registered, terminal>> /\ step = "activating"
        /\ step' = "over" /\ mode'["source"] = mode["source"]
    BY <1>0, <1>7 DEF Activate, tableVars, Managers
  <2> QED
    BY <1>0, <1>2, <2>1 DEF Staged, Named, Committed
<1> QED
  BY <1>3, <1>4, <1>5, <1>6, <1>7 DEF TransferStep
-----------------------------------------------------------------------------
(* The queue is the table of the manager that the record names.            *)
Entry(j)  == state[alias][j]
Holder(j) == node[alias][j]
Execs(j)  == {e \in Engines : j \in running[e]}

(* What a step may do with an entry: nothing a lease sees, grant it to a   *)
(* pilot, or let it go.                                                    *)
SameHolder(j) == PhaseOf(Entry(j)') = PhaseOf(Entry(j)) /\ Holder(j)' = Holder(j)
GrantedTo(j) ==
    /\ Entry(j) \in {"PENDING", "ASSIGNED"}
    /\ Entry(j)' = "ASSIGNED" /\ Holder(j)' \in Engines
LetGo(j) ==
    /\ Holder(j)' = NoEngine
    /\ \/ Entry(j) = "ABSENT" /\ Entry(j)' = "PENDING" /\ Holder(j) = NoEngine
       \/ Entry(j) \in {"ASSIGNED", "RUNNING"} /\ Entry(j)' \in {"PENDING", "DONE"}
QueueMove(j) == SameHolder(j) \/ GrantedTo(j) \/ LetGo(j)

(* A chief that forgets a child without reporting it has lost its process. *)
ChildrenKnown ==
    \A e \in Engines : \A j \in running[e] :
        j \in Known(e)' \/ (Entry(j)' = Entry(j) /\ Holder(j)' = Holder(j))

QueueStep ==
    /\ \A j \in Jobs : QueueMove(j)
    /\ reported' \subseteq reported \union {j \in Jobs : Entry(j)' = "DONE"}
    /\ ChildrenOwned' /\ ChildrenKnown

LEMMA StillQueue ==
    ASSUME Typed, Typed', Queue, QueueStep
    PROVE  Queue'
<1>1. /\ \A j \in Jobs : Entry(j) \in JobStates /\ Entry(j)' \in JobStates
      /\ reported \subseteq Jobs
  BY DEF Typed, HandoverTypeOK, Entry
<1>2. CompletionsKept'
  <2> SUFFICES ASSUME NEW j \in reported' PROVE Entry(j)' = "DONE"
    BY DEF CompletionsKept, Entry
  <2>1. CASE j \in reported
    <3>1. j \in Jobs /\ Entry(j) = "DONE"
      BY <1>1, <2>1 DEF Queue, CompletionsKept, Entry
    <3> QED
      BY <1>1, <3>1
      DEF QueueStep, QueueMove, SameHolder, GrantedTo, LetGo, PhaseOf, JobStates
  <2> QED
    BY <2>1 DEF QueueStep
<1>3. AbsentNowhere'
  <2> SUFFICES ASSUME NEW j \in Jobs, Entry(j)' = "ABSENT" PROVE Holder(j)' = NoEngine
    BY DEF AbsentNowhere, Entry, Holder
  <2>1. SameHolder(j) /\ Entry(j) = "ABSENT"
    BY <1>1 DEF QueueStep, QueueMove, SameHolder, GrantedTo, LetGo, PhaseOf, JobStates
  <2> QED
    BY <2>1 DEF Queue, AbsentNowhere, SameHolder, Entry, Holder
<1> QED
  BY <1>2, <1>3 DEF Queue, QueueStep

(* A step that leaves the queue alone.                                     *)
LEMMA QueueUntouched ==
    ASSUME Queue, \A j \in Jobs : Entry(j)' = Entry(j) /\ Holder(j)' = Holder(j),
           \A e \in Engines : Known(e)' \subseteq Known(e) /\ Known(e) \subseteq Jobs,
           \A e \in Engines : running[e] \subseteq Jobs,
           reported' = reported
    PROVE  QueueStep
<1>1. \A j \in Jobs : QueueMove(j)
  BY DEF QueueMove, SameHolder
<1>2. ChildrenOwned'
  BY DEF Queue, ChildrenOwned, Entry, Holder
<1> QED
  BY <1>1, <1>2 DEF QueueStep, ChildrenKnown

(* An engine that has no child lets go of what it held.                    *)
LEMMA RemovedMoves ==
    ASSUME Typed, Queue, NEW e \in Engines, EngineRemoved(alias, e), Known(e) = {},
           UNCHANGED <<alias, reported>>,
           \A f \in Engines : Known(f)' \subseteq Known(f)
    PROVE  QueueStep
<1>1. \A j \in Jobs :
         /\ Entry(j)' = IF j \in Hosted(alias, e) THEN "PENDING" ELSE Entry(j)
         /\ Holder(j)' = IF j \in Hosted(alias, e) THEN NoEngine ELSE Holder(j)
  BY DEF EngineRemoved, Requeue, Typed, HandoverTypeOK, Entry, Holder
<1>2. \A j \in Hosted(alias, e) : Entry(j) \in {"ASSIGNED", "RUNNING"} /\ Holder(j) = e
  BY DEF Hosted, Entry, Holder
<1>3. \A j \in Jobs : QueueMove(j)
  BY <1>1, <1>2 DEF QueueMove, SameHolder, LetGo
<1>4. \A f \in Engines : \A j \in Known(f) :
         j \in Jobs /\ j \notin Hosted(alias, e) /\ Entry(j) = "RUNNING" /\ Holder(j) = f
  BY <1>2 DEF Queue, ChildrenOwned, Entry, Holder, Known, Typed, HandoverTypeOK
<1>5. ChildrenOwned'
  BY <1>1, <1>4 DEF ChildrenOwned, Entry, Holder
<1>6. ChildrenKnown
  BY <1>1, <1>4 DEF ChildrenKnown, Known
<1> QED
  BY <1>3, <1>5, <1>6 DEF QueueStep

LEMMA SubmitMoves ==
    ASSUME Control, Queue, NEW m \in Managers, NEW i \in Jobs, Submit(m, i)
    PROVE  QueueStep
<1>1. /\ m = alias /\ Entry(i) = "ABSENT" /\ Holder(i) = NoEngine
      /\ UNCHANGED <<alias, running, codes, reported>>
  BY SubmitsAtAlias DEF Submit, transferVars, chiefVars, Queue, AbsentNowhere, Entry, Holder
<1>2. \A j \in Jobs : /\ Entry(j)' = IF j = i THEN "PENDING" ELSE Entry(j)
                      /\ Holder(j)' = Holder(j)
  BY <1>1 DEF Submit, Control, Typed, HandoverTypeOK, Entry, Holder
<1>3. \A j \in Jobs : QueueMove(j)
  BY <1>1, <1>2 DEF QueueMove, SameHolder, LetGo
<1>4. ChildrenOwned'
  BY <1>1, <1>2
  DEF Queue, ChildrenOwned, Known, Entry, Holder, Control, Typed, HandoverTypeOK
<1> QED
  BY <1>1, <1>3, <1>4 DEF QueueStep, ChildrenKnown, Known

LEMMA RequestMoves ==
    ASSUME Control, Queue, NEW e \in Engines, NEW new \in SUBSET Jobs, Request(e, new)
    PROVE  QueueStep
<1>1. /\ at[e] = alias /\ UNCHANGED <<alias, running, codes, reported>>
  BY ForwardsToAlias DEF Request, transferVars
<1>2. \A j \in Jobs : /\ Entry(j)' = IF j \in new THEN "ASSIGNED" ELSE Entry(j)
                      /\ Holder(j)' = IF j \in new THEN e ELSE Holder(j)
  BY <1>1 DEF Request, Control, Typed, HandoverTypeOK, Entry, Holder
<1>3. \A j \in new : Entry(j) \in {"PENDING", "ASSIGNED"}
  BY <1>1 DEF Request, Grantable, Entry
<1>4. \A j \in Jobs : QueueMove(j)
  BY <1>2, <1>3 DEF QueueMove, SameHolder, GrantedTo
<1>5. \A f \in Engines : \A j \in Known(f) :
         j \in Jobs /\ j \notin new /\ Entry(j) = "RUNNING" /\ Holder(j) = f
  BY <1>3 DEF Queue, ChildrenOwned, Known, Entry, Holder, Control, Typed, HandoverTypeOK
<1>6. ChildrenOwned'
  BY <1>1, <1>2, <1>5 DEF ChildrenOwned, Known, Entry, Holder
<1> QED
  BY <1>1, <1>4, <1>6 DEF QueueStep, ChildrenKnown, Known

LEMMA AcknowledgeMoves ==
    ASSUME Control, Queue, NEW e \in Engines, NEW i \in Jobs, Acknowledge(e, i)
    PROVE  QueueStep
<1>0. /\ UNCHANGED <<alias, node, codes, reported>>
      /\ \A f \in Engines : Known(f) \subseteq Jobs /\ running[f] \subseteq Jobs
  BY DEF Acknowledge, transferVars, Control, Typed, HandoverTypeOK, Known
<1>1. CASE UNCHANGED <<state, running>>
  BY <1>0, <1>1, QueueUntouched DEF Control, Queue, Entry, Holder, Known
<1>2. CASE ~UNCHANGED <<state, running>>
  <2>1. /\ MayStart(at[e], e, i) /\ Started(at[e], i)
        /\ Spawn(e, i) \/ UNCHANGED running
    BY <1>2 DEF Acknowledge
  <2>2. at[e] = alias
    BY <2>1, ForwardsToAlias DEF Acknowledge, MayStart
  <2>3. /\ Entry(i) \in {"ASSIGNED", "RUNNING"} /\ Holder(i) = e
        /\ \A j \in Jobs : /\ Entry(j)' = IF j = i THEN "RUNNING" ELSE Entry(j)
                           /\ Holder(j)' = Holder(j)
    BY <1>0, <2>1, <2>2
    DEF MayStart, CanRun, Started, Control, Typed, HandoverTypeOK, Entry, Holder
  <2>4. \A j \in Jobs : QueueMove(j)
    BY <2>3 DEF QueueMove, SameHolder, PhaseOf
  <2>5. \A f \in Engines : /\ Known(f) \subseteq Known(f)'
                           /\ Known(f)' \subseteq Known(f) \union (IF f = e THEN {i} ELSE {})
    BY <1>0, <2>1 DEF Spawn, Known, Control, Typed, HandoverTypeOK
  <2>6. ChildrenOwned'
    BY <1>0, <2>3, <2>5 DEF Queue, ChildrenOwned, Entry, Holder
  <2>7. ChildrenKnown
    BY <2>5 DEF ChildrenKnown, Known
  <2> QED
    BY <1>0, <2>4, <2>6, <2>7 DEF QueueStep
<1> QED
  BY <1>1, <1>2

LEMMA ReportMoves ==
    ASSUME Control, Orderly, Queue, NEW e \in Engines, NEW i \in Jobs, Report(e, i)
    PROVE  QueueStep
<1>1. /\ ForwardedTo(at[e]) = alias /\ UNCHANGED <<alias, running>>
      /\ i \in codes[e] /\ codes' = [codes EXCEPT ![e] = @ \ {i}]
      /\ reported' = reported \union {i}
  BY ForwardsToAlias DEF Report, Finish, transferVars
<1>2. Entry(i) = "RUNNING" /\ Holder(i) = e
  BY <1>1 DEF Queue, ChildrenOwned, Known, Entry, Holder
<1>3. \A j \in Jobs : /\ Entry(j)' = IF j = i THEN "DONE" ELSE Entry(j)
                      /\ Holder(j)' = IF j = i THEN NoEngine ELSE Holder(j)
  BY <1>1, <1>2
  DEF Report, Finish, LiveStates, Control, Typed, HandoverTypeOK, Entry, Holder
<1>4. \A j \in Jobs : QueueMove(j)
  BY <1>2, <1>3 DEF QueueMove, SameHolder, LetGo
<1>5. \A f \in Engines : \A j \in Known(f)' :
         j \in Jobs /\ j # i /\ Entry(j) = "RUNNING" /\ Holder(j) = f
  BY <1>1, <1>2
  DEF Queue, ChildrenOwned, Orderly, Known, Entry, Holder, Control, Typed, HandoverTypeOK
<1>6. ChildrenOwned'
  BY <1>1, <1>3, <1>5 DEF ChildrenOwned, Entry, Holder
<1>7. ChildrenKnown
  BY <1>1 DEF ChildrenKnown, Known
<1> QED
  BY <1>1, <1>3, <1>4, <1>6, <1>7 DEF QueueStep

LEMMA HeartbeatMoves ==
    ASSUME Control, Queue, NEW e \in Engines, NEW lost \in SUBSET Jobs, Heartbeat(e, lost)
    PROVE  QueueStep
<1>1. at[e] = alias /\ UNCHANGED <<alias, running, codes, reported>>
  BY ForwardsToAlias DEF Heartbeat, transferVars, chiefVars
<1>2. {j \in Known(e) : state[at[e]][j] \in {"PENDING", "ASSIGNED"}} = {}
  BY <1>1 DEF Queue, ChildrenOwned
<1>3. /\ \A j \in Jobs : /\ Entry(j)' = IF j \in lost THEN "PENDING" ELSE Entry(j)
                         /\ Holder(j)' = IF j \in lost THEN NoEngine ELSE Holder(j)
      /\ \A j \in lost : Entry(j) = "RUNNING" /\ Holder(j) = e /\ j \notin Known(e)
  BY <1>1, <1>2 DEF Heartbeat, Control, Typed, HandoverTypeOK, Entry, Holder
<1>4. \A j \in Jobs : QueueMove(j)
  BY <1>3 DEF QueueMove, SameHolder, LetGo
<1>5. ChildrenOwned'
  BY <1>1, <1>3
  DEF Queue, ChildrenOwned, Known, Entry, Holder, Control, Typed, HandoverTypeOK
<1> QED
  BY <1>1, <1>4, <1>5 DEF QueueStep, ChildrenKnown, Known

(* The queue changes hands: the import is the queue, but for the grants    *)
(* that are not acknowledged.                                              *)
LEMMA RedirectMoves ==
    ASSUME Control, Frozen, Queue, Redirect
    PROVE  QueueStep
<1>0. /\ UNCHANGED <<state, node, running, codes, reported>>
      /\ alias = "source"
      /\ \A f \in Engines : Known(f) \subseteq Jobs /\ running[f] \subseteq Jobs
  BY DEF Redirect, tableVars, chiefVars, Control, Staged, Typed, HandoverTypeOK, Managers, Known
<1>1. CASE alias' = alias
  BY <1>0, <1>1, QueueUntouched DEF Entry, Holder, Known
<1>2. CASE alias' = "target"
  <2>1. \A j \in Jobs :
           /\ Entry(j)' = IF Entry(j) = "ASSIGNED" THEN "PENDING" ELSE Entry(j)
           /\ Holder(j)' = IF Entry(j) = "ASSIGNED" THEN NoEngine ELSE Holder(j)
    BY <1>0, <1>2 DEF Redirect, Frozen, SnapshotState, SnapshotNode, Entry, Holder
  <2>2. \A j \in Jobs : QueueMove(j)
    BY <2>1 DEF QueueMove, SameHolder, LetGo
  <2>3. ChildrenOwned'
    BY <1>0, <2>1 DEF Queue, ChildrenOwned, Known, Entry, Holder
  <2> QED
    BY <1>0, <2>2, <2>3 DEF QueueStep, ChildrenKnown, Known
<1> QED
  BY <1>0, <1>1, <1>2 DEF Redirect
-----------------------------------------------------------------------------
(* The queue under every step.                                             *)

(* A chief without a child is removed by its manager.                      *)
LEMMA ChiefStepMoves ==
    ASSUME Control, Orderly, Queue, NEW e \in Engines, ChiefStep(e)
    PROVE  QueueStep
<1>0. /\ Typed /\ Named /\ alias \in Managers /\ at[e] \in Managers
      /\ \A f \in Engines : Known(f) \subseteq Jobs /\ running[f] \subseteq Jobs
  BY DEF Control, Typed, HandoverTypeOK, Known
<1>1. ASSUME UNCHANGED <<state, node, alias, reported>>,
             \A f \in Engines : Known(f)' \subseteq Known(f)
      PROVE  QueueStep
  BY <1>0, <1>1, QueueUntouched DEF Entry, Holder
<1>2. ASSUME NEW j \in Jobs, Exit(e, j)
      PROVE  QueueStep
  <2>1. \A f \in Engines : Known(f)' \subseteq Known(f)
    BY <1>2 DEF Exit, Known, Control, Typed, HandoverTypeOK
  <2> QED
    BY <1>1, <1>2, <2>1 DEF Exit, tableVars, transferVars
<1>3. CASE Migrate(e) \/ Reconnect(e)
  <2>1. UNCHANGED <<state, node, alias, reported, running, codes>>
    BY <1>3 DEF Migrate, Reconnect, MoveToTarget, RegisterAt
  <2> QED
    BY <1>1, <2>1 DEF Known
<1>4. ASSUME NEW m \in Managers, Boot(e, m)
      PROVE  QueueStep
  BY <1>1, <1>4 DEF Boot, RegisterAt, Known
<1>5. LoseChief(e) => \A f \in Engines : Known(f)' \subseteq Known(f)
  BY DEF LoseChief, Known, Control, Typed, HandoverTypeOK
<1>6. CASE Die(e)
  BY <1>1, <1>5, <1>6 DEF Die, tableVars, transferVars
<1>7. CASE Leave(e)
  <2>1. /\ ForwardedTo(at[e]) = alias /\ Known(e) = {} /\ UNCHANGED <<alias, reported>>
        /\ \A f \in Engines : Known(f)' \subseteq Known(f)
        /\ EngineRemoved(alias, e) \/ UNCHANGED tableVars
    BY <1>5, <1>7, ForwardsToAlias DEF Leave, transferVars
  <2> QED
    BY <1>0, <1>1, <2>1, RemovedMoves DEF tableVars
<1>8. CASE ReconcileOrphan(e)
  <2>1. alias = "target" /\ UNCHANGED <<alias, running, codes, reported>>
    BY <1>0, <1>8 DEF ReconcileOrphan, Named, chiefVars
  <2>2. Known(e) = {}
    BY <1>8 DEF ReconcileOrphan, Orderly
  <2> QED
    BY <1>0, <1>8, <2>1, <2>2, RemovedMoves DEF ReconcileOrphan, Known
<1>9. ASSUME NEW m \in Managers, ConfirmTermination(m, e)
      PROVE  QueueStep
  <2>1. m = alias /\ UNCHANGED <<alias, running, codes, reported>>
    BY <1>9, ConfirmsAtAlias DEF ConfirmTermination, transferVars, chiefVars
  <2>2. Known(e) = {}
    BY <1>9 DEF ConfirmTermination, Orderly
  <2> QED
    BY <1>0, <1>9, <2>1, <2>2, RemovedMoves DEF ConfirmTermination, Known
<1> QED
  BY <1>2, <1>3, <1>4, <1>6, <1>7, <1>8, <1>9, RequestMoves, AcknowledgeMoves,
     ReportMoves, HeartbeatMoves
  DEF ChiefStep

LEMMA TransferStepMoves ==
    ASSUME Control, Frozen, Queue, TransferStep
    PROVE  QueueStep
<1>0. /\ alias \in Managers
      /\ state \in [Managers -> [Jobs -> JobStates]]
      /\ node \in [Managers -> [Jobs -> Engines \union {NoEngine}]]
      /\ \A f \in Engines : Known(f) \subseteq Jobs /\ running[f] \subseteq Jobs
  BY DEF Control, Typed, HandoverTypeOK, Known
<1>1. ASSUME alias' = alias, state'[alias] = state[alias], node'[alias] = node[alias],
             UNCHANGED <<running, codes, reported>>
      PROVE  QueueStep
  BY <1>0, <1>1, QueueUntouched DEF Entry, Holder, Known
<1>2. CASE Transfer \/ Undo
  <2>1. alias = "source" /\ alias' = alias
    BY <1>0, <1>2 DEF Transfer, Undo, Control, Staged, Managers
  <2>2. state'["source"] = state["source"] /\ node'["source"] = node["source"]
    BY <1>0, <1>2 DEF Transfer, Import, NotImported, Undo, tableVars, Managers
  <2> QED
    BY <1>1, <1>2, <2>1, <2>2 DEF Transfer, Undo, chiefVars
<1>3. CASE Begin \/ TakeLocks \/ Commit \/ Activate \/ SourceExits
  BY <1>1, <1>3 DEF Begin, TakeLocks, Commit, Activate, SourceExits, tableVars, chiefVars
<1> QED
  BY <1>2, <1>3, RedirectMoves DEF TransferStep

(* While the import is unanswered for, no call is served and no engine     *)
(* removed.                                                                *)
LEMMA ChiefStepFrozen ==
    ASSUME Control, Frozen, NEW e \in Engines, ChiefStep(e)
    PROVE  Frozen'
<1>1. step' = step
  BY DEF ChiefStep, Request, Acknowledge, Exit, Report, Heartbeat, Migrate, Reconnect,
         MoveToTarget, RegisterAt, Die, Leave, ReconcileOrphan, Boot, ConfirmTermination,
         transferVars
<1> SUFFICES ASSUME step = "imported" PROVE Frozen'
  BY <1>1 DEF Frozen
<1>2. /\ alias = "source" /\ sourceUp /\ Locked /\ at[e] = "source"
      /\ ~Answers(at[e]) /\ mode["target"] # "TARGET_MIGRATING"
  BY DEF Control, Staged, Named, Locked, Answers, Typed, HandoverTypeOK, Managers
<1>3. UNCHANGED <<state, node>>
  <2>1. ~\E m \in Managers : ConfirmTermination(m, e)
    BY <1>2, ConfirmsAtAlias DEF ConfirmTermination
  <2> QED
    BY <1>2, <2>1
    DEF ChiefStep, Request, Acknowledge, Exit, Report, Heartbeat, Migrate, Reconnect,
        MoveToTarget, Die, Leave, ReconcileOrphan, Boot, tableVars
<1> QED
  BY <1>1, <1>3 DEF Frozen, SnapshotState, SnapshotNode

LEMMA TransferStepFrozen ==
    ASSUME Control, TransferStep
    PROVE  Frozen'
<1>1. CASE step' # "imported"
  BY <1>1 DEF Frozen
<1>2. CASE step' = "imported"
  <2>1. Transfer /\ Import
    BY <1>2
    DEF TransferStep, Begin, TakeLocks, Transfer, Redirect, Commit, Undo, Activate, SourceExits
  <2>2. /\ state' = [state EXCEPT !["target"] = [j \in Jobs |-> SnapshotState(j)]]
        /\ node' = [node EXCEPT !["target"] = [j \in Jobs |-> SnapshotNode(j)]]
        /\ state \in [Managers -> [Jobs -> JobStates]]
        /\ node \in [Managers -> [Jobs -> Engines \union {NoEngine}]]
    BY <2>1 DEF Import, Control, Typed, HandoverTypeOK
  <2>3. /\ state'["source"] = state["source"] /\ node'["source"] = node["source"]
        /\ \A j \in Jobs : /\ state'["target"][j] = SnapshotState(j)
                           /\ node'["target"][j] = SnapshotNode(j)
    BY <2>2 DEF Managers
  <2> QED
    BY <2>3 DEF Frozen, SnapshotState, SnapshotNode
<1> QED
  BY <1>1, <1>2

LEMMA ChiefStepOrderly ==
    ASSUME Control, Orderly, Queue, NEW e \in Engines, ChiefStep(e)
    PROVE  Orderly'
<1>0. /\ kept \in [Engines -> SUBSET Jobs] /\ running \in [Engines -> SUBSET Jobs]
      /\ codes \in [Engines -> SUBSET Jobs] /\ up \in [Engines -> {"queued", "up", "gone"}]
  BY DEF Control, Typed, HandoverTypeOK
<1>1. CASE UNCHANGED <<up, kept, running, codes>>
  BY <1>1 DEF Orderly, Known
<1>2. ASSUME NEW new \in SUBSET Jobs, Request(e, new)
      PROVE  Orderly'
  <2>1. at[e] = alias
    BY <1>2, ForwardsToAlias DEF Request
  <2>2. (AssignedTo(at[e], e) \union new) \intersect Known(e) = {}
    BY <1>2, <2>1 DEF Request, AssignedTo, Grantable, Queue, ChildrenOwned
  <2> QED
    BY <1>0, <1>2, <2>2 DEF Request, Orderly, Known
<1>3. ASSUME NEW j \in Jobs, Acknowledge(e, j) \/ Exit(e, j) \/ Report(e, j)
      PROVE  Orderly'
  BY <1>0, <1>3 DEF Acknowledge, Spawn, Exit, Report, Orderly, Known
<1>4. CASE Migrate(e) \/ Reconnect(e)
  BY <1>0, <1>4 DEF Migrate, Reconnect, MoveToTarget, Orderly, Known
<1>5. CASE Die(e) \/ Leave(e)
  BY <1>0, <1>5 DEF Die, Leave, LoseChief, Orderly, Known
<1>6. ASSUME NEW m \in Managers, Boot(e, m)
      PROVE  Orderly'
  BY <1>0, <1>6 DEF Boot, Orderly, Known
<1>7. CASE \/ \E lost \in SUBSET Jobs : Heartbeat(e, lost)
           \/ ReconcileOrphan(e) \/ \E m \in Managers : ConfirmTermination(m, e)
  BY <1>1, <1>7 DEF Heartbeat, ReconcileOrphan, ConfirmTermination, chiefVars
<1> QED
  BY <1>2, <1>3, <1>4, <1>5, <1>6, <1>7 DEF ChiefStep

LEMMA NextSteps ==
    ASSUME HandoverInv, [HandoverNext]_vars
    PROVE  HandoverInv' /\ QueueStep
<1>0. Control /\ Frozen /\ Orderly /\ Queue /\ Typed
  BY DEF HandoverInv, Control
<1>1. ASSUME NEW e \in Engines, ChiefStep(e)
      PROVE  HandoverInv' /\ QueueStep
  <2>1. Control'
    BY <1>0, <1>1, ChiefStepControl
  <2>2. Frozen' /\ Orderly' /\ QueueStep
    BY <1>0, <1>1, ChiefStepFrozen, ChiefStepOrderly, ChiefStepMoves
  <2> QED
    BY <1>0, <2>1, <2>2, StillQueue DEF HandoverInv, Control
<1>2. CASE TransferStep
  <2>1. Control'
    BY <1>0, <1>2, TransferStepControl
  <2>2. Frozen' /\ QueueStep
    BY <1>0, <1>2, TransferStepFrozen, TransferStepMoves
  <2>3. Orderly'
    BY <1>0, <1>2
    DEF TransferStep, Begin, TakeLocks, Transfer, Redirect, Commit, Undo, Activate, SourceExits,
        chiefVars, Orderly, Known
  <2> QED
    BY <1>0, <2>1, <2>2, <2>3, StillQueue DEF HandoverInv, Control
<1>3. ASSUME NEW m \in Managers, NEW j \in Jobs, Submit(m, j)
      PROVE  HandoverInv' /\ QueueStep
  <2>1. Control'
    BY <1>0, <1>3, SubmitControl
  <2>2. Frozen' /\ Orderly'
    BY <1>0, <1>3, SubmitsAtAlias DEF Submit, transferVars, chiefVars, Frozen, Orderly, Known
  <2> QED
    BY <1>0, <1>3, <2>1, <2>2, SubmitMoves, StillQueue DEF HandoverInv, Control
<1>4. CASE UNCHANGED vars
  <2>1. /\ Typed' /\ Staged' /\ Named' /\ Frozen' /\ Orderly'
    BY <1>0, <1>4
    DEF vars, tableVars, transferVars, chiefVars, Control, Typed, HandoverTypeOK, Staged, Named,
        Committed, Frozen, SnapshotState, SnapshotNode, Orderly, Known, Budgets
  <2>2. QueueStep
    <3>1. \A e \in Engines : Known(e) \subseteq Jobs /\ running[e] \subseteq Jobs
      BY <1>0 DEF Typed, HandoverTypeOK, Known
    <3> QED
      BY <1>0, <1>4, <3>1, QueueUntouched
      DEF vars, tableVars, transferVars, chiefVars, Entry, Holder, Known
  <2> QED
    BY <1>0, <2>1, <2>2, StillQueue DEF HandoverInv, Control
<1> QED
  BY <1>1, <1>2, <1>3, <1>4 DEF HandoverNext, ChiefStep, TransferStep
-----------------------------------------------------------------------------
(* The theorems.                                                           *)

LEMMA HandoverInductive == HandoverSpec => []HandoverInv
<1>1. HandoverInv /\ [HandoverNext]_vars => HandoverInv'
  BY NextSteps
<1> QED
  BY InitInv, <1>1, PTL DEF HandoverSpec

(* The two tables, the place in handover_to() and the chiefs keep their    *)
(* shape; in particular no pilot that arrived is counted as ended.         *)
THEOREM HandoverTyped == HandoverSpec => []HandoverTypeOK
<1>1. HandoverInv => HandoverTypeOK
  BY DEF HandoverInv, Control, Typed
<1> QED
  BY HandoverInductive, <1>1, PTL

(* What a chief executes or has to report is RUNNING on it at the manager  *)
(* that the record names, for any number of jobs, pilots and attempts.     *)
THEOREM ChildrenStayOwned == HandoverSpec => []ChildrenOwned
<1>1. HandoverInv => ChildrenOwned
  BY DEF HandoverInv, Queue
<1> QED
  BY HandoverInductive, <1>1, PTL

(* No accepted end is forgotten, as long as no call is held up by the      *)
(* source's locks (EnterLate is not a step of HandoverSpec).               *)
THEOREM CompletionsStay == HandoverSpec => []CompletionsKept
<1>1. HandoverInv => CompletionsKept
  BY DEF HandoverInv, Queue
<1> QED
  BY HandoverInductive, <1>1, PTL

-----------------------------------------------------------------------------
(* The refinement.                                                         *)

(* Only the holder of a RUNNING job executes it.                           *)
LEMMA ExecutedByHolder ==
    ASSUME ChildrenOwned, NEW j
    PROVE  /\ Execs(j) = {} \/ (Entry(j) = "RUNNING" /\ Holder(j) \in Engines)
           /\ Execs(j) \in {{}, {Holder(j)}}
  BY DEF ChildrenOwned, Known, Execs, Entry, Holder

LEMMA LeaseStep ==
    ASSUME HandoverInv, HandoverInv', QueueStep, NEW j \in Jobs
    PROVE  \/ Lease!Submit(j) \/ Lease!Place(j) \/ Lease!Begin(j) \/ Lease!End(j)
           \/ Lease!Vacate(j) \/ Lease!Finish(j) \/ Lease!Stays(j)
<1>1. /\ Execs(j) = {} \/ (Entry(j) = "RUNNING" /\ Holder(j) \in Engines)
      /\ Execs(j) \in {{}, {Holder(j)}}
  BY ExecutedByHolder DEF HandoverInv, Queue
<1>2. /\ Execs(j)' = {} \/ (Entry(j)' = "RUNNING" /\ Holder(j)' \in Engines)
      /\ Execs(j)' \in {{}, {Holder(j)'}}
  BY DEF QueueStep, ChildrenOwned, Known, Execs, Entry, Holder
<1>3. Entry(j) \in JobStates /\ Entry(j)' \in JobStates
  BY DEF HandoverInv, Control, Typed, HandoverTypeOK, Entry
<1>4. ~SameHolder(j) => Execs(j) = {}
  <2>1. ASSUME NEW e \in Execs(j)
        PROVE  SameHolder(j)
    <3>1. e \in Engines /\ j \in running[e] /\ Entry(j) = "RUNNING" /\ Holder(j) = e
      BY <2>1 DEF Execs, HandoverInv, Queue, ChildrenOwned, Known, Entry, Holder
    <3>2. CASE j \in Known(e)'
      <4>1. Entry(j)' = "RUNNING" /\ Holder(j)' = e
        BY <3>1, <3>2 DEF QueueStep, ChildrenOwned, Entry, Holder
      <4> QED
        BY <3>1, <4>1 DEF SameHolder
    <3>3. CASE Entry(j)' = Entry(j) /\ Holder(j)' = Holder(j)
      BY <3>3 DEF SameHolder
    <3> QED
      BY <3>1, <3>2, <3>3 DEF QueueStep, ChildrenKnown
  <2> QED
    BY <2>1
<1>5. CASE SameHolder(j)
  <2>1. CASE Execs(j)' = Execs(j)
    BY <1>5, <2>1 DEF SameHolder, Lease!Stays, Lease!Becomes, Execs, Entry, Holder
  <2>2. CASE Execs(j)' # Execs(j)
    <3>1. PhaseOf(Entry(j)) = "held" /\ PhaseOf(Entry(j)') = "held"
      BY <1>1, <1>2, <1>5, <2>2 DEF SameHolder, PhaseOf
    <3>2. \/ Execs(j) = {} /\ Execs(j)' = {Holder(j)}
          \/ Execs(j) # {} /\ Execs(j)' = {}
      BY <1>1, <1>2, <1>5, <2>2 DEF SameHolder
    <3> QED
      BY <1>5, <3>1, <3>2
      DEF SameHolder, Execs, Entry, Holder, Lease!Begin, Lease!End, Lease!Idle, Lease!Becomes
  <2> QED
    BY <2>1, <2>2
<1>6. CASE GrantedTo(j) /\ ~SameHolder(j)
  <2>1. Execs(j) = {} /\ Execs(j)' = {}
    BY <1>2, <1>4, <1>6 DEF GrantedTo
  <2>2. PhaseOf(Entry(j)) \in {"queued", "held"} /\ PhaseOf(Entry(j)') = "held"
    BY <1>6 DEF GrantedTo, PhaseOf
  <2> QED
    BY <1>6, <2>1, <2>2
    DEF GrantedTo, Execs, Entry, Holder, Lease!Place, Lease!Idle, Lease!Becomes
<1>7. CASE LetGo(j) /\ ~SameHolder(j)
  <2>1. Execs(j) = {} /\ Execs(j)' = {}
    BY <1>2, <1>4, <1>7 DEF LetGo
  <2>2. \/ PhaseOf(Entry(j)) = "absent" /\ PhaseOf(Entry(j)') = "queued"
        \/ PhaseOf(Entry(j)) = "held" /\ PhaseOf(Entry(j)') = "queued"
        \/ PhaseOf(Entry(j)) = "held" /\ PhaseOf(Entry(j)') = "done"
    BY <1>7 DEF LetGo, PhaseOf
  <2> QED
    BY <1>7, <2>1, <2>2
    DEF LetGo, Execs, Entry, Holder, Lease!Submit, Lease!Vacate, Lease!Finish, Lease!Idle,
        Lease!Becomes
<1> QED
  BY <1>5, <1>6, <1>7 DEF QueueStep, QueueMove

(* The handover cannot be seen from outside: the queue, whichever manager  *)
(* keeps it, implements the lease of a job, for any number of jobs and     *)
(* pilots, with lost calls and answers, unwritable records, dying pilots   *)
(* and a source that exits.                                                *)
THEOREM HandoverImplementsLease == HandoverSpec => HandoverIsInvisible
<1>1. HandoverInit => Lease!Init
  BY DEF HandoverInit, Lease!Init, EmptyState, NoNodes, Nothing, PhaseOf, Managers
<1>2. HandoverInv /\ HandoverInv' /\ [HandoverNext]_vars => [Lease!Next]_(Lease!leaseVars)
  BY NextSteps, LeaseStep DEF Lease!Next
<1> QED
  BY HandoverInductive, <1>1, <1>2, PTL DEF HandoverSpec, HandoverIsInvisible, Lease!Spec
=============================================================================
