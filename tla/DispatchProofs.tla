---------------------------- MODULE DispatchProofs ----------------------------
(***************************************************************************)
(* Theorems about Dispatch, for any jobs, dependencies, priorities, pilots *)
(* and bounds: the types with every pilot within its memory, the           *)
(* dependencies, and the slot that is collected for a large job.  What a   *)
(* pass takes is a recursive definition; SelectionsKeep says of all its    *)
(* results what holds of nothing taken and is kept by taking one more job. *)
(***************************************************************************)
EXTENDS Dispatch, SumLemmas

Captures(i, j) == \E c \in dep[j].conditions : c.type = "singleton" /\ i \in c.on

(* What was latched held, and holds now: conditions never cease to hold.   *)
MetHold ==
    /\ \A j \in Jobs : \A c \in dep[j].conditions : c.type = "after" => c.on \intersect Endless = {}
    /\ \A j \in Jobs : \A c \in met[j] : Holds(c)

(* A verdict was earned, and without one no job is granted or runs.        *)
VerdictsEarned ==
    /\ \A j \in Jobs : verdict[j] = "satisfied" => dep[j] = Nothing \/ Fulfilled(dep[j])
    /\ \A j \in Jobs : Placed(j) => verdict[j] = "satisfied"

(* Of two singletons of a name that are active, one waits for the other.   *)
SingletonsOrdered ==
    \A i, j \in Jobs :
        /\ i # j /\ JobName[i] = JobName[j]
        /\ Singleton(dep[i]) /\ Singleton(dep[j])
        /\ state[i] \in Active /\ state[j] \in Active
        => Captures(i, j) \/ Captures(j, i)

DispatchInv == DispatchTypeOK /\ MetHold /\ VerdictsEarned /\ SingletonsOrdered

-----------------------------------------------------------------------------
(* What a pass may take.                                                   *)

(* A set of selections that taking one more job does not leave.            *)
Closed(fitting, I) ==
    \A g \in I : \A j \in Best(fitting[g]) : g \union {j} \in I

(* What can be reached from g, and the definition that Selections solves.  *)
Reach(fitting, g) ==
    {r \in SUBSET Jobs : \A I \in SUBSET SUBSET Jobs : g \in I /\ Closed(fitting, I) => r \in I}
After(fitting, after) ==
    [g \in SUBSET Jobs |-> IF fitting[g] = {} THEN {g}
                            ELSE UNION {after[g \union {j}] : j \in Best(fitting[g])}]
Solves(fitting, after) == after = After(fitting, after)

LEMMA ReachSelf ==
    ASSUME NEW fitting, NEW g \in SUBSET Jobs
    PROVE  g \in Reach(fitting, g)
BY DEF Reach

LEMMA ReachNext ==
    ASSUME NEW fitting, NEW g \in SUBSET Jobs, NEW j \in Best(fitting[g])
    PROVE  Reach(fitting, g \union {j}) \subseteq Reach(fitting, g)
BY DEF Reach, Closed

LEMMA ReachStep ==
    ASSUME NEW fitting, NEW g, NEW h \in Reach(fitting, g), fitting[h] \subseteq Jobs,
           NEW j \in Best(fitting[h])
    PROVE  h \union {j} \in Reach(fitting, g) /\ h \union {j} \in SUBSET Jobs
<1>1. h \union {j} \in SUBSET Jobs
  BY DEF Best, Reach
<1>2. ASSUME NEW I \in SUBSET SUBSET Jobs, g \in I, Closed(fitting, I)
      PROVE  h \union {j} \in I
  <2>1. h \in I
    BY <1>2 DEF Reach
  <2> QED BY <1>2, <2>1 DEF Closed
<1> QED BY <1>1, <1>2 DEF Reach

LEMMA ReachOnly ==
    ASSUME NEW fitting, NEW g \in SUBSET Jobs, \A h \in SUBSET Jobs : fitting[h] \subseteq Jobs,
           NEW r \in Reach(fitting, g)
    PROVE  r = g \/ \E j \in Best(fitting[g]) : r \in Reach(fitting, g \union {j})
<1> DEFINE I == {g} \union {h \in SUBSET Jobs : \E j \in Best(fitting[g]) :
                                   h \in Reach(fitting, g \union {j})}
<1>1. \A j \in Best(fitting[g]) : g \union {j} \in SUBSET Jobs
  BY DEF Best
<1>2. I \in SUBSET SUBSET Jobs
  OBVIOUS
<1>3. Closed(fitting, I)
  <2> SUFFICES ASSUME NEW h \in I, NEW j \in Best(fitting[h]) PROVE h \union {j} \in I
    BY DEF Closed
  <2>1. CASE h = g
    <3>1. j \in Best(fitting[g]) /\ g \union {j} \in SUBSET Jobs
      BY <2>1, <1>1
    <3>2. g \union {j} \in Reach(fitting, g \union {j})
      BY <3>1, ReachSelf
    <3> QED BY <2>1, <3>1, <3>2
  <2>2. CASE h # g
    <3>1. PICK k \in Best(fitting[g]) : h \in Reach(fitting, g \union {k})
      BY <2>2
    <3>2. h \union {j} \in Reach(fitting, g \union {k}) /\ h \union {j} \in SUBSET Jobs
      BY <3>1, ReachStep
    <3> QED BY <3>2
  <2> QED BY <2>1, <2>2
<1>4. r \in I
  <2> HIDE DEF I
  <2>1. g \in I
    BY DEF I
  <2> QED BY <1>2, <1>3, <2>1 DEF Reach
<1> QED BY <1>4

(* A definition that solves the equation, at one selection.                *)
LEMMA SolutionAt ==
    ASSUME NEW fitting, NEW after, Solves(fitting, after), NEW g \in SUBSET Jobs
    PROVE  /\ fitting[g] = {} => after[g] = {g}
           /\ fitting[g] # {} =>
                  \A s \in after[g] : \E j \in Best(fitting[g]) : s \in after[g \union {j}]
<1> DEFINE At(h) == IF fitting[h] = {} THEN {h}
                    ELSE UNION {after[h \union {j}] : j \in Best(fitting[h])}
<1>1. after = [h \in SUBSET Jobs |-> At(h)]
  BY DEF Solves, After
<1>2. after[g] = At(g)
  <2> HIDE DEF At
  <2> QED BY <1>1
<1>3. fitting[g] # {} => after[g] = UNION {after[g \union {j}] : j \in Best(fitting[g])}
  BY <1>2
<1>4. \A s : (s \in UNION {after[g \union {j}] : j \in Best(fitting[g])}) =>
           \E j \in Best(fitting[g]) : s \in after[g \union {j}]
  OBVIOUS
<1> QED BY <1>2, <1>3, <1>4

LEMMA SolutionExists ==
    ASSUME NEW fitting, \A g \in SUBSET Jobs : fitting[g] \subseteq Jobs
    PROVE  \E after : Solves(fitting, after)
<1> DEFINE it == [g \in SUBSET Jobs |-> {r \in Reach(fitting, g) : fitting[r] = {}}]
       At(g) == IF fitting[g] = {} THEN {g}
                ELSE UNION {it[g \union {j}] : j \in Best(fitting[g])}
<1> SUFFICES ASSUME NEW g \in SUBSET Jobs PROVE it[g] = At(g)
  <2>1. Solves(fitting, it) <=> it = [g \in SUBSET Jobs |-> At(g)]
    BY DEF Solves, After
  <2>2. it = [g \in SUBSET Jobs |-> it[g]]
    OBVIOUS
  <2> HIDE DEF it, At
  <2> QED BY <2>1, <2>2
<1>1. CASE fitting[g] = {}
  <2>1. Best(fitting[g]) = {}
    BY <1>1 DEF Best
  <2>2. \A r \in Reach(fitting, g) : r = g
    BY <2>1, ReachOnly
  <2> QED BY <1>1, <2>2, ReachSelf
<1>2. CASE fitting[g] # {}
  <2>1. \A j \in Best(fitting[g]) : g \union {j} \in SUBSET Jobs
    BY DEF Best
  <2>2. ASSUME NEW r \in it[g] PROVE r \in UNION {it[g \union {j}] : j \in Best(fitting[g])}
    <3>1. r \in Reach(fitting, g) /\ fitting[r] = {} /\ r # g
      BY <1>2, <2>2
    <3>2. PICK j \in Best(fitting[g]) : r \in Reach(fitting, g \union {j})
      BY <3>1, ReachOnly
    <3>3. r \in it[g \union {j}]
      BY <2>1, <3>1, <3>2
    <3> QED BY <3>3
  <2>3. ASSUME NEW j \in Best(fitting[g]), NEW r \in it[g \union {j}] PROVE r \in it[g]
    BY <2>1, <2>3, ReachNext
  <2> HIDE DEF it
  <2>4. it[g] = UNION {it[g \union {j}] : j \in Best(fitting[g])}
    BY <2>2, <2>3
  <2> QED BY <2>4, <1>2
<1> QED BY <1>1, <1>2

(* Every selection lies in a set that holds the empty one and is closed.   *)
LEMMA SelectionsKeep ==
    ASSUME IsFiniteSet(Jobs), NEW fitting,
           \A g \in SUBSET Jobs : fitting[g] \subseteq Jobs \ g,
           NEW I, {} \in I, Closed(fitting, I), NEW r \in Selections(fitting)
    PROVE  r \in I /\ r \in SUBSET Jobs
<1>1. PICK after : /\ after = (CHOOSE x : Solves(fitting, x))
                   /\ Solves(fitting, after)
  BY SolutionExists
<1>2. Selections(fitting) = after[{}]
  BY <1>1 DEF Selections, Solves, After
<1> DEFINE At(g) == /\ fitting[g] = {} => after[g] = {g}
                    /\ fitting[g] # {} => \A s \in after[g] : \E j \in Best(fitting[g]) :
                                              s \in after[g \union {j}]
<1>3. \A g \in SUBSET Jobs : At(g)
  <2>1. Solves(fitting, after)
    BY <1>1
  <2> QED BY <2>1, SolutionAt
<1> DEFINE G == {T \in SUBSET Jobs : \A g \in I : g = Jobs \ T =>
                    \A s \in after[g] : s \in I /\ s \in SUBSET Jobs}
<1>4. ASSUME NEW T \in SUBSET Jobs, \A U \in SUBSET T : U # T => U \in G
      PROVE  T \in G
  <2> SUFFICES ASSUME NEW g \in I, g = Jobs \ T, NEW s \in after[g]
               PROVE  s \in I /\ s \in SUBSET Jobs
    OBVIOUS
  <2>1. g \in SUBSET Jobs
    OBVIOUS
  <2>2. At(g)
    BY <2>1, <1>3
  <2>3. CASE fitting[g] = {}
    BY <2>1, <2>2, <2>3
  <2>4. CASE fitting[g] # {}
    <3>1. PICK j \in Best(fitting[g]) : s \in after[g \union {j}]
      BY <2>2, <2>4
    <3>2. j \in T /\ g \union {j} \in I
      BY <2>1 DEF Best, Closed
    <3>3. T \ {j} \in SUBSET T /\ T \ {j} # T /\ g \union {j} = Jobs \ (T \ {j})
      BY <3>2
    <3>4. T \ {j} \in G
      BY <1>4, <3>3
    <3> QED BY <3>1, <3>2, <3>3, <3>4
  <2> QED BY <2>3, <2>4
<1>5. Jobs \in G
  <2> HIDE DEF G
  <2> QED BY <1>4, FiniteInduction
<1> QED BY <1>2, <1>5

-----------------------------------------------------------------------------
(* What a pass takes leaves room: for all of it, and for the job that free *)
(* memory is saved for, as long as that is not taken itself.               *)
Lower(g, target) == {j \in g : Priority[j] < Priority[target]}
SlotLeft(n, g, target) ==
    target \in Jobs \ g /\ Lower(g, target) # {} =>
        SumFunctionOnSet(mem, Lower(g, target)) + mem[target] <= Headroom(n)
LeavesRoom(n, g, target) ==
    SumFunctionOnSet(mem, g) <= Headroom(n) /\ SlotLeft(n, g, target)

MemOK == mem \in [Jobs -> Nat]

LEMMA MemSum ==
    ASSUME MemOK, NEW g \in SUBSET Jobs
    PROVE  IsFiniteSet(g) /\ SumFunctionOnSet(mem, g) \in Nat /\ \A j \in g : mem[j] \in Nat
<1>1. IsFiniteSet(g)
  BY DependencyConstants, FS_Subset
<1>2. \A j \in g : mem[j] \in Nat
  BY DEF MemOK
<1> QED BY <1>1, <1>2, SumNat

LEMMA MemPart ==
    ASSUME MemOK, NEW g \in SUBSET Jobs, NEW h \in SUBSET g
    PROVE  SumFunctionOnSet(mem, h) <= SumFunctionOnSet(mem, g)
BY MemSum, SumPart

LEMMA MemOneMore ==
    ASSUME MemOK, NEW g \in SUBSET Jobs, NEW j \in Jobs \ g
    PROVE  SumFunctionOnSet(mem, g \union {j}) = mem[j] + SumFunctionOnSet(mem, g)
<1> DEFINE h == g \union {j}
<1>1. h \in SUBSET Jobs /\ j \in h /\ h \ {j} = g
  OBVIOUS
<1> HIDE DEF h
<1>2. IsFiniteSet(h) /\ \A x \in h : mem[x] \in Int
  BY <1>1, MemSum
<1>3. SumFunctionOnSet(mem, h) = mem[j] + SumFunctionOnSet(mem, h \ {j})
  BY <1>1, <1>2, SumTakeOut
<1> QED BY <1>1, <1>3 DEF h

LEMMA HeadroomInt ==
    ASSUME MemOK, NEW n \in Nodes
    PROVE  Headroom(n) \in Int
<1>1. SumFunctionOnSet(mem, HeldBy(n)) \in Nat
  BY MemSum DEF HeldBy
<1> QED BY <1>1, DispatchConstants DEF Headroom

LEMMA RoomForNothing ==
    ASSUME NEW n, NEW target, Headroom(n) \in Nat
    PROVE  LeavesRoom(n, {}, target)
BY SumEmpty DEF LeavesRoom, SlotLeft, Lower

(* Taking a job that _fits_free_capacity() lets through.                   *)
LEMMA RoomAfterOne ==
    ASSUME MemOK, NEW n \in Nodes, NEW g \in SUBSET Jobs, NEW j \in Jobs \ g, NEW target, NEW still,
           LeavesRoom(n, g, target), still = target \/ target \in g,
           FitsFreeCapacity(j, Headroom(n) - SumFunctionOnSet(mem, g), still)
    PROVE  LeavesRoom(n, g \union {j}, target)
<1>1. Headroom(n) \in Int /\ SumFunctionOnSet(mem, g) \in Nat /\ mem[j] \in Nat
  BY HeadroomInt, MemSum DEF MemOK
<1>2. SumFunctionOnSet(mem, g \union {j}) = mem[j] + SumFunctionOnSet(mem, g)
  BY MemOneMore
<1>3. SumFunctionOnSet(mem, g \union {j}) <= Headroom(n)
  BY <1>1, <1>2 DEF FitsFreeCapacity
<1>4. SlotLeft(n, g \union {j}, target)
  <2> SUFFICES ASSUME target \in Jobs \ (g \union {j}), Lower(g \union {j}, target) # {}
               PROVE  SumFunctionOnSet(mem, Lower(g \union {j}, target)) + mem[target] <= Headroom(n)
    BY DEF SlotLeft
  <2>1. CASE Priority[j] < Priority[target]
    <3>1. Lower(g \union {j}, target) = Lower(g, target) \union {j} /\ j \in Jobs \ Lower(g, target)
      BY <2>1 DEF Lower
    <3>2. Lower(g, target) \in SUBSET g /\ Lower(g, target) \in SUBSET Jobs
      BY DEF Lower
    <3>3. SumFunctionOnSet(mem, Lower(g \union {j}, target)) = mem[j] + SumFunctionOnSet(mem, Lower(g, target))
      BY <3>1, <3>2, MemOneMore
    <3>4. SumFunctionOnSet(mem, Lower(g, target)) <= SumFunctionOnSet(mem, g)
      BY <3>2, MemPart
    <3>5. still = target /\ target # NoJob /\ target # j
      BY DispatchConstants
    <3>6. mem[j] + mem[target] <= Headroom(n) - SumFunctionOnSet(mem, g)
      BY <2>1, <3>5 DEF FitsFreeCapacity
    <3>7. mem[target] \in Nat /\ SumFunctionOnSet(mem, Lower(g, target)) \in Nat
      BY <3>2, MemSum DEF MemOK
    <3> QED BY <1>1, <3>3, <3>4, <3>6, <3>7
  <2>2. CASE ~(Priority[j] < Priority[target])
    <3>1. Lower(g \union {j}, target) = Lower(g, target)
      BY <2>2 DEF Lower
    <3> QED BY <3>1 DEF LeavesRoom, SlotLeft
  <2> QED BY <2>1, <2>2
<1> QED BY <1>3, <1>4 DEF LeavesRoom

(* All that the queue is asked for.                                        *)
LEMMA GrantedRoom ==
    ASSUME MemOK, NEW n \in Nodes, Headroom(n) \in Nat, NEW target, NEW granted \in Passes(n, target)
    PROVE  /\ granted \in SUBSET {j \in Jobs : EligibleQueued(j, n)}
           /\ LeavesRoom(n, granted, target)
<1> DEFINE candidates == {j \in Jobs : EligibleQueued(j, n)}
           still(g)   == IF target \in g THEN NoJob ELSE target
           Fitting(g) == {j \in candidates \ g :
                            FitsFreeCapacity(j, Headroom(n) - SumFunctionOnSet(mem, g), still(g))}
           fitting    == [g \in SUBSET Jobs |-> Fitting(g)]
           I          == {g \in SUBSET candidates : LeavesRoom(n, g, target)}
<1>1. granted \in Selections(fitting)
  BY DEF Passes
<1>2. \A g \in SUBSET Jobs : fitting[g] = Fitting(g)
  <2> HIDE DEF Fitting
  <2> QED OBVIOUS
<1>3. \A g \in SUBSET Jobs : fitting[g] \subseteq Jobs \ g
  <2>1. \A g : Fitting(g) \subseteq Jobs \ g
    OBVIOUS
  <2> HIDE DEF Fitting, fitting
  <2> QED BY <1>2, <2>1
<1>4. {} \in I
  BY RoomForNothing
<1>5. Closed(fitting, I)
  <2> SUFFICES ASSUME NEW g \in I, NEW j \in Best(fitting[g]) PROVE g \union {j} \in I
    <3> HIDE DEF I, fitting
    <3> QED BY DEF Closed
  <2>1. g \in SUBSET candidates /\ g \in SUBSET Jobs /\ LeavesRoom(n, g, target)
    OBVIOUS
  <2>2. j \in Fitting(g)
    <3> HIDE DEF Fitting, fitting
    <3> QED BY <1>2, <2>1 DEF Best
  <2>3. /\ j \in candidates /\ j \in Jobs \ g
        /\ FitsFreeCapacity(j, Headroom(n) - SumFunctionOnSet(mem, g), still(g))
    BY <2>2
  <2>4. still(g) = target \/ target \in g
    OBVIOUS
  <2> HIDE DEF Fitting, fitting, still
  <2>5. LeavesRoom(n, g \union {j}, target)
    BY <2>1, <2>3, <2>4, RoomAfterOne
  <2> QED BY <2>1, <2>3, <2>5
<1>6. IsFiniteSet(Jobs)
  BY DependencyConstants
<1>7. granted \in I
  <2> HIDE DEF fitting, I
  <2> QED BY <1>1, <1>3, <1>4, <1>5, <1>6, SelectionsKeep
<1> QED BY <1>7

(* And with what is moved from other pilots.                               *)
LEMMA MovedRoom ==
    ASSUME MemOK, NEW n \in Nodes, NEW target,
           NEW granted \in SUBSET {j \in Jobs : EligibleQueued(j, n)}, LeavesRoom(n, granted, target),
           NEW moved \in Moves(n, target, granted)
    PROVE  /\ moved \in SUBSET {j \in Jobs : EligibleAssigned(j, n)}
           /\ LeavesRoom(n, granted \union moved, target)
<1> DEFINE elsewhere  == {j \in Jobs : EligibleAssigned(j, n)}
           still      == IF target \in granted THEN NoJob ELSE target
           Fitting(g) == {j \in elsewhere \ g :
                            FitsFreeCapacity(j, Headroom(n) - SumFunctionOnSet(mem, granted \union g), still)}
           fitting    == [g \in SUBSET Jobs |-> Fitting(g)]
           I          == {g \in SUBSET elsewhere : LeavesRoom(n, granted \union g, target)}
<1>1. moved \in Selections(fitting)
  BY DEF Moves
<1>2. \A g \in SUBSET Jobs : fitting[g] = Fitting(g)
  <2> HIDE DEF Fitting
  <2> QED OBVIOUS
<1>3. \A g \in SUBSET Jobs : fitting[g] \subseteq Jobs \ g
  <2>1. \A g : Fitting(g) \subseteq Jobs \ g
    OBVIOUS
  <2> HIDE DEF Fitting, fitting
  <2> QED BY <1>2, <2>1
<1>4. {} \in I
  <2>1. granted \union {} = granted
    OBVIOUS
  <2> QED BY <2>1
<1>5. Closed(fitting, I)
  <2> SUFFICES ASSUME NEW g \in I, NEW j \in Best(fitting[g]) PROVE g \union {j} \in I
    <3> HIDE DEF I, fitting
    <3> QED BY DEF Closed
  <2>1. g \in SUBSET elsewhere /\ g \in SUBSET Jobs /\ LeavesRoom(n, granted \union g, target)
    OBVIOUS
  <2>2. j \in Fitting(g)
    <3> HIDE DEF Fitting, fitting
    <3> QED BY <1>2, <2>1 DEF Best
  <2>3. /\ j \in elsewhere /\ j \in Jobs \ (granted \union g)
        /\ FitsFreeCapacity(j, Headroom(n) - SumFunctionOnSet(mem, granted \union g), still)
    BY <2>2 DEF EligibleQueued, EligibleAssigned, Queued, QueueStates
  <2>4. still = target \/ target \in granted \union g
    OBVIOUS
  <2>5. granted \union g \in SUBSET Jobs /\ (granted \union g) \union {j} = granted \union (g \union {j})
    BY <2>1
  <2> DEFINE both == granted \union g
  <2> HIDE DEF Fitting, fitting, still
  <2>6. LeavesRoom(n, both \union {j}, target)
    <3> HIDE DEF both
    <3>1. /\ both \in SUBSET Jobs /\ j \in Jobs \ both /\ LeavesRoom(n, both, target)
          /\ FitsFreeCapacity(j, Headroom(n) - SumFunctionOnSet(mem, both), still)
          /\ still = target \/ target \in both
      BY <2>1, <2>3, <2>4, <2>5 DEF both
    <3> QED BY <3>1, RoomAfterOne
  <2> QED BY <2>1, <2>3, <2>5, <2>6
<1>6. IsFiniteSet(Jobs)
  BY DependencyConstants
<1>7. moved \in I
  <2> HIDE DEF fitting, I
  <2> QED BY <1>1, <1>3, <1>4, <1>5, <1>6, SelectionsKeep
<1> QED BY <1>7

-----------------------------------------------------------------------------
(* What request_jobs() does, in terms of what it takes.                    *)
Takes(n, target, taken) ==
    /\ \A j \in taken : EligibleQueued(j, n) \/ EligibleAssigned(j, n)
    /\ LeavesRoom(n, taken, target)
    /\ state' = [j \in Jobs |-> IF j \in taken THEN "ASSIGNED" ELSE state[j]]
    /\ node' = [j \in Jobs |-> IF j \in taken THEN n ELSE node[j]]
    /\ \/ wait # NoWait /\ wait' = wait /\ (wait.node = n => target = wait.job)
       \/ wait' = NoWait
       \/ target \in Jobs /\ wait' = [job |-> target, node |-> n, left |-> MaxWait]

LEMMA Request ==
    ASSUME DispatchTypeOK, NEW n \in Nodes, RequestJobs(n)
    PROVE  \E target, taken : taken \in SUBSET Jobs /\ Takes(n, target, taken)
<1> DEFINE kept    == wait # NoWait /\ ~Invalid
           targets == IF ~kept THEN NewTargets(n)
                      ELSE {IF wait.node = n THEN wait.job ELSE NoJob}
<1>1. PICK target \in targets :
         /\ \E granted \in Passes(n, target) : \E moved \in Moves(n, target, granted) :
               /\ state' = [j \in Jobs |-> IF j \in granted \union moved THEN "ASSIGNED" ELSE state[j]]
               /\ node' = [j \in Jobs |-> IF j \in granted \union moved THEN n ELSE node[j]]
         /\ wait' = IF kept THEN wait ELSE IF target = NoJob THEN NoWait
                    ELSE [job |-> target, node |-> n, left |-> MaxWait]
  BY DEF RequestJobs
<1>2. PICK granted \in Passes(n, target) : \E moved \in Moves(n, target, granted) :
         /\ state' = [j \in Jobs |-> IF j \in granted \union moved THEN "ASSIGNED" ELSE state[j]]
         /\ node' = [j \in Jobs |-> IF j \in granted \union moved THEN n ELSE node[j]]
  BY <1>1
<1>3. PICK moved \in Moves(n, target, granted) :
         /\ state' = [j \in Jobs |-> IF j \in granted \union moved THEN "ASSIGNED" ELSE state[j]]
         /\ node' = [j \in Jobs |-> IF j \in granted \union moved THEN n ELSE node[j]]
  BY <1>2
<1>4. MemOK /\ Headroom(n) >= 0
  BY DEF MemOK, DispatchTypeOK
<1>5. Headroom(n) \in Nat
  BY <1>4, HeadroomInt
<1>6. /\ granted \in SUBSET {j \in Jobs : EligibleQueued(j, n)}
      /\ LeavesRoom(n, granted, target)
  BY <1>4, <1>5, GrantedRoom
<1>7. /\ moved \in SUBSET {j \in Jobs : EligibleAssigned(j, n)}
      /\ LeavesRoom(n, granted \union moved, target)
  BY <1>4, <1>6, MovedRoom
<1> DEFINE taken == granted \union moved
<1>8. taken \in SUBSET Jobs /\ \A j \in taken : EligibleQueued(j, n) \/ EligibleAssigned(j, n)
  BY <1>6, <1>7
<1>9. \/ wait # NoWait /\ wait' = wait /\ (wait.node = n => target = wait.job)
      \/ wait' = NoWait
      \/ target \in Jobs /\ wait' = [job |-> target, node |-> n, left |-> MaxWait]
  <2>1. CASE kept
    BY <1>1, <2>1
  <2>2. CASE ~kept
    <3>1. target \in NewTargets(n)
      BY <2>2
    <3>2. target \in Jobs \union {NoJob}
      BY <3>1 DEF NewTargets, Best, Contenders
    <3> QED BY <1>1, <2>2, <3>2
  <2> QED BY <2>1, <2>2
<1> HIDE DEF taken
<1>10. /\ state' = [j \in Jobs |-> IF j \in taken THEN "ASSIGNED" ELSE state[j]]
       /\ node' = [j \in Jobs |-> IF j \in taken THEN n ELSE node[j]]
       /\ LeavesRoom(n, taken, target)
  BY <1>3, <1>7 DEF taken
<1> QED BY <1>8, <1>9, <1>10 DEF Takes

(* The shapes, apart from what the pilots hold.                            *)
Shapes ==
    /\ DependenciesTypeOK
    /\ node \in [Jobs -> Nodes \union {NoNode}]
    /\ \A j \in Jobs : node[j] \in IF Placed(j) THEN up ELSE {NoNode}
    /\ mem \in [Jobs -> Nat] /\ requeue \in [Jobs -> Nat]
    /\ age \in [Jobs -> 0..MinAge] /\ run \in [Jobs -> 0..MaxRun]
    /\ wait \in Waits \union {NoWait} /\ cooldown \in 0..Cooldown
    /\ asked \subseteq up /\ up \subseteq Nodes /\ disturbed \in 0..MaxDisturbances

LEMMA TypesAre == DispatchTypeOK <=> Shapes /\ \A n \in Nodes : Headroom(n) >= 0
BY DEF DispatchTypeOK, Shapes

LEMMA SubmitShapes ==
    ASSUME Shapes, NEW j \in Jobs, Submit(j)
    PROVE  Shapes'
<1>1. PICK d \in Dependency[j] : Prepare(j, d)
  BY DEF Submit
<1>2. d \in Specs
  BY DependencyConstants
<1>3. Prepared(j, d) \in Specs
  <2> DEFINE Captured(c) == IF c.type = "singleton" THEN [c EXCEPT !.on = Predecessors(j)] ELSE c
  <2>1. \A c \in Conditions : Captured(c) \in Conditions
    BY DEF Conditions, Predecessors
  <2>2. {Captured(c) : c \in d.conditions} \in SUBSET Conditions
    <3>1. d.conditions \subseteq Conditions
      BY <1>2 DEF Specs
    <3> HIDE DEF Captured
    <3> QED BY <2>1, <3>1
  <2>3. Prepared(j, d) = [d EXCEPT !.conditions = {Captured(c) : c \in d.conditions}]
    BY DEF Prepared
  <2> HIDE DEF Captured
  <2> QED BY <1>2, <2>2, <2>3 DEF Specs
<1>4. DependenciesTypeOK'
  <2>1. dep' \in [Jobs -> Specs]
    BY <1>1, <1>3 DEF Prepare, Shapes, DependenciesTypeOK
  <2>2. met' \in [Jobs -> SUBSET Conditions] /\ \A i \in Jobs : met'[i] \subseteq dep'[i].conditions
    BY <1>1 DEF Prepare, Shapes, DependenciesTypeOK
  <2>3. verdict' \in [Jobs -> Verdicts]
    BY <1>1 DEF Prepare, Shapes, DependenciesTypeOK, Verdicts
  <2>4. state' \in [Jobs -> Active \union Terminal \union {"unknown"}] /\ started' \subseteq Jobs
    BY DEF Submit, Shapes, DependenciesTypeOK, Active, QueueStates
  <2> QED BY <2>1, <2>2, <2>3, <2>4 DEF DependenciesTypeOK
<1>5. \A i \in Jobs : Placed(i)' <=> Placed(i)
  BY DEF Submit, Placed, Shapes, DependenciesTypeOK
<1> QED BY <1>4, <1>5 DEF Shapes, Submit

LEMMA LeavesShapes ==
    ASSUME Shapes, NEW j \in Jobs, NEW outcome \in Terminal, Leaves(j, outcome)
    PROVE  Shapes'
<1>1. DependenciesTypeOK'
  BY DEF Leaves, Shapes, DependenciesTypeOK, dependencies, Terminal
<1>2. \A i \in Jobs : node'[i] \in IF Placed(i)' THEN up' ELSE {NoNode}
  BY DEF Leaves, Shapes, DependenciesTypeOK, Placed, Terminal
<1>3. mem' \in [Jobs -> Nat] /\ requeue' \in [Jobs -> Nat] /\ node' \in [Jobs -> Nodes \union {NoNode}]
  BY DispatchConstants DEF Leaves, Shapes
<1>4. age' \in [Jobs -> 0..MinAge] /\ run' \in [Jobs -> 0..MaxRun]
  BY DispatchConstants DEF Leaves, Shapes
<1> QED BY <1>1, <1>2, <1>3, <1>4 DEF Leaves, Shapes

LEMMA RetryShapes ==
    ASSUME Shapes, NEW j \in Jobs, Retry(j)
    PROVE  Shapes'
<1>1. DependenciesTypeOK'
  BY DEF Retry, Shapes, DependenciesTypeOK, dependencies, Active, QueueStates
<1>2. \A i \in Jobs : node'[i] \in IF Placed(i)' THEN up' ELSE {NoNode}
  BY DEF Retry, Shapes, DependenciesTypeOK, Placed
<1>3. mem' \in [Jobs -> Nat] /\ requeue' \in [Jobs -> Nat] /\ node' \in [Jobs -> Nodes \union {NoNode}]
  BY DEF Retry, Shapes
<1>4. age' \in [Jobs -> 0..MinAge] /\ run' \in [Jobs -> 0..MaxRun]
  BY DispatchConstants DEF Retry, Shapes
<1> QED BY <1>1, <1>2, <1>3, <1>4 DEF Retry, Shapes

LEMMA AcknowledgeShapes ==
    ASSUME Shapes, NEW j \in Jobs, Acknowledge(j)
    PROVE  Shapes'
<1>1. DependenciesTypeOK'
  BY DEF Acknowledge, Shapes, DependenciesTypeOK, dependencies, Active
<1>2. \A i \in Jobs : Placed(i)' <=> Placed(i)
  BY DEF Acknowledge, Shapes, DependenciesTypeOK, Placed
<1>3. run' \in [Jobs -> 0..MaxRun]
  BY DispatchConstants DEF Acknowledge, Shapes
<1> QED BY <1>1, <1>2, <1>3 DEF Acknowledge, Shapes

LEMMA RemovedShapes ==
    ASSUME Shapes, NEW n \in Nodes, EngineRemoved(n)
    PROVE  Shapes'
<1> DEFINE lost    == {j \in HeldBy(n) : state[j] = "RUNNING"}
           retried == {j \in lost : requeue[j] > 0}
<1>0. /\ n \in up /\ disturbed < MaxDisturbances
      /\ state' = [j \in Jobs |-> IF j \in lost THEN "REQUEUED"
                                  ELSE IF j \in HeldBy(n) THEN "PENDING" ELSE state[j]]
      /\ node' = [j \in Jobs |-> IF j \in HeldBy(n) THEN NoNode ELSE node[j]]
      /\ run' = [j \in Jobs |-> IF j \in lost THEN 0 ELSE run[j]]
      /\ requeue' = [j \in Jobs |-> IF j \in retried THEN requeue[j] - 1 ELSE requeue[j]]
      /\ mem' = [j \in Jobs |-> IF j \in retried THEN 2 * mem[j] ELSE mem[j]]
      /\ up' = up \ {n} /\ asked' = asked \ {n} /\ disturbed' = disturbed + 1
      /\ UNCHANGED <<age, started, dependencies, wait, cooldown>>
  BY DEF EngineRemoved
<1>1. DependenciesTypeOK'
  <2>1. state' \in [Jobs -> Active \union Terminal \union {"unknown"}]
    <3> HIDE DEF lost, retried
    <3> QED BY <1>0 DEF Shapes, DependenciesTypeOK, Active, QueueStates
  <2> QED BY <2>1, <1>0 DEF Shapes, DependenciesTypeOK, dependencies
<1>2. \A i \in Jobs : node'[i] \in IF Placed(i)' THEN up' ELSE {NoNode}
  <2> SUFFICES ASSUME NEW i \in Jobs PROVE node'[i] \in IF Placed(i)' THEN up' ELSE {NoNode}
    OBVIOUS
  <2>1. CASE i \in HeldBy(n)
    <3>1. node'[i] = NoNode /\ state'[i] \in QueueStates
      BY <2>1, <1>0 DEF QueueStates
    <3> QED BY <3>1 DEF Placed, QueueStates
  <2>2. CASE i \notin HeldBy(n)
    <3>1. node'[i] = node[i] /\ state'[i] = state[i] /\ up' = up \ {n}
      BY <2>2, <1>0
    <3>2. node[i] \in IF Placed(i) THEN up ELSE {NoNode}
      BY DEF Shapes
    <3>3. Placed(i) => node[i] # n
      BY <2>2 DEF HeldBy
    <3> QED BY <3>1, <3>2, <3>3 DEF Placed
  <2> QED BY <2>1, <2>2
<1>3. mem' \in [Jobs -> Nat] /\ requeue' \in [Jobs -> Nat]
  <2>1. \A j \in retried : j \in Jobs /\ requeue[j] > 0
    BY DEF HeldBy
  <2> HIDE DEF lost, retried
  <2>2. \A j \in Jobs : mem[j] \in Nat /\ 2 * mem[j] \in Nat
    BY DEF Shapes
  <2>3. \A j \in Jobs : requeue[j] \in Nat /\ (j \in retried => requeue[j] - 1 \in Nat)
    BY <2>1 DEF Shapes
  <2> QED BY <2>2, <2>3, <1>0
<1>4. node' \in [Jobs -> Nodes \union {NoNode}] /\ run' \in [Jobs -> 0..MaxRun]
  <2> HIDE DEF lost, retried
  <2> QED BY <1>0, DispatchConstants DEF Shapes
<1>5. disturbed' \in 0..MaxDisturbances
  BY <1>0, DispatchConstants DEF Shapes
<1> HIDE DEF lost, retried
<1> QED BY <1>0, <1>1, <1>2, <1>3, <1>4, <1>5 DEF Shapes

LEMMA TickShapes ==
    ASSUME Shapes, Tick
    PROVE  Shapes'
<1>1. \A j \in Jobs : Placed(j)' <=> Placed(j)
  BY DEF Tick, Placed
<1>2. DependenciesTypeOK'
  BY DEF Tick, Shapes, DependenciesTypeOK, dependencies
<1>3. run' \in [Jobs -> 0..MaxRun] /\ cooldown' \in 0..Cooldown
  <2>1. \A m \in Nat : \A k \in 0..m : Less(k) \in 0..m
    BY DEF Less
  <2>2. MaxRun \in Nat /\ Cooldown \in Nat
    BY DispatchConstants
  <2>3. \A j \in Jobs : Less(run[j]) \in 0..MaxRun
    BY <2>1, <2>2 DEF Shapes
  <2> QED BY <2>1, <2>2, <2>3 DEF Tick, Shapes
<1>4. age' \in [Jobs -> 0..MinAge]
  BY DispatchConstants DEF Tick, Shapes
<1>5. wait' \in Waits \union {NoWait}
  <2>1. CASE wait = NoWait
    BY <2>1 DEF Tick
  <2>2. CASE wait # NoWait
    <3>1. wait \in Waits /\ wait.left \in 0..MaxWait /\ MaxWait \in Nat
      BY <2>2, DispatchConstants DEF Shapes, Waits
    <3>2. Less(wait.left) \in 0..MaxWait
      BY <3>1 DEF Less
    <3>3. wait' = [wait EXCEPT !.left = Less(wait.left)]
      BY <2>2 DEF Tick
    <3> QED BY <3>1, <3>2, <3>3 DEF Waits
  <2> QED BY <2>1, <2>2
<1> QED BY <1>1, <1>2, <1>3, <1>4, <1>5 DEF Tick, Shapes

LEMMA RequestShapes ==
    ASSUME DispatchTypeOK, NEW n \in Nodes, RequestJobs(n)
    PROVE  Shapes'
<1>1. Shapes
  BY TypesAre
<1>2. PICK target, taken : taken \in SUBSET Jobs /\ Takes(n, target, taken)
  BY Request
<1>3. /\ state' = [j \in Jobs |-> IF j \in taken THEN "ASSIGNED" ELSE state[j]]
      /\ node' = [j \in Jobs |-> IF j \in taken THEN n ELSE node[j]]
  BY <1>2 DEF Takes
<1>4. DependenciesTypeOK'
  <2>1. \A j \in Jobs : dep[j].conditions \subseteq Conditions
    BY <1>1 DEF Shapes, DependenciesTypeOK, Specs
  <2>2. \A j \in Jobs : MetNow(j) \subseteq dep[j].conditions /\ met[j] \subseteq dep[j].conditions
    BY <1>1 DEF Shapes, DependenciesTypeOK, MetNow
  <2>3. \A j \in Jobs : VerdictNow(j) \in Verdicts /\ verdict[j] \in Verdicts
    BY <1>1 DEF VerdictNow, Verdicts, Shapes, DependenciesTypeOK
  <2> DEFINE D == {j \in Jobs : Queued(j)}
  <2>4. Evaluated(D)
    BY DEF RequestJobs
  <2> HIDE DEF D
  <2>5. met' \in [Jobs -> SUBSET Conditions] /\ \A j \in Jobs : met'[j] \subseteq dep'[j].conditions
    <3>1. \A j \in Jobs : met'[j] = IF j \in D /\ verdict[j] = "waiting" THEN MetNow(j) ELSE met[j]
      BY <2>4 DEF Evaluated
    <3>2. met' = [j \in Jobs |-> met'[j]] /\ dep' = dep
      BY <2>4 DEF Evaluated
    <3>3. \A j \in Jobs : met'[j] \subseteq dep[j].conditions
      BY <2>2, <3>1
    <3>4. \A j \in Jobs : met'[j] \in SUBSET Conditions
      BY <2>1, <3>3
    <3> QED BY <3>2, <3>3, <3>4
  <2>6. verdict' \in [Jobs -> Verdicts]
    <3>1. verdict' = [j \in Jobs |-> IF j \in D THEN VerdictNow(j) ELSE verdict[j]]
      BY <2>4 DEF Evaluated
    <3> QED BY <2>3, <3>1
  <2>7. dep' = dep /\ started' = started
    BY <2>4 DEF Evaluated, RequestJobs
  <2>8. state' \in [Jobs -> Active \union Terminal \union {"unknown"}]
    BY <1>1, <1>3 DEF Shapes, DependenciesTypeOK, Active
  <2> QED BY <1>1, <2>5, <2>6, <2>7, <2>8 DEF Shapes, DependenciesTypeOK
<1>5. n \in up /\ up' = up /\ asked' = asked \union {n}
  BY DEF RequestJobs
<1>6. \A i \in Jobs : node'[i] \in IF Placed(i)' THEN up' ELSE {NoNode}
  <2> SUFFICES ASSUME NEW i \in Jobs PROVE node'[i] \in IF Placed(i)' THEN up' ELSE {NoNode}
    OBVIOUS
  <2>1. CASE i \in taken
    BY <2>1, <1>3, <1>5 DEF Placed
  <2>2. CASE i \notin taken
    <3>1. node'[i] = node[i] /\ state'[i] = state[i] /\ node[i] \in IF Placed(i) THEN up ELSE {NoNode}
      BY <2>2, <1>1, <1>3 DEF Shapes
    <3> QED BY <3>1, <1>5 DEF Placed
  <2> QED BY <2>1, <2>2
<1>7. node' \in [Jobs -> Nodes \union {NoNode}]
  BY <1>1, <1>3 DEF Shapes
<1>8. wait' \in Waits \union {NoWait}
  <2>1. MaxWait \in 0..MaxWait
    BY DispatchConstants
  <2>2. \/ wait' = wait \/ wait' = NoWait
        \/ (target \in Jobs /\ wait' = [job |-> target, node |-> n, left |-> MaxWait])
    BY <1>2 DEF Takes
  <2> QED BY <1>1, <2>1, <2>2 DEF Shapes, Waits
<1>9. cooldown' \in 0..Cooldown
  BY <1>1, DispatchConstants DEF Shapes, RequestJobs, CooldownNow
<1>10. disturbed' \in 0..MaxDisturbances
  BY <1>1, DispatchConstants DEF Shapes, RequestJobs
<1>11. UNCHANGED <<mem, requeue, age, run>>
  BY DEF RequestJobs
<1> QED BY <1>1, <1>4, <1>5, <1>6, <1>7, <1>8, <1>9, <1>10, <1>11 DEF Shapes

-----------------------------------------------------------------------------
(* Only its own request puts jobs on a pilot.                              *)
Keeps(m) == HeldBy(m)' \subseteq HeldBy(m) /\ \A j \in HeldBy(m)' : mem'[j] = mem[j]

LEMMA HoldersKept ==
    ASSUME DispatchTypeOK, [DispatchNext]_vars, NEW m \in Nodes, ~RequestJobs(m)
    PROVE  Keeps(m)
<1>t. state \in [Jobs -> Active \union Terminal \union {"unknown"}] /\ mem \in [Jobs -> Nat]
      /\ node \in [Jobs -> Nodes \union {NoNode}]
  BY DEF DispatchTypeOK, DependenciesTypeOK
<1>1. ASSUME NEW j \in Jobs, Submit(j) PROVE Keeps(m)
  BY <1>t, <1>1 DEF Submit, Keeps, HeldBy, Placed
<1>2. ASSUME NEW j \in Jobs, NEW outcome \in Terminal, Leaves(j, outcome) PROVE Keeps(m)
  BY <1>t, <1>2 DEF Leaves, Keeps, HeldBy, Placed, Terminal
<1>3. ASSUME NEW j \in Jobs, Retry(j) PROVE Keeps(m)
  BY <1>t, <1>3 DEF Retry, Keeps, HeldBy, Placed
<1>4. ASSUME NEW j \in Jobs, Acknowledge(j) PROVE Keeps(m)
  BY <1>t, <1>4 DEF Acknowledge, Keeps, HeldBy, Placed
<1>5. ASSUME NEW n \in Nodes, RequestJobs(n), n # m PROVE Keeps(m)
  <2>1. PICK target, taken : taken \in SUBSET Jobs /\ Takes(n, target, taken)
    BY <1>5, Request
  <2>2. mem' = mem
    BY <1>5 DEF RequestJobs
  <2> QED BY <2>1, <2>2, <1>5 DEF Takes, Keeps, HeldBy, Placed
<1>6. ASSUME NEW n \in Nodes, EngineRemoved(n) PROVE Keeps(m)
  <2>1. \A j \in Jobs : /\ j \in HeldBy(n) => state'[j] \in QueueStates
                        /\ j \notin HeldBy(n) => state'[j] = state[j] /\ node'[j] = node[j] /\ mem'[j] = mem[j]
    BY <1>6 DEF EngineRemoved, QueueStates
  <2>2. \A j \in Jobs : Placed(j)' => j \notin HeldBy(n)
    BY <2>1 DEF Placed, QueueStates
  <2> QED BY <2>1, <2>2 DEF Keeps, HeldBy, Placed
<1>7. CASE UNCHANGED <<state, node, mem>>
  BY <1>7 DEF Keeps, HeldBy, Placed
<1>8. ASSUME NEW j \in Jobs, End(j) PROVE Keeps(m)
  BY <1>2, <1>3, <1>8 DEF End, Terminal
<1>9. ASSUME NEW j \in Jobs, Cancel(j) PROVE Keeps(m)
  BY <1>2, <1>7, <1>9 DEF Cancel, Terminal
<1>10. ASSUME NEW n \in Nodes, Register(n) PROVE Keeps(m)
  BY <1>7, <1>10 DEF Register, jobVars
<1>11. CASE Tick
  BY <1>7, <1>11 DEF Tick
<1>12. CASE UNCHANGED vars
  BY <1>7, <1>12 DEF vars, jobVars
<1> QED
  BY <1>1, <1>4, <1>5, <1>6, <1>8, <1>9, <1>10, <1>11, <1>12 DEF DispatchNext, JobStep, NodeStep

LEMMA RoomKept ==
    ASSUME MemOK, MemOK', NEW m \in Nodes, Headroom(m) >= 0, Keeps(m)
    PROVE  (Headroom(m) >= 0)'
<1> DEFINE S == HeldBy(m)'  f == mem'
<1>1. S \in SUBSET Jobs /\ HeldBy(m) \in SUBSET Jobs /\ S \in SUBSET HeldBy(m)
  BY DEF HeldBy, Keeps
<1>2. \A j \in S : mem[j] = f[j]
  BY DEF Keeps
<1>3. Headroom(m)' = Memory[m] - SumFunctionOnSet(f, S)
  BY DEF Headroom
<1> HIDE DEF S, f
<1>4. SumFunctionOnSet(mem, S) = SumFunctionOnSet(f, S)
  BY <1>1, <1>2, MemSum, SumSame
<1>5. SumFunctionOnSet(mem, S) <= SumFunctionOnSet(mem, HeldBy(m))
  BY <1>1, MemPart
<1>6. /\ Memory[m] \in Nat /\ SumFunctionOnSet(mem, S) \in Nat
      /\ SumFunctionOnSet(mem, HeldBy(m)) \in Nat
  BY <1>1, MemSum, DispatchConstants
<1>7. Memory[m] - SumFunctionOnSet(mem, HeldBy(m)) >= 0
  BY DEF Headroom
<1> QED BY <1>3, <1>4, <1>5, <1>6, <1>7

(* A request takes what it takes out of the headroom.                      *)
LEMMA RoomTaken ==
    ASSUME DispatchTypeOK, NEW n \in Nodes, RequestJobs(n), NEW target, NEW taken \in SUBSET Jobs,
           Takes(n, target, taken)
    PROVE  /\ HeldBy(n)' = HeldBy(n) \union taken /\ HeldBy(n) \intersect taken = {}
           /\ Headroom(n)' = Headroom(n) - SumFunctionOnSet(mem, taken)
           /\ SumFunctionOnSet(mem, taken) \in Nat /\ Headroom(n) \in Int
<1>1. MemOK /\ mem' = mem
  BY DEF DispatchTypeOK, MemOK, RequestJobs
<1>2. HeldBy(n)' = HeldBy(n) \union taken
  BY DEF Takes, HeldBy, Placed
<1>3. HeldBy(n) \intersect taken = {}
  BY DEF Takes, HeldBy, Placed, EligibleQueued, EligibleAssigned, Queued, QueueStates
<1> DEFINE S == HeldBy(n) \union taken
<1>4. SumFunctionOnSet(mem, S) = SumFunctionOnSet(mem, HeldBy(n)) + SumFunctionOnSet(mem, taken)
  <2>1. S \in SUBSET Jobs /\ taken \in SUBSET S /\ S \ taken = HeldBy(n)
    BY <1>3 DEF HeldBy
  <2>2. HeldBy(n) \in SUBSET Jobs
    BY DEF HeldBy
  <2> HIDE DEF S
  <2>3. IsFiniteSet(S) /\ \A x \in S : mem[x] \in Int
    BY <2>1, <1>1, MemSum
  <2>4. SumFunctionOnSet(mem, S) = SumFunctionOnSet(mem, taken) + SumFunctionOnSet(mem, S \ taken)
    BY <2>1, <2>3, SumSplit
  <2>5. SumFunctionOnSet(mem, taken) \in Nat /\ SumFunctionOnSet(mem, HeldBy(n)) \in Nat
    BY <2>2, <1>1, MemSum
  <2>6. SumFunctionOnSet(mem, S \ taken) = SumFunctionOnSet(mem, HeldBy(n))
    BY <2>1
  <2> QED BY <2>4, <2>5, <2>6
<1>5. /\ SumFunctionOnSet(mem, taken) \in Nat /\ SumFunctionOnSet(mem, HeldBy(n)) \in Nat
      /\ Memory[n] \in Nat
  BY <1>1, MemSum, DispatchConstants DEF HeldBy
<1>6. Headroom(n)' = Memory[n] - SumFunctionOnSet(mem, S)
  BY <1>1, <1>2 DEF Headroom
<1>7. Headroom(n) = Memory[n] - SumFunctionOnSet(mem, HeldBy(n))
  BY DEF Headroom
<1> HIDE DEF S
<1> QED BY <1>2, <1>3, <1>4, <1>5, <1>6, <1>7

LEMMA TypesNext ==
    ASSUME DispatchTypeOK, [DispatchNext]_vars
    PROVE  DispatchTypeOK'
<1>1. Shapes
  BY TypesAre
<1>2. Shapes'
  <2>1. CASE \E j \in Jobs : Submit(j)
    BY <2>1, <1>1, SubmitShapes
  <2>2. ASSUME NEW j \in Jobs, End(j) PROVE Shapes'
    BY <2>2, <1>1, LeavesShapes, RetryShapes DEF End, Terminal
  <2>3. ASSUME NEW j \in Jobs, Cancel(j) PROVE Shapes'
    <3>1. CASE Leaves(j, "CANCELLED")
      BY <3>1, <1>1, LeavesShapes DEF Terminal
    <3>2. CASE UNCHANGED <<state, node, mem, age, run, started, dependencies, wait, cooldown, up, asked, disturbed>>
               /\ requeue' = [requeue EXCEPT ![j] = 0]
      BY <3>2, <1>1 DEF Shapes, DependenciesTypeOK, dependencies, Placed
    <3> QED BY <2>3, <3>1, <3>2 DEF Cancel
  <2>4. CASE \E j \in Jobs : Acknowledge(j)
    BY <2>4, <1>1, AcknowledgeShapes
  <2>5. CASE \E n \in Nodes : RequestJobs(n)
    BY <2>5, RequestShapes
  <2>6. CASE \E n \in Nodes : EngineRemoved(n)
    BY <2>6, <1>1, RemovedShapes
  <2>7. ASSUME NEW n \in Nodes, Register(n) PROVE Shapes'
    BY <2>7, <1>1 DEF Register, Shapes, DependenciesTypeOK, jobVars, dependencies, Placed
  <2>8. CASE Tick
    BY <2>8, <1>1, TickShapes
  <2>9. CASE UNCHANGED vars
    BY <2>9, <1>1 DEF vars, jobVars, dependencies, Shapes, DependenciesTypeOK, Placed
  <2> QED BY <2>1, <2>2, <2>3, <2>4, <2>5, <2>6, <2>7, <2>8, <2>9 DEF DispatchNext, JobStep, NodeStep
<1>3. ASSUME NEW m \in Nodes PROVE (Headroom(m) >= 0)'
  <2>1. MemOK /\ MemOK' /\ Headroom(m) >= 0
    BY <1>1, <1>2 DEF MemOK, Shapes, DispatchTypeOK
  <2>2. CASE ~RequestJobs(m)
    BY <2>1, <2>2, HoldersKept, RoomKept
  <2>3. CASE RequestJobs(m)
    <3>1. PICK target, taken : taken \in SUBSET Jobs /\ Takes(m, target, taken)
      BY <2>3, Request
    <3>2. SumFunctionOnSet(mem, taken) <= Headroom(m)
      BY <3>1 DEF Takes, LeavesRoom
    <3>3. /\ Headroom(m)' = Headroom(m) - SumFunctionOnSet(mem, taken)
          /\ SumFunctionOnSet(mem, taken) \in Nat /\ Headroom(m) \in Int
      BY <3>1, <2>3, RoomTaken
    <3> QED BY <3>2, <3>3
  <2> QED BY <2>2, <2>3
<1> QED BY <1>2, <1>3 DEF DispatchTypeOK, Shapes

LEMMA TypesInit ==
    ASSUME DispatchInit
    PROVE  DispatchTypeOK
<1>1. Shapes
  <2>1. Nothing \in Specs
    BY DEF Nothing, Specs
  <2>2. DependenciesTypeOK
    BY <2>1 DEF DispatchInit, DependenciesTypeOK, Verdicts, Nothing
  <2>3. \A j \in Jobs : ~Placed(j)
    BY DEF DispatchInit, Placed
  <2> QED BY <2>2, <2>3, DispatchConstants DEF DispatchInit, Shapes
<1>2. ASSUME NEW n \in Nodes PROVE Headroom(n) >= 0
  <2>1. HeldBy(n) = {}
    BY DEF DispatchInit, HeldBy, Placed
  <2> QED BY <2>1, SumEmpty, DispatchConstants DEF Headroom
<1> QED BY <1>1, <1>2, TypesAre

(* Every variable keeps its type, and no pilot ever holds more memory than *)
(* it has (_engine_headroom_locked()): not when a retry doubles a job's    *)
(* memory, a grant is moved or a pilot comes back.                         *)
THEOREM DispatchTypes == DispatchSpec => []DispatchTypeOK
<1>1. DispatchInit => DispatchTypeOK
  BY TypesInit
<1>2. DispatchTypeOK /\ [DispatchNext]_vars => DispatchTypeOK'
  BY TypesNext
<1> QED BY <1>1, <1>2, PTL DEF DispatchSpec

-----------------------------------------------------------------------------
(* What holds once holds for ever.                                         *)
LEMMA OutcomesStay ==
    ASSUME DispatchTypeOK, [DispatchNext]_vars, NEW i \in Jobs
    PROVE  /\ Over(i) => state'[i] = state[i]
           /\ i \in started /\ i \notin Endless => i \in started'
<1> DEFINE Stays == /\ Over(i) => state'[i] = state[i]
                    /\ i \in started /\ i \notin Endless => i \in started'
<1>t. state \in [Jobs -> Active \union Terminal \union {"unknown"}]
  BY DEF DispatchTypeOK, DependenciesTypeOK
<1>1. ASSUME NEW j \in Jobs, state[j] \notin Terminal, started' = started,
             \E x : state' = [state EXCEPT ![j] = x]
      PROVE  Stays
  BY <1>t, <1>1 DEF Over
<1>2. ASSUME NEW j \in Jobs, state[j] \notin Terminal, NEW outcome, Leaves(j, outcome) PROVE Stays
  BY <1>t, <1>2 DEF Leaves, Over
<1>3. ASSUME NEW j \in Jobs, Submit(j) PROVE Stays
  BY <1>1, <1>3 DEF Submit, Terminal
<1>4. ASSUME NEW j \in Jobs, End(j) PROVE Stays
  BY <1>1, <1>2, <1>4 DEF End, Retry, Terminal
<1>5. ASSUME NEW j \in Jobs, Cancel(j) PROVE Stays
  <2>1. state[j] \notin Terminal
    BY <1>5 DEF Cancel, Active, QueueStates, Terminal
  <2> QED BY <1>2, <1>5, <2>1 DEF Cancel
<1>6. ASSUME NEW j \in Jobs, Acknowledge(j) PROVE Stays
  BY <1>t, <1>6 DEF Acknowledge, Over, Terminal
<1>7. ASSUME NEW n \in Nodes, EngineRemoved(n) PROVE Stays
  <2>1. Over(i) => i \notin HeldBy(n)
    BY DEF Over, Terminal, HeldBy, Placed
  <2> QED BY <2>1, <1>7 DEF EngineRemoved
<1>8. ASSUME NEW n \in Nodes, RequestJobs(n) PROVE Stays
  <2>1. PICK target, taken : taken \in SUBSET Jobs /\ Takes(n, target, taken)
    BY <1>8, Request
  <2>2. Over(i) => i \notin taken
    BY <2>1 DEF Takes, EligibleQueued, EligibleAssigned, Queued, QueueStates, Over, Terminal
  <2> QED BY <2>1, <2>2, <1>8 DEF Takes, RequestJobs
<1>9. ASSUME UNCHANGED <<state, started>> PROVE Stays
  BY <1>9
<1>10. ASSUME NEW n \in Nodes, Register(n) PROVE Stays
  BY <1>9, <1>10 DEF Register, jobVars
<1>11. CASE Tick
  BY <1>9, <1>11 DEF Tick
<1>12. CASE UNCHANGED vars
  BY <1>9, <1>12 DEF vars, jobVars
<1> QED
  BY <1>3, <1>4, <1>5, <1>6, <1>7, <1>8, <1>10, <1>11, <1>12 DEF DispatchNext, JobStep, NodeStep

LEMMA HoldsStays ==
    ASSUME DispatchTypeOK, [DispatchNext]_vars, NEW c \in Conditions,
           c.type = "after" => c.on \intersect Endless = {}, Holds(c)
    PROVE  Holds(c)'
<1>1. SUFFICES ASSUME NEW i \in c.on
      PROVE  CASE c.type = "after"      -> i \in started' \/ Over(i)'
               [] c.type = "afterok"    -> Over(i)' /\ Successful(i)'
               [] c.type = "afternotok" -> Over(i)' /\ ~Successful(i)'
               [] OTHER                 -> Over(i)'
  BY DEF Holds
<1>2. i \in Jobs
  BY DEF Conditions
<1>3. /\ Over(i) => state'[i] = state[i]
      /\ i \in started /\ i \notin Endless => i \in started'
  BY <1>2, OutcomesStay
<1>4. c.type = "after" => i \notin Endless
  OBVIOUS
<1>5. /\ Over(i) => Over(i)'
      /\ Over(i) => (Successful(i)' <=> Successful(i))
  BY <1>3 DEF Over, Successful
<1>6. CASE c.type = "after"
  BY <1>3, <1>4, <1>5, <1>6 DEF Holds
<1>7. CASE c.type = "afterok"
  BY <1>5, <1>7 DEF Holds
<1>8. CASE c.type = "afternotok"
  BY <1>5, <1>8 DEF Holds
<1>9. CASE c.type \notin {"after", "afterok", "afternotok"}
  BY <1>5, <1>9 DEF Holds
<1> QED BY <1>6, <1>7, <1>8, <1>9

(* The dependencies that a step may change: those of the job submitted.    *)
LEMMA DependenciesNext ==
    ASSUME DispatchTypeOK, [DispatchNext]_vars
    PROVE  \/ UNCHANGED dependencies /\ \A j \in Jobs : Placed(j)' => Placed(j)
           \/ \E n \in Nodes : RequestJobs(n)
           \/ \E j \in Jobs : Submit(j)
<1> DEFINE Same == UNCHANGED dependencies /\ \A j \in Jobs : Placed(j)' => Placed(j)
<1>t. state \in [Jobs -> Active \union Terminal \union {"unknown"}]
  BY DEF DispatchTypeOK, DependenciesTypeOK
<1>1. ASSUME NEW j \in Jobs, NEW outcome \in Terminal, Leaves(j, outcome) PROVE Same
  BY <1>t, <1>1 DEF Leaves, Placed, Terminal
<1>2. ASSUME NEW j \in Jobs, Retry(j) PROVE Same
  BY <1>t, <1>2 DEF Retry, Placed
<1>3. ASSUME NEW j \in Jobs, End(j) PROVE Same
  BY <1>1, <1>2, <1>3 DEF End, Terminal
<1>4. ASSUME UNCHANGED <<state, dependencies>> PROVE Same
  BY <1>4 DEF Placed
<1>5. ASSUME NEW j \in Jobs, Cancel(j) PROVE Same
  BY <1>1, <1>4, <1>5 DEF Cancel, Terminal
<1>6. ASSUME NEW j \in Jobs, Acknowledge(j) PROVE Same
  BY <1>t, <1>6 DEF Acknowledge, Placed
<1>7. ASSUME NEW n \in Nodes, EngineRemoved(n) PROVE Same
  BY <1>7 DEF EngineRemoved, Placed
<1>8. ASSUME NEW n \in Nodes, Register(n) PROVE Same
  BY <1>4, <1>8 DEF Register, jobVars
<1>9. CASE Tick
  BY <1>9, <1>4 DEF Tick
<1>10. CASE UNCHANGED vars
  BY <1>10, <1>4 DEF vars, jobVars
<1> QED BY <1>3, <1>5, <1>6, <1>7, <1>8, <1>9, <1>10 DEF DispatchNext, JobStep, NodeStep

(* What an evaluation latches held when it was evaluated.                  *)
LEMMA Evaluation ==
    ASSUME DispatchTypeOK, MetHold, VerdictsEarned, NEW j \in Jobs
    PROVE  /\ \A c \in MetNow(j) : c \in dep[j].conditions /\ Holds(c)
           /\ VerdictNow(j) = "satisfied" => dep[j] = Nothing \/ Fulfilled(dep[j])
<1>1. met[j] \subseteq dep[j].conditions
  BY DEF DispatchTypeOK, DependenciesTypeOK
<1>2. \A c \in MetNow(j) : c \in dep[j].conditions /\ Holds(c)
  BY <1>1 DEF MetHold, MetNow
<1>3. Released(j) => Fulfilled(dep[j])
  BY <1>2 DEF Released, Fulfilled
<1>4. VerdictNow(j) = "satisfied" => verdict[j] = "satisfied" \/ Released(j)
  BY DEF VerdictNow
<1> QED BY <1>2, <1>3, <1>4 DEF VerdictsEarned

(* The conditions that a submission keeps.                                 *)
LEMMA Preparation ==
    ASSUME NEW j \in Jobs, NEW d \in Dependency[j], NEW c \in Prepared(j, d).conditions
    PROVE  /\ c.type = "after" => c.on \intersect Endless = {}
           /\ c.type = "singleton" => c.on = Predecessors(j)
<1>1. d \in Specs /\ \A b \in d.conditions : b \in Conditions /\ b.on \intersect Endless = {}
  BY DependencyConstants, DispatchConstants DEF Specs
<1>2. Prepared(j, d).conditions =
          {IF b.type = "singleton" THEN [b EXCEPT !.on = Predecessors(j)] ELSE b : b \in d.conditions}
  BY <1>1 DEF Prepared, Specs
<1>3. PICK b \in d.conditions :
         c = IF b.type = "singleton" THEN [b EXCEPT !.on = Predecessors(j)] ELSE b
  BY <1>2
<1>4. b \in Conditions /\ b.on \intersect Endless = {}
  BY <1>1
<1>5. CASE b.type = "singleton"
  BY <1>3, <1>4, <1>5 DEF Conditions
<1>6. CASE b.type # "singleton"
  BY <1>3, <1>4, <1>6
<1> QED BY <1>5, <1>6

LEMMA MetNext ==
    ASSUME DispatchTypeOK, MetHold, VerdictsEarned, [DispatchNext]_vars
    PROVE  MetHold'
<1> DEFINE Lasting(c) == c.type = "after" => c.on \intersect Endless = {}
<1>1. \A j \in Jobs : dep[j] \in Specs /\ met[j] \subseteq dep[j].conditions
  BY DEF DispatchTypeOK, DependenciesTypeOK
<1>2. \A j \in Jobs : \A c \in dep[j].conditions : c \in Conditions /\ Lasting(c)
  BY <1>1 DEF MetHold, Specs
<1>3. \A j \in Jobs : \A c \in dep[j].conditions : Holds(c) => Holds(c)'
  BY <1>2, HoldsStays
<1>4. CASE UNCHANGED dependencies
  BY <1>1, <1>2, <1>3, <1>4 DEF MetHold, dependencies
<1>5. ASSUME NEW n \in Nodes, RequestJobs(n) PROVE MetHold'
  <2>1. /\ dep' = dep
        /\ \A j \in Jobs : met'[j] = met[j] \/ met'[j] = MetNow(j)
    BY <1>5 DEF RequestJobs, Evaluated
  <2>2. \A j \in Jobs : \A c \in MetNow(j) : c \in dep[j].conditions /\ Holds(c)
    BY Evaluation
  <2>3. \A j \in Jobs : \A c \in met[j] : c \in dep[j].conditions /\ Holds(c)
    BY <1>1 DEF MetHold
  <2>4. \A j \in Jobs : \A c \in met'[j] : Holds(c)'
    BY <1>3, <2>1, <2>2, <2>3
  <2> QED BY <1>2, <2>1, <2>4 DEF MetHold
<1>6. ASSUME NEW j \in Jobs, Submit(j) PROVE MetHold'
  <2>1. PICK d \in Dependency[j] : Prepare(j, d)
    BY <1>6 DEF Submit
  <2>2. /\ dep' = [dep EXCEPT ![j] = Prepared(j, d)]
        /\ met' = [met EXCEPT ![j] = {}]
        /\ dep \in [Jobs -> Specs] /\ met \in [Jobs -> SUBSET Conditions]
    BY <2>1 DEF Prepare, DispatchTypeOK, DependenciesTypeOK
  <2>3. \A i \in Jobs : \A c \in met'[i] : Holds(c)'
    BY <1>1, <1>3, <2>2 DEF MetHold
  <2>4. \A c \in Prepared(j, d).conditions : Lasting(c)
    BY Preparation
  <2>5. \A i \in Jobs : \A c \in dep'[i].conditions : Lasting(c)
    BY <1>2, <2>2, <2>4
  <2> QED BY <2>3, <2>5 DEF MetHold
<1> QED BY <1>4, <1>5, <1>6, DependenciesNext

LEMMA FulfilledStays ==
    ASSUME DispatchTypeOK, MetHold, [DispatchNext]_vars, NEW j \in Jobs, Fulfilled(dep[j])
    PROVE  \/ dep[j].mode = "any" /\ \E c \in dep[j].conditions : Holds(c)'
           \/ dep[j].mode # "any" /\ \A c \in dep[j].conditions : Holds(c)'
<1>1. dep[j] \in Specs
  BY DEF DispatchTypeOK, DependenciesTypeOK
<1>2. \A c \in dep[j].conditions : c \in Conditions /\ (c.type = "after" => c.on \intersect Endless = {})
  BY <1>1 DEF MetHold, Specs
<1>3. \A c \in dep[j].conditions : Holds(c) => Holds(c)'
  BY <1>2, HoldsStays
<1> QED BY <1>3 DEF Fulfilled

LEMMA VerdictsNext ==
    ASSUME DispatchTypeOK, MetHold, VerdictsEarned, [DispatchNext]_vars
    PROVE  VerdictsEarned'
<1> DEFINE Earned(j) == dep[j] = Nothing \/ Fulfilled(dep[j])
<1>1. \A j \in Jobs : dep'[j] = dep[j] /\ Earned(j) => Earned(j)'
  BY FulfilledStays DEF Fulfilled
<1>2. CASE UNCHANGED dependencies /\ \A j \in Jobs : Placed(j)' => Placed(j)
  <2>1. \A j \in Jobs : dep'[j] = dep[j] /\ verdict'[j] = verdict[j]
    BY <1>2 DEF dependencies
  <2>2. \A j \in Jobs : verdict[j] = "satisfied" => Earned(j)
    BY DEF VerdictsEarned
  <2>3. \A j \in Jobs : verdict'[j] = "satisfied" => Earned(j)'
    <3> HIDE DEF Earned
    <3> QED BY <1>1, <2>1, <2>2
  <2> QED BY <1>2, <2>1, <2>3 DEF VerdictsEarned
<1>3. ASSUME NEW n \in Nodes, RequestJobs(n) PROVE VerdictsEarned'
  <2>1. /\ dep' = dep
        /\ \A j \in Jobs : verdict'[j] = IF Queued(j) THEN VerdictNow(j) ELSE verdict[j]
    BY <1>3 DEF RequestJobs, Evaluated
  <2>2. \A j \in Jobs : verdict'[j] = "satisfied" => Earned(j)
    BY <2>1, Evaluation DEF VerdictsEarned
  <2>3. \A j \in Jobs : verdict'[j] = "satisfied" => Earned(j)'
    <3> HIDE DEF Earned
    <3> QED BY <1>1, <2>1, <2>2
  <2>4. PICK target, taken : taken \in SUBSET Jobs /\ Takes(n, target, taken)
    BY <1>3, Request
  <2>5. ASSUME NEW j \in Jobs, Placed(j)' PROVE verdict'[j] = "satisfied"
    <3>1. CASE j \in taken /\ EligibleQueued(j, n)
      BY <3>1, <2>1 DEF EligibleQueued, AllowsRun
    <3>2. CASE Placed(j)
      BY <3>2, <2>1 DEF VerdictsEarned, Placed, Queued, QueueStates
    <3>3. j \in taken => EligibleQueued(j, n) \/ Placed(j)
      BY <2>4 DEF Takes, EligibleAssigned, Placed
    <3>4. j \notin taken => Placed(j)
      BY <2>4, <2>5 DEF Takes, Placed
    <3> QED BY <3>1, <3>2, <3>3, <3>4
  <2> QED BY <2>3, <2>5 DEF VerdictsEarned
<1>4. ASSUME NEW j \in Jobs, Submit(j) PROVE VerdictsEarned'
  <2>1. PICK d \in Dependency[j] : Prepare(j, d)
    BY <1>4 DEF Submit
  <2>2. /\ dep' = [dep EXCEPT ![j] = Prepared(j, d)] /\ dep \in [Jobs -> Specs]
        /\ verdict' = [verdict EXCEPT ![j] = IF d = Nothing THEN "satisfied" ELSE "waiting"]
        /\ verdict \in [Jobs -> Verdicts]
        /\ state' = [state EXCEPT ![j] = "PENDING"]
        /\ state \in [Jobs -> Active \union Terminal \union {"unknown"}]
    BY <1>4, <2>1 DEF Prepare, Submit, DispatchTypeOK, DependenciesTypeOK
  <2>3. Prepared(j, Nothing) = Nothing
    BY DEF Prepared, Nothing
  <2>4. verdict'[j] = "satisfied" => dep'[j] = Nothing
    BY <2>2, <2>3
  <2>5. \A i \in Jobs \ {j} : dep'[i] = dep[i] /\ verdict'[i] = verdict[i] /\ state'[i] = state[i]
    BY <2>2
  <2>6. \A i \in Jobs \ {j} : verdict'[i] = "satisfied" => Earned(i)'
    <3>1. \A i \in Jobs : verdict[i] = "satisfied" => Earned(i)
      BY DEF VerdictsEarned
    <3> HIDE DEF Earned
    <3> QED BY <1>1, <2>5, <3>1
  <2>7. \A i \in Jobs : Placed(i)' => i # j
    BY <2>2 DEF Placed
  <2> QED BY <2>4, <2>5, <2>6, <2>7 DEF VerdictsEarned, Placed
<1> QED BY <1>2, <1>3, <1>4, DependenciesNext

LEMMA ActiveBefore ==
    ASSUME DispatchTypeOK, [DispatchNext]_vars, NEW i \in Jobs, state'[i] \in Active
    PROVE  state[i] \in Active \/ Submit(i)
<1>t. state \in [Jobs -> Active \union Terminal \union {"unknown"}]
  BY DEF DispatchTypeOK, DependenciesTypeOK
<1>1. SUFFICES ASSUME state[i] = "unknown" PROVE Submit(i)
  BY <1>t, OutcomesStay DEF Over
<1>2. state'[i] # state[i]
  BY <1>1 DEF Active, QueueStates
<1>3. ASSUME NEW j \in Jobs, Submit(j) PROVE j = i
  BY <1>t, <1>2, <1>3 DEF Submit
<1>4. \A j \in Jobs : ~End(j) /\ ~Acknowledge(j)
  BY <1>t, <1>1, <1>2 DEF End, Leaves, Retry, Acknowledge
<1>5. \A j \in Jobs : ~Cancel(j)
  BY <1>t, <1>1, <1>2 DEF Cancel, Leaves, Active, QueueStates
<1>6. \A n \in Nodes : ~EngineRemoved(n)
  BY <1>1, <1>2 DEF EngineRemoved, HeldBy, Placed
<1>7. ASSUME NEW n \in Nodes, RequestJobs(n) PROVE FALSE
  <2>1. PICK target, taken : taken \in SUBSET Jobs /\ Takes(n, target, taken)
    BY <1>7, Request
  <2> QED BY <2>1, <1>1, <1>2 DEF Takes, EligibleQueued, EligibleAssigned, Queued, QueueStates
<1>8. ~Tick /\ (\A n \in Nodes : ~Register(n)) /\ ~UNCHANGED vars
  BY <1>2 DEF Tick, Register, vars
<1> QED BY <1>3, <1>4, <1>5, <1>6, <1>7, <1>8 DEF DispatchNext, JobStep, NodeStep

LEMMA SingletonsNext ==
    ASSUME DispatchTypeOK, SingletonsOrdered, [DispatchNext]_vars
    PROVE  SingletonsOrdered'
<1> DEFINE Both(i, j) == /\ Singleton(dep[i]) /\ Singleton(dep[j])
                         /\ state[i] \in Active /\ state[j] \in Active
           Ordered(i, j) == Captures(i, j) \/ Captures(j, i)
<1> SUFFICES ASSUME NEW i \in Jobs, NEW j \in Jobs, i # j, JobName[i] = JobName[j], Both(i, j)'
             PROVE  Ordered(i, j)'
  BY DEF SingletonsOrdered
<1>1. Both(i, j) => Ordered(i, j)
  BY DEF SingletonsOrdered
<1>2. CASE dep' = dep /\ ~Submit(i) /\ ~Submit(j)
  <2>1. state[i] \in Active /\ state[j] \in Active
    BY <1>2, ActiveBefore
  <2> QED BY <2>1, <1>1, <1>2 DEF Captures
<1>3. ASSUME NEW k \in Jobs, Submit(k) PROVE Ordered(i, j)'
  <2>1. PICK d \in Dependency[k] : Prepare(k, d)
    BY <1>3 DEF Submit
  <2>2. /\ dep' = [dep EXCEPT ![k] = Prepared(k, d)] /\ dep \in [Jobs -> Specs]
        /\ state' = [state EXCEPT ![k] = "PENDING"]
        /\ state \in [Jobs -> Active \union Terminal \union {"unknown"}]
    BY <1>3, <2>1 DEF Prepare, Submit, DispatchTypeOK, DependenciesTypeOK
  <2>3. \A c \in Prepared(k, d).conditions : c.type = "singleton" => c.on = Predecessors(k)
    BY Preparation
  <2>4. ASSUME NEW h \in Jobs, h # k, state'[h] \in Active, JobName[h] = JobName[k], Singleton(dep'[k])
        PROVE  Captures(h, k)'
    <3>1. h \in Predecessors(k)
      BY <2>2, <2>4 DEF Predecessors
    <3>2. dep'[k] = Prepared(k, d)
      BY <2>2
    <3>3. PICK c \in dep'[k].conditions : c.type = "singleton"
      BY <2>4 DEF Singleton
    <3> QED BY <3>1, <3>2, <3>3, <2>3 DEF Captures
  <2>5. CASE i = k
    BY <2>4, <2>5
  <2>6. CASE j = k
    BY <2>4, <2>6
  <2>7. CASE i # k /\ j # k
    <3>1. dep'[i] = dep[i] /\ dep'[j] = dep[j] /\ state'[i] = state[i] /\ state'[j] = state[j]
      BY <2>2, <2>7
    <3> QED BY <3>1, <1>1 DEF Captures
  <2> QED BY <2>5, <2>6, <2>7
<1>4. (\E k \in Jobs : Submit(k)) \/ dep' = dep
  BY DependenciesNext DEF dependencies, RequestJobs, Evaluated
<1> QED BY <1>2, <1>3, <1>4

LEMMA InvInit ==
    ASSUME DispatchInit
    PROVE  DispatchInv
<1>1. MetHold /\ VerdictsEarned
  BY DEF DispatchInit, MetHold, VerdictsEarned, Nothing, Placed
<1>2. SingletonsOrdered
  BY DEF DispatchInit, SingletonsOrdered, Active, QueueStates
<1> QED BY <1>1, <1>2, TypesInit DEF DispatchInv

LEMMA InvNext ==
    ASSUME DispatchInv, [DispatchNext]_vars
    PROVE  DispatchInv'
BY TypesNext, MetNext, VerdictsNext, SingletonsNext DEF DispatchInv

(* A job that is granted or runs had its dependency fulfilled by outcomes  *)
(* that stand (_dependency_status_locked()), and singletons of a name run  *)
(* one at a time, whatever the dependencies, and however often jobs are    *)
(* evaluated, requeued, moved and cancelled in between.                    *)
THEOREM DependenciesHold == DispatchSpec => []DependenciesKept
<1>1. DispatchInit => DispatchInv
  BY InvInit
<1>2. DispatchInv /\ [DispatchNext]_vars => DispatchInv'
  BY InvNext
<1>3. ASSUME DispatchInv PROVE DependenciesKept
  <2>1. \A j \in Jobs : Placed(j) => dep[j] = Nothing \/ Fulfilled(dep[j])
    BY <1>3 DEF DispatchInv, VerdictsEarned
  <2>2. ASSUME NEW i \in Jobs, NEW j \in Jobs, Placed(i), Placed(j), Captures(i, j), Singleton(dep[j])
        PROVE  FALSE
    <3>1. PICK c \in dep[j].conditions : c.type = "singleton" /\ i \in c.on
      BY <2>2 DEF Captures
    <3>2. Fulfilled(dep[j])
      BY <2>1, <2>2 DEF Singleton, Nothing
    <3>3. Holds(c)
      BY <3>1, <3>2, <2>2 DEF Fulfilled, Singleton
    <3>4. Over(i)
      BY <3>1, <3>3 DEF Holds
    <3> QED BY <3>4, <2>2 DEF Over, Terminal, Placed
  <2>3. ASSUME NEW i \in Jobs, NEW j \in Jobs, i # j, JobName[i] = JobName[j],
               Singleton(dep[i]), Singleton(dep[j]), Placed(i), Placed(j)
        PROVE  FALSE
    <3>1. state[i] \in Active /\ state[j] \in Active
      BY <2>3 DEF Placed, Active
    <3>2. Captures(i, j) \/ Captures(j, i)
      BY <1>3, <2>3, <3>1 DEF DispatchInv, SingletonsOrdered
    <3> QED BY <2>2, <2>3, <3>2
  <2> QED BY <2>1, <2>3 DEF DependenciesKept
<1> QED BY <1>1, <1>2, <1>3, PTL DEF DispatchSpec

-----------------------------------------------------------------------------
(* While the free memory of a pilot is saved for a large job               *)
(* (_fits_free_capacity()), what it takes of lower priority leaves that    *)
(* job's memory free, whatever else it takes or is moved to it.            *)
THEOREM SlotsAreCollected == DispatchSpec => SlotIsCollected
<1> DEFINE Collected(n) ==
        LET target == wait'.job
            new    == HeldBy(n)' \ HeldBy(n)
            lower  == {j \in new : Priority[j] < Priority[target]}
        IN  /\ wait' # NoWait /\ wait'.node = n
            /\ state'[target] \in QueueStates /\ lower # {}
            => Headroom(n)' + SumFunctionOnSet(mem, new \ lower) >= mem[target]
<1>1. ASSUME DispatchTypeOK, [DispatchNext]_vars, NEW n \in Nodes PROVE Collected(n)
  <2>1. CASE ~RequestJobs(n)
    <3>1. HeldBy(n)' \subseteq HeldBy(n)
      BY <1>1, <2>1, HoldersKept DEF Keeps
    <3> QED BY <3>1
  <2>2. CASE RequestJobs(n)
    <3>1. PICK target, taken : taken \in SUBSET Jobs /\ Takes(n, target, taken)
      BY <1>1, <2>2, Request
    <3> SUFFICES ASSUME wait' # NoWait, wait'.node = n, state'[wait'.job] \in QueueStates,
                        {j \in HeldBy(n)' \ HeldBy(n) : Priority[j] < Priority[wait'.job]} # {}
                 PROVE  Headroom(n)' + SumFunctionOnSet(mem, (HeldBy(n)' \ HeldBy(n)) \
                            {j \in HeldBy(n)' \ HeldBy(n) : Priority[j] < Priority[wait'.job]})
                        >= mem[wait'.job]
      OBVIOUS
    <3>2. /\ HeldBy(n)' \ HeldBy(n) = taken
          /\ Headroom(n)' = Headroom(n) - SumFunctionOnSet(mem, taken)
          /\ SumFunctionOnSet(mem, taken) \in Nat /\ Headroom(n) \in Int
      BY <1>1, <2>2, <3>1, RoomTaken
    <3>3. target = wait'.job /\ target \in Jobs
      <4>1. wait \in Waits \union {NoWait}
        BY <1>1 DEF DispatchTypeOK
      <4> QED BY <3>1, <4>1 DEF Takes, Waits
    <3>4. target \notin taken
      BY <3>1, <3>3 DEF Takes, QueueStates
    <3> DEFINE L == Lower(taken, target)
    <3>5. {j \in HeldBy(n)' \ HeldBy(n) : Priority[j] < Priority[wait'.job]} = L
      BY <3>2, <3>3 DEF Lower
    <3>6. L \in SUBSET taken /\ L # {}
      BY <3>5 DEF Lower
    <3>7. SumFunctionOnSet(mem, L) + mem[target] <= Headroom(n)
      BY <3>1, <3>3, <3>4, <3>6 DEF Takes, LeavesRoom, SlotLeft
    <3> HIDE DEF L
    <3>8. MemOK
      BY <1>1 DEF DispatchTypeOK, MemOK
    <3>9. SumFunctionOnSet(mem, taken) = SumFunctionOnSet(mem, L) + SumFunctionOnSet(mem, taken \ L)
      <4>1. IsFiniteSet(taken) /\ \A x \in taken : mem[x] \in Int
        BY <3>1, <3>8, MemSum
      <4> QED BY <3>6, <4>1, SumSplit
    <3>10. /\ SumFunctionOnSet(mem, L) \in Nat /\ SumFunctionOnSet(mem, taken \ L) \in Nat
           /\ mem[target] \in Nat
      <4>1. L \in SUBSET Jobs /\ taken \ L \in SUBSET Jobs
        BY <3>1, <3>6
      <4> QED BY <3>3, <3>8, <4>1, MemSum DEF MemOK
    <3>11. (HeldBy(n)' \ HeldBy(n)) \ {j \in HeldBy(n)' \ HeldBy(n) : Priority[j] < Priority[wait'.job]}
               = taken \ L
      BY <3>2, <3>5
    <3>12. Headroom(n)' + SumFunctionOnSet(mem, taken \ L) >= mem[target]
      BY <3>2, <3>7, <3>9, <3>10
    <3> QED BY <3>3, <3>11, <3>12
  <2> QED BY <2>1, <2>2
<1>2. DispatchTypeOK /\ [DispatchNext]_vars
      => [\A n \in Nodes : Collected(n)]_vars
  BY <1>1
<1>3. SlotIsCollected <=> [][\A n \in Nodes : Collected(n)]_vars
  BY DEF SlotIsCollected
<1> HIDE DEF Collected
<1> QED BY <1>2, <1>3, DispatchTypes, PTL DEF DispatchSpec
=============================================================================
