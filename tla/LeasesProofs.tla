---------------------------- MODULE LeasesProofs ----------------------------
(***************************************************************************)
(* The leases of a pilot, for any number of jobs, request threads, release *)
(* ids, retries and for every size of the pilot: the two ledgers agree,    *)
(* what is tested fits the engine and an overbooked engine takes nothing,  *)
(* a release counts once, a waiting growth request keeps its turn and a    *)
(* stale request does nothing.                                             *)
(***************************************************************************)
EXTENDS Leases, SumLemmas

(* A record belongs to a child that runs or failed to spawn; its token is  *)
(* the last one drawn.  No request carries the token of a child that       *)
(* failed, or one that is yet to be drawn.                                 *)
TokensDrawn ==
    /\ \A j \in Jobs :
          /\ lease[j] <= issued[j]
          /\ lease[j] # 0 <=> local[j] \in {"prepared", "running"}
    /\ \A q \in Requests : req[q] # Idle =>
          /\ req[q].token <= issued[req[q].job]
          /\ local[req[q].job] = "prepared" => req[q].token # lease[req[q].job]

(* Until its child runs a started job has its full size at the manager.    *)
StartedInFull ==
    \A j \in Jobs :
        local[j] \in {"kept", "pending", "prepared"} /\ state[j] = "RUNNING" =>
            booked[j] = Max[j]

(* So an adoption, which books the full size, does not book less than the  *)
(* lease.                                                                  *)
HeldWithinMax == \A j \in Jobs : Fits(held[j], Max[j])

(* What was not tested is booked: a grant starts from a tested job.        *)
UncheckedBooked == \A j \in unchecked : state[j] \in {"ASSIGNED", "RUNNING"}

(* A release that is not recorded, or belongs to no lease, has taken       *)
(* nothing off it.                                                         *)
CutWhenRecorded ==
    \A j \in Jobs, r \in Releases :
        r \notin applied[j] \/ lease[j] = 0 => cut[j][r] = Zero

(* A thread that waits with a valid token is in the queue.                 *)
InQueue(q, queue) == \E i \in DOMAIN queue : queue[i] = q
WaitersQueued ==
    \A q \in Requests : req[q].at = "waiting" /\ Authentic(q) => InQueue(q, waiters)

BaseInv ==
    /\ LeaseTypeOK /\ TokensDrawn /\ StartedInFull /\ HeldWithinMax /\ UncheckedBooked
    /\ CutWhenRecorded /\ WaitersQueued
    /\ BookingFollowsLease /\ EngineNotOverbooked /\ ReleasedOnce

(* A running job holds what it cannot give up: a release only shrinks.     *)
FloorHeld == \A j \in Jobs : local[j] = "running" => Fits(Floor(j), held[j])

RoomInv == FloorHeld /\ ChiefBalanced

-----------------------------------------------------------------------------
(* The filter on the queue.                                                *)

(* The first i entries are filtered by a function of the numbers up to i.  *)
Prefix(S, queue, i, f) ==
    f = [k \in 0..i |->
            IF k = 0 THEN <<>>
            ELSE IF queue[k] \in S THEN Append(f[k - 1], queue[k]) ELSE f[k - 1]]

LEMMA PrefixExists ==
    ASSUME NEW S, NEW queue, NEW n \in Nat
    PROVE  \E f : Prefix(S, queue, n, f)
<1> DEFINE G == {i \in 0..n : \E f : Prefix(S, queue, i, f)}
<1>1. 0 \in G
  <2>1. Prefix(S, queue, 0, [k \in 0..0 |-> <<>>])
    BY DEF Prefix
  <2> QED BY <2>1
<1>2. ASSUME NEW i \in 1..n, i - 1 \in G PROVE i \in G
  <2>1. PICK g : Prefix(S, queue, i - 1, g)
    BY <1>2
  <2> DEFINE V(k) == IF k = 0 THEN <<>>
                     ELSE IF queue[k] \in S THEN Append(g[k - 1], queue[k]) ELSE g[k - 1]
             f == [k \in 0..i |-> V(k)]
  <2>2. \A k \in 0..(i - 1) : g[k] = V(k)
    BY <2>1 DEF Prefix
  <2> HIDE DEF V
  <2>3. \A k \in 0..i : k # 0 => k - 1 \in 0..(i - 1) /\ f[k - 1] = g[k - 1]
    BY <2>2
  <2>4. \A k \in 0..i : V(k) = IF k = 0 THEN <<>>
                     ELSE IF queue[k] \in S THEN Append(f[k - 1], queue[k]) ELSE f[k - 1]
    BY <2>3 DEF V
  <2>5. Prefix(S, queue, i, f)
    BY <2>4 DEF Prefix
  <2> QED BY <2>5
<1>3. \A i \in 0..n : i \in G
  <2> HIDE DEF G
  <2> QED BY <1>1, <1>2, CountingInduction
<1> QED
  BY <1>3

(* What is kept are the members of S, each of them.                        *)
LEMMA OnlyKeeps ==
    ASSUME NEW R, NEW queue \in Seq(R), NEW S
    PROVE  /\ Only(S, queue) \in Seq(R)
           /\ \A x : (\E k \in DOMAIN Only(S, queue) : Only(S, queue)[k] = x)
                        <=> x \in S /\ \E k \in DOMAIN queue : queue[k] = x
<1> DEFINE n == Len(queue)
           f == CHOOSE only : Prefix(S, queue, n, only)
           Has(s, x, i) == \E k \in 1..i : s[k] = x
           Good(i) == /\ f[i] \in Seq(R)
                      /\ \A x : Has(f[i], x, Len(f[i])) <=> x \in S /\ Has(queue, x, i)
<1>1. n \in Nat /\ DOMAIN queue = 1..n /\ \A k \in 1..n : queue[k] \in R
  OBVIOUS
<1>2. Only(S, queue) = f[n]
  BY DEF Only, Prefix
<1>3. Prefix(S, queue, n, f)
  BY <1>1, PrefixExists
<1> HIDE DEF f, n
<1>4. /\ f[0] = <<>>
      /\ \A i \in 1..n : f[i] = IF queue[i] \in S THEN Append(f[i - 1], queue[i]) ELSE f[i - 1]
  <2>1. f = [k \in 0..n |->
                IF k = 0 THEN <<>>
                ELSE IF queue[k] \in S THEN Append(f[k - 1], queue[k]) ELSE f[k - 1]]
    BY <1>3 DEF Prefix
  <2> DEFINE F(k) == IF k = 0 THEN <<>>
                     ELSE IF queue[k] \in S THEN Append(f[k - 1], queue[k]) ELSE f[k - 1]
  <2>2. f = [k \in 0..n |-> F(k)]
    BY <2>1
  <2> HIDE DEF F
  <2>3. \A k \in 0..n : f[k] = F(k)
    BY <2>2
  <2>4. 0 \in 0..n /\ \A k \in 1..n : k \in 0..n
    BY <1>1
  <2> QED
    BY <2>3, <2>4 DEF F
<1>5. Good(0)
  BY <1>4
<1>6. ASSUME NEW i \in 1..n, Good(i - 1) PROVE Good(i)
  <2>1. f[i - 1] \in Seq(R) /\ queue[i] \in R /\ i \in Nat
    BY <1>1, <1>6
  <2>2. \A x : Has(queue, x, i) <=> Has(queue, x, i - 1) \/ queue[i] = x
    BY <1>1
  <2>3. CASE queue[i] \in S
    <3>1. f[i] = Append(f[i - 1], queue[i])
      BY <1>4, <2>3
    <3>2. f[i] \in Seq(R) /\ Len(f[i]) = Len(f[i - 1]) + 1
      BY <2>1, <3>1
    <3>3. \A x : Has(f[i], x, Len(f[i])) <=> Has(f[i - 1], x, Len(f[i - 1])) \/ queue[i] = x
      BY <2>1, <3>1, <3>2
    <3> HIDE DEF Has
    <3> QED
      BY <1>6, <2>2, <2>3, <3>2, <3>3
  <2>4. CASE queue[i] \notin S
    <3>1. f[i] = f[i - 1]
      BY <1>4, <2>4
    <3> HIDE DEF Has
    <3> QED
      BY <1>6, <2>2, <2>4, <3>1
  <2> QED
    BY <2>3, <2>4
<1>7. Good(n)
  <2> DEFINE G == {i \in 0..n : Good(i)}
  <2> HIDE DEF Good
  <2>1. 0 \in G /\ \A i \in 1..n : i - 1 \in G => i \in G
    BY <1>1, <1>5, <1>6
  <2>2. \A i \in 0..n : i \in G
    <3> HIDE DEF G
    <3> QED BY <1>1, <2>1, CountingInduction
  <2> QED BY <1>1, <2>2
<1>8. f[n] \in Seq(R) /\ DOMAIN f[n] = 1..Len(f[n])
  BY <1>7
<1>9. \A x : Has(f[n], x, Len(f[n])) <=> x \in S /\ Has(queue, x, n)
  <2> HIDE DEF Has
  <2> QED BY <1>7
<1> QED
  BY <1>1, <1>2, <1>8, <1>9

-----------------------------------------------------------------------------
(* Amounts.                                                                *)

LEMMA ClampFacts ==
    ASSUME NEW x \in Int, NEW d \in Dim
    PROVE  /\ Clamp(x, d) \in 0..Total[d]
           /\ x \in 0..Total[d] => Clamp(x, d) = x
BY LeaseConstants DEF Clamp, Least, Greatest

LEMMA FloorType ==
    ASSUME LeaseTypeOK, NEW j \in Jobs
    PROVE  Floor(j) \in [Dim -> Nat] /\ Fits(Floor(j), Max[j])
<1>1. \A d \in Dim : /\ Max[j][d] \in Nat
                     /\ (IF d = "cpu" THEN CpuFloor ELSE observed[j] + MemHeadroom) \in Nat
  BY LeaseConstants DEF LeaseTypeOK
<1> QED
  BY <1>1 DEF Floor, Fits, Least

(* The target of a request is at least what the job cannot give up.        *)
LEMMA TargetFacts ==
    ASSUME LeaseTypeOK, NEW j \in Jobs, NEW goal \in [Dim -> Nat \union {Keep}]
    PROVE  SafeTarget(j, goal) \in [Dim -> Nat] /\ Fits(Floor(j), SafeTarget(j, goal))
<1>1. \A d \in Dim : /\ Floor(j)[d] \in Nat
                     /\ (IF goal[d] = Keep THEN held[j][d] ELSE goal[d]) \in Nat
  BY FloorType DEF LeaseTypeOK, Keep
<1> QED
  BY <1>1 DEF SafeTarget, Fits, Greatest, Keep

LEMMA RequestFacts ==
    ASSUME LeaseTypeOK, NEW q \in Requests, req[q] # Idle
    PROVE  /\ req[q] \in RequestRecords
           /\ req[q].job \in Jobs /\ req[q].token \in Nat \ {0}
           /\ req[q].goal \in [Dim -> Nat \union {Keep}]
           /\ req[q].release \in Releases \union {NoRelease}
<1>1. req[q] \in RequestRecords
  BY DEF LeaseTypeOK
<1>2. req[q].goal \in Goals \union {AsHeld} /\ AsHeld \in [Dim -> Nat \union {Keep}]
  BY <1>1 DEF RequestRecords, AsHeld
<1> QED
  BY <1>1, <1>2, LeaseConstants DEF RequestRecords

(* The target of a release: not below the floor, and no more than the      *)
(* amount below the lease.                                                 *)
LEMMA ReleaseFacts ==
    ASSUME LeaseTypeOK, NEW q \in Requests, req[q] # Idle, req[q].release # NoRelease
    PROVE  LET j == req[q].job
               t == ReleaseTarget(q)
           IN  /\ t \in [Dim -> Nat] /\ Fits(Floor(j), t)
               /\ Fits(Minus(held[j], t), Amount[req[q].release])
               /\ Fits(Floor(j), held[j]) => Fits(t, held[j])
<1> DEFINE j == req[q].job
           r == req[q].release
           goal == [d \in Dim |-> Greatest(0, held[j][d] - Amount[r][d])]
<1>1. j \in Jobs /\ r \in Releases
  BY RequestFacts
<1>2. \A d \in Dim : held[j][d] \in Nat /\ Amount[r][d] \in Nat /\ Floor(j)[d] \in Nat
  BY <1>1, FloorType, LeaseConstants DEF LeaseTypeOK
<1>3. \A d \in Dim : goal[d] \in Nat /\ goal[d] # Keep
  BY <1>2 DEF Keep, Greatest
<1>4. ReleaseTarget(q) = SafeTarget(j, goal)
  BY DEF ReleaseTarget
<1>5. \A d \in Dim : ReleaseTarget(q)[d] = Greatest(goal[d], Floor(j)[d])
  BY <1>3, <1>4 DEF SafeTarget
<1>6. \A d \in Dim : goal[d] >= held[j][d] - Amount[r][d] /\ goal[d] <= held[j][d]
  BY <1>2 DEF Greatest
<1>7. ReleaseTarget(q) \in [Dim -> Nat] /\ Fits(Floor(j), ReleaseTarget(q))
  BY <1>1, <1>3, <1>4, TargetFacts
<1>8. Fits(Minus(held[j], ReleaseTarget(q)), Amount[r])
  <2>1. \A d \in Dim : ReleaseTarget(q)[d] \in Nat /\ ReleaseTarget(q)[d] >= goal[d]
    BY <1>2, <1>3, <1>5 DEF Greatest
  <2> HIDE DEF goal
  <2> QED
    BY <1>2, <1>3, <1>6, <2>1 DEF Fits, Minus
<1>9. Fits(Floor(j), held[j]) => Fits(ReleaseTarget(q), held[j])
  <2> HIDE DEF goal
  <2> QED
    BY <1>2, <1>3, <1>5, <1>6 DEF Fits, Greatest
<1> QED
  BY <1>7, <1>8, <1>9

-----------------------------------------------------------------------------
(* The two sums.                                                           *)

Tests(d)   == [k \in Jobs |-> IF k \in unchecked THEN 0 ELSE Booking(k)[d]]
Holding(d) == [k \in Jobs |-> ChiefHolding(k)[d]]

LEMMA AmountsNatural ==
    ASSUME LeaseTypeOK, NEW j \in Jobs, NEW d \in Dim
    PROVE  /\ held[j][d] \in Nat /\ booked[j][d] \in Nat /\ free[d] \in Nat
           /\ Max[j][d] \in Nat /\ Total[d] \in Nat /\ Zero[d] = 0
           /\ Booking(j)[d] \in Nat /\ ChiefHolding(j)[d] \in Nat
<1>1. /\ held[j][d] \in Nat /\ booked[j][d] \in Nat /\ free[d] \in Nat
      /\ Max[j][d] \in Nat /\ Total[d] \in Nat /\ Zero[d] = 0
  BY LeaseConstants DEF LeaseTypeOK, Zero
<1> QED
  BY <1>1 DEF Booking, ChiefHolding

LEMMA AmountsNaturalNext ==
    ASSUME LeaseTypeOK', NEW j \in Jobs, NEW d \in Dim
    PROVE  /\ held'[j][d] \in Nat /\ booked'[j][d] \in Nat /\ free'[d] \in Nat
           /\ Booking(j)'[d] \in Nat /\ ChiefHolding(j)'[d] \in Nat
<1>1. /\ held'[j][d] \in Nat /\ booked'[j][d] \in Nat /\ free'[d] \in Nat
      /\ Max[j][d] \in Nat /\ Zero[d] = 0
  BY LeaseConstants DEF LeaseTypeOK, Zero
<1> QED
  BY <1>1 DEF Booking, ChiefHolding

LEMMA SumsTyped ==
    ASSUME LeaseTypeOK, NEW d \in Dim
    PROVE  /\ IsFiniteSet(Jobs)
           /\ \A j \in Jobs : Bookings(d)[j] = Booking(j)[d] /\ Bookings(d)[j] \in Nat
           /\ \A j \in Jobs : Tests(d)[j] \in Nat /\ Tests(d)[j] <= Bookings(d)[j]
           /\ \A j \in Jobs : Holding(d)[j] = ChiefHolding(j)[d] /\ Holding(d)[j] \in Nat
           /\ SumFunctionOnSet(Bookings(d), Jobs) \in Nat
           /\ SumFunctionOnSet(Tests(d), Jobs) \in Nat
           /\ SumFunctionOnSet(Holding(d), Jobs) \in Nat
<1>1. /\ \A j \in Jobs : Bookings(d)[j] = Booking(j)[d] /\ Bookings(d)[j] \in Nat
      /\ \A j \in Jobs : Tests(d)[j] \in Nat /\ Tests(d)[j] <= Bookings(d)[j]
      /\ \A j \in Jobs : Holding(d)[j] = ChiefHolding(j)[d] /\ Holding(d)[j] \in Nat
  BY AmountsNatural DEF Bookings, Tests, Holding
<1> QED
  BY <1>1, SumNat, LeaseConstants

LEMMA SumsTypedNext ==
    ASSUME LeaseTypeOK', NEW d \in Dim
    PROVE  /\ \A j \in Jobs : Bookings(d)'[j] = Booking(j)'[d] /\ Bookings(d)'[j] \in Nat
           /\ \A j \in Jobs : Tests(d)'[j] \in Nat
           /\ \A j \in Jobs : Holding(d)'[j] = ChiefHolding(j)'[d] /\ Holding(d)'[j] \in Nat
BY AmountsNaturalNext DEF Bookings, Tests, Holding

(* What a step does to the bookings of one job: they go; they are tested   *)
(* against what the others leave; they stay; or they come untested.        *)
Books(j) ==
    /\ \A k \in Jobs \ {j} : /\ state'[k] = state[k] /\ booked'[k] = booked[k]
                             /\ (k \in unchecked' <=> k \in unchecked)
    /\ \/ Booking(j)' = Zero /\ j \notin unchecked'
       \/ Fits(Booking(j)', Headroom(j))
       \/ Booking(j)' = Booking(j) /\ (j \in unchecked => j \in unchecked')
       \/ j \in unchecked' /\ j \notin unchecked

(* What a job has room for, unless it is nothing, fits beside the others.  *)
LEMMA HeadroomFacts ==
    ASSUME LeaseTypeOK, NEW j \in Jobs, NEW d \in Dim
    PROVE  /\ SumFunctionOnSet(Bookings(d), Jobs \ {j}) \in Nat
           /\ SumFunctionOnSet(Tests(d), Jobs \ {j}) \in Nat
           /\ SumFunctionOnSet(Tests(d), Jobs \ {j})
                  <= SumFunctionOnSet(Bookings(d), Jobs \ {j})
           /\ \A n \in Nat : n <= Headroom(j)[d] =>
                  n = 0 \/ n + SumFunctionOnSet(Bookings(d), Jobs \ {j}) <= Total[d]
<1> DEFINE others == SumFunctionOnSet(Bookings(d), Jobs \ {j})
<1>1. /\ IsFiniteSet(Jobs \ {j})
      /\ \A k \in Jobs \ {j} : /\ Bookings(d)[k] \in Nat /\ Tests(d)[k] \in Nat
                              /\ Tests(d)[k] <= Bookings(d)[k]
  BY SumsTyped, FS_Difference
<1>2. others \in Nat /\ SumFunctionOnSet(Tests(d), Jobs \ {j}) \in Nat
  BY <1>1, SumNat
<1>3. SumFunctionOnSet(Tests(d), Jobs \ {j}) <= others
  BY <1>1, SumMonotone
<1>4. Headroom(j)[d] = Greatest(0, Total[d] - others)
  BY DEF Headroom
<1>5. Total[d] \in Nat
  BY LeaseConstants
<1> HIDE DEF others
<1> QED
  BY <1>2, <1>3, <1>4, <1>5 DEF Greatest, others

(* The sums over the other jobs stay.                                      *)
LEMMA SumsChange ==
    ASSUME LeaseTypeOK, LeaseTypeOK', NEW j \in Jobs, Books(j), NEW d \in Dim
    PROVE  /\ SumFunctionOnSet(Bookings(d)', Jobs) =
                  Booking(j)'[d] + SumFunctionOnSet(Bookings(d), Jobs \ {j})
           /\ SumFunctionOnSet(Tests(d)', Jobs) =
                  Tests(d)'[j] + SumFunctionOnSet(Tests(d), Jobs \ {j})
           /\ SumFunctionOnSet(Tests(d), Jobs) =
                  Tests(d)[j] + SumFunctionOnSet(Tests(d), Jobs \ {j})
<1>0. \A k \in Jobs : k # j => Booking(k)' = Booking(k)
  BY DEF Books, Booking
<1>1. \A k \in Jobs : k # j => Bookings(d)[k] = Bookings(d)'[k] /\ Tests(d)[k] = Tests(d)'[k]
  <2>1. \A k \in Jobs : k # j => Tests(d)[k] = Tests(d)'[k]
    BY <1>0 DEF Tests, Books
  <2> QED
    BY <1>0, <2>1, SumsTyped, SumsTypedNext
<1>2. /\ IsFiniteSet(Jobs)
      /\ \A k \in Jobs : /\ Bookings(d)[k] \in Int /\ Bookings(d)'[k] \in Int
                        /\ Tests(d)[k] \in Int /\ Tests(d)'[k] \in Int
  BY SumsTyped, SumsTypedNext, LeaseConstants
<1>3. ASSUME NEW f, NEW g, \A k \in Jobs : f[k] \in Int /\ g[k] \in Int,
             \A k \in Jobs : k # j => f[k] = g[k]
      PROVE  SumFunctionOnSet(g, Jobs) = g[j] + SumFunctionOnSet(f, Jobs \ {j})
  <2>1. SumFunctionOnSet(g, Jobs) = SumFunctionOnSet(f, Jobs) + g[j] - f[j]
    BY <1>2, <1>3, SumChange
  <2>2. SumFunctionOnSet(f, Jobs) = f[j] + SumFunctionOnSet(f, Jobs \ {j})
    BY <1>2, <1>3, SumTakeOut
  <2>3. SumFunctionOnSet(f, Jobs \ {j}) \in Int /\ f[j] \in Int /\ g[j] \in Int
    BY <1>2, <1>3, SumInt, FS_Difference
  <2> QED
    BY <2>1, <2>2, <2>3
<1>4. Bookings(d)'[j] = Booking(j)'[d]
  BY SumsTypedNext
<1> DEFINE b == Bookings(d)
           c == Bookings(d)'
           t == Tests(d)
           u == Tests(d)'
<1>5. /\ \A k \in Jobs : b[k] \in Int /\ c[k] \in Int /\ t[k] \in Int /\ u[k] \in Int
      /\ \A k \in Jobs : k # j => b[k] = c[k] /\ t[k] = u[k]
      /\ c[j] = Booking(j)'[d]
  BY <1>1, <1>2, <1>4
<1>6. /\ SumFunctionOnSet(c, Jobs) = c[j] + SumFunctionOnSet(b, Jobs \ {j})
      /\ SumFunctionOnSet(u, Jobs) = u[j] + SumFunctionOnSet(t, Jobs \ {j})
      /\ SumFunctionOnSet(t, Jobs) = t[j] + SumFunctionOnSet(t, Jobs \ {j})
  <2> HIDE DEF b, c, t, u
  <2> QED
    BY <1>3, <1>5
<1> QED
  BY <1>5, <1>6

(* Such a step leaves what is tested within the engine.                    *)
LEMMA BookingFits ==
    ASSUME LeaseTypeOK, LeaseTypeOK', EngineNotOverbooked, NEW j \in Jobs, Books(j)
    PROVE  EngineNotOverbooked'
<1> SUFFICES ASSUME NEW d \in Dim PROVE SumFunctionOnSet(Tests(d)', Jobs) <= Total[d]
  BY DEF EngineNotOverbooked, Tests
<1> DEFINE rest == SumFunctionOnSet(Tests(d), Jobs \ {j})
<1>1. /\ SumFunctionOnSet(Tests(d)', Jobs) = Tests(d)'[j] + rest
      /\ SumFunctionOnSet(Tests(d), Jobs) = Tests(d)[j] + rest
  BY SumsChange
<1>2. /\ SumFunctionOnSet(Tests(d), Jobs) <= Total[d] /\ Total[d] \in Nat
      /\ Tests(d)[j] \in Nat /\ Tests(d)'[j] \in Nat /\ rest \in Nat
  BY SumsTyped, SumsTypedNext, HeadroomFacts, LeaseConstants DEF EngineNotOverbooked, Tests
<1>3. Tests(d)'[j] = IF j \in unchecked' THEN 0 ELSE Booking(j)'[d]
  BY DEF Tests
<1>4. CASE j \in unchecked'
  BY <1>1, <1>2, <1>3, <1>4
<1>5. CASE Booking(j)' = Zero
  BY <1>1, <1>2, <1>3, <1>5 DEF Zero
<1>6. CASE Fits(Booking(j)', Headroom(j)) /\ j \notin unchecked'
  <2>1. Booking(j)'[d] <= Headroom(j)[d] /\ Booking(j)'[d] \in Nat
    BY <1>6, AmountsNaturalNext DEF Fits
  <2>2. /\ SumFunctionOnSet(Bookings(d), Jobs \ {j}) \in Nat
        /\ rest <= SumFunctionOnSet(Bookings(d), Jobs \ {j})
        /\ \/ Booking(j)'[d] = 0
           \/ Booking(j)'[d] + SumFunctionOnSet(Bookings(d), Jobs \ {j}) <= Total[d]
    BY <2>1, HeadroomFacts
  <2> HIDE DEF rest
  <2> QED
    BY <1>1, <1>2, <1>3, <1>6, <2>1, <2>2
<1>7. CASE Booking(j)' = Booking(j) /\ j \notin unchecked /\ j \notin unchecked'
  <2>1. Tests(d)'[j] = Tests(d)[j]
    BY <1>3, <1>7 DEF Tests
  <2> QED
    BY <1>1, <1>2, <2>1
<1> QED
  BY <1>4, <1>5, <1>6, <1>7 DEF Books

(* And if it books more, and nothing untested, it leaves the engine with   *)
(* no more than it has.                                                    *)
Stops ==
    \A d \in Dim :
        (\E j \in Jobs : Booking(j)'[d] > Booking(j)[d]) /\ unchecked' \subseteq unchecked
            => SumFunctionOnSet(Bookings(d)', Jobs) <= Total[d]

LEMMA BookingStops ==
    ASSUME LeaseTypeOK, LeaseTypeOK', NEW j \in Jobs, Books(j)
    PROVE  Stops
<1> SUFFICES ASSUME NEW d \in Dim, NEW k \in Jobs, Booking(k)'[d] > Booking(k)[d],
                    unchecked' \subseteq unchecked
             PROVE  SumFunctionOnSet(Bookings(d)', Jobs) <= Total[d]
  BY DEF Stops
<1>1. /\ Booking(k)[d] \in Nat /\ Booking(j)'[d] \in Nat /\ Zero[d] = 0
  BY AmountsNatural, AmountsNaturalNext
<1>2. k = j
  <2>1. k # j => Booking(k)' = Booking(k)
    BY DEF Books, Booking
  <2> QED
    BY <1>1, <2>1
<1>3. Fits(Booking(j)', Headroom(j))
  BY <1>1, <1>2 DEF Books
<1>4. Booking(j)'[d] # 0 /\ Booking(j)'[d] <= Headroom(j)[d]
  BY <1>1, <1>2, <1>3 DEF Fits
<1> QED
  BY <1>1, <1>4, HeadroomFacts, SumsChange

(* What one job gives back the chief's free counters gain.                 *)
LEMMA HoldingBalances ==
    ASSUME LeaseTypeOK, LeaseTypeOK', ChiefBalanced, NEW j \in Jobs,
           \A k \in Jobs \ {j} : local'[k] = local[k] /\ held'[k] = held[k],
           \A d \in Dim : free'[d] = free[d] + ChiefHolding(j)[d] - ChiefHolding(j)'[d]
    PROVE  ChiefBalanced'
<1> SUFFICES ASSUME NEW d \in Dim
             PROVE  free'[d] + SumFunctionOnSet(Holding(d)', Jobs) = Total[d]
  BY DEF ChiefBalanced, Holding
<1>1. \A k \in Jobs : k # j => Holding(d)[k] = Holding(d)'[k]
  <2>1. \A k \in Jobs : k # j => ChiefHolding(k)' = ChiefHolding(k)
    BY DEF ChiefHolding
  <2> QED
    BY <2>1, SumsTyped, SumsTypedNext
<1>2. SumFunctionOnSet(Holding(d)', Jobs) =
          SumFunctionOnSet(Holding(d), Jobs) + Holding(d)'[j] - Holding(d)[j]
  <2> DEFINE f == Holding(d)
             g == Holding(d)'
  <2>1. \A k \in Jobs : f[k] \in Int /\ g[k] \in Int
    BY SumsTyped, SumsTypedNext
  <2>2. (\A k \in Jobs : k # j => f[k] = g[k]) /\ IsFiniteSet(Jobs)
    BY <1>1, LeaseConstants
  <2> HIDE DEF f, g
  <2>3. SumFunctionOnSet(g, Jobs) = SumFunctionOnSet(f, Jobs) + g[j] - f[j]
    BY <2>1, <2>2, SumChange
  <2> QED
    BY <2>3 DEF f, g
<1>3. /\ SumFunctionOnSet(Holding(d), Jobs) \in Nat
      /\ Holding(d)[j] = ChiefHolding(j)[d] /\ Holding(d)'[j] = ChiefHolding(j)'[d]
      /\ ChiefHolding(j)[d] \in Nat /\ ChiefHolding(j)'[d] \in Nat /\ free[d] \in Nat
      /\ free[d] + SumFunctionOnSet(Holding(d), Jobs) = Total[d]
      /\ free'[d] = free[d] + ChiefHolding(j)[d] - ChiefHolding(j)'[d]
  BY SumsTyped, SumsTypedNext, AmountsNatural DEF ChiefBalanced, Holding
<1> QED
  BY <1>2, <1>3

(* A job holds no more than what is not free.                              *)
LEMMA HoldingWithin ==
    ASSUME LeaseTypeOK, ChiefBalanced, NEW j \in Jobs, NEW d \in Dim
    PROVE  free[d] + ChiefHolding(j)[d] <= Total[d]
<1>1. Holding(d)[j] <= SumFunctionOnSet(Holding(d), Jobs)
  BY SumsTyped, SumMember
<1>2. free[d] + SumFunctionOnSet(Holding(d), Jobs) = Total[d]
  BY DEF ChiefBalanced, Holding
<1>3. SumFunctionOnSet(Holding(d), Jobs) \in Nat /\ Holding(d)[j] = ChiefHolding(j)[d]
  BY SumsTyped
<1> QED
  BY <1>1, <1>2, <1>3, AmountsNatural

-----------------------------------------------------------------------------
(* The queue of growth requests.                                           *)

LEMMA QueueRests ==
    ASSUME WaitersQueued, UNCHANGED <<waiters, req, lease>>
    PROVE  WaitersQueued'
BY DEF WaitersQueued, Authentic, InQueue

(* A new token is none that a request carries.                             *)
LEMMA QueueOfNewLease ==
    ASSUME LeaseTypeOK, TokensDrawn, WaitersQueued, NEW j \in Jobs, Prepare(j),
           UNCHANGED <<waiters, req>>
    PROVE  WaitersQueued'
<1> SUFFICES ASSUME NEW q \in Requests, req[q].at = "waiting", Authentic(q)'
             PROVE  InQueue(q, waiters)
  BY DEF WaitersQueued, InQueue
<1>1. req[q] # Idle
  BY DEF Idle
<1>2. /\ req[q].job \in Jobs /\ req[q].token \in Nat
      /\ req[q].token <= issued[req[q].job] /\ issued[j] \in Nat
  BY <1>1, RequestFacts, LeaseConstants DEF TokensDrawn, LeaseTypeOK
<1>3. lease' = [lease EXCEPT ![j] = issued[j] + 1] /\ DOMAIN lease = Jobs
  BY DEF Prepare, LeaseTypeOK
<1>4. req[q].job # j
  BY <1>2, <1>3 DEF Authentic
<1>5. Authentic(q)
  BY <1>2, <1>3, <1>4 DEF Authentic
<1> QED
  BY <1>5 DEF WaitersQueued

(* The waiters of other jobs stay in the queue, and only waiters.          *)
LEMMA QueueOfDroppedLease ==
    ASSUME LeaseTypeOK, WaitersQueued, NEW j \in Jobs, DropLease(j), req' = req
    PROVE  waiters' \in Seq(Requests) /\ WaitersQueued' /\ WaitersWait'
<1> DEFINE S == {q \in Requests : req[q].at = "waiting" /\ req[q].job # j}
<1>1. /\ waiters' = Only(S, waiters) /\ waiters \in Seq(Requests)
      /\ lease' = [lease EXCEPT ![j] = 0] /\ DOMAIN lease = Jobs
  BY DEF DropLease, LeaseTypeOK
<1>2. /\ waiters' \in Seq(Requests)
      /\ \A q \in S : InQueue(q, waiters) => InQueue(q, waiters')
      /\ \A q : InQueue(q, waiters') => q \in S
  <2> HIDE DEF S
  <2> QED BY <1>1, OnlyKeeps DEF InQueue
<1>3. ASSUME NEW q \in Requests, req[q].at = "waiting", Authentic(q)'
      PROVE  InQueue(q, waiters')
  <2>1. req[q].job \in Jobs
    BY <1>3, RequestFacts DEF Idle
  <2>2. req[q].job # j /\ Authentic(q)
    BY <1>1, <1>3, <2>1 DEF Authentic
  <2>3. q \in S /\ InQueue(q, waiters)
    BY <1>3, <2>2 DEF WaitersQueued
  <2> QED
    BY <1>2, <2>3
<1>4. WaitersWait'
  BY <1>2 DEF WaitersWait, InQueue
<1> QED
  BY <1>2, <1>3, <1>4 DEF WaitersQueued, InQueue

-----------------------------------------------------------------------------
(* Initially.                                                              *)

LEMMA AtFirst == LeaseInit => BaseInv /\ RoomInv
<1> SUFFICES ASSUME LeaseInit PROVE BaseInv /\ RoomInv
  OBVIOUS
<1>1. LeaseTypeOK
  BY LeaseConstants DEF LeaseInit, LeaseTypeOK, WaitersWait, Places, Zero
<1>2. /\ TokensDrawn /\ StartedInFull /\ UncheckedBooked /\ CutWhenRecorded
      /\ BookingFollowsLease /\ FloorHeld
  BY <1>1 DEF LeaseInit, TokensDrawn, StartedInFull, UncheckedBooked, CutWhenRecorded,
              BookingFollowsLease, FloorHeld
<1>3. WaitersQueued
  BY DEF LeaseInit, WaitersQueued, Idle
<1>4. ReleasedOnce /\ HeldWithinMax
  BY LeaseConstants DEF LeaseInit, ReleasedOnce, HeldWithinMax, Fits, Zero
<1>5. ASSUME NEW d \in Dim
      PROVE  SumFunctionOnSet(Tests(d), Jobs) = 0 /\ SumFunctionOnSet(Holding(d), Jobs) = 0
  <2>1. \A j \in Jobs : Booking(j)[d] = 0 /\ ChiefHolding(j)[d] = 0
    BY <1>5 DEF LeaseInit, Booking, ChiefHolding, Zero
  <2>2. \A j \in Jobs : Tests(d)[j] = 0 /\ Holding(d)[j] = 0
    BY <2>1 DEF Tests, Holding
  <2> QED
    BY <2>2, SumZero, LeaseConstants
<1>6. \A d \in Dim : free[d] = Total[d] /\ Total[d] \in Nat
  BY LeaseConstants DEF LeaseInit
<1>7. \A d \in Dim : /\ SumFunctionOnSet(Tests(d), Jobs) <= Total[d]
                     /\ free[d] + SumFunctionOnSet(Holding(d), Jobs) = Total[d]
  BY <1>5, <1>6
<1>8. EngineNotOverbooked /\ ChiefBalanced
  BY <1>7 DEF EngineNotOverbooked, ChiefBalanced, Tests, Holding
<1> QED
  BY <1>1, <1>2, <1>3, <1>4, <1>8 DEF BaseInv, RoomInv

-----------------------------------------------------------------------------
(* The manager's tables.                                                   *)

States == {"QUEUED", "ASSIGNED", "RUNNING", "DONE"}
Tables ==
    /\ state \in [Jobs -> States] /\ booked \in [Jobs -> [Dim -> Nat]]
    /\ lost \in SUBSET Jobs /\ unchecked \in SUBSET Jobs

OthersStay(j) ==
    \A k \in Jobs \ {j} : /\ state'[k] = state[k] /\ booked'[k] = booked[k]
                           /\ (k \in lost' <=> k \in lost)
                           /\ (k \in unchecked' <=> k \in unchecked)

LEMMA BookFacts ==
    ASSUME LeaseTypeOK, NEW j \in Jobs, NEW s \in States, BookInFull(j, s),
           Checked(j) \/ Unchecked(j)
    PROVE  /\ Tables' /\ OthersStay(j) /\ state'[j] = s
           /\ booked'[j] = IF s = "RUNNING" THEN Max[j] ELSE Zero
<1>1. /\ state \in [Jobs -> States] /\ booked \in [Jobs -> [Dim -> Nat]]
      /\ lost \in SUBSET Jobs /\ unchecked \in SUBSET Jobs
      /\ Max[j] \in [Dim -> Nat] /\ Zero \in [Dim -> Nat]
  BY LeaseConstants DEF LeaseTypeOK, States, Zero
<1>2. unchecked' \in {unchecked \ {j}, unchecked \union {j}} /\ lost' = lost \ {j}
  BY DEF BookInFull, Checked, Unchecked
<1>3. /\ state' = [state EXCEPT ![j] = s]
      /\ booked' = [booked EXCEPT ![j] = IF s = "RUNNING" THEN Max[j] ELSE Zero]
  BY DEF BookInFull
<1>4. Tables'
  BY <1>1, <1>2, <1>3 DEF Tables
<1> QED
  BY <1>1, <1>2, <1>3, <1>4 DEF OthersStay

LEMMA UnbookFacts ==
    ASSUME LeaseTypeOK, NEW j \in Jobs, NEW s \in States, Unbook(j, s)
    PROVE  /\ Tables' /\ OthersStay(j) /\ state'[j] = s /\ booked'[j] = Zero
           /\ j \notin unchecked'
<1>1. /\ state \in [Jobs -> States] /\ booked \in [Jobs -> [Dim -> Nat]]
      /\ lost \in SUBSET Jobs /\ unchecked \in SUBSET Jobs /\ Zero \in [Dim -> Nat]
  BY DEF LeaseTypeOK, States, Zero
<1>2. /\ state' = [state EXCEPT ![j] = s] /\ booked' = [booked EXCEPT ![j] = Zero]
      /\ lost' = lost \ {j} /\ unchecked' = unchecked \ {j}
  BY DEF Unbook, Checked
<1>3. Tables'
  BY <1>1, <1>2 DEF Tables
<1> QED
  BY <1>1, <1>2, <1>3 DEF OthersStay

LEMMA NothingBooked ==
    ASSUME LeaseTypeOK, NEW j \in Jobs, UNCHANGED <<state, booked, lost, unchecked>>
    PROVE  Tables' /\ OthersStay(j) /\ Books(j)
BY DEF LeaseTypeOK, Tables, States, OthersStay, Books, Booking

-----------------------------------------------------------------------------
(* The steps of jobs.                                                      *)

(* Steps of the manager, and reports to it.                                *)
ManagerMoves(j) ==
    \/ UNCHANGED <<state, booked, lost, unchecked>>
    \/ state'[j] \in {"QUEUED", "DONE"} /\ booked'[j] = Zero /\ j \notin unchecked'
    \/ /\ state[j] = "QUEUED" /\ state'[j] = "ASSIGNED"
       /\ j \in unchecked' \/ Fits(Max[j], Headroom(j))
    \/ /\ state[j] \in {"QUEUED", "ASSIGNED"} /\ state'[j] = "RUNNING"
       /\ booked'[j] = Max[j] /\ j \in unchecked'

LEMMA ManagerFacts ==
    ASSUME LeaseTypeOK, NEW j \in Jobs,
           Grant(j) \/ MoveGrant(j) \/ Adopt(j) \/ LostGrant(j) \/ Report(j)
    PROVE  /\ UNCHANGED <<free, local, issued, lease, held, applied, observed>>
           /\ UNCHANGED <<waiters, req, registered, cut, sends>>
           /\ ended' \in SUBSET Jobs
           /\ Tables' /\ OthersStay(j) /\ ManagerMoves(j)
<1> USE DEF States
<1>0. ended \in SUBSET Jobs
  BY DEF LeaseTypeOK
<1>1. CASE Grant(j)
  <2>1. Checked(j) \/ Unchecked(j)
    BY <1>1 DEF Grant, Tested
  <2>2. Tables' /\ OthersStay(j) /\ state'[j] = "ASSIGNED"
    BY <1>1, <2>1, BookFacts DEF Grant
  <2>3. j \in unchecked' \/ Fits(Max[j], Headroom(j))
    BY <1>1 DEF Grant, Tested, Unchecked, Offers, HasHeadroom
  <2> QED
    BY <1>0, <1>1, <2>2, <2>3 DEF Grant, ManagerMoves, chiefVars, leaseVars, serverVars
<1>2. CASE MoveGrant(j) \/ LostGrant(j)
  <2>1. Unbook(j, "QUEUED")
    BY <1>2 DEF MoveGrant, LostGrant
  <2> QED
    BY <1>0, <1>2, <2>1, UnbookFacts
    DEF MoveGrant, LostGrant, ManagerMoves, chiefVars, leaseVars, serverVars
<1>3. CASE Adopt(j)
  <2>1. BookInFull(j, "RUNNING") /\ Unchecked(j)
    BY <1>3 DEF Adopt
  <2>2. Tables' /\ OthersStay(j) /\ state'[j] = "RUNNING" /\ booked'[j] = Max[j]
    BY <2>1, BookFacts
  <2> QED
    BY <1>0, <1>3, <2>1, <2>2
    DEF Adopt, Unchecked, ManagerMoves, chiefVars, leaseVars, serverVars
<1>4. CASE Report(j)
  <2>1. /\ UNCHANGED <<free, local, issued, lease, held, applied, observed>>
        /\ UNCHANGED <<waiters, req, registered, cut, sends>>
        /\ ended' \in SUBSET Jobs
    BY <1>0, <1>4 DEF Report, leaseVars, serverVars
  <2>2. CASE UNCHANGED <<state, booked, lost, unchecked>>
    BY <2>1, <2>2, NothingBooked DEF ManagerMoves
  <2>3. CASE \E t \in {"QUEUED", "DONE"} : Unbook(j, t)
    BY <2>1, <2>3, UnbookFacts DEF ManagerMoves
  <2> QED
    BY <1>4, <2>2, <2>3 DEF Report
<1> QED
  BY <1>1, <1>2, <1>3, <1>4

LEMMA ManagerBase ==
    ASSUME BaseInv, NEW j \in Jobs,
           Grant(j) \/ MoveGrant(j) \/ Adopt(j) \/ LostGrant(j) \/ Report(j)
    PROVE  BaseInv' /\ Books(j)
<1> USE DEF BaseInv
<1>0. /\ UNCHANGED <<free, local, issued, lease, held, applied, observed>>
      /\ UNCHANGED <<waiters, req, registered, cut, sends>>
      /\ ended' \in SUBSET Jobs
      /\ Tables' /\ OthersStay(j) /\ ManagerMoves(j)
  BY ManagerFacts
<1>1. LeaseTypeOK'
  BY <1>0 DEF LeaseTypeOK, WaitersWait, Tables, States
<1>2. Books(j)
  <2>1. CASE UNCHANGED <<state, booked, lost, unchecked>>
    BY <2>1, NothingBooked
  <2>2. CASE state'[j] \in {"QUEUED", "DONE"} /\ j \notin unchecked'
    BY <1>0, <2>2 DEF OthersStay, Books, Booking
  <2>3. CASE /\ state[j] = "QUEUED" /\ state'[j] = "ASSIGNED"
             /\ j \in unchecked' \/ Fits(Max[j], Headroom(j))
    BY <1>0, <2>3 DEF OthersStay, Books, Booking, UncheckedBooked
  <2>4. CASE /\ state[j] \in {"QUEUED", "ASSIGNED"} /\ state'[j] = "RUNNING"
             /\ booked'[j] = Max[j] /\ j \in unchecked'
    BY <1>0, <2>4 DEF OthersStay, Books, Booking, UncheckedBooked
  <2> QED
    BY <1>0, <2>1, <2>2, <2>3, <2>4 DEF ManagerMoves
<1>3. TokensDrawn' /\ HeldWithinMax'
  BY <1>0 DEF TokensDrawn, HeldWithinMax
<1>4. WaitersQueued' /\ CutWhenRecorded' /\ ReleasedOnce'
  BY <1>0, QueueRests DEF CutWhenRecorded, ReleasedOnce
<1>5. StartedInFull' /\ UncheckedBooked'
  BY <1>0, <1>1 DEF OthersStay, ManagerMoves, StartedInFull, UncheckedBooked, LeaseTypeOK
<1>6. BookingFollowsLease'
  <2> SUFFICES ASSUME NEW k \in Jobs, local[k] = "running", state'[k] = "RUNNING", k \notin lost'
               PROVE  IF k \in unchecked' THEN Fits(held[k], booked'[k])
                                          ELSE booked'[k] = held[k]
    BY <1>0 DEF BookingFollowsLease, Fits
  <2>1. CASE k # j \/ UNCHANGED <<state, booked, lost, unchecked>>
    BY <1>0, <2>1 DEF OthersStay, BookingFollowsLease
  <2>2. CASE k = j /\ booked'[j] = Max[j] /\ j \in unchecked'
    BY <2>2 DEF HeldWithinMax
  <2> QED
    BY <1>0, <2>1, <2>2 DEF ManagerMoves
<1>7. EngineNotOverbooked'
  BY <1>1, <1>2, BookingFits
<1> QED
  BY <1>1, <1>2, <1>3, <1>4, <1>5, <1>6, <1>7

(* A grant is acknowledged: the booking becomes or stays the full size.    *)
LEMMA StartFacts ==
    ASSUME LeaseTypeOK, StartedInFull, NEW j \in Jobs, StartGrant(j)
    PROVE  /\ Tables' /\ OthersStay(j) /\ Books(j)
           /\ state'[j] = "RUNNING" /\ local'[j] # "none" => booked'[j] = Max[j]
           /\ j \in unchecked' => j \in unchecked \/ state'[j] = "RUNNING"
           /\ state'[j] = state[j] \/ j \notin unchecked' \/ state'[j] = "RUNNING"
<1> USE DEF States
<1>1. CASE /\ state[j] = "ASSIGNED" /\ HasHeadroom(j, Max[j])
           /\ BookInFull(j, "RUNNING") /\ Tested(j)
  <2>1. /\ Tables' /\ OthersStay(j) /\ state'[j] = "RUNNING" /\ booked'[j] = Max[j]
    <3>1. Checked(j) \/ Unchecked(j)
      BY <1>1 DEF Tested
    <3> QED
      BY <1>1, <3>1, BookFacts
  <2>2. Booking(j)' = Max[j] /\ Booking(j) = Max[j]
    BY <1>1, <2>1 DEF Booking
  <2>3. Fits(Max[j], Headroom(j)) \/ j \in unchecked'
    BY <1>1 DEF Tested, HasHeadroom, Unchecked
  <2> QED
    BY <2>1, <2>2, <2>3 DEF Books, OthersStay
<1>2. CASE /\ UNCHANGED <<state, booked, lost, unchecked>>
           /\ local'[j] # "none" => local[j] = "kept" \/ state[j] = "ASSIGNED"
  BY <1>2, NothingBooked DEF StartedInFull
<1>3. CASE Unbook(j, "QUEUED")
  BY <1>3, UnbookFacts DEF Books, OthersStay, Booking
<1> QED
  BY <1>1, <1>2, <1>3 DEF StartGrant

LEMMA StartBase ==
    ASSUME BaseInv, NEW j \in Jobs, StartGrant(j)
    PROVE  BaseInv' /\ Books(j)
<1> USE DEF BaseInv
<1>t. /\ local \in [Jobs -> Places] /\ free \in [Dim -> Nat] /\ observed \in [Jobs -> Nat]
      /\ Max \in [Jobs -> [Dim -> Nat]]
  BY LeaseConstants DEF LeaseTypeOK
<1>0. /\ UNCHANGED <<issued, lease, held, applied, ended, waiters, req, registered, cut, sends>>
      /\ Claim(j) \/ KeepGrant(j) \/ Drop(j)
      /\ local[j] \in {"none", "kept"} /\ HasRoom(j)
  BY DEF StartGrant, leaseVars, serverVars
<1>1. /\ local' \in [Jobs -> Places] /\ local'[j] \in {"none", "kept", "pending"}
      /\ \A k \in Jobs \ {j} : local'[k] = local[k]
      /\ free' \in [Dim -> Nat] /\ observed' \in [Jobs -> Nat]
  <2>1. CASE Claim(j)
    <3>1. \A d \in Dim : free[d] - Max[j][d] \in Nat
      BY <1>t, <1>0 DEF HasRoom, Fits
    <3> QED
      BY <1>t, <2>1, <3>1 DEF Claim, Minus, Places
  <2>2. CASE KeepGrant(j) \/ Drop(j)
    BY <1>t, <2>2 DEF KeepGrant, Drop, Places
  <2> QED
    BY <1>0, <2>1, <2>2
<1>2. /\ Tables' /\ OthersStay(j) /\ Books(j)
      /\ state'[j] = "RUNNING" /\ local'[j] # "none" => booked'[j] = Max[j]
      /\ j \in unchecked' => j \in unchecked \/ state'[j] = "RUNNING"
      /\ state'[j] = state[j] \/ j \notin unchecked' \/ state'[j] = "RUNNING"
  BY StartFacts
<1>3. LeaseTypeOK'
  BY <1>0, <1>1, <1>2 DEF LeaseTypeOK, WaitersWait, Tables, States
<1>4. TokensDrawn' /\ HeldWithinMax'
  <2>1. \A q \in Requests : req[q] # Idle => req[q].job \in Jobs
    BY RequestFacts
  <2> QED
    BY <1>0, <1>1, <2>1 DEF TokensDrawn, HeldWithinMax
<1>5. WaitersQueued' /\ CutWhenRecorded' /\ ReleasedOnce'
  BY <1>0, QueueRests DEF CutWhenRecorded, ReleasedOnce
<1>6. StartedInFull'
  BY <1>1, <1>2 DEF StartedInFull, OthersStay
<1>7. UncheckedBooked'
  BY <1>2, <1>3 DEF UncheckedBooked, OthersStay, LeaseTypeOK
<1>8. BookingFollowsLease'
  BY <1>0, <1>1, <1>2 DEF BookingFollowsLease, OthersStay
<1>9. EngineNotOverbooked'
  BY <1>2, <1>3, BookingFits
<1> QED
  BY <1>2, <1>3, <1>4, <1>5, <1>6, <1>7, <1>8, <1>9

(* The engine's record goes, and with it everything booked, or it returns. *)
LEMMA EngineBase ==
    ASSUME BaseInv, RemoveEngine \/ Reregister
    PROVE  BaseInv' /\ Stops
<1> USE DEF BaseInv
<1>0. /\ UNCHANGED <<free, local, issued, lease, held, applied, observed, ended>>
      /\ UNCHANGED <<waiters, req, cut, sends>>
  BY DEF RemoveEngine, Reregister, chiefVars, leaseVars, serverVars
<1>1. TokensDrawn' /\ HeldWithinMax' /\ WaitersQueued' /\ CutWhenRecorded' /\ ReleasedOnce'
  BY <1>0, QueueRests DEF TokensDrawn, HeldWithinMax, CutWhenRecorded, ReleasedOnce
<1>2. CASE RemoveEngine
  <2>1. /\ state' = [j \in Jobs |-> IF state[j] = "DONE" THEN "DONE" ELSE "QUEUED"]
        /\ booked' = [j \in Jobs |-> Zero] /\ lost' = {} /\ unchecked' = {}
        /\ registered' = FALSE /\ Zero \in [Dim -> Nat]
    BY <1>2 DEF RemoveEngine, Zero
  <2>2. LeaseTypeOK'
    BY <1>0, <2>1 DEF LeaseTypeOK, WaitersWait
  <2>3. StartedInFull' /\ UncheckedBooked' /\ BookingFollowsLease'
    BY <2>1 DEF StartedInFull, UncheckedBooked, BookingFollowsLease
  <2>4. \A j \in Jobs : Booking(j)' = Zero
    BY <2>1 DEF Booking
  <2>5. EngineNotOverbooked'
    <3> SUFFICES ASSUME NEW d \in Dim PROVE SumFunctionOnSet(Tests(d)', Jobs) <= Total[d]
      BY DEF EngineNotOverbooked, Tests
    <3>1. \A j \in Jobs : Tests(d)'[j] = 0
      BY <2>4 DEF Tests, Zero
    <3>2. SumFunctionOnSet(Tests(d)', Jobs) = 0
      BY <3>1, SumZero, LeaseConstants
    <3> QED
      BY <3>2, LeaseConstants
  <2>6. Stops
    BY <2>4, AmountsNatural DEF Stops, Zero
  <2> QED
    BY <1>1, <2>2, <2>3, <2>5, <2>6
<1>3. CASE Reregister
  <2>1. UNCHANGED <<state, booked, lost, unchecked>> /\ registered' = TRUE
    BY <1>3 DEF Reregister
  <2>2. LeaseTypeOK'
    BY <1>0, <2>1 DEF LeaseTypeOK, WaitersWait
  <2>3. /\ StartedInFull' /\ UncheckedBooked' /\ BookingFollowsLease'
        /\ EngineNotOverbooked'
    BY <1>0, <2>1
    DEF StartedInFull, UncheckedBooked, BookingFollowsLease, EngineNotOverbooked, Booking
  <2>4. Stops
    <3>1. \A j \in Jobs : Booking(j)' = Booking(j)
      BY <2>1 DEF Booking
    <3> QED
      BY <3>1, AmountsNatural DEF Stops
  <2> QED
    BY <1>1, <2>2, <2>3, <2>4
<1> QED
  BY <1>2, <1>3

(* Steps that touch neither a lease nor the manager.                       *)
LEMMA LocalBase ==
    ASSUME BaseInv, NEW j \in Jobs,
           Deassign(j) \/ CancelStart(j) \/ \E m \in Usages : UseMemory(j, m)
    PROVE  BaseInv' /\ UNCHANGED <<state, booked>>
<1> USE DEF BaseInv
<1>t. /\ local \in [Jobs -> Places] /\ free \in [Dim -> Nat] /\ observed \in [Jobs -> Nat]
      /\ Max \in [Jobs -> [Dim -> Nat]] /\ Usages \subseteq Nat /\ ended \in SUBSET Jobs
  BY LeaseConstants DEF LeaseTypeOK
<1>0. /\ UNCHANGED <<issued, lease, held, applied, waiters, req>>
      /\ UNCHANGED <<registered, state, booked, lost, unchecked, cut, sends>>
      /\ \A k \in Jobs \ {j} : local'[k] = local[k]
      /\ local'[j] = local[j] \/ (local[j] \in {"kept", "pending"} /\ local'[j] = "none")
  BY <1>t DEF Deassign, Drop, CancelStart, UseMemory, leaseVars, serverVars, managerVars
<1>1. LeaseTypeOK'
  <2>1. /\ free' \in [Dim -> Nat] /\ local' \in [Jobs -> Places]
        /\ observed' \in [Jobs -> Nat] /\ ended' \in SUBSET Jobs
    <3>1. CASE CancelStart(j)
      <4>1. \A d \in Dim : free[d] + Max[j][d] \in Nat
        BY <1>t
      <4> QED
        BY <1>t, <3>1, <4>1 DEF CancelStart, Plus, Places
    <3>2. CASE \E m \in Usages : UseMemory(j, m)
      BY <1>t, <3>2 DEF UseMemory
    <3>3. CASE Deassign(j)
      BY <1>t, <3>3 DEF Deassign, Drop, Places
    <3> QED
      BY <3>1, <3>2, <3>3
  <2> QED
    BY <1>0, <2>1 DEF LeaseTypeOK, WaitersWait
<1>3. TokensDrawn' /\ HeldWithinMax' /\ UncheckedBooked'
  <2>1. \A q \in Requests : req[q] # Idle => req[q].job \in Jobs
    BY RequestFacts
  <2> QED
    BY <1>0, <2>1 DEF TokensDrawn, HeldWithinMax, UncheckedBooked
<1>4. WaitersQueued' /\ CutWhenRecorded' /\ ReleasedOnce'
  BY <1>0, QueueRests DEF CutWhenRecorded, ReleasedOnce
<1>5. StartedInFull' /\ BookingFollowsLease'
  BY <1>0 DEF StartedInFull, BookingFollowsLease
<1>6. EngineNotOverbooked'
  BY <1>0 DEF EngineNotOverbooked, Booking
<1> QED
  BY <1>0, <1>1, <1>3, <1>4, <1>5, <1>6

(* A lease is prepared, with a new token and at full size.                 *)
LEMMA PrepareBase ==
    ASSUME BaseInv, NEW j \in Jobs, Spawn(j) \/ SpawnFails(j)
    PROVE  BaseInv' /\ UNCHANGED <<state, booked>>
<1> USE DEF BaseInv
<1>t. /\ local \in [Jobs -> Places]
      /\ issued \in [Jobs -> Nat] /\ lease \in [Jobs -> Nat]
      /\ held \in [Jobs -> [Dim -> Nat]] /\ applied \in [Jobs -> SUBSET Releases]
      /\ cut \in [Jobs -> [Releases -> [Dim -> Int]]] /\ Zero \in [Dim -> Int]
      /\ Max \in [Jobs -> [Dim -> Nat]]
      /\ \A q \in Requests : req[q] # Idle => req[q].job \in Jobs /\ req[q].token \in Nat
  BY LeaseConstants, RequestFacts DEF LeaseTypeOK, Zero
<1>0. /\ UNCHANGED <<free, observed, ended, waiters, req, cut, sends>>
      /\ UNCHANGED <<registered, state, booked, lost, unchecked>>
      /\ \A k \in Jobs \ {j} : /\ local'[k] = local[k] /\ issued'[k] = issued[k]
                               /\ lease'[k] = lease[k] /\ held'[k] = held[k]
                               /\ applied'[k] = applied[k]
      /\ local[j] = "pending" /\ local'[j] \in {"running", "prepared"}
      /\ issued'[j] = issued[j] + 1 /\ lease'[j] = issued[j] + 1 /\ held'[j] = Max[j]
      /\ lease[j] = 0
  BY <1>t DEF Spawn, SpawnFails, Prepare, serverVars, managerVars
<1>1. LeaseTypeOK'
  <2>1. local' \in [Jobs -> Places]
    BY <1>t DEF Spawn, SpawnFails, Places
  <2>2. /\ issued' \in [Jobs -> Nat] /\ lease' \in [Jobs -> Nat]
        /\ held' \in [Jobs -> [Dim -> Nat]] /\ applied' \in [Jobs -> SUBSET Releases]
    <3>1. Prepare(j) /\ issued[j] + 1 \in Nat
      BY <1>t DEF Spawn, SpawnFails
    <3> QED
      BY <1>t, <3>1 DEF Prepare
  <2> QED
    BY <1>0, <2>1, <2>2 DEF LeaseTypeOK, WaitersWait
<1>3. TokensDrawn'
  <2>1. \A k \in Jobs : lease'[k] <= issued'[k]
                        /\ (lease'[k] # 0 <=> local'[k] \in {"prepared", "running"})
    <3>1. issued[j] \in Nat /\ issued[j] + 1 # 0
      BY <1>t
    <3>2. lease'[j] <= issued'[j] /\ lease'[j] # 0 /\ local'[j] \in {"prepared", "running"}
      BY <1>0, <3>1
    <3> QED
      BY <1>0, <3>2 DEF TokensDrawn
  <2>2. ASSUME NEW q \in Requests, req[q] # Idle
        PROVE  /\ req[q].token <= issued'[req[q].job]
               /\ local'[req[q].job] = "prepared" => req[q].token # lease'[req[q].job]
    <3>1. req[q].token <= issued[req[q].job]
      BY <2>2 DEF TokensDrawn
    <3>2. CASE req[q].job = j
      BY <1>t, <1>0, <2>2, <3>1, <3>2
    <3>3. CASE req[q].job # j
      BY <1>t, <1>0, <2>2, <3>1, <3>3 DEF TokensDrawn
    <3> QED
      BY <3>2, <3>3
  <2> QED
    BY <1>0, <2>1, <2>2 DEF TokensDrawn
<1>4. WaitersQueued'
  BY <1>0, QueueOfNewLease DEF Spawn, SpawnFails
<1>5. CutWhenRecorded'
  BY <1>0 DEF CutWhenRecorded
<1>6. ReleasedOnce' /\ UncheckedBooked'
  BY <1>0 DEF ReleasedOnce, UncheckedBooked
<1>7. StartedInFull' /\ HeldWithinMax' /\ BookingFollowsLease'
  <2>1. Fits(Max[j], Max[j])
    BY <1>t, AmountsNatural DEF Fits
  <2> QED
    BY <1>0, <2>1 DEF StartedInFull, HeldWithinMax, BookingFollowsLease
<1>8. EngineNotOverbooked'
  BY <1>0 DEF EngineNotOverbooked, Booking
<1> QED
  BY <1>0, <1>1, <1>3, <1>4, <1>5, <1>6, <1>7, <1>8

(* A lease is dropped, and its waiters with it.                            *)
LEMMA DropBase ==
    ASSUME BaseInv, NEW j \in Jobs, DiscardPrepared(j) \/ ChildExits(j)
    PROVE  BaseInv' /\ UNCHANGED <<state, booked>>
<1> USE DEF BaseInv
<1>t. /\ local \in [Jobs -> Places] /\ free \in [Dim -> Nat] /\ observed \in [Jobs -> Nat]
      /\ lease \in [Jobs -> Nat] /\ issued \in [Jobs -> Nat] /\ ended \in SUBSET Jobs
      /\ held \in [Jobs -> [Dim -> Nat]] /\ applied \in [Jobs -> SUBSET Releases]
      /\ Zero \in [Dim -> Nat] /\ cut \in [Jobs -> [Releases -> [Dim -> Int]]]
      /\ \A q \in Requests : req[q] # Idle => req[q].job \in Jobs
  BY LeaseConstants, RequestFacts DEF LeaseTypeOK, Zero
<1>0. /\ UNCHANGED <<issued, req, registered, state, booked, lost, unchecked, sends>>
      /\ DropLease(j)
      /\ \A k \in Jobs \ {j} : local'[k] = local[k]
      /\ \/ local[j] = "prepared" /\ local'[j] = "pending"
         \/ local[j] = "running" /\ local'[j] = "none"
  BY <1>t DEF DiscardPrepared, ChildExits, FinishJob, managerVars
<1>1. /\ \A k \in Jobs \ {j} : /\ lease'[k] = lease[k] /\ held'[k] = held[k]
                               /\ applied'[k] = applied[k] /\ cut'[k] = cut[k]
      /\ lease'[j] = 0 /\ held'[j] = Zero /\ \A r \in Releases : cut'[j][r] = Zero
      /\ cut' \in [Jobs -> [Releases -> [Dim -> Int]]]
      /\ lease' \in [Jobs -> Nat]
      /\ held' \in [Jobs -> [Dim -> Nat]] /\ applied' \in [Jobs -> SUBSET Releases]
  BY <1>t, <1>0 DEF DropLease
<1>2. waiters' \in Seq(Requests) /\ WaitersQueued' /\ WaitersWait'
  BY <1>0, QueueOfDroppedLease
<1>3. LeaseTypeOK'
  <2>1. local' \in [Jobs -> Places] /\ observed' \in [Jobs -> Nat] /\ ended' \in SUBSET Jobs
    <3>1. CASE DiscardPrepared(j)
      BY <1>t, <3>1 DEF DiscardPrepared, Places
    <3>2. CASE ChildExits(j)
      BY <1>t, <3>2 DEF ChildExits, Places
    <3> QED
      BY <3>1, <3>2
  <2>2. free' \in [Dim -> Nat]
    <3>1. CASE DiscardPrepared(j)
      BY <1>t, <3>1 DEF DiscardPrepared
    <3>2. CASE ChildExits(j)
      <4>1. \A d \in Dim : Clamp(free[d] + held[j][d], d) \in Nat
        BY <1>t, ClampFacts, LeaseConstants
      <4> QED
        BY <3>2, <4>1 DEF ChildExits, FinishJob
    <3> QED
      BY <3>1, <3>2
  <2> QED
    BY <1>0, <1>1, <1>2, <2>1, <2>2 DEF LeaseTypeOK
<1>4. TokensDrawn'
  <2>1. \A k \in Jobs : lease'[k] <= issued'[k]
                        /\ (lease'[k] # 0 <=> local'[k] \in {"prepared", "running"})
    <3>1. /\ lease'[j] <= issued'[j] /\ lease'[j] = 0
          /\ local'[j] \notin {"prepared", "running"}
      BY <1>t, <1>0, <1>1
    <3> QED
      BY <1>0, <1>1, <3>1 DEF TokensDrawn
  <2> QED
    BY <1>t, <1>0, <1>1, <2>1 DEF TokensDrawn
<1>5. CutWhenRecorded' /\ ReleasedOnce' /\ HeldWithinMax' /\ UncheckedBooked'
  <2>1. /\ Fits(Zero, Max[j]) /\ \A r \in Releases : Fits(Zero, Amount[r])
    BY LeaseConstants DEF Fits, Zero
  <2>2. CutWhenRecorded'
    <3> SUFFICES ASSUME NEW k \in Jobs, NEW r \in Releases, r \notin applied'[k] \/ lease'[k] = 0
                 PROVE  cut'[k][r] = Zero
      BY DEF CutWhenRecorded
    <3>1. CASE k = j
      BY <1>1, <3>1
    <3>2. CASE k # j
      BY <1>1, <3>2 DEF CutWhenRecorded
    <3> QED
      BY <3>1, <3>2
  <2>3. ReleasedOnce'
    BY <1>1, <2>1 DEF ReleasedOnce
  <2>4. HeldWithinMax'
    BY <1>1, <2>1 DEF HeldWithinMax
  <2> QED
    BY <1>0, <2>2, <2>3, <2>4 DEF UncheckedBooked
<1>6. StartedInFull' /\ BookingFollowsLease'
  <2>1. CASE DiscardPrepared(j)
    BY <1>0, <1>1, <2>1 DEF StartedInFull, BookingFollowsLease
  <2>2. CASE ChildExits(j)
    BY <1>0, <1>1, <2>2 DEF StartedInFull, BookingFollowsLease, ChildExits
  <2> QED
    BY <2>1, <2>2
<1>7. EngineNotOverbooked'
  BY <1>0 DEF EngineNotOverbooked, Booking
<1> QED
  BY <1>0, <1>2, <1>3, <1>4, <1>5, <1>6, <1>7

-----------------------------------------------------------------------------
(* The steps of requests.                                                  *)

LEMMA SendBase ==
    ASSUME BaseInv, NEW q \in Requests, NEW j \in Jobs,
           NEW goal \in Goals \union {AsHeld}, NEW release \in Releases \union {NoRelease},
           Send(q, j, goal, release)
    PROVE  BaseInv' /\ UNCHANGED <<state, booked>>
<1> USE DEF BaseInv
<1> DEFINE new == [at |-> "sent", job |-> j, token |-> lease[j],
                   goal |-> goal, release |-> release]
<1>t. /\ req \in [Requests -> RequestRecords \union {Idle}] /\ sends \in 0..MaxSends
      /\ MaxSends \in Nat /\ lease \in [Jobs -> Nat]
  BY LeaseConstants DEF LeaseTypeOK
<1>0. /\ UNCHANGED <<chiefVars, waiters, managerVars, cut>> /\ req[q] = Idle
      /\ req' = [req EXCEPT ![q] = new] /\ sends' = sends + 1 /\ sends < MaxSends
      /\ local[j] = "running"
  BY DEF Send
<1>1. /\ UNCHANGED <<free, local, issued, lease, held, applied, observed, ended, waiters>>
      /\ UNCHANGED <<registered, state, booked, lost, unchecked, cut>>
      /\ \A p \in Requests \ {q} : req'[p] = req[p]
      /\ req'[q] = new
  BY <1>t, <1>0 DEF chiefVars, leaseVars, managerVars
<1>2. lease[j] \in Nat \ {0} /\ lease[j] <= issued[j]
  BY <1>t, <1>0 DEF TokensDrawn
<1>3. LeaseTypeOK'
  <2>1. new \in RequestRecords
    BY <1>2 DEF RequestRecords
  <2>2. req' \in [Requests -> RequestRecords \union {Idle}] /\ sends' \in 0..MaxSends
    BY <1>t, <1>0, <2>1
  <2>3. WaitersWait'
    <3>1. \A i \in DOMAIN waiters : waiters[i] \in Requests \ {q}
      BY <1>0 DEF LeaseTypeOK, WaitersWait, Idle
    <3> QED
      BY <1>1, <3>1 DEF LeaseTypeOK, WaitersWait
  <2> QED
    BY <1>1, <2>2, <2>3 DEF LeaseTypeOK
<1>4. TokensDrawn'
  <2>1. /\ new.token <= issued[new.job]
        /\ local[new.job] = "prepared" => new.token # lease[new.job]
    BY <1>0, <1>2
  <2> HIDE DEF new
  <2> QED
    BY <1>1, <2>1 DEF TokensDrawn
<1>5. WaitersQueued'
  <2>1. new.at # "waiting"
    OBVIOUS
  <2> HIDE DEF new
  <2> QED
    BY <1>1, <2>1 DEF WaitersQueued, Authentic, InQueue
<1>6. /\ StartedInFull' /\ HeldWithinMax' /\ UncheckedBooked' /\ CutWhenRecorded'
      /\ BookingFollowsLease' /\ ReleasedOnce'
  BY <1>1 DEF StartedInFull, HeldWithinMax, UncheckedBooked, CutWhenRecorded,
              BookingFollowsLease, ReleasedOnce
<1>7. EngineNotOverbooked'
  BY <1>1 DEF EngineNotOverbooked, Booking
<1> QED
  BY <1>1, <1>3, <1>4, <1>5, <1>6, <1>7

(* What a request thread does to the ledgers: nothing, or the manager      *)
(* agrees to a target, of which the chief hears or not.                    *)
Agreed(j, t) ==
    /\ Booked(j, t)
    /\ \/ Resized(j, t) /\ lost' = lost \ {j}
       \/ UNCHANGED <<free, held>> /\ lost' = lost \union {j}

Room(j, t) == Fits(Delta(held[j], t), free)

Moves(q) ==
    \/ UNCHANGED <<free, held, booked, lost, unchecked>>
    \/ /\ Authentic(q)
       /\ \E t \in [Dim -> Nat] :
             /\ Fits(Floor(req[q].job), t) /\ Agreed(req[q].job, t)
             /\ FloorHeld => Room(req[q].job, t)

(* To the release ids: nothing, or a new one is recorded.                  *)
Records(q) ==
    \/ UNCHANGED <<applied, cut>>
    \/ /\ Authentic(q) /\ req[q].release \in Releases \ applied[req[q].job]
       /\ RecordsRelease(req[q].job, req[q].release)
       /\ Fits(Minus(held[req[q].job], held'[req[q].job]), Amount[req[q].release])

(* To the queue: the request is answered, or it waits in it.               *)
Queues(q) ==
    \/ \E queue \in {waiters, Append(waiters, q)} : Answer(q, queue)
    \/ /\ waiters' \in {waiters, Append(waiters, q)} /\ InQueue(q, waiters')
       /\ req' = [req EXCEPT ![q].at = "waiting"]

Serves(q) == Moves(q) /\ Records(q) /\ Queues(q) /\ UNCHANGED requestFrame

(* A request with the token of a lease is for a job that runs.             *)
LEMMA ServedRuns ==
    ASSUME LeaseTypeOK, TokensDrawn, NEW q \in Requests, req[q] # Idle, Authentic(q)
    PROVE  req[q].job \in Jobs /\ local[req[q].job] = "running"
BY RequestFacts DEF TokensDrawn, Authentic

LEMMA PassServes ==
    ASSUME LeaseTypeOK, NEW q \in Requests, req[q] # Idle,
           NEW queue \in {waiters, Append(waiters, q)}, Pass(q, queue), UNCHANGED requestFrame
    PROVE  Serves(q)
<1> DEFINE j == req[q].job
<1>1. /\ Target(q) \in [Dim -> Nat] /\ Fits(Floor(j), Target(q))
  BY RequestFacts, TargetFacts DEF Target
<1>2. Queues(q) /\ UNCHANGED <<applied, cut>>
  BY DEF Pass, Queues, Refused, ChiefUnchanged, AnswerLost
<1>3. Moves(q)
  <2>1. CASE Refused
    BY <2>1 DEF Moves, Refused, ChiefUnchanged
  <2>2. CASE Authentic(q) /\ CapacityReady(q) /\ ManagerAgrees(j, Target(q)) /\ Resized(j, Target(q))
    <3>1. Agreed(j, Target(q)) /\ Room(j, Target(q))
      BY <2>2 DEF ManagerAgrees, Agreed, Room, CapacityReady
    <3> QED
      BY <1>1, <2>2, <3>1 DEF Moves
  <2>3. CASE Authentic(q) /\ CapacityReady(q) /\ AnswerLost(j, Target(q))
    <3>1. Agreed(j, Target(q)) /\ Room(j, Target(q))
      BY <2>3 DEF AnswerLost, ChiefUnchanged, Agreed, Room, CapacityReady
    <3> QED
      BY <1>1, <2>3, <3>1 DEF Moves
  <2> QED
    BY <2>1, <2>2, <2>3 DEF Pass
<1> QED
  BY <1>2, <1>3 DEF Serves, Records

(* A request that must wait is in the queue: one that needs no growth has  *)
(* the capacity, so it can only be waiting for its turn.                   *)
LEMMA WaitsInQueue ==
    ASSUME LeaseTypeOK, NEW q \in Requests, req[q] # Idle,
           NEW queue, queue = IF NeedsGrowth(q) THEN Append(waiters, q) ELSE waiters,
           MustWait(q, queue)
    PROVE  InQueue(q, queue)
<1>1. CASE NeedsGrowth(q)
  <2>1. waiters \in Seq(Requests) /\ queue = Append(waiters, q)
    BY <1>1 DEF LeaseTypeOK
  <2>2. Len(waiters) + 1 \in DOMAIN queue /\ queue[Len(waiters) + 1] = q
    BY <2>1
  <2> QED
    BY <2>2 DEF InQueue
<1>2. CASE ~NeedsGrowth(q)
  <2> DEFINE h == held[req[q].job]
  <2>1. /\ Target(q) \in [Dim -> Nat] /\ h \in [Dim -> Nat] /\ free \in [Dim -> Nat]
    BY RequestFacts, TargetFacts DEF Target, LeaseTypeOK
  <2>2. \A d \in Dim : Delta(h, Target(q))[d] = 0
    <3>1. \A d \in Dim : Target(q)[d] <= h[d]
      BY <1>2 DEF NeedsGrowth, Fits
    <3> QED
      BY <2>1, <3>1 DEF Delta, Greatest
  <2>3. CapacityReady(q) /\ ~MemoryShort(q)
    BY <2>1, <2>2 DEF CapacityReady, MemoryShort, Fits, Dim
  <2> QED
    BY <1>2, <2>3 DEF MustWait, MyTurn, InQueue
<1> QED
  BY <1>1, <1>2

LEMMA ReleaseServes ==
    ASSUME LeaseTypeOK, TokensDrawn, NEW q \in Requests, req[q] # Idle, ReleaseResources(q)
    PROVE  Serves(q)
<1> DEFINE j == req[q].job
           r == req[q].release
           t == ReleaseTarget(q)
<1>1. /\ Authentic(q) /\ r # NoRelease /\ j \in Jobs /\ r \in Releases
      /\ local[j] = "running" /\ Answer(q, waiters) /\ UNCHANGED requestFrame
  BY ServedRuns, RequestFacts DEF ReleaseResources
<1>2. /\ t \in [Dim -> Nat] /\ Fits(Floor(j), t) /\ Fits(Minus(held[j], t), Amount[r])
      /\ Fits(Floor(j), held[j]) => Fits(t, held[j])
  BY <1>1, ReleaseFacts
<1>3. FloorHeld => Room(j, t)
  <2> SUFFICES ASSUME FloorHeld PROVE Room(j, t)
    OBVIOUS
  <2>1. \A d \in Dim : t[d] <= held[j][d]
    BY <1>1, <1>2 DEF FloorHeld, Fits
  <2>2. held[j] \in [Dim -> Nat] /\ free \in [Dim -> Nat]
    BY <1>1 DEF LeaseTypeOK
  <2> HIDE DEF t, j
  <2> QED
    BY <1>2, <2>1, <2>2 DEF Room, Fits, Delta, Greatest
<1>4. Queues(q)
  BY <1>1 DEF Queues
<1>5. CASE Refused
  BY <1>1, <1>4, <1>5 DEF Serves, Moves, Records, Refused, ChiefUnchanged
<1>6. CASE r \notin applied[j] /\ t = held[j]
           /\ UNCHANGED <<free, held, booked, lost, unchecked>>
           /\ RecordsRelease(j, r)
  <2>1. Fits(Minus(held[j], held'[j]), Amount[r])
    BY <1>2, <1>6
  <2> QED
    BY <1>1, <1>4, <1>6, <2>1 DEF Serves, Moves, Records
<1>7. CASE r \notin applied[j] /\ ManagerAgrees(j, t) /\ Resized(j, t) /\ RecordsRelease(j, r)
  <2>1. held'[j] = t
    BY <1>1, <1>7 DEF Resized, LeaseTypeOK
  <2>2. Agreed(j, t)
    BY <1>7 DEF ManagerAgrees, Agreed
  <2> QED
    BY <1>1, <1>2, <1>3, <1>4, <1>7, <2>1, <2>2 DEF Serves, Moves, Records
<1>8. CASE AnswerLost(j, t)
  <2>1. Agreed(j, t) /\ UNCHANGED <<applied, cut>>
    BY <1>8 DEF AnswerLost, ChiefUnchanged, Agreed
  <2> QED
    BY <1>1, <1>2, <1>3, <1>4, <2>1 DEF Serves, Moves, Records
<1> QED
  BY <1>5, <1>6, <1>7, <1>8 DEF ReleaseResources

LEMMA ServerServes ==
    ASSUME LeaseTypeOK, TokensDrawn, NEW q \in Requests, req[q] # Idle,
           Deny(q) \/ SetTarget(q) \/ Recheck(q) \/ Expire(q) \/ ReleaseResources(q)
    PROVE  Serves(q)
<1>1. CASE Deny(q) \/ Expire(q)
  BY <1>1 DEF Deny, Expire, Serves, Moves, Records, Queues, Refused, ChiefUnchanged
<1>2. CASE Recheck(q)
  BY <1>2, PassServes DEF Recheck
<1>3. CASE ReleaseResources(q)
  BY <1>3, ReleaseServes
<1>4. CASE SetTarget(q)
  <2> DEFINE queue == IF NeedsGrowth(q) THEN Append(waiters, q) ELSE waiters
  <2>1. queue \in {waiters, Append(waiters, q)} /\ UNCHANGED requestFrame
    BY <1>4 DEF SetTarget
  <2>2. CASE Pass(q, queue)
    <3> HIDE DEF queue
    <3> QED BY <2>1, <2>2, PassServes
  <2>3. CASE /\ MustWait(q, queue) /\ waiters' = queue
             /\ req' = [req EXCEPT ![q].at = "waiting"] /\ Refused
    <3>1. InQueue(q, queue)
      BY <2>3, WaitsInQueue
    <3> HIDE DEF queue
    <3> QED
      BY <2>1, <2>3, <3>1 DEF Serves, Moves, Records, Queues, Refused, ChiefUnchanged
  <2> QED
    BY <1>4, <2>2, <2>3 DEF SetTarget
<1> QED
  BY <1>1, <1>2, <1>3, <1>4

(* What the ledgers, the release ids and the queue keep of it.             *)
LEMMA ServerTables ==
    ASSUME BaseInv, NEW q \in Requests, req[q] # Idle, Moves(q), UNCHANGED requestFrame,
           NEW j \in Jobs, j = req[q].job
    PROVE  /\ free' \in [Dim -> Nat] /\ held' \in [Jobs -> [Dim -> Nat]]
           /\ booked' \in [Jobs -> [Dim -> Nat]] /\ lost' \in SUBSET Jobs
           /\ unchecked' \in SUBSET Jobs /\ Books(j)
           /\ StartedInFull' /\ HeldWithinMax' /\ UncheckedBooked' /\ BookingFollowsLease'
<1> USE DEF BaseInv
<1>t. /\ free \in [Dim -> Nat] /\ held \in [Jobs -> [Dim -> Nat]]
      /\ booked \in [Jobs -> [Dim -> Nat]] /\ lost \in SUBSET Jobs
      /\ unchecked \in SUBSET Jobs
  BY DEF LeaseTypeOK
<1>0. state' = state /\ local' = local
  BY DEF requestFrame
<1>1. CASE UNCHANGED <<free, held, booked, lost, unchecked>>
  BY <1>t, <1>0, <1>1, NothingBooked
  DEF StartedInFull, HeldWithinMax, UncheckedBooked, BookingFollowsLease
<1>2. ASSUME NEW t \in [Dim -> Nat], Authentic(q), Agreed(j, t)
      PROVE  /\ free' \in [Dim -> Nat] /\ held' \in [Jobs -> [Dim -> Nat]]
             /\ booked' \in [Jobs -> [Dim -> Nat]] /\ lost' \in SUBSET Jobs
             /\ unchecked' \in SUBSET Jobs /\ Books(j)
             /\ StartedInFull' /\ HeldWithinMax' /\ UncheckedBooked' /\ BookingFollowsLease'
  <2>1. local[j] = "running" /\ state[j] = "RUNNING"
    BY <1>2, ServedRuns DEF Agreed, Booked, Accepts
  <2>2. /\ booked' = [booked EXCEPT ![j] = t] /\ Fits(t, Max[j])
        /\ unchecked' = IF t = booked[j] THEN unchecked ELSE unchecked \ {j}
    BY <1>2 DEF Agreed, Booked, Accepts
  <2>3. free' \in [Dim -> Nat] /\ (held' = held \/ held' = [held EXCEPT ![j] = t])
    <3>1. CASE UNCHANGED <<free, held>>
      BY <1>t, <3>1
    <3>2. CASE Resized(j, t)
      <4>1. \A d \in Dim : Clamp(free[d] + held[j][d] - t[d], d) \in Nat
        BY <1>t, ClampFacts, LeaseConstants
      <4> QED
        BY <3>2, <4>1 DEF Resized
    <3> QED
      BY <1>2, <3>1, <3>2 DEF Agreed
  <2>4. /\ held' \in [Jobs -> [Dim -> Nat]] /\ booked' \in [Jobs -> [Dim -> Nat]]
        /\ lost' \in SUBSET Jobs /\ unchecked' \in SUBSET Jobs /\ booked'[j] = t
        /\ \A k \in Jobs \ {j} : held'[k] = held[k] /\ booked'[k] = booked[k]
        /\ held'[j] = held[j] \/ held'[j] = t
    BY <1>t, <1>2, <2>2, <2>3 DEF Agreed
  <2>5. /\ \A k \in Jobs \ {j} : k \in lost' <=> k \in lost
        /\ \A k \in Jobs \ {j} : k \in unchecked' <=> k \in unchecked
        /\ unchecked' \subseteq unchecked
        /\ j \in lost' \/ held'[j] = t
    BY <1>t, <1>2, <2>2 DEF Agreed, Resized
  <2>6. StartedInFull' /\ UncheckedBooked'
    BY <1>0, <2>1, <2>4, <2>5 DEF StartedInFull, UncheckedBooked
  <2>7. HeldWithinMax'
    BY <2>2, <2>4 DEF HeldWithinMax
  <2>8. BookingFollowsLease'
    <3>1. Fits(t, t)
      BY DEF Fits
    <3> QED
      BY <1>0, <2>4, <2>5, <3>1 DEF BookingFollowsLease
  <2>9. Books(j)
    <3>1. Booking(j)' = t /\ Booking(j) = booked[j]
      BY <1>0, <2>1, <2>4 DEF Booking
    <3>2. t = booked[j] \/ Fits(t, Headroom(j))
      BY <1>2 DEF Agreed, Booked, Accepts
    <3>3. t = booked[j] => unchecked' = unchecked
      BY <2>2
    <3> QED
      BY <1>0, <2>4, <2>5, <3>1, <3>2, <3>3 DEF Books
  <2> QED
    BY <2>3, <2>4, <2>6, <2>7, <2>8, <2>9
<1> QED
  BY <1>t, <1>1, <1>2 DEF Moves

LEMMA ServerReleases ==
    ASSUME BaseInv, NEW q \in Requests, req[q] # Idle, Records(q),
           held' \in [Jobs -> [Dim -> Nat]], lease' = lease
    PROVE  /\ applied' \in [Jobs -> SUBSET Releases]
           /\ cut' \in [Jobs -> [Releases -> [Dim -> Int]]]
           /\ CutWhenRecorded' /\ ReleasedOnce'
<1> USE DEF BaseInv
<1> DEFINE j == req[q].job
           r == req[q].release
           gave == Minus(held[j], held'[j])
<1>t. /\ held \in [Jobs -> [Dim -> Nat]] /\ applied \in [Jobs -> SUBSET Releases]
      /\ cut \in [Jobs -> [Releases -> [Dim -> Int]]] /\ j \in Jobs
  BY RequestFacts DEF LeaseTypeOK
<1>1. CASE UNCHANGED <<applied, cut>>
  BY <1>t, <1>1 DEF CutWhenRecorded, ReleasedOnce
<1>2. CASE /\ Authentic(q) /\ r \in Releases \ applied[j] /\ RecordsRelease(j, r)
           /\ Fits(gave, Amount[r])
  <2>1. lease[j] # 0 /\ cut[j][r] = Zero
    BY <1>t, <1>2 DEF Authentic, CutWhenRecorded
  <2>2. gave \in [Dim -> Int]
    BY <1>t DEF Minus
  <2>3. Plus(cut[j][r], gave) = gave
    <3>1. \A d \in Dim : Zero[d] + gave[d] = gave[d]
      BY <2>2 DEF Zero
    <3> HIDE DEF gave
    <3> QED
      BY <2>1, <2>2, <3>1 DEF Plus
  <2>4. /\ applied' = [applied EXCEPT ![j] = @ \union {r}]
        /\ cut' = [cut EXCEPT ![j][r] = gave]
    BY <1>2, <2>3 DEF RecordsRelease
  <2> HIDE DEF gave
  <2>5. /\ applied' \in [Jobs -> SUBSET Releases]
        /\ cut' \in [Jobs -> [Releases -> [Dim -> Int]]]
    BY <1>t, <1>2, <2>2, <2>4
  <2>6. CutWhenRecorded'
    <3>1. ASSUME NEW k \in Jobs, NEW s \in Releases, s \notin applied'[k] \/ lease[k] = 0
          PROVE  cut'[k][s] = Zero
      <4>1. (s \notin applied[k] \/ lease[k] = 0) /\ (k # j \/ s # r)
        BY <1>t, <1>2, <2>1, <2>4, <3>1
      <4>2. cut'[k][s] = cut[k][s]
        BY <1>t, <2>4, <4>1
      <4> QED
        BY <3>1, <4>1, <4>2 DEF CutWhenRecorded
    <3> QED
      BY <3>1 DEF CutWhenRecorded
  <2>7. ReleasedOnce'
    <3>1. ASSUME NEW k \in Jobs, NEW s \in Releases
          PROVE  cut'[k][s] = cut[k][s] \/ (s = r /\ cut'[k][s] = gave)
      BY <1>t, <2>4
    <3> QED
      BY <1>2, <3>1 DEF ReleasedOnce
  <2> QED
    BY <2>5, <2>6, <2>7
<1> QED
  BY <1>1, <1>2 DEF Records

LEMMA ServerQueue ==
    ASSUME BaseInv, NEW q \in Requests, req[q] # Idle, Queues(q), UNCHANGED requestFrame
    PROVE  /\ waiters' \in Seq(Requests)
           /\ req' \in [Requests -> RequestRecords \union {Idle}]
           /\ TokensDrawn' /\ WaitersQueued' /\ WaitersWait'
<1> USE DEF BaseInv
<1>t. /\ waiters \in Seq(Requests) /\ req \in [Requests -> RequestRecords \union {Idle}]
      /\ req[q] \in RequestRecords /\ WaitersWait
  BY RequestFacts DEF LeaseTypeOK
<1>0. local' = local /\ issued' = issued /\ lease' = lease
  BY DEF requestFrame
<1>1. ASSUME NEW queue \in {waiters, Append(waiters, q)}
      PROVE  /\ queue \in Seq(Requests)
             /\ \A p \in Requests : InQueue(p, waiters) => InQueue(p, queue)
             /\ \A p \in Requests \ {q} : InQueue(p, queue) => req[p].at = "waiting"
  BY <1>t DEF InQueue, WaitersWait
<1>2. CASE \E queue \in {waiters, Append(waiters, q)} : Answer(q, queue)
  <2>1. PICK queue \in {waiters, Append(waiters, q)} : Answer(q, queue)
    BY <1>2
  <2>2. req' = [req EXCEPT ![q] = Idle] /\ waiters' = Only(Requests \ {q}, queue)
    BY <2>1 DEF Answer, Without
  <2>3. /\ waiters' \in Seq(Requests)
        /\ \A p \in Requests \ {q} : InQueue(p, queue) => InQueue(p, waiters')
        /\ \A p : InQueue(p, waiters') => p \in Requests \ {q} /\ InQueue(p, queue)
    <3> DEFINE S == Requests \ {q}
    <3>1. waiters' = Only(S, queue) /\ queue \in Seq(Requests)
      BY <1>1, <2>2
    <3> HIDE DEF S
    <3>2. /\ waiters' \in Seq(Requests)
          /\ \A p : InQueue(p, waiters') <=> p \in S /\ InQueue(p, queue)
      BY <3>1, OnlyKeeps DEF InQueue
    <3> QED
      BY <3>2 DEF S
  <2>4. req' \in [Requests -> RequestRecords \union {Idle}] /\ req'[q] = Idle
        /\ \A p \in Requests \ {q} : req'[p] = req[p]
    BY <1>t, <2>2
  <2>5. TokensDrawn'
    BY <1>0, <2>4 DEF TokensDrawn
  <2>6. WaitersQueued'
    <3>1. Idle.at # "waiting"
      BY DEF Idle
    <3>2. \A p \in Requests \ {q} : Authentic(p)' <=> Authentic(p)
      BY <1>0, <2>4 DEF Authentic
    <3>3. \A p \in Requests \ {q} : InQueue(p, waiters) => InQueue(p, waiters')
      BY <1>1, <2>3
    <3>4. ASSUME NEW p \in Requests, req'[p].at = "waiting", Authentic(p)'
          PROVE  InQueue(p, waiters')
      BY <2>4, <3>1, <3>2, <3>3, <3>4 DEF WaitersQueued
    <3> QED
      BY <3>4 DEF WaitersQueued, InQueue
  <2>7. WaitersWait'
    <3>1. \A p : InQueue(p, waiters') => req'[p].at = "waiting"
      BY <1>1, <2>3, <2>4
    <3> QED
      BY <3>1 DEF WaitersWait, InQueue
  <2> QED
    BY <2>3, <2>4, <2>5, <2>6, <2>7
<1>3. CASE /\ waiters' \in {waiters, Append(waiters, q)} /\ InQueue(q, waiters')
           /\ req' = [req EXCEPT ![q].at = "waiting"]
  <2>1. /\ waiters' \in Seq(Requests)
        /\ \A p \in Requests : InQueue(p, waiters) => InQueue(p, waiters')
        /\ \A p \in Requests \ {q} : InQueue(p, waiters') => req[p].at = "waiting"
    BY <1>1, <1>3
  <2>2. [req[q] EXCEPT !.at = "waiting"] \in RequestRecords
    BY <1>t DEF RequestRecords
  <2>3. /\ req' \in [Requests -> RequestRecords \union {Idle}]
        /\ req'[q].job = req[q].job /\ req'[q].token = req[q].token /\ req'[q].at = "waiting"
        /\ \A p \in Requests \ {q} : req'[p] = req[p]
    BY <1>t, <1>3, <2>2 DEF RequestRecords
  <2>4. TokensDrawn'
    BY <1>0, <2>3 DEF TokensDrawn
  <2>5. WaitersQueued'
    <3>1. \A p \in Requests \ {q} : Authentic(p)' <=> Authentic(p)
      BY <1>0, <2>3 DEF Authentic
    <3>2. ASSUME NEW p \in Requests, req'[p].at = "waiting", Authentic(p)'
          PROVE  InQueue(p, waiters')
      BY <1>3, <2>1, <2>3, <3>1, <3>2 DEF WaitersQueued
    <3> QED
      BY <3>2 DEF WaitersQueued, InQueue
  <2>6. WaitersWait'
    <3> SUFFICES ASSUME NEW i \in DOMAIN waiters' PROVE req'[waiters'[i]].at = "waiting"
      BY DEF WaitersWait
    <3>1. waiters'[i] \in Requests /\ InQueue(waiters'[i], waiters')
      BY <2>1 DEF InQueue
    <3> QED
      BY <2>1, <2>3, <3>1
  <2> QED
    BY <2>1, <2>3, <2>4, <2>5, <2>6
<1> QED
  BY <1>2, <1>3 DEF Queues

LEMMA ServerBase ==
    ASSUME BaseInv, NEW q \in Requests, req[q] # Idle, Serves(q)
    PROVE  BaseInv' /\ Stops
<1>0. PICK j \in Jobs : j = req[q].job
  BY RequestFacts DEF BaseInv
<1>1. /\ free' \in [Dim -> Nat] /\ held' \in [Jobs -> [Dim -> Nat]]
      /\ booked' \in [Jobs -> [Dim -> Nat]] /\ lost' \in SUBSET Jobs
      /\ unchecked' \in SUBSET Jobs /\ Books(j)
      /\ StartedInFull' /\ HeldWithinMax' /\ UncheckedBooked' /\ BookingFollowsLease'
  BY <1>0, ServerTables DEF Serves
<1>2. UNCHANGED <<local, issued, lease, observed, ended, registered, state, sends>>
  BY DEF Serves, requestFrame
<1>3. /\ applied' \in [Jobs -> SUBSET Releases]
      /\ cut' \in [Jobs -> [Releases -> [Dim -> Int]]]
      /\ CutWhenRecorded' /\ ReleasedOnce'
  BY <1>1, <1>2, ServerReleases DEF Serves
<1>4. /\ waiters' \in Seq(Requests)
      /\ req' \in [Requests -> RequestRecords \union {Idle}]
      /\ TokensDrawn' /\ WaitersQueued' /\ WaitersWait'
  BY ServerQueue DEF Serves
<1>5. LeaseTypeOK'
  <2>1. LeaseTypeOK
    BY DEF BaseInv
  <2> QED
    BY <1>1, <1>2, <1>3, <1>4, <2>1 DEF LeaseTypeOK
<1>6. EngineNotOverbooked' /\ Stops
  BY <1>1, <1>5, BookingFits, BookingStops DEF BaseInv
<1> QED
  BY <1>1, <1>3, <1>4, <1>5, <1>6 DEF BaseInv

LEMMA StepFacts ==
    ASSUME BaseInv, [LeaseNext]_vars
    PROVE  BaseInv' /\ (UNCHANGED <<state, booked>> \/ Stops)
<1>1. CASE JobStep
  <2>1. ASSUME NEW j \in Jobs,
               \/ Grant(j) \/ MoveGrant(j) \/ Adopt(j) \/ LostGrant(j) \/ Report(j)
               \/ StartGrant(j)
        PROVE  BaseInv' /\ Stops
    <3>1. BaseInv' /\ Books(j)
      BY <2>1, ManagerBase, StartBase
    <3> QED
      BY <3>1, BookingStops DEF BaseInv
  <2> QED
    BY <1>1, <2>1, LocalBase, PrepareBase, DropBase DEF JobStep
<1>2. CASE RemoveEngine \/ Reregister
  BY <1>2, EngineBase
<1>3. CASE ClientStep
  BY <1>3, SendBase DEF ClientStep
<1>4. CASE ServerStep
  BY <1>4, ServerServes, ServerBase DEF ServerStep, BaseInv
<1>5. CASE UNCHANGED vars
  <2>1. /\ UNCHANGED <<free, local, issued, lease, held, applied, observed, ended>>
        /\ UNCHANGED <<waiters, req, registered, state, booked, lost, unchecked, cut, sends>>
    BY <1>5 DEF vars, chiefVars, leaseVars, serverVars, managerVars
  <2>2. WaitersQueued'
    BY <2>1, QueueRests DEF BaseInv
  <2> QED
    BY <2>1, <2>2
    DEF BaseInv, LeaseTypeOK, WaitersWait, TokensDrawn, StartedInFull, HeldWithinMax,
        UncheckedBooked, CutWhenRecorded, BookingFollowsLease, EngineNotOverbooked, Booking,
        ReleasedOnce
<1> QED
  BY <1>1, <1>2, <1>3, <1>4, <1>5 DEF LeaseNext

LEMMA BaseStep == BaseInv /\ [LeaseNext]_vars => BaseInv'
  BY StepFacts

LEMMA BaseHolds == LeaseSpec => []BaseInv
  BY AtFirst, BaseStep, PTL DEF LeaseSpec

-----------------------------------------------------------------------------
(* Types, whatever the jobs measure and ask for.                           *)
THEOREM LeaseTypes == LeaseSpec => []LeaseTypeOK
<1>1. BaseInv => LeaseTypeOK
  BY DEF BaseInv
<1> QED
  BY <1>1, BaseHolds, PTL

(* What the manager has tested fits the engine, through grants, starts,    *)
(* resizes, lost answers, removals and returns of the engine: an adopted   *)
(* job counts against every later test, but is not tested itself.          *)
THEOREM NotOverbooked == LeaseSpec => []EngineNotOverbooked
<1>1. BaseInv => EngineNotOverbooked
  BY DEF BaseInv
<1> QED
  BY <1>1, BaseHolds, PTL

(* An adoption may overbook the engine; whatever else books more leaves it *)
(* with no more than it has.                                               *)
THEOREM OverbookedStops == LeaseSpec => OverbookedTakesNothing
<1>1. BaseInv /\ [LeaseNext]_vars => [UNCHANGED <<state, booked>> \/ Stops]_vars
  BY StepFacts
<1> QED
  BY <1>1, BaseHolds, PTL DEF LeaseSpec, OverbookedTakesNothing, Stops

(* A release id takes its amount off the lease of an attempt once.         *)
THEOREM ReleaseCountsOnce == LeaseSpec => []ReleasedOnce
<1>1. BaseInv => ReleasedOnce
  BY DEF BaseInv
<1> QED
  BY <1>1, BaseHolds, PTL

(* A request with the token of an earlier attempt changes nothing.         *)
THEOREM StaleHarmless == LeaseSpec => StaleRequestsHarmless
<1> DEFINE Harmless ==
      \A q \in Requests :
        req[q] # Idle /\ req'[q] # req[q] /\ req[q].token # lease[req[q].job] =>
            UNCHANGED <<free, held, applied, booked>>
<1>1. BaseInv /\ [LeaseNext]_vars => [Harmless]_vars
  <2> SUFFICES ASSUME BaseInv, LeaseNext, NEW q \in Requests,
                      req[q] # Idle, req'[q] # req[q], req[q].token # lease[req[q].job]
               PROVE  UNCHANGED <<free, held, applied, booked>>
    OBVIOUS
  <2>t. LeaseTypeOK /\ TokensDrawn /\ req \in [Requests -> RequestRecords \union {Idle}]
    BY DEF BaseInv, LeaseTypeOK
  <2>1. ~JobStep /\ ~RemoveEngine /\ ~Reregister
    BY DEF JobStep, Grant, MoveGrant, Adopt, LostGrant, StartGrant, Deassign, Spawn,
           SpawnFails, DiscardPrepared, CancelStart, ChildExits, Report, UseMemory, RemoveEngine,
           Reregister, serverVars
  <2>2. ~ClientStep
    BY <2>t DEF ClientStep, Send
  <2>3. PICK p \in Requests : req[p] # Idle /\ Serves(p)
    BY <2>t, <2>1, <2>2, ServerServes DEF LeaseNext, ServerStep
  <2>4. p = q
    BY <2>t, <2>3 DEF Serves, Queues, Answer
  <2>5. ~Authentic(p)
    BY <2>4 DEF Authentic
  <2> QED
    BY <2>3, <2>5 DEF Serves, Moves, Records
<1> QED
  BY <1>1, BaseHolds, PTL DEF LeaseSpec, StaleRequestsHarmless

-----------------------------------------------------------------------------
(* The chief's own ledger.                                                 *)

LEMMA FloorTypeNext ==
    ASSUME LeaseTypeOK', NEW j \in Jobs
    PROVE  Floor(j)' \in [Dim -> Nat] /\ Fits(Floor(j)', Max[j])
<1>1. \A d \in Dim : /\ Max[j][d] \in Nat
                     /\ (IF d = "cpu" THEN CpuFloor ELSE observed'[j] + MemHeadroom) \in Nat
  BY LeaseConstants DEF LeaseTypeOK
<1> QED
  BY <1>1 DEF Floor, Fits, Least

(* A step that leaves the holdings alone.                                  *)
LEMMA RoomRests ==
    ASSUME RoomInv, UNCHANGED <<free, held, observed>>,
           \A j \in Jobs : \/ local'[j] = local[j]
                           \/ {local[j], local'[j]} \subseteq {"none", "kept"}
    PROVE  RoomInv'
<1>1. \A j \in Jobs : ChiefHolding(j)' = ChiefHolding(j)
  <2> SUFFICES ASSUME NEW j \in Jobs PROVE ChiefHolding(j)' = ChiefHolding(j)
    OBVIOUS
  <2>1. CASE local'[j] = local[j]
    BY <2>1 DEF ChiefHolding
  <2>2. CASE local[j] \in {"none", "kept"} /\ local'[j] \in {"none", "kept"}
    BY <2>2 DEF ChiefHolding
  <2> QED
    BY <2>1, <2>2
<1>2. \A d \in Dim : [j \in Jobs |-> ChiefHolding(j)'[d]] = [j \in Jobs |-> ChiefHolding(j)[d]]
  BY <1>1
<1>3. ChiefBalanced'
  BY <1>2 DEF RoomInv, ChiefBalanced
<1>4. FloorHeld'
  <2> SUFFICES ASSUME NEW j \in Jobs, local'[j] = "running" PROVE Fits(Floor(j), held[j])
    BY DEF FloorHeld, Floor, Fits
  <2>1. local[j] = "running"
    OBVIOUS
  <2> QED
    BY <2>1 DEF RoomInv, FloorHeld
<1> QED
  BY <1>3, <1>4 DEF RoomInv

(* A step at one job that does not run afterwards.                         *)
LEMMA RoomOfOthers ==
    ASSUME BaseInv, BaseInv', RoomInv, NEW j \in Jobs, local'[j] # "running",
           \A k \in Jobs \ {j} : /\ local'[k] = local[k] /\ held'[k] = held[k]
                                 /\ observed'[k] = observed[k],
           \A d \in Dim : free'[d] = free[d] + ChiefHolding(j)[d] - ChiefHolding(j)'[d]
    PROVE  RoomInv'
<1>1. ChiefBalanced'
  BY HoldingBalances DEF BaseInv, RoomInv
<1>2. FloorHeld'
  BY DEF RoomInv, FloorHeld, Floor, Fits
<1> QED
  BY <1>1, <1>2 DEF RoomInv

LEMMA RoomOfJobs ==
    ASSUME Overshoot = FALSE, BaseInv, BaseInv', RoomInv, NEW j \in Jobs,
           \/ StartGrant(j) \/ Deassign(j) \/ Spawn(j) \/ SpawnFails(j) \/ DiscardPrepared(j)
           \/ CancelStart(j) \/ ChildExits(j) \/ \E m \in Usages : UseMemory(j, m)
    PROVE  RoomInv'
<1>t. /\ local \in [Jobs -> Places] /\ free \in [Dim -> Nat] /\ observed \in [Jobs -> Nat]
      /\ held \in [Jobs -> [Dim -> Nat]] /\ Max \in [Jobs -> [Dim -> Nat]]
  BY LeaseConstants DEF LeaseTypeOK, BaseInv
<1>0. \A d \in Dim : /\ free[d] \in Nat /\ held[j][d] \in Nat /\ Max[j][d] \in Nat
                     /\ Zero[d] = 0 /\ Total[d] \in Nat
  BY AmountsNatural DEF BaseInv
<1>1. CASE StartGrant(j)
  <2>0. held' = held /\ local[j] \in {"none", "kept"}
    BY <1>1 DEF StartGrant, leaseVars
  <2>1. CASE KeepGrant(j) \/ Drop(j)
    BY <1>t, <2>0, <2>1, RoomRests DEF KeepGrant, Drop
  <2>2. CASE Claim(j)
    <3>1. /\ local'[j] = "pending"
          /\ \A k \in Jobs \ {j} : local'[k] = local[k] /\ observed'[k] = observed[k]
      BY <1>t, <2>2 DEF Claim
    <3>2. ChiefHolding(j) = Zero /\ ChiefHolding(j)' = Max[j]
      BY <2>0, <3>1 DEF ChiefHolding
    <3>3. \A d \in Dim : free'[d] = free[d] + ChiefHolding(j)[d] - ChiefHolding(j)'[d]
      BY <1>0, <2>2, <3>2 DEF Claim, Minus
    <3> QED
      BY <2>0, <3>1, <3>3, RoomOfOthers
  <2> QED
    BY <1>1, <2>1, <2>2 DEF StartGrant
<1>2. CASE CancelStart(j)
  <2>1. /\ local[j] = "pending" /\ local'[j] = "none" /\ held' = held
        /\ \A k \in Jobs \ {j} : local'[k] = local[k] /\ observed'[k] = observed[k]
    BY <1>t, <1>2 DEF CancelStart, leaseVars
  <2>2. ChiefHolding(j) = Max[j] /\ ChiefHolding(j)' = Zero
    BY <2>1 DEF ChiefHolding
  <2>3. \A d \in Dim : free'[d] = free[d] + ChiefHolding(j)[d] - ChiefHolding(j)'[d]
    BY <1>0, <1>2, <2>2 DEF Plus, CancelStart
  <2> QED
    BY <2>1, <2>3, RoomOfOthers
<1>3. CASE SpawnFails(j)
  <2>1. /\ local[j] = "pending" /\ local'[j] = "prepared" /\ free' = free
        /\ \A k \in Jobs \ {j} : /\ local'[k] = local[k] /\ observed'[k] = observed[k]
                                 /\ held'[k] = held[k]
    BY <1>t, <1>3 DEF SpawnFails, Prepare
  <2>2. ChiefHolding(j) = Max[j] /\ ChiefHolding(j)' = Max[j]
    BY <2>1 DEF ChiefHolding
  <2>3. \A d \in Dim : free'[d] = free[d] + ChiefHolding(j)[d] - ChiefHolding(j)'[d]
    BY <1>0, <2>1, <2>2
  <2> QED
    BY <2>1, <2>3, RoomOfOthers
<1>4. CASE DiscardPrepared(j)
  <2>1. /\ local[j] = "prepared" /\ local'[j] = "pending" /\ free' = free
        /\ \A k \in Jobs \ {j} : /\ local'[k] = local[k] /\ observed'[k] = observed[k]
                                 /\ held'[k] = held[k]
    BY <1>t, <1>4 DEF DiscardPrepared, DropLease
  <2>2. ChiefHolding(j) = Max[j] /\ ChiefHolding(j)' = Max[j]
    BY <2>1 DEF ChiefHolding
  <2>3. \A d \in Dim : free'[d] = free[d] + ChiefHolding(j)[d] - ChiefHolding(j)'[d]
    BY <1>0, <2>1, <2>2
  <2> QED
    BY <2>1, <2>3, RoomOfOthers
<1>5. CASE ChildExits(j)
  <2>1. /\ local[j] = "running" /\ local'[j] = "none"
        /\ \A k \in Jobs \ {j} : /\ local'[k] = local[k] /\ observed'[k] = observed[k]
                                 /\ held'[k] = held[k]
    BY <1>t, <1>5 DEF ChildExits, FinishJob, DropLease
  <2>2. ChiefHolding(j) = held[j] /\ ChiefHolding(j)' = Zero
    BY <2>1 DEF ChiefHolding
  <2>3. \A d \in Dim : free[d] + held[j][d] \in 0..Total[d]
    BY <1>0, <2>2, HoldingWithin DEF BaseInv, RoomInv
  <2>4. \A d \in Dim : free'[d] = free[d] + held[j][d]
    <3>1. \A d \in Dim : Clamp(free[d] + held[j][d], d) = free[d] + held[j][d]
      BY <2>3, ClampFacts
    <3> QED
      BY <1>5, <3>1 DEF ChildExits, FinishJob
  <2>5. \A d \in Dim : free'[d] = free[d] + ChiefHolding(j)[d] - ChiefHolding(j)'[d]
    BY <1>0, <2>2, <2>4
  <2> QED
    BY <2>1, <2>5, RoomOfOthers
<1>6. CASE Spawn(j)
  <2>1. /\ local[j] = "pending" /\ local'[j] = "running" /\ free' = free /\ held'[j] = Max[j]
        /\ observed' = observed
        /\ \A k \in Jobs \ {j} : local'[k] = local[k] /\ held'[k] = held[k]
    BY <1>t, <1>6 DEF Spawn, Prepare
  <2>2. ChiefHolding(j) = Max[j] /\ ChiefHolding(j)' = Max[j]
    BY <2>1 DEF ChiefHolding
  <2>3. \A d \in Dim : free'[d] = free[d] + ChiefHolding(j)[d] - ChiefHolding(j)'[d]
    BY <1>0, <2>1, <2>2
  <2>4. ChiefBalanced'
    BY <2>1, <2>3, HoldingBalances DEF BaseInv, RoomInv
  <2>5. FloorHeld'
    <3>1. Fits(Floor(j), Max[j])
      BY FloorType DEF BaseInv
    <3> QED
      BY <2>1, <3>1 DEF RoomInv, FloorHeld, Floor, Fits
  <2> QED
    BY <2>4, <2>5 DEF RoomInv
<1>7. ASSUME NEW m \in Usages, UseMemory(j, m)
      PROVE  RoomInv'
  <2>1. /\ UNCHANGED <<free, local, held>> /\ observed' = [observed EXCEPT ![j] = m]
        /\ Least(Max[j]["mem"], m + MemHeadroom) <= held[j]["mem"]
    BY <1>7 DEF UseMemory, leaseVars
  <2>2. ChiefBalanced'
    BY <2>1 DEF RoomInv, ChiefBalanced, ChiefHolding
  <2>3. \A k \in Jobs \ {j} : observed'[k] = observed[k]
    BY <1>t, <2>1
  <2>4. local[j] = "running" => Fits(Floor(j)', held[j])
    <3> SUFFICES ASSUME local[j] = "running", NEW d \in Dim PROVE Floor(j)'[d] <= held[j][d]
      BY DEF Fits
    <3>1. CASE d = "mem"
      BY <1>t, <2>1, <3>1 DEF Floor
    <3>2. CASE d = "cpu"
      <4>1. Floor(j)'[d] = Floor(j)[d]
        BY <3>2 DEF Floor
      <4> QED
        BY <4>1 DEF RoomInv, FloorHeld, Fits
    <3> QED
      BY <3>1, <3>2 DEF Dim
  <2>5. FloorHeld'
    <3> SUFFICES ASSUME NEW k \in Jobs, local[k] = "running" PROVE Fits(Floor(k)', held[k])
      BY <2>1 DEF FloorHeld, Fits
    <3>1. CASE k = j
      BY <2>4, <3>1
    <3>2. CASE k # j
      BY <2>3, <3>2 DEF RoomInv, FloorHeld, Floor, Fits
    <3> QED
      BY <3>1, <3>2
  <2> QED
    BY <2>2, <2>5 DEF RoomInv
<1>8. CASE Deassign(j)
  <2>1. held' = held /\ local[j] = "kept" /\ Drop(j)
    BY <1>8 DEF Deassign, leaseVars
  <2> QED
    BY <1>t, <2>1, RoomRests DEF Drop
<1> QED
  BY <1>1, <1>2, <1>3, <1>4, <1>5, <1>6, <1>7, <1>8

(* A target that has room changes the counters by exactly the difference.  *)
LEMMA RoomOfResize ==
    ASSUME BaseInv, RoomInv, NEW j \in Jobs, local[j] = "running", NEW t \in [Dim -> Nat],
           Room(j, t), Resized(j, t)
    PROVE  /\ \A d \in Dim : free'[d] = free[d] + held[j][d] - t[d]
           /\ held' = [held EXCEPT ![j] = t]
<1>1. \A d \in Dim : /\ free[d] \in Nat /\ held[j][d] \in Nat /\ Total[d] \in Nat
                     /\ free[d] + held[j][d] <= Total[d] /\ t[d] \in Nat
  BY AmountsNatural, HoldingWithin DEF BaseInv, RoomInv, ChiefHolding
<1>2. \A d \in Dim : Greatest(0, t[d] - held[j][d]) <= free[d]
  BY DEF Room, Fits, Delta
<1>3. \A d \in Dim : free[d] + held[j][d] - t[d] \in 0..Total[d]
  BY <1>1, <1>2 DEF Greatest
<1>4. \A d \in Dim : Clamp(free[d] + held[j][d] - t[d], d) = free[d] + held[j][d] - t[d]
  BY <1>3, ClampFacts
<1> QED
  BY <1>4 DEF Resized

LEMMA RoomOfServer ==
    ASSUME BaseInv, BaseInv', RoomInv, NEW q \in Requests, req[q] # Idle, Serves(q)
    PROVE  RoomInv'
<1>0. PICK j \in Jobs : j = req[q].job
  BY RequestFacts DEF BaseInv
<1>1. local' = local /\ observed' = observed
  BY DEF Serves, requestFrame
<1>2. CASE UNCHANGED <<free, held>>
  BY <1>1, <1>2, RoomRests
<1>3. ASSUME NEW t \in [Dim -> Nat], Authentic(q), Fits(Floor(j), t), Room(j, t), Resized(j, t)
      PROVE  RoomInv'
  <2>1. local[j] = "running"
    BY <1>0, <1>3, ServedRuns DEF BaseInv
  <2>2. /\ \A d \in Dim : free'[d] = free[d] + held[j][d] - t[d]
        /\ held' = [held EXCEPT ![j] = t]
    BY <1>3, <2>1, RoomOfResize
  <2>3. held'[j] = t /\ \A k \in Jobs \ {j} : held'[k] = held[k]
    <3>1. DOMAIN held = Jobs
      BY DEF BaseInv, LeaseTypeOK
    <3> QED
      BY <2>2, <3>1
  <2>4. ChiefHolding(j) = held[j] /\ ChiefHolding(j)' = t
    BY <1>1, <2>1, <2>3 DEF ChiefHolding
  <2>5. ChiefBalanced'
    BY <1>1, <2>2, <2>3, <2>4, HoldingBalances DEF BaseInv, RoomInv
  <2>6. FloorHeld'
    BY <1>1, <1>3, <2>3 DEF RoomInv, FloorHeld, Floor, Fits
  <2> QED
    BY <2>5, <2>6 DEF RoomInv
<1> QED
  BY <1>0, <1>2, <1>3 DEF Serves, Moves, Agreed, RoomInv

LEMMA RoomStep ==
    ASSUME Overshoot = FALSE
    PROVE  BaseInv /\ RoomInv /\ [LeaseNext]_vars => RoomInv'
<1> SUFFICES ASSUME BaseInv, RoomInv, [LeaseNext]_vars PROVE RoomInv'
  OBVIOUS
<1>0. BaseInv'
  BY BaseStep
<1>1. ASSUME NEW j \in Jobs,
             Grant(j) \/ MoveGrant(j) \/ Adopt(j) \/ LostGrant(j) \/ Report(j)
      PROVE  RoomInv'
  <2>1. UNCHANGED <<free, held, observed, local>>
    BY <1>1 DEF Grant, MoveGrant, Adopt, LostGrant, Report, chiefVars, leaseVars
  <2> QED
    BY <2>1, RoomRests
<1>2. CASE JobStep
  BY <1>0, <1>1, <1>2, RoomOfJobs DEF JobStep
<1>3. CASE ClientStep \/ RemoveEngine \/ Reregister \/ UNCHANGED vars
  <2>1. UNCHANGED <<free, held, observed, local>>
    BY <1>3 DEF ClientStep, Send, RemoveEngine, Reregister, vars, chiefVars, leaseVars
  <2> QED
    BY <2>1, RoomRests
<1>4. CASE ServerStep
  BY <1>0, <1>4, ServerServes, RoomOfServer DEF ServerStep, BaseInv
<1> QED
  BY <1>2, <1>3, <1>4 DEF LeaseNext

LEMMA RoomHolds ==
    ASSUME Overshoot = FALSE
    PROVE  LeaseSpec => [](BaseInv /\ RoomInv)
<1>1. BaseInv /\ RoomInv /\ [LeaseNext]_vars => RoomInv'
  BY RoomStep
<1> QED
  BY AtFirst, BaseStep, <1>1, PTL DEF LeaseSpec

(* As long as no job uses more memory than its lease leaves free: the      *)
(* chief's free counters and its holdings add up to the pilot, no clamp    *)
(* ever bites, and the manager's booking of a running job is its lease     *)
(* unless the last answer got lost; an adopted job has at least its lease  *)
(* booked.                                                                 *)
THEOREM LedgersHold ==
    ASSUME Overshoot = FALSE
    PROVE  LeaseSpec => []LedgersAgree
<1>1. BaseInv /\ RoomInv => LedgersAgree
  BY DEF BaseInv, RoomInv, LedgersAgree
<1> QED
  BY <1>1, RoomHolds, PTL

(* Under the same assumption what a waiting growth request waits for goes  *)
(* to the first of the queue only.                                         *)
THEOREM GrowthKeepsTurn ==
    ASSUME Overshoot = FALSE
    PROVE  LeaseSpec => GrowthProtected
<1> DEFINE Protected ==
      waiters = <<>> \/ Fits(free, free')
       \/ ~\E i \in DOMAIN waiters' : waiters'[i] = Head(waiters)
<1> USE DEF BaseInv
<1>1. ASSUME BaseInv, RoomInv, LeaseNext, waiters # <<>>, ~Fits(free, free')
      PROVE  ~InQueue(Head(waiters), waiters')
  <2>t. /\ waiters \in Seq(Requests) /\ LeaseTypeOK /\ TokensDrawn
        /\ \A d \in Dim : free[d] \in Nat
    BY <1>1 DEF LeaseTypeOK
  <2>1. free' # free
    BY <1>1, <2>t DEF Fits
  <2>2. ~ClientStep /\ ~RemoveEngine /\ ~Reregister
    BY <2>1 DEF ClientStep, Send, RemoveEngine, Reregister, chiefVars
  <2>3. ~JobStep
    <3> SUFFICES ASSUME NEW j \in Jobs, CancelStart(j) \/ ChildExits(j) PROVE FALSE
      BY <1>1, <2>1
      DEF JobStep, Grant, MoveGrant, Adopt, LostGrant, StartGrant, AdmitsJobs, Deassign,
          Drop, Spawn, SpawnFails, DiscardPrepared, Report, UseMemory, chiefVars
    <3>1. \A d \in Dim : /\ Max[j][d] \in Nat /\ held[j][d] \in Nat /\ free[d] \in Nat
                         /\ Total[d] \in Nat
      BY <1>1, AmountsNatural
    <3>2. CASE CancelStart(j)
      BY <1>1, <3>1, <3>2 DEF CancelStart, Plus, Fits
    <3>3. CASE ChildExits(j)
      <4>1. \A d \in Dim : free[d] + held[j][d] \in 0..Total[d]
        BY <1>1, <3>1, <3>3, HoldingWithin DEF RoomInv, ChildExits, ChiefHolding
      <4>2. \A d \in Dim : Clamp(free[d] + held[j][d], d) = free[d] + held[j][d]
        BY <4>1, ClampFacts
      <4> QED
        BY <1>1, <3>1, <3>3, <4>2 DEF ChildExits, FinishJob, Fits
    <3> QED
      BY <3>2, <3>3
  <2>4. PICK q \in Requests :
            /\ req[q] # Idle
            /\ Deny(q) \/ SetTarget(q) \/ Recheck(q) \/ Expire(q) \/ ReleaseResources(q)
    BY <1>1, <2>2, <2>3 DEF LeaseNext, ServerStep
  <2>5. ASSUME NEW t \in [Dim -> Nat], Authentic(q), Resized(req[q].job, t),
               Fits(t, held[req[q].job])
        PROVE  FALSE
    <3> DEFINE j == req[q].job
    <3>1. j \in Jobs /\ local[j] = "running"
      BY <2>t, <2>4, <2>5, ServedRuns
    <3>2. \A d \in Dim : /\ t[d] \in Nat /\ held[j][d] \in Nat /\ free[d] \in Nat
                         /\ Total[d] \in Nat /\ t[d] <= held[j][d]
      BY <1>1, <2>5, <3>1, AmountsNatural DEF Fits
    <3>3. Room(j, t)
      BY <3>2 DEF Room, Fits, Delta, Greatest
    <3>4. \A d \in Dim : free'[d] = free[d] + held[j][d] - t[d]
      BY <1>1, <2>5, <3>1, <3>3, RoomOfResize
    <3> QED
      BY <1>1, <3>2, <3>4 DEF Fits
  <2>6. ~Deny(q) /\ ~Expire(q)
    BY <2>1 DEF Deny, Expire, Refused, ChiefUnchanged
  <2>7. ~ReleaseResources(q)
    <3> SUFFICES ASSUME ReleaseResources(q) PROVE FALSE
      OBVIOUS
    <3> DEFINE j == req[q].job
               t == ReleaseTarget(q)
    <3>1. Authentic(q) /\ req[q].release # NoRelease /\ Resized(j, t)
      BY <2>1 DEF ReleaseResources, Refused, ChiefUnchanged, AnswerLost
    <3>2. j \in Jobs /\ local[j] = "running"
      BY <2>t, <2>4, <3>1, ServedRuns
    <3>3. t \in [Dim -> Nat] /\ Fits(t, held[j])
      BY <1>1, <2>4, <3>1, <3>2, ReleaseFacts DEF RoomInv, FloorHeld
    <3> QED
      BY <2>5, <3>1, <3>3
  <2>8. PICK queue \in {waiters, Append(waiters, q)} :
            /\ Pass(q, queue) /\ (NeedsGrowth(q) => InQueue(q, queue))
    <3>1. CASE Recheck(q)
      <4>1. Pass(q, waiters) /\ req[q].at = "waiting"
        BY <3>1 DEF Recheck
      <4>2. Authentic(q)
        BY <2>1, <4>1 DEF Pass, Refused, ChiefUnchanged
      <4>3. InQueue(q, waiters)
        BY <1>1, <4>1, <4>2 DEF WaitersQueued
      <4> QED
        BY <4>1, <4>3
    <3>2. CASE SetTarget(q)
      <4> DEFINE queue == IF NeedsGrowth(q) THEN Append(waiters, q) ELSE waiters
      <4>1. Pass(q, queue) /\ queue \in {waiters, Append(waiters, q)}
        BY <2>1, <3>2 DEF SetTarget, Refused, ChiefUnchanged
      <4>2. NeedsGrowth(q) => InQueue(q, queue)
        <5> SUFFICES ASSUME NeedsGrowth(q) PROVE InQueue(q, Append(waiters, q))
          OBVIOUS
        <5>1. /\ Len(waiters) + 1 \in DOMAIN Append(waiters, q)
              /\ Append(waiters, q)[Len(waiters) + 1] = q
          BY <2>t
        <5> QED BY <5>1 DEF InQueue
      <4> HIDE DEF queue
      <4> QED
        BY <4>1, <4>2
    <3> QED
      BY <2>4, <2>6, <2>7, <3>1, <3>2
  <2>9. /\ Authentic(q) /\ MyTurn(q, queue) /\ Answer(q, queue)
        /\ Resized(req[q].job, Target(q))
    BY <2>1, <2>8 DEF Pass, Refused, ChiefUnchanged, AnswerLost
  <2>10. NeedsGrowth(q)
    <3>1. Target(q) \in [Dim -> Nat]
      BY <2>t, <2>4, RequestFacts, TargetFacts DEF Target
    <3> QED
      BY <2>5, <2>9, <3>1 DEF NeedsGrowth
  <2>11. Head(waiters) = q
    <3>1. Head(queue) = q
      BY <2>8, <2>9, <2>10 DEF MyTurn, InQueue
    <3>2. Head(queue) = Head(waiters)
      BY <1>1, <2>t, <2>8
    <3> QED
      BY <3>1, <3>2
  <2>12. queue \in Seq(Requests)
    BY <2>t, <2>8
  <2> QED
    <3> DEFINE S == Requests \ {q}
    <3>1. waiters' = Only(S, queue) /\ q \notin S
      BY <2>9 DEF Answer, Without
    <3> HIDE DEF S
    <3>2. ~InQueue(q, waiters')
      BY <2>12, <3>1, OnlyKeeps DEF InQueue
    <3> QED
      BY <2>11, <3>2
<1>2. BaseInv /\ RoomInv /\ [LeaseNext]_vars => [Protected]_vars
  BY <1>1 DEF InQueue
<1> QED
  BY <1>2, RoomHolds, PTL DEF LeaseSpec, GrowthProtected
=============================================================================
