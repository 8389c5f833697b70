--------------------------- MODULE ReadersProofs ---------------------------
(***************************************************************************)
(* Theorems about the two readers of what the other handlers store.        *)
(* First SeriesJoin, for every set of metrics, moments and readings, every *)
(* order metrics are fetched in and every cap; then FacilityReport, for    *)
(* every set of dates of the calendar, every set of assets and every       *)
(* bound.  Neither module uses the other.                                  *)
(*                                                                         *)
(* The argument for SeriesJoin: a series holds the newest readings of a    *)
(* set that lies between what was stored when the request began and what   *)
(* is stored now.  A reading of that set which is missing from the series  *)
(* has Limit newer ones or as new, so it is out of reach.                  *)
(***************************************************************************)
EXTENDS SeriesJoin, FacilityReport, FiniteSetTheorems, WellFoundedInduction, TLAPS

-----------------------------------------------------------------------------
(* Extrema *)

\* Of the members, one has the fewest above it, and that is none.
LEMMA MaxOfFinite ==
    ASSUME NEW T \in SUBSET Nat, IsFiniteSet(T), T # {}
    PROVE  Max(T) \in T /\ \A x \in T : x <= Max(T)
<1> DEFINE Above(x) == {y \in T : y > x}
           Family == {Above(x) : x \in T}
<1>1. PICK U \in Family : \A V \in Family : <<V, U>> \notin StrictSubsetOrdering(T)
    <2>1. IsWellFoundedOn(StrictSubsetOrdering(T), FiniteSubsetsOf(T))
        BY FS_StrictSubsetOrderingWellFounded
    <2>2. Family \subseteq FiniteSubsetsOf(T)
        BY FS_FiniteSubsetsOfFinite
    <2>3. Family # {}
        OBVIOUS
    <2> QED
        BY <2>1, <2>2, <2>3, WFMin
<1>2. PICK m \in T : U = Above(m)
    OBVIOUS
<1>3. Above(m) = {}
    <2>1. SUFFICES ASSUME NEW z \in T, z > m
                   PROVE  FALSE
        OBVIOUS
    <2>2. Above(z) \subseteq Above(m) /\ z \in Above(m) /\ z \notin Above(z)
        <3>1. \A i, j, k \in Nat : (i > j /\ j > k => i > k) /\ ~(j > j)
            OBVIOUS
        <3>2. T \subseteq Nat
            OBVIOUS
        <3> QED
            BY <2>1, <3>1, <3>2, Zenon
    <2>3. <<Above(z), Above(m)>> \in StrictSubsetOrdering(T)
        BY <2>2 DEF StrictSubsetOrdering
    <2> QED
        BY <1>1, <1>2, <2>3
<1>4. \A y \in T : m >= y
    BY <1>3
<1> QED
    BY <1>4 DEF Max

LEMMA MinOfTwo ==
    ASSUME NEW i \in Nat, NEW j \in Nat
    PROVE  Min({i, j}) = IF i <= j THEN i ELSE j
<1> DEFINE m == IF i <= j THEN i ELSE j
<1>1. m \in {i, j} /\ \A y \in {i, j} : m <= y
    OBVIOUS
<1>2. \A x \in {i, j} : (\A y \in {i, j} : x <= y) => x = m
    OBVIOUS
<1> QED
    BY <1>1, <1>2 DEF Min

-----------------------------------------------------------------------------
(* SeriesJoin: one series *)

LEMMA NewestFacts ==
    ASSUME NEW S, IsFiniteSet(S), NEW W \in Newest(S)
    PROVE  /\ W \subseteq S
           /\ IsFiniteSet(W)
           /\ \A r \in S \ W, w \in W : r.time <= w.time
           /\ Cardinality(W) <= Limit
           /\ Cardinality(W) < Limit => W = S
<1>1. W \subseteq S /\ Cardinality(W) = Min({Limit, Cardinality(S)})
    BY DEF Newest, kSubset
<1>2. Limit \in Nat /\ Cardinality(S) \in Nat
    BY SeriesAssumption, FS_CardinalityType
<1>3. Min({Limit, Cardinality(S)}) =
         IF Limit <= Cardinality(S) THEN Limit ELSE Cardinality(S)
    BY <1>2, MinOfTwo
<1>4. IsFiniteSet(W) /\ (Cardinality(S) = Cardinality(W) => S = W)
    BY <1>1, FS_Subset
<1>5. \A r \in S \ W, w \in W : r.time <= w.time
    BY DEF Newest
<1> QED
    BY <1>1, <1>2, <1>3, <1>4, <1>5

\* A reading that was there is in the series, if it still is in reach.
LEMMA InReachIsFetched ==
    ASSUME NEW S \in SUBSET mapped, mapped \subseteq Possible, IsFiniteSet(mapped),
           NEW m, NEW W \in Newest(Metric(m, S)),
           NEW r \in S, r.metric = m, InReach(r)
    PROVE  r \in W
<1> DEFINE A == Metric(m, S)
           N == {x \in Metric(r.metric, mapped) : x.time >= r.time}
<1>1. IsFiniteSet(A) /\ IsFiniteSet(N)
    <2>1. A \in SUBSET mapped /\ N \in SUBSET mapped
        BY DEF Metric
    <2> QED
        BY <2>1, FS_Subset
<1>2. /\ W \subseteq A /\ IsFiniteSet(W)
      /\ \A x \in A \ W, w \in W : x.time <= w.time
      /\ Cardinality(W) < Limit => W = A
    BY <1>1, NewestFacts
<1>3. SUFFICES ASSUME r \notin W
               PROVE  FALSE
    OBVIOUS
<1>4. r \in A
    BY DEF Metric
<1>5. W \cup {r} \subseteq N
    <2>1. \A x \in mapped : x.time \in Nat
        BY SeriesAssumption
    <2>2. \A w \in W : w \in mapped /\ w.metric = r.metric /\ w.time >= r.time
        BY <1>2, <1>3, <1>4, <2>1 DEF Metric
    <2>3. r \in N
        BY <2>1 DEF Metric
    <2> QED
        BY <2>2, <2>3 DEF Metric
<1>6. Cardinality(W \cup {r}) = Cardinality(W) + 1
    BY <1>2, <1>3, FS_AddElement
<1>7. Cardinality(W \cup {r}) <= Cardinality(N)
    BY <1>1, <1>5, FS_Subset
<1>8. Cardinality(N) <= Limit
    BY DEF InReach
<1>9. Cardinality(W) \in Nat /\ Cardinality(N) \in Nat /\ Limit \in Nat
    BY <1>1, <1>2, SeriesAssumption, FS_CardinalityType
<1>10. Cardinality(W) < Limit
    BY <1>6, <1>7, <1>8, <1>9
<1> QED
    BY <1>2, <1>3, <1>4, <1>10

-----------------------------------------------------------------------------
(* SeriesJoin: the inductive invariant *)

\* Readings are stored one at a time and stay; what a request found when it
\* began is among them.
StoreInv ==
    /\ IsFiniteSet(mapped)
    /\ request.before \subseteq mapped
    /\ request.step = "none" => request.series = <<>>

\* Each series is the newest of what was stored when it was fetched, which
\* is no less than when the request began and no more than now.
SeriesInv ==
    \A i \in DOMAIN request.series :
        \E S \in SUBSET mapped :
            /\ request.before \subseteq S
            /\ request.series[i] \in Newest(Metric(Wanted[request.kind][i], S))

\* What was scored is the last row of the join of all series.
ScoreInv ==
    request.step = "scored" =>
        /\ Len(request.series) = Len(Wanted[request.kind])
        /\ request.scored = Latest(Running(request.series))

SeriesIInv == SeriesTypeOK /\ StoreInv /\ SeriesInv /\ ScoreInv

LEMMA WantedType ==
    ASSUME NEW k \in DOMAIN Wanted
    PROVE  /\ Wanted[k] \in Seq(Metrics)
           /\ Len(Wanted[k]) \in Nat /\ Len(Wanted[k]) > 0
           /\ DOMAIN Wanted[k] = 1 .. Len(Wanted[k])
<1>1. Wanted[k] \in Seq(Metrics) /\ Wanted[k] # <<>>
    BY SeriesAssumption
<1> QED
    BY <1>1

LEMMA NewestType ==
    ASSUME mapped \subseteq Possible, NEW m, NEW W \in Newest(Metric(m, mapped))
    PROVE  W \in SUBSET Possible
BY DEF Newest, kSubset, Metric

\* The join of at least one series has a latest row, if it has any.
LEMMA LatestIsRunning ==
    ASSUME SeriesTypeOK, StoreInv, SeriesInv, request.series # <<>>,
           Running(request.series) # {}
    PROVE  LET R == Running(request.series)
           IN  Latest(R) \in R /\ \A t \in R : t <= Latest(R)
<1> DEFINE R == Running(request.series)
           W == request.series[1]
           f == [r \in W |-> r.time]
<1>1. request.series \in Seq(SUBSET Possible) /\ 1 \in DOMAIN request.series
    BY DEF SeriesTypeOK, Request
<1>2. PICK S \in SUBSET mapped : W \in Newest(Metric(Wanted[request.kind][1], S))
    BY <1>1 DEF SeriesInv
<1>3. IsFiniteSet(W)
    <2>1. Metric(Wanted[request.kind][1], S) \in SUBSET mapped
        BY DEF Metric
    <2>2. IsFiniteSet(Metric(Wanted[request.kind][1], S))
        BY <2>1, FS_Subset DEF StoreInv
    <2> QED
        BY <1>2, <2>2, NewestFacts
<1>4. IsFiniteSet({r.time : r \in W})
    <2>1. f \in Surjection(W, {r.time : r \in W})
        BY DEF Surjection
    <2> QED
        BY <1>3, <2>1, FS_Surjection
<1>5. R \in SUBSET {r.time : r \in W}
    BY <1>1 DEF Running, Joined
<1>6. IsFiniteSet(R)
    BY <1>4, <1>5, FS_Subset
<1>7. R \in SUBSET Nat
    BY SeriesAssumption DEF Running, Joined
<1>8. Max(R) \in R /\ \A t \in R : t <= Max(R)
    BY <1>6, <1>7, MaxOfFinite
<1> QED
    BY <1>8 DEF Latest

-----------------------------------------------------------------------------
(* SeriesJoin: the steps *)

LEMMA SeriesInitInv == SeriesInit => SeriesIInv
<1> SUFFICES ASSUME SeriesInit PROVE SeriesIInv
    OBVIOUS
<1>1. SeriesTypeOK
    <2>1. "buffer" \in DOMAIN Wanted
        BY SeriesAssumption
    <2>2. Len(request.series) <= Len(Wanted[request.kind])
        BY <2>1, WantedType DEF SeriesInit
    <2> QED
        BY <2>1, <2>2 DEF SeriesInit, SeriesTypeOK, Request
<1>2. StoreInv
    BY FS_EmptySet DEF SeriesInit, StoreInv
<1>3. SeriesInv /\ ScoreInv
    BY DEF SeriesInit, SeriesInv, ScoreInv
<1> QED
    BY <1>1, <1>2, <1>3 DEF SeriesIInv

\* A request that moves on without another series.
LEMMA StepOfRequest ==
    ASSUME SeriesIInv, UNCHANGED mapped, request' \in Request,
           request'.series = request.series, request'.kind = request.kind,
           request'.before = request.before, request'.step # "none",
           ScoreInv'
    PROVE  SeriesIInv'
<1>1. SeriesTypeOK'
    BY DEF SeriesIInv, SeriesTypeOK
<1>2. StoreInv'
    BY DEF SeriesIInv, StoreInv
<1>3. SeriesInv'
    BY DEF SeriesIInv, SeriesInv, Newest
<1> QED
    BY <1>1, <1>2, <1>3 DEF SeriesIInv

LEMMA RefuseToScoreInv ==
    ASSUME SeriesIInv, RefuseToScore
    PROVE  SeriesIInv'
<1>1. request' \in Request
    BY DEF SeriesIInv, SeriesTypeOK, Request, RefuseToScore
<1>2. /\ request'.series = request.series /\ request'.kind = request.kind
      /\ request'.before = request.before /\ request'.step = "refused"
    BY DEF SeriesIInv, SeriesTypeOK, Request, RefuseToScore
<1>3. ScoreInv'
    BY <1>2 DEF ScoreInv
<1> QED
    BY <1>1, <1>2, <1>3, StepOfRequest DEF RefuseToScore

LEMMA BeginInv ==
    ASSUME SeriesIInv, NEW kind \in DOMAIN Wanted, Begin(kind)
    PROVE  SeriesIInv'
<1>1. /\ request' \in Request
      /\ request'.series = <<>> /\ request'.kind = kind
      /\ request'.before = mapped /\ request'.step = "fetching"
    BY DEF SeriesIInv, SeriesTypeOK, StoreInv, Request, Begin
<1>2. SeriesTypeOK'
    <2>1. Len(request'.series) <= Len(Wanted[request'.kind])
        BY <1>1, WantedType
    <2> QED
        BY <1>1, <2>1 DEF SeriesIInv, SeriesTypeOK, Begin
<1>3. StoreInv'
    BY <1>1 DEF SeriesIInv, StoreInv, Begin
<1>4. SeriesInv' /\ ScoreInv'
    BY <1>1 DEF SeriesInv, ScoreInv
<1> QED
    BY <1>2, <1>3, <1>4 DEF SeriesIInv

\* The series that was fetched last is the newest of what is stored now.
LEMMA FetchInv ==
    ASSUME SeriesIInv, Fetch
    PROVE  SeriesIInv'
<1> DEFINE wanted == Wanted[request.kind]
           n == Len(request.series) + 1
<1>1. request \in Request /\ mapped \subseteq Possible
    BY DEF SeriesIInv, SeriesTypeOK
<1>2. /\ request.series \in Seq(SUBSET Possible) /\ request.kind \in DOMAIN Wanted
      /\ request.step = "fetching" /\ n <= Len(wanted)
    BY <1>1 DEF Fetch, Request
<1>3. PICK W \in Newest(Metric(wanted[n], mapped)) :
         IF W = {} /\ request.kind = "buffer"
         THEN RefuseToScore
         ELSE /\ request' = [request EXCEPT !.series = Append(@, W)]
              /\ UNCHANGED mapped
    BY DEF Fetch
<1>4. CASE RefuseToScore
    BY <1>4, RefuseToScoreInv
<1>5. CASE request' = [request EXCEPT !.series = Append(@, W)] /\ UNCHANGED mapped
    <2>1. W \in SUBSET Possible
        BY <1>1, NewestType
    <2>2. /\ request' \in Request /\ request'.series = Append(request.series, W)
          /\ request'.kind = request.kind /\ request'.before = request.before
          /\ request'.step = "fetching"
        <3>1. Append(request.series, W) \in Seq(SUBSET Possible)
            BY <1>2, <2>1
        <3> QED
            BY <1>1, <1>2, <1>5, <3>1 DEF Request
    <2>3. SeriesTypeOK'
        BY <1>1, <1>2, <1>5, <2>1, <2>2 DEF SeriesTypeOK
    <2>4. StoreInv'
        BY <1>5, <2>2 DEF SeriesIInv, StoreInv
    <2>5. SeriesInv'
        <3>1. SUFFICES ASSUME NEW i \in DOMAIN request'.series
                       PROVE  \E S \in SUBSET mapped :
                                 /\ request.before \subseteq S
                                 /\ request'.series[i] \in Newest(Metric(wanted[i], S))
            BY <1>5, <2>2 DEF SeriesInv
        <3>2. CASE i = n
            <4>1. request'.series[n] = W
                BY <1>2, <2>1, <2>2
            <4> QED
                BY <1>3, <3>2, <4>1 DEF SeriesIInv, StoreInv
        <3>3. CASE i # n
            <4>1. i \in DOMAIN request.series /\ request'.series[i] = request.series[i]
                BY <1>2, <2>1, <2>2, <3>3
            <4> QED
                BY <4>1 DEF SeriesIInv, SeriesInv
        <3> QED
            BY <3>2, <3>3
    <2>6. ScoreInv'
        BY <2>2 DEF ScoreInv
    <2> QED
        BY <2>3, <2>4, <2>5, <2>6 DEF SeriesIInv
<1> QED
    BY <1>3, <1>4, <1>5

LEMMA ScoreStepInv ==
    ASSUME SeriesIInv, Score
    PROVE  SeriesIInv'
<1> DEFINE latest == Latest(Running(request.series))
<1>1. request \in Request /\ request.kind \in DOMAIN Wanted
    BY DEF SeriesIInv, SeriesTypeOK, Request
<1>2. /\ request' = [request EXCEPT !.step = "scored", !.scored = latest]
      /\ UNCHANGED mapped /\ Running(request.series) # {}
      /\ Len(request.series) = Len(Wanted[request.kind])
    BY DEF Score, Fetched
<1>3. latest \in Times
    <2>1. request.series # <<>>
        BY <1>1, <1>2, WantedType DEF Request
    <2>2. latest \in Running(request.series)
        BY <1>2, <2>1, LatestIsRunning DEF SeriesIInv
    <2> QED
        BY <2>2 DEF Running, Joined
<1>4. /\ request' \in Request
      /\ request'.series = request.series /\ request'.kind = request.kind
      /\ request'.before = request.before /\ request'.step = "scored"
      /\ request'.scored = latest
    BY <1>1, <1>2, <1>3 DEF Request
<1>5. ScoreInv'
    BY <1>2, <1>4 DEF ScoreInv, Running, Joined, Metric
<1> QED
    BY <1>2, <1>4, <1>5, StepOfRequest

LEMMA StoreStepInv ==
    ASSUME SeriesIInv, NEW r \in Possible, Store(r)
    PROVE  SeriesIInv'
<1>1. mapped' = mapped \cup {r} /\ request' = request
    BY DEF Store
<1>2. SeriesTypeOK'
    BY <1>1 DEF SeriesIInv, SeriesTypeOK
<1>3. StoreInv'
    BY <1>1, FS_AddElement DEF SeriesIInv, StoreInv
<1>4. SeriesInv'
    <2>1. SUBSET mapped \subseteq SUBSET (mapped')
        BY <1>1
    <2> QED
        BY <1>1, <2>1 DEF SeriesIInv, SeriesInv
<1>5. ScoreInv'
    BY <1>1 DEF SeriesIInv, ScoreInv, Running, Joined, Metric
<1> QED
    BY <1>2, <1>3, <1>4, <1>5 DEF SeriesIInv

LEMMA SeriesNextInv == SeriesIInv /\ [SeriesNext]_seriesVars => SeriesIInv'
<1> SUFFICES ASSUME SeriesIInv, [SeriesNext]_seriesVars PROVE SeriesIInv'
    OBVIOUS
<1>1. CASE \E kind \in DOMAIN Wanted : Begin(kind)
    BY <1>1, BeginInv
<1>2. CASE Fetch
    BY <1>2, FetchInv
<1>3. CASE FetchFails \/ NothingToScore
    BY <1>3, RefuseToScoreInv DEF FetchFails, NothingToScore
<1>4. CASE Score
    BY <1>4, ScoreStepInv
<1>5. CASE \E r \in Possible : Store(r)
    BY <1>5, StoreStepInv
<1>6. CASE UNCHANGED seriesVars
    BY <1>6 DEF seriesVars, SeriesIInv, SeriesTypeOK, StoreInv, SeriesInv, ScoreInv
<1> QED
    BY <1>1, <1>2, <1>3, <1>4, <1>5, <1>6 DEF SeriesNext

\* The invariant that the theorems below follow from.
LEMMA SeriesInductive == SeriesSpec => []SeriesIInv
BY SeriesInitInv, SeriesNextInv, PTL DEF SeriesSpec

-----------------------------------------------------------------------------
(* SeriesJoin: what follows *)

\* The request that fetches and scores, and what it has fetched, have their
\* types; what is scored is a moment.
THEOREM SeriesTypes == SeriesSpec => []SeriesTypeOK
<1>1. SeriesIInv => SeriesTypeOK
    BY DEF SeriesIInv
<1> QED
    BY <1>1, SeriesInductive, PTL

\* Whatever was there from the beginning and is in reach has been fetched.
LEMMA FetchedInReach ==
    ASSUME SeriesIInv, NEW i \in DOMAIN request.series, NEW r \in request.before,
           r.metric = Wanted[request.kind][i], InReach(r)
    PROVE  r \in request.series[i]
<1>1. PICK S \in SUBSET mapped :
         /\ request.before \subseteq S
         /\ request.series[i] \in Newest(Metric(Wanted[request.kind][i], S))
    BY DEF SeriesIInv, SeriesInv
<1>2. mapped \subseteq Possible /\ IsFiniteSet(mapped) /\ r \in S
    BY <1>1 DEF SeriesIInv, SeriesTypeOK, StoreInv
<1> QED
    BY <1>1, <1>2, InReachIsFetched

LEMMA StableIsJoined ==
    ASSUME SeriesIInv, Len(request.series) = Len(Wanted[request.kind])
    PROVE  Stable \subseteq Joined(request.series)
<1> SUFFICES ASSUME NEW t \in Stable, NEW i \in DOMAIN request.series
             PROVE  \E r \in request.series[i] : r.time = t
    BY DEF Joined, Stable
<1>1. i \in DOMAIN Wanted[request.kind]
    BY WantedType DEF SeriesIInv, SeriesTypeOK, Request
<1>2. PICK r \in request.before :
         r.metric = Wanted[request.kind][i] /\ r.time = t /\ InReach(r)
    BY <1>1 DEF Stable
<1> QED
    BY <1>2, FetchedInReach

\* A stable moment at which the unit ran is a row that can be scored: only
\* the series of the stage holds readings of the stage.
LEMMA StableOnRuns ==
    ASSUME SeriesIInv, Len(request.series) = Len(Wanted[request.kind]), NEW t \in StableOn
    PROVE  t \in Running(request.series)
<1>1. t \in Stable /\ t \in Joined(request.series)
    BY StableIsJoined DEF StableOn
<1>2. SUFFICES ASSUME NEW i \in DOMAIN request.series,
                      Metric(Stage, request.series[i]) # {}
               PROVE  \E r \in request.series[i] : r.time = t /\ r.on
    BY <1>1 DEF Running
<1>3. i \in DOMAIN Wanted[request.kind]
    BY WantedType DEF SeriesIInv, SeriesTypeOK, Request
<1>4. Wanted[request.kind][i] = Stage
    <2>1. PICK S \in SUBSET mapped :
             request.series[i] \in Newest(Metric(Wanted[request.kind][i], S))
        BY DEF SeriesIInv, SeriesInv
    <2>2. request.series[i] \subseteq Metric(Wanted[request.kind][i], S)
        BY <2>1 DEF Newest, kSubset
    <2> QED
        BY <1>2, <2>2 DEF Metric
<1>5. PICK r \in request.before : r.metric = Stage /\ r.time = t /\ r.on
    BY <1>3, <1>4 DEF StableOn
<1>6. PICK x \in request.before : x.metric = Stage /\ x.time = t /\ InReach(x)
    BY <1>1, <1>3, <1>4 DEF Stable
<1>7. InReach(r)
    BY <1>5, <1>6 DEF InReach
<1> QED
    BY <1>4, <1>5, <1>7, FetchedInReach

\* Series that are fetched one after the other, while readings of any age
\* are stored, are joined on every moment all of them had from the
\* beginning and still have (buffer_builder.py, baselines.py).
THEOREM SlowFetchesJoin == SeriesSpec => []StableMomentsAreJoined
<1>1. SeriesIInv => StableMomentsAreJoined
    BY StableIsJoined DEF StableMomentsAreJoined, Fetched
<1> QED
    BY <1>1, SeriesInductive, PTL

\* What is scored is not older than any such moment at which the unit ran.
THEOREM ScoresAreNew == SeriesSpec => []ScoredIsNewest
<1>1. SeriesIInv => ScoredIsNewest
    <2> SUFFICES ASSUME SeriesIInv, request.step = "scored", NEW t \in StableOn
                 PROVE  t <= request.scored
        BY DEF ScoredIsNewest
    <2>1. /\ Len(request.series) = Len(Wanted[request.kind])
          /\ request.scored = Latest(Running(request.series))
        BY DEF SeriesIInv, ScoreInv
    <2>2. t \in Running(request.series)
        BY <2>1, StableOnRuns
    <2>3. request.series # <<>>
        BY <2>1, WantedType DEF SeriesIInv, SeriesTypeOK, Request
    <2> QED
        BY <2>1, <2>2, <2>3, LatestIsRunning DEF SeriesIInv
<1> QED
    BY <1>1, SeriesInductive, PTL

-----------------------------------------------------------------------------
(* FacilityReport: the calendar *)

Years == 2 .. 9998
Months == 1 .. 12

\* Quotients grow by one where there is no remainder, and never faster
\* than what is divided.
LEMMA Quotients ==
    ASSUME NEW k \in Nat
    PROVE  /\ (k + 1) \div 4 = k \div 4 + (IF (k + 1) % 4 = 0 THEN 1 ELSE 0)
           /\ (k + 1) \div 100 = k \div 100 + (IF (k + 1) % 100 = 0 THEN 1 ELSE 0)
           /\ (k + 1) \div 400 = k \div 400 + (IF (k + 1) % 400 = 0 THEN 1 ELSE 0)
OBVIOUS

LEMMA LeapRemainders ==
    ASSUME NEW y \in Nat
    PROVE  (y % 400 = 0 => y % 100 = 0) /\ (y % 100 = 0 => y % 4 = 0)
OBVIOUS

LEMMA QuotientsGrow ==
    ASSUME NEW j \in Nat, NEW k \in Nat, j <= k
    PROVE  /\ j \div 4 <= k \div 4 /\ j \div 400 <= k \div 400
           /\ k \div 100 - j \div 100 <= k - j
           /\ j \div 4 \in Int /\ j \div 100 \in Int /\ j \div 400 \in Int
           /\ k \div 4 \in Int /\ k \div 100 \in Int /\ k \div 400 \in Int
OBVIOUS

LEMMA YearTypes ==
    ASSUME NEW y \in Years
    PROVE  DaysBeforeYear(y) \in Int /\ DaysBeforeYear(y + 1) \in Int
BY DEF DaysBeforeYear, Years

LEMMA YearLength ==
    ASSUME NEW y \in Years
    PROVE  DaysBeforeYear(y + 1) = DaysBeforeYear(y) + (IF Leap(y) THEN 366 ELSE 365)
<1> DEFINE k == y - 1
<1>1. k \in Nat /\ y = k + 1
    BY DEF Years
<1>2. /\ y \div 4 = k \div 4 + (IF y % 4 = 0 THEN 1 ELSE 0)
      /\ y \div 100 = k \div 100 + (IF y % 100 = 0 THEN 1 ELSE 0)
      /\ y \div 400 = k \div 400 + (IF y % 400 = 0 THEN 1 ELSE 0)
    BY <1>1, Quotients
<1>3. k \div 4 \in Int /\ k \div 100 \in Int /\ k \div 400 \in Int
    BY <1>1
<1>4. (y % 400 = 0 => y % 100 = 0) /\ (y % 100 = 0 => y % 4 = 0)
    BY <1>1, LeapRemainders
<1>5. y \in Int /\ (y + 1) - 1 = y
    BY DEF Years
<1> QED
    BY <1>2, <1>3, <1>4, <1>5 DEF DaysBeforeYear, Leap

LEMMA YearsGrow ==
    ASSUME NEW y \in Years, NEW z \in Years, y < z
    PROVE  DaysBeforeYear(y + 1) <= DaysBeforeYear(z)
<1> DEFINE j == y
           k == z - 1
<1>1. j \in Nat /\ k \in Nat /\ j <= k
    BY DEF Years
<1>2. /\ j \div 4 <= k \div 4 /\ j \div 400 <= k \div 400
      /\ k \div 100 - j \div 100 <= k - j
      /\ j \div 4 \in Int /\ j \div 100 \in Int /\ j \div 400 \in Int
      /\ k \div 4 \in Int /\ k \div 100 \in Int /\ k \div 400 \in Int
    BY <1>1, QuotientsGrow
<1>3. (y + 1) - 1 = j
    BY <1>1
<1> QED
    BY <1>1, <1>2, <1>3 DEF DaysBeforeYear

\* The table of the months and the lengths of the months agree.
LEMMA MonthTable ==
    ASSUME NEW y \in Years, NEW m \in Months
    PROVE  /\ DaysBeforeMonth(y, m) \in Int /\ DaysIn(y, m) \in 28 .. 31
           /\ DaysBeforeMonth(y, 1) = 0
           /\ m < 12 => DaysBeforeMonth(y, m + 1) = DaysBeforeMonth(y, m) + DaysIn(y, m)
           /\ m = 12 => DaysBeforeMonth(y, m) + DaysIn(y, m) =
                           (IF Leap(y) THEN 366 ELSE 365)
<1>1. \/ m = 1 \/ m = 2 \/ m = 3 \/ m = 4 \/ m = 5 \/ m = 6
      \/ m = 7 \/ m = 8 \/ m = 9 \/ m = 10 \/ m = 11 \/ m = 12
    BY DEF Months
<1>2. Leap(y) \in BOOLEAN
    BY DEF Leap
<1> QED
    BY <1>1, <1>2 DEF DaysBeforeMonth, DaysIn

LEMMA MonthsGrow ==
    ASSUME NEW y \in Years, NEW m \in Months, NEW n \in Months, m < n
    PROVE  DaysBeforeMonth(y, m) + DaysIn(y, m) <= DaysBeforeMonth(y, n)
<1>1. \/ m = 1 \/ m = 2 \/ m = 3 \/ m = 4 \/ m = 5 \/ m = 6
      \/ m = 7 \/ m = 8 \/ m = 9 \/ m = 10 \/ m = 11
    BY DEF Months
<1>2. \/ n = 2 \/ n = 3 \/ n = 4 \/ n = 5 \/ n = 6
      \/ n = 7 \/ n = 8 \/ n = 9 \/ n = 10 \/ n = 11 \/ n = 12
    BY DEF Months
<1>3. Leap(y) \in BOOLEAN
    BY DEF Leap
<1> QED
    BY <1>1, <1>2, <1>3 DEF DaysBeforeMonth, DaysIn

LEMMA DateTypes ==
    ASSUME NEW date \in Dates
    PROVE  /\ date[1] \in Years /\ date[2] \in Months
           /\ date[3] \in 1 .. DaysIn(date[1], date[2])
           /\ date = <<date[1], date[2], date[3]>>
           /\ DayOf(date) \in Int
           /\ Midnight(date[1], date[2], 1) \in Int
           /\ DaysIn(date[1], date[2]) \in 28 .. 31
           /\ DayOf(date) = Midnight(date[1], date[2], 1) + date[3] - 1
<1>1. date \in (2 .. 9998) \X (1 .. 12) \X (1 .. 31)
    BY ReportAssumption
<1>2. /\ date[1] \in Years /\ date[2] \in Months /\ date[3] \in 1 .. 31
      /\ date = <<date[1], date[2], date[3]>>
    BY <1>1 DEF Years, Months
<1>3. DaysIn(date[1], date[2]) \in 28 .. 31 /\ date[3] <= DaysIn(date[1], date[2])
    BY <1>2, MonthTable, ReportAssumption
<1>4. DaysBeforeYear(date[1]) \in Int /\ DaysBeforeMonth(date[1], date[2]) \in Int
    <2> DEFINE y == date[1]
               m == date[2]
    <2>1. y \in Years /\ m \in Months
        BY <1>2
    <2> HIDE DEF y, m
    <2>2. DaysBeforeYear(y) \in Int /\ DaysBeforeMonth(y, m) \in Int
        BY <2>1, YearTypes, MonthTable
    <2> QED
        BY <2>2 DEF y, m
<1> QED
    BY <1>2, <1>3, <1>4 DEF DayOf, Midnight

\* The end of the monthly window is the end of the month.
LEMMA MonthEnds ==
    ASSUME NEW date \in Dates
    PROVE  NextMonth(date) = Midnight(date[1], date[2], 1) + DaysIn(date[1], date[2])
<1> DEFINE y == date[1]
           m == date[2]
<1>1. y \in Years /\ m \in Months
    BY DateTypes
<1>2. NextMonth(date) = IF m = 12 THEN Midnight(y + 1, 1, 1) ELSE Midnight(y, m + 1, 1)
    BY DEF NextMonth
<1> HIDE DEF y, m
<1>3. /\ DaysBeforeYear(y) \in Int /\ DaysBeforeYear(y + 1) \in Int
      /\ DaysBeforeMonth(y, m) \in Int /\ DaysIn(y, m) \in Int
    BY <1>1, YearTypes, MonthTable
<1>4. NextMonth(date) = Midnight(y, m, 1) + DaysIn(y, m)
    <2>1. CASE m = 12
        <3>1. NextMonth(date) = DaysBeforeYear(y + 1) + 0 + 1
            <4>1. DaysBeforeMonth(y + 1, 1) = 0
                BY <1>1 DEF DaysBeforeMonth, Years
            <4> QED
                BY <1>2, <2>1, <4>1 DEF Midnight
        <3>2. DaysBeforeYear(y + 1) = DaysBeforeYear(y) + (IF Leap(y) THEN 366 ELSE 365)
            BY <1>1, YearLength
        <3>3. DaysBeforeMonth(y, m) + DaysIn(y, m) = (IF Leap(y) THEN 366 ELSE 365)
            BY <1>1, <2>1, MonthTable
        <3> QED
            BY <1>3, <3>1, <3>2, <3>3 DEF Midnight
    <2>2. CASE m # 12
        <3>1. DaysBeforeMonth(y, m + 1) = DaysBeforeMonth(y, m) + DaysIn(y, m)
            <4>1. m < 12
                BY <1>1, <2>2 DEF Months
            <4> QED
                BY <1>1, <4>1, MonthTable
        <3>2. NextMonth(date) = DaysBeforeYear(y) + DaysBeforeMonth(y, m + 1) + 1
            BY <1>2, <2>2 DEF Midnight
        <3> QED
            BY <1>3, <3>1, <3>2 DEF Midnight
    <2> QED
        BY <2>1, <2>2
<1> QED
    BY <1>4 DEF y, m

\* A month is over before a later one begins, in the same year or another.
LEMMA MonthsApart ==
    ASSUME NEW y \in Years, NEW m \in Months, NEW z \in Years, NEW n \in Months,
           y < z \/ (y = z /\ m < n)
    PROVE  Midnight(y, m, 1) + DaysIn(y, m) <= Midnight(z, n, 1)
<1>1. /\ DaysBeforeYear(y) \in Int /\ DaysBeforeYear(y + 1) \in Int
      /\ DaysBeforeYear(z) \in Int
    BY YearTypes
<1>2. /\ DaysBeforeMonth(y, m) \in Int /\ DaysIn(y, m) \in 28 .. 31
      /\ DaysBeforeMonth(z, n) \in Int
    BY MonthTable
<1>3. CASE y = z /\ m < n
    <2>1. DaysBeforeMonth(y, m) + DaysIn(y, m) <= DaysBeforeMonth(y, n)
        BY <1>3, MonthsGrow
    <2> QED
        BY <1>1, <1>2, <1>3, <2>1 DEF Midnight
<1>4. CASE y < z
    <2>1. DaysBeforeMonth(y, m) + DaysIn(y, m) <= (IF Leap(y) THEN 366 ELSE 365)
        <3>1. 12 \in Months /\ (m < 12 \/ m = 12)
            BY DEF Months
        <3>2. /\ DaysBeforeMonth(y, 12) \in Int /\ DaysIn(y, 12) \in 28 .. 31
              /\ DaysBeforeMonth(y, 12) + DaysIn(y, 12) = (IF Leap(y) THEN 366 ELSE 365)
            BY <3>1, MonthTable
        <3>3. CASE m = 12
            BY <3>2, <3>3
        <3>4. CASE m < 12
            <4>1. DaysBeforeMonth(y, m) + DaysIn(y, m) <= DaysBeforeMonth(y, 12)
                BY <3>1, <3>4, MonthsGrow
            <4> QED
                BY <1>2, <3>2, <4>1
        <3> QED
            BY <3>1, <3>3, <3>4
    <2>2. DaysBeforeYear(y + 1) = DaysBeforeYear(y) + (IF Leap(y) THEN 366 ELSE 365)
        BY YearLength
    <2>3. DaysBeforeYear(y + 1) <= DaysBeforeYear(z)
        BY <1>4, YearsGrow
    <2>4. 0 <= DaysBeforeMonth(z, n)
        <3>1. 1 \in Months /\ DaysBeforeMonth(z, 1) = 0 /\ (n = 1 \/ 1 < n)
            BY MonthTable DEF Months
        <3>2. CASE 1 < n
            <4>1. DaysBeforeMonth(z, 1) + DaysIn(z, 1) <= DaysBeforeMonth(z, n)
                BY <3>1, <3>2, MonthsGrow
            <4>2. DaysIn(z, 1) \in 28 .. 31
                BY <3>1, MonthTable
            <4> QED
                BY <1>2, <3>1, <4>1, <4>2
        <3> QED
            BY <3>1, <3>2
    <2> HIDE DEF DaysBeforeYear, DaysBeforeMonth, DaysIn, Leap
    <2> QED
        BY <1>1, <1>2, <2>1, <2>2, <2>3, <2>4 DEF Midnight
<1> QED
    BY <1>3, <1>4

LEMMA DayInMonth ==
    ASSUME NEW y \in Years, NEW m \in Months, NEW z \in Years, NEW n \in Months,
           NEW k \in 1 .. DaysIn(z, n)
    PROVE  (/\ Midnight(y, m, 1) <= Midnight(z, n, 1) + k - 1
            /\ Midnight(z, n, 1) + k - 1 < Midnight(y, m, 1) + DaysIn(y, m))
           <=> (z = y /\ n = m)
<1>1. /\ Midnight(y, m, 1) \in Int /\ DaysIn(y, m) \in 28 .. 31
      /\ Midnight(z, n, 1) \in Int /\ DaysIn(z, n) \in 28 .. 31
    <2>1. /\ DaysBeforeYear(y) \in Int /\ DaysBeforeMonth(y, m) \in Int
          /\ DaysBeforeYear(z) \in Int /\ DaysBeforeMonth(z, n) \in Int
        BY YearTypes, MonthTable
    <2> QED
        BY <2>1, MonthTable DEF Midnight
<1>2. \/ z = y /\ n = m
      \/ z < y \/ (z = y /\ n < m)
      \/ y < z \/ (y = z /\ m < n)
    BY DEF Years, Months
<1>3. CASE z = y /\ n = m
    BY <1>1, <1>3
<1>4. CASE z < y \/ (z = y /\ n < m)
    <2>1. Midnight(z, n, 1) + DaysIn(z, n) <= Midnight(y, m, 1)
        BY <1>4, MonthsApart
    <2>2. ~(z = y /\ n = m)
        BY <1>4 DEF Years, Months
    <2> QED
        BY <1>1, <2>1, <2>2
<1>5. CASE y < z \/ (y = z /\ m < n)
    <2>1. Midnight(y, m, 1) + DaysIn(y, m) <= Midnight(z, n, 1)
        BY <1>5, MonthsApart
    <2>2. ~(z = y /\ n = m)
        BY <1>5 DEF Years, Months
    <2> QED
        BY <1>1, <2>1, <2>2
<1> QED
    BY <1>2, <1>3, <1>4, <1>5

\* A date lies in the month of another one exactly if its day lies in the
\* window of the month.
LEMMA InMonth ==
    ASSUME NEW c \in Dates, NEW e \in Dates
    PROVE  (/\ Midnight(c[1], c[2], 1) <= DayOf(e)
            /\ DayOf(e) < NextMonth(c)) <=> (e[1] = c[1] /\ e[2] = c[2])
<1> DEFINE y == c[1]
           m == c[2]
           z == e[1]
           n == e[2]
           k == e[3]
<1>1. /\ y \in Years /\ m \in Months /\ z \in Years /\ n \in Months
      /\ k \in 1 .. DaysIn(z, n)
      /\ DayOf(e) = Midnight(z, n, 1) + k - 1
    BY DateTypes, Zenon
<1>2. NextMonth(c) = Midnight(y, m, 1) + DaysIn(y, m)
    BY MonthEnds
<1> HIDE DEF y, m, z, n, k
<1>3. (/\ Midnight(y, m, 1) <= DayOf(e)
       /\ DayOf(e) < NextMonth(c)) <=> (z = y /\ n = m)
    BY <1>1, <1>2, DayInMonth
<1> QED
    BY <1>3 DEF y, m, z, n, k

LEMMA DaysDiffer ==
    ASSUME NEW c \in Dates, NEW e \in Dates, DayOf(c) = DayOf(e)
    PROVE  c = e
<1>1. /\ c = <<c[1], c[2], c[3]>> /\ e = <<e[1], e[2], e[3]>>
      /\ c[3] \in 1 .. DaysIn(c[1], c[2]) /\ e[3] \in 1 .. DaysIn(e[1], e[2])
      /\ DaysIn(c[1], c[2]) \in 28 .. 31
      /\ Midnight(c[1], c[2], 1) \in Int
      /\ DayOf(c) = Midnight(c[1], c[2], 1) + c[3] - 1
      /\ DayOf(e) = Midnight(e[1], e[2], 1) + e[3] - 1
    BY DateTypes
<1>2. e[1] = c[1] /\ e[2] = c[2]
    <2>1. /\ Midnight(c[1], c[2], 1) <= DayOf(c) /\ DayOf(c) < NextMonth(c)
        BY InMonth
    <2> QED
        BY <2>1, InMonth
<1>3. c[3] = e[3]
    <2>1. \A f \in Int, n \in 28 .. 31 : \A i, j \in 1 .. n :
             f + i - 1 = f + j - 1 => i = j
        OBVIOUS
    <2> QED
        BY <1>1, <1>2, <2>1, Zenon
<1> QED
    BY <1>1, <1>2, <1>3

LEMMA DateOfDay ==
    ASSUME NEW date \in Dates
    PROVE  DateOf(DayOf(date)) = date
BY DaysDiffer DEF DateOf

\* What the windows say, said without them.
LEMMA WindowsAreRight ==
    ASSUME NEW period \in Period, NEW date \in Dates, NEW day \in Days
    PROVE  InPeriod(period, date, day) <=>
              (Start(period, date) <= day /\ day < End(period, date))
<1>1. PICK other \in Dates : day = DayOf(other)
    BY DEF Days
<1>2. DayOf(date) \in Int /\ day \in Int
    BY <1>1, DateTypes
<1>3. CASE period = "daily"
    BY <1>2, <1>3 DEF InPeriod, Start, End
<1>4. CASE period = "weekly"
    BY <1>2, <1>4 DEF InPeriod, Start, End
<1>5. CASE period = "monthly"
    <2>1. Start(period, date) = Midnight(date[1], date[2], 1) /\ End(period, date) = NextMonth(date)
        BY <1>5 DEF Start, End
    <2>2. InPeriod(period, date, day) <=> (other[1] = date[1] /\ other[2] = date[2])
        BY <1>1, <1>5, DateOfDay DEF InPeriod
    <2> QED
        BY <1>1, <2>1, <2>2, InMonth
<1> QED
    BY <1>3, <1>4, <1>5 DEF Period

\* The ordinal of a date is a natural number.
LEMMA DaysAreNatural == Days \subseteq Nat
<1> SUFFICES ASSUME NEW date \in Dates PROVE DayOf(date) \in Nat
    BY DEF Days
<1> DEFINE y == date[1]
           m == date[2]
<1>1. /\ y \in Years /\ m \in Months /\ date[3] \in 1 .. DaysIn(y, m)
      /\ DaysIn(y, m) \in 28 .. 31
    BY DateTypes
<1>2. DayOf(date) = DaysBeforeYear(y) + DaysBeforeMonth(y, m) + date[3]
    BY DEF DayOf, Midnight
<1> HIDE DEF y, m
<1>3. DaysBeforeYear(y) \in Nat
    BY <1>1 DEF DaysBeforeYear, Years
<1>4. DaysBeforeMonth(y, m) \in Nat
    <2>1. \/ m = 1 \/ m = 2 \/ m = 3 \/ m = 4 \/ m = 5 \/ m = 6
          \/ m = 7 \/ m = 8 \/ m = 9 \/ m = 10 \/ m = 11 \/ m = 12
        BY <1>1 DEF Months
    <2> QED
        BY <2>1 DEF DaysBeforeMonth
<1> QED
    BY <1>1, <1>2, <1>3, <1>4

LEMMA MinOfNatural ==
    ASSUME NEW T \in SUBSET Nat, T # {}
    PROVE  Min(T) \in T /\ \A x \in T : Min(T) <= x
<1> DEFINE R == OpToRel(<, Nat)
<1>0. \A x, y \in Nat : x < y => <<x, y>> \in R
    BY DEF OpToRel
<1>1. PICK m \in T : \A x \in T : <<x, m>> \notin R
    <2>1. IsWellFoundedOn(R, Nat)
        BY NatLessThanWellFounded
    <2> HIDE DEF R
    <2> QED
        BY <2>1, WFMin
<1> HIDE DEF R
<1>2. \A x \in T : m <= x
    <2>1. \A x \in T : ~(x < m)
        BY <1>0, <1>1
    <2> QED
        BY <2>1
<1> QED
    BY <1>2 DEF Min

LEMMA WindowTypes ==
    ASSUME NEW period \in Period, NEW date \in Dates
    PROVE  Start(period, date) \in Int /\ End(period, date) \in Int
<1>1. /\ DayOf(date) \in Int /\ Midnight(date[1], date[2], 1) \in Int
      /\ DaysIn(date[1], date[2]) \in 28 .. 31
    BY DateTypes
<1>2. NextMonth(date) = Midnight(date[1], date[2], 1) + DaysIn(date[1], date[2])
    BY MonthEnds
<1> QED
    BY <1>1, <1>2 DEF Start, End, Period

-----------------------------------------------------------------------------
(* FacilityReport: the inductive invariant *)

\* What an answer counts now: nothing is added to a period that was over
\* when the assets were listed.
Found == {x \in alerts : x.asset \in report.assets /\ Within(x.created, report)}

WorldInv ==
    /\ IsFiniteSet(alerts) /\ Cardinality(alerts) <= MaxAlerts
    /\ IsFiniteSet(readings) /\ Cardinality(readings) <= MaxReadings
    /\ \A x \in alerts : x.asset \in assets /\ x.created <= today

CountedIn == {"counting", "answered"}

\* An asset that was not listed was added later, and so were its alerts.
ListedInv ==
    /\ report.step \in {"resolved", "listed", "counting", "answered"} => report.date \in Dates
    /\ report.step \in {"listed", "counting", "answered"} =>
          /\ report.listed <= today /\ report.assets \subseteq assets
          /\ \A x \in alerts : x.asset \notin report.assets => report.listed <= x.created
    /\ report.waits \subseteq report.assets
    /\ report.step \notin CountedIn => report.waits = {}

CountInv ==
    /\ report.step \in CountedIn =>
          /\ report.listed >= End(report.period, report.date) =>
                /\ report.counts.total = Number(Found)
                /\ report.counts.alerts = [a \in Assets |-> Number({x \in Found : x.asset = a})]
          /\ \A a \in Assets : report.counts.readings[a] > 0 =>
                a \in report.assets /\ report.counts.readings[a] <= Volume(a)
    /\ report.step \notin CountedIn => report.counts = NoCounts

ReportIInv == TypeOK /\ WorldInv /\ ListedInv /\ CountInv

LEMMA NoCountsType == NoCounts \in Counts
BY ReportAssumption DEF NoCounts, Counts

LEMMA FirstDay == Min(Days) \in Days
<1>1. Days # {}
    BY ReportAssumption DEF Days
<1> QED
    BY <1>1, DaysAreNatural, MinOfNatural

\* A count of some of the alerts, or of the readings, is within its bound.
LEMMA NumberOfAlerts ==
    ASSUME WorldInv, NEW S \in SUBSET alerts
    PROVE  IsFiniteSet(S) /\ Number(S) \in 0 .. MaxAlerts
<1>1. IsFiniteSet(S) /\ Cardinality(S) <= Cardinality(alerts)
    BY FS_Subset DEF WorldInv
<1>2. Cardinality(S) \in Nat /\ Cardinality(alerts) \in Nat /\ MaxAlerts \in Nat
    BY <1>1, FS_CardinalityType, ReportAssumption DEF WorldInv
<1> QED
    BY <1>1, <1>2 DEF WorldInv, Number

LEMMA NumberOfReadings ==
    ASSUME WorldInv, NEW S \in SUBSET readings
    PROVE  IsFiniteSet(S) /\ Number(S) \in 0 .. MaxReadings
<1>1. IsFiniteSet(S) /\ Cardinality(S) <= Cardinality(readings)
    BY FS_Subset DEF WorldInv
<1>2. Cardinality(S) \in Nat /\ Cardinality(readings) \in Nat /\ MaxReadings \in Nat
    BY <1>1, FS_CardinalityType, ReportAssumption DEF WorldInv
<1> QED
    BY <1>1, <1>2 DEF WorldInv, Number

LEMMA VolumeType ==
    ASSUME WorldInv, NEW a
    PROVE  Volume(a) \in 0 .. MaxReadings
BY NumberOfReadings DEF Volume

LEMMA ReportInitInv == Init => ReportIInv
<1> SUFFICES ASSUME Init PROVE ReportIInv
    OBVIOUS
<1>1. Min(Days) \in Days /\ NoCounts \in Counts
    BY FirstDay, NoCountsType
<1>2. TypeOK
    BY <1>1, ReportAssumption DEF Init, TypeOK, Report, Period
<1>3. WorldInv
    BY FS_EmptySet, ReportAssumption DEF Init, WorldInv
<1>4. ListedInv /\ CountInv
    BY DEF Init, ListedInv, CountInv, CountedIn
<1> QED
    BY <1>2, <1>3, <1>4 DEF ReportIInv

-----------------------------------------------------------------------------
(* FacilityReport: the steps of the handler *)

LEMMA ReportFields ==
    ASSUME TypeOK
    PROVE  /\ report \in Report /\ report.counts \in Counts
           /\ report.period \in Period /\ report.listed \in Days
           /\ report.assets \subseteq Assets /\ report.waits \subseteq Assets
BY DEF TypeOK, Report

\* Before the alerts are counted nothing is counted, so only the types and
\* what was listed have to be shown.
LEMMA EarlyStep ==
    ASSUME ReportIInv, UNCHANGED world, report' \in Report,
           report.step \notin CountedIn, report'.step \notin CountedIn,
           report'.counts = report.counts, ListedInv'
    PROVE  ReportIInv'
<1>1. TypeOK' /\ WorldInv'
    BY DEF ReportIInv, TypeOK, WorldInv, world
<1>2. CountInv'
    BY DEF ReportIInv, CountInv
<1> QED
    BY <1>1, <1>2 DEF ReportIInv

LEMMA RefuseReportInv ==
    ASSUME ReportIInv, Refuse, report.step \notin CountedIn
    PROVE  ReportIInv'
<1>1. /\ report' \in Report /\ report'.step = "refused"
      /\ report'.counts = report.counts /\ report'.assets = report.assets
      /\ report'.waits = report.waits
    BY DEF ReportIInv, TypeOK, Report, Refuse
<1>2. ListedInv'
    BY <1>1 DEF ReportIInv, ListedInv, CountedIn
<1>3. report'.step \notin CountedIn
    BY <1>1 DEF CountedIn
<1> QED
    BY <1>1, <1>2, <1>3, EarlyStep DEF Refuse

LEMMA AskInv ==
    ASSUME ReportIInv, NEW period \in Period, NEW date \in Dates \cup {<<>>},
           GetFacilityReport(period, date)
    PROVE  ReportIInv'
<1>1. /\ report' \in Report /\ report.step = "none" /\ report'.step = "asked"
      /\ report'.counts = report.counts /\ report'.assets = report.assets
      /\ report'.waits = report.waits
    BY DEF ReportIInv, TypeOK, Report, GetFacilityReport
<1>2. ListedInv'
    BY <1>1 DEF ReportIInv, ListedInv, CountedIn
<1>3. report.step \notin CountedIn /\ report'.step \notin CountedIn
    BY <1>1 DEF CountedIn
<1> QED
    BY <1>1, <1>2, <1>3, EarlyStep DEF GetFacilityReport

LEMMA AccessInv ==
    ASSUME ReportIInv, VerifyFacilityAccess
    PROVE  ReportIInv'
<1>1. report.step \notin CountedIn
    BY DEF VerifyFacilityAccess, CountedIn
<1>2. CASE Refuse
    BY <1>1, <1>2, RefuseReportInv
<1>3. CASE ~Refuse
    <2> DEFINE date == IF report.date = <<>> THEN DateOf(today) ELSE report.date
    <2>1. /\ report' = [report EXCEPT !.step = "resolved", !.date = date]
          /\ UNCHANGED world
        BY <1>3 DEF VerifyFacilityAccess
    <2>2. date \in Dates
        <3>1. PICK d \in Dates : today = DayOf(d)
            BY DEF ReportIInv, TypeOK, Days
        <3>2. DateOf(today) \in Dates
            BY <3>1, DateOfDay
        <3> QED
            BY <3>2 DEF ReportIInv, TypeOK, Report
    <2>3. /\ report' \in Report /\ report'.step = "resolved" /\ report'.date \in Dates
          /\ report'.counts = report.counts /\ report'.assets = report.assets
          /\ report'.waits = report.waits
        BY <2>1, <2>2 DEF ReportIInv, TypeOK, Report
    <2>4. ListedInv'
        BY <1>1, <2>3 DEF ReportIInv, ListedInv, CountedIn
    <2>5. report'.step \notin CountedIn
        BY <2>3 DEF CountedIn
    <2> QED
        BY <1>1, <2>1, <2>3, <2>4, <2>5, EarlyStep
<1> QED
    BY <1>2, <1>3

\* All alerts so far are of assets that are listed, and later ones will not
\* be older than today.
LEMMA ListInv ==
    ASSUME ReportIInv, GetFacilityAssets
    PROVE  ReportIInv'
<1>1. report.step = "resolved" /\ report.step \notin CountedIn
    BY DEF GetFacilityAssets, CountedIn
<1>2. CASE Refuse
    BY <1>1, <1>2, RefuseReportInv
<1>3. CASE ~Refuse
    <2>1. /\ report' = [report EXCEPT !.step = "listed", !.assets = assets, !.listed = today]
          /\ UNCHANGED world
        BY <1>3 DEF GetFacilityAssets
    <2>2. /\ report' \in Report /\ report'.step = "listed" /\ report'.date = report.date
          /\ report'.counts = report.counts /\ report'.assets = assets
          /\ report'.waits = report.waits /\ report'.listed = today
        BY <2>1 DEF ReportIInv, TypeOK, Report
    <2>3. report.waits = {}
        BY <1>1 DEF ReportIInv, ListedInv
    <2>4. ListedInv'
        <3>1. \A x \in alerts : x.asset \in assets
            BY DEF ReportIInv, WorldInv
        <3>2. today \in Int /\ today <= today /\ report.date \in Dates
            BY <1>1, DaysAreNatural DEF ReportIInv, TypeOK, ListedInv
        <3>3. UNCHANGED <<today, assets, alerts>>
            BY <2>1 DEF world
        <3> QED
            BY <2>2, <2>3, <3>1, <3>2, <3>3 DEF ListedInv
    <2>5. report'.step \notin CountedIn
        BY <2>2 DEF CountedIn
    <2> QED
        BY <1>1, <2>1, <2>2, <2>4, <2>5, EarlyStep
<1> QED
    BY <1>2, <1>3

LEMMA CountAlertsType ==
    ASSUME WorldInv, NEW S \in SUBSET alerts
    PROVE  /\ CountAlerts(S) \in Counts
           /\ CountAlerts(S).total = Number(S)
           /\ CountAlerts(S).alerts = [a \in Assets |-> Number({x \in S : x.asset = a})]
           /\ CountAlerts(S).readings = [a \in Assets |-> 0]
<1>1. Number(S) \in 0 .. MaxAlerts
    BY NumberOfAlerts
<1>2. \A a \in Assets : Number({x \in S : x.asset = a}) \in 0 .. MaxAlerts
    <2>1. \A a : {x \in S : x.asset = a} \in SUBSET alerts
        OBVIOUS
    <2> QED
        BY <2>1, NumberOfAlerts
<1>3. [a \in Assets |-> Number({x \in S : x.asset = a})] \in [Assets -> 0 .. MaxAlerts]
    BY <1>2
<1>4. [a \in Assets |-> 0] \in [Assets -> 0 .. MaxReadings]
    BY ReportAssumption
<1> QED
    BY <1>1, <1>3, <1>4 DEF CountAlerts, NoCounts, Counts

\* One query: what it finds is all there is.
LEMMA QueryInv ==
    ASSUME ReportIInv, QueryAlerts
    PROVE  ReportIInv'
<1> DEFINE counts == CountAlerts(Found)
           step == IF report.assets = {} THEN "answered" ELSE "counting"
<1>1. /\ report.step = "listed" /\ UNCHANGED world
      /\ report' = [report EXCEPT !.step = step, !.waits = report.assets, !.counts = counts]
    BY DEF QueryAlerts, Found
<1>2. /\ counts \in Counts /\ counts.total = Number(Found)
      /\ counts.alerts = [a \in Assets |-> Number({x \in Found : x.asset = a})]
      /\ counts.readings = [a \in Assets |-> 0]
    <2>1. Found \in SUBSET alerts
        BY DEF Found
    <2> QED
        BY <2>1, CountAlertsType DEF ReportIInv
<1> HIDE DEF counts
<1>3. /\ report' \in Report /\ report'.step \in CountedIn /\ report'.counts = counts
      /\ report'.assets = report.assets /\ report'.date = report.date
      /\ report'.period = report.period /\ report'.listed = report.listed
      /\ report'.waits = report.assets
    BY <1>1, <1>2 DEF ReportIInv, TypeOK, Report, CountedIn
<1>4. TypeOK' /\ WorldInv'
    BY <1>1, <1>3 DEF ReportIInv, TypeOK, WorldInv, world
<1>5. ListedInv'
    BY <1>1, <1>3 DEF ReportIInv, ListedInv, CountedIn, world
<1>6. Found' = Found
    BY <1>1, <1>3 DEF Found, Within, world
<1>7. CountInv'
    BY <1>2, <1>3, <1>6 DEF CountInv
<1> QED
    BY <1>4, <1>5, <1>7 DEF ReportIInv

\* An asset's count arrives, or 0 in its place.
LEMMA CountedInv ==
    ASSUME ReportIInv, NEW a \in Assets, NEW n \in 0 .. Volume(a), Counted(a, n)
    PROVE  ReportIInv'
<1> DEFINE counts == [report.counts EXCEPT !.readings[a] = n]
<1>1. /\ report.step = "counting" /\ a \in report.waits /\ UNCHANGED world
      /\ report' = [report EXCEPT !.waits = report.waits \ {a}, !.counts = counts]
    <2>1. report' = [report EXCEPT !.waits = @ \ {a}, !.counts.readings[a] = n]
        BY DEF Counted
    <2> QED
        BY <2>1 DEF Counted
<1>2. /\ report.counts.readings \in [Assets -> 0 .. MaxReadings]
      /\ report.counts \in Counts
    BY DEF ReportIInv, TypeOK, Report, Counts
<1>3. n \in 0 .. MaxReadings
    BY VolumeType, ReportAssumption DEF ReportIInv
<1>4. /\ counts \in Counts /\ counts.total = report.counts.total
      /\ counts.alerts = report.counts.alerts
      /\ counts.readings = [report.counts.readings EXCEPT ![a] = n]
    BY <1>2, <1>3 DEF Counts
<1> HIDE DEF counts
<1>5. /\ report' \in Report /\ report'.step = "counting" /\ report'.counts = counts
      /\ report'.assets = report.assets /\ report'.date = report.date
      /\ report'.period = report.period /\ report'.listed = report.listed
      /\ report'.waits = report.waits \ {a}
    BY <1>1, <1>4 DEF ReportIInv, TypeOK, Report
<1>6. TypeOK' /\ WorldInv'
    BY <1>1, <1>5 DEF ReportIInv, TypeOK, WorldInv, world
<1>7. ListedInv'
    BY <1>1, <1>5 DEF ReportIInv, ListedInv, CountedIn, world
<1>8. Found' = Found /\ \A b : Volume(b)' = Volume(b)
    BY <1>1, <1>5 DEF Found, Volume, Within, world
<1>9. CountInv'
    <2>1. report.step \in CountedIn /\ report'.step \in CountedIn
        BY <1>1, <1>5 DEF CountedIn
    <2>2. report'.listed >= End(report'.period, report'.date) =>
             /\ report'.counts.total = Number(Found')
             /\ report'.counts.alerts = [b \in Assets |-> Number({x \in Found' : x.asset = b})]
        BY <1>4, <1>5, <1>8, <2>1 DEF ReportIInv, CountInv
    <2>3. SUFFICES ASSUME NEW b \in Assets, report'.counts.readings[b] > 0
                   PROVE  b \in report'.assets /\ report'.counts.readings[b] <= Volume(b)
        BY <1>8, <2>1, <2>2 DEF CountInv
    <2>4. CASE b = a
        <3>1. a \in report.assets
            BY <1>1 DEF ReportIInv, ListedInv
        <3>2. report'.counts.readings[a] = n
            BY <1>2, <1>4, <1>5
        <3>3. n <= Volume(a)
            BY VolumeType DEF ReportIInv
        <3> QED
            BY <1>5, <2>4, <3>1, <3>2, <3>3
    <2>5. CASE b # a
        BY <1>2, <1>4, <1>5, <2>1, <2>3, <2>5 DEF ReportIInv, CountInv
    <2> QED
        BY <2>4, <2>5
<1> QED
    BY <1>6, <1>7, <1>9 DEF ReportIInv

LEMMA GatheredInv ==
    ASSUME ReportIInv, Gathered
    PROVE  ReportIInv'
<1>1. /\ report.step = "counting" /\ UNCHANGED world
      /\ report' \in Report /\ report'.step = "answered" /\ report'.counts = report.counts
      /\ report'.assets = report.assets /\ report'.date = report.date
      /\ report'.period = report.period /\ report'.listed = report.listed
      /\ report'.waits = report.waits
    BY DEF ReportIInv, TypeOK, Report, Gathered
<1>2. TypeOK' /\ WorldInv'
    BY <1>1 DEF ReportIInv, TypeOK, WorldInv, world
<1>3. ListedInv'
    BY <1>1 DEF ReportIInv, ListedInv, CountedIn, world
<1>4. Found' = Found /\ \A b : Volume(b)' = Volume(b)
    BY <1>1 DEF Found, Volume, Within, world
<1>5. report.step \in CountedIn /\ report'.step \in CountedIn
    BY <1>1 DEF CountedIn
<1>6. CountInv'
    BY <1>1, <1>4, <1>5 DEF ReportIInv, CountInv
<1> QED
    BY <1>2, <1>3, <1>6 DEF ReportIInv

-----------------------------------------------------------------------------
(* FacilityReport: the steps of the others *)

LEMMA DayTypes ==
    ASSUME TypeOK
    PROVE  /\ today \in Int /\ today <= today
           /\ report.listed \in Int
           /\ \A x \in alerts : x.created \in Days /\ x.created \in Int
<1>1. today \in Days /\ report.listed \in Days /\ \A x \in alerts : x.created \in Days
    BY DEF TypeOK, Report, Alert
<1>2. \A day \in Days : day \in Int /\ day <= day
    BY DaysAreNatural
<1> QED
    BY <1>1, <1>2

LEMMA OneMore ==
    ASSUME NEW S, NEW x, IsFiniteSet(S)
    PROVE  /\ IsFiniteSet(S \cup {x})
           /\ Cardinality(S \cup {x}) <= Cardinality(S) + 1
<1>1. Cardinality(S) \in Nat
    BY FS_CardinalityType
<1>2. /\ IsFiniteSet(S \cup {x})
      /\ Cardinality(S \cup {x}) = IF x \in S THEN Cardinality(S) ELSE Cardinality(S) + 1
    BY FS_AddElement
<1> QED
    BY <1>1, <1>2

\* Nothing that was counted changes: the request is the same, and so are
\* its alerts if its period is over, and no reading goes.
LEMMA CountsStand ==
    ASSUME ReportIInv, UNCHANGED report, WorldInv',
           report.step \in CountedIn /\ report.listed >= End(report.period, report.date)
              => Found' = Found,
           readings \subseteq readings'
    PROVE  CountInv'
<1>1. CASE report.step \notin CountedIn
    BY <1>1 DEF ReportIInv, CountInv
<1>2. CASE report.step \in CountedIn
    <2>1. \A a : Volume(a) <= Volume(a)'
        <3>1. SUFFICES ASSUME NEW a PROVE Volume(a) <= Volume(a)'
            OBVIOUS
        <3> DEFINE S == {x \in readings : x.asset = a /\ Within(x.recorded, report)}
        <3>2. S \in SUBSET S'
            BY DEF Within
        <3>3. IsFiniteSet(S')
            <4>1. S' \in SUBSET readings'
                OBVIOUS
            <4> QED
                BY <4>1, FS_Subset DEF WorldInv
        <3>4. Cardinality(S) <= Cardinality(S')
            BY <3>2, <3>3, FS_Subset
        <3> QED
            BY <3>4 DEF Volume, Number
    <2>2. \A a : Volume(a) \in Int /\ Volume(a)' \in Int
        <3>1. \A a : Volume(a) \in 0 .. MaxReadings
            BY VolumeType DEF ReportIInv
        <3>2. \A a : {x \in readings' : x.asset = a /\ Within(x.recorded, report')}
                        \in SUBSET readings'
            OBVIOUS
        <3>3. \A S \in SUBSET readings' : Number(S) \in Nat
            BY FS_Subset, FS_CardinalityType DEF WorldInv, Number
        <3>4. \A a : Volume(a)' \in Nat
            BY <3>2, <3>3 DEF Volume
        <3> QED
            BY <3>1, <3>4, ReportAssumption
    <2>3. \A a \in Assets : report.counts.readings[a] \in Int
        <3>1. report.counts.readings \in [Assets -> 0 .. MaxReadings]
            BY DEF ReportIInv, TypeOK, Report, Counts
        <3> QED
            BY <3>1, ReportAssumption
    <2>4. \A a \in Assets : report.counts.readings[a] > 0 =>
             a \in report.assets /\ report.counts.readings[a] <= Volume(a)'
        BY <1>2, <2>1, <2>2, <2>3 DEF ReportIInv, CountInv
    <2>5. report.listed >= End(report.period, report.date) =>
             /\ report.counts.total = Number(Found')
             /\ report.counts.alerts =
                   [a \in Assets |-> Number({x \in Found' : x.asset = a})]
        BY <1>2 DEF ReportIInv, CountInv
    <2> QED
        BY <1>2, <2>4, <2>5 DEF CountInv
<1> QED
    BY <1>1, <1>2

LEMMA DayEndsInv ==
    ASSUME ReportIInv, DayEnds
    PROVE  ReportIInv'
<1>1. today' \in Days /\ today < today'
    <2>1. Later \in SUBSET Nat /\ Later # {} /\ today' = Min(Later)
        BY DaysAreNatural DEF Later, DayEnds
    <2>2. today' \in Later
        BY <2>1, MinOfNatural
    <2> QED
        BY <2>2 DEF Later
<1>2. UNCHANGED <<assets, alerts, readings, reachable, report>>
    BY DEF DayEnds
<1>3. today \in Int /\ today' \in Int /\ report.listed \in Int
      /\ \A x \in alerts : x.created \in Int
    BY <1>1, DayTypes, DaysAreNatural DEF ReportIInv
<1>4. TypeOK' /\ WorldInv'
    BY <1>1, <1>2, <1>3 DEF ReportIInv, TypeOK, WorldInv
<1>5. ListedInv'
    BY <1>1, <1>2, <1>3 DEF ReportIInv, ListedInv
<1>6. CountInv'
    BY <1>2, <1>4, CountsStand DEF Found, Within
<1> QED
    BY <1>4, <1>5, <1>6 DEF ReportIInv

LEMMA OutageInv ==
    ASSUME ReportIInv, Outage
    PROVE  ReportIInv'
<1>1. UNCHANGED <<today, assets, alerts, readings, report>> /\ reachable' \in BOOLEAN
    BY DEF Outage
<1>2. TypeOK' /\ WorldInv' /\ ListedInv'
    BY <1>1 DEF ReportIInv, TypeOK, WorldInv, ListedInv
<1>3. CountInv'
    BY <1>1, <1>2, CountsStand DEF Found, Within
<1> QED
    BY <1>2, <1>3 DEF ReportIInv

LEMMA AddAssetInv ==
    ASSUME ReportIInv, NEW a \in Assets, AddAsset(a)
    PROVE  ReportIInv'
<1>1. UNCHANGED <<today, alerts, readings, reachable, report>> /\ assets' = assets \cup {a}
    BY DEF AddAsset
<1>2. TypeOK' /\ WorldInv' /\ ListedInv'
    BY <1>1 DEF ReportIInv, TypeOK, WorldInv, ListedInv
<1>3. CountInv'
    BY <1>1, <1>2, CountsStand DEF Found, Within
<1> QED
    BY <1>2, <1>3 DEF ReportIInv

\* An alert is of today, so it is not of a period that was over when the
\* assets were listed.
LEMMA CreateAlertInv ==
    ASSUME ReportIInv, NEW a \in Assets, CreateAlert(a)
    PROVE  ReportIInv'
<1> DEFINE new == [id |-> Number(alerts) + 1, asset |-> a, created |-> today]
<1>1. /\ UNCHANGED <<today, assets, readings, reachable, report>>
      /\ alerts' = alerts \cup {new} /\ a \in assets /\ Number(alerts) < MaxAlerts
    BY DEF CreateAlert
<1>2. new.asset = a /\ new.created = today
    OBVIOUS
<1>3. new \in Alert
    <2>1. Number(alerts) \in 0 .. MaxAlerts
        BY NumberOfAlerts DEF ReportIInv
    <2>2. Number(alerts) + 1 \in 1 .. MaxAlerts
        BY <1>1, <2>1, ReportAssumption
    <2> QED
        BY <2>2 DEF Alert, ReportIInv, TypeOK
<1> HIDE DEF new
<1>4. today \in Int /\ report.listed \in Int /\ today <= today
    BY DayTypes DEF ReportIInv
<1>5. TypeOK'
    BY <1>1, <1>3 DEF ReportIInv, TypeOK
<1>6. WorldInv'
    <2>1. IsFiniteSet(alerts') /\ Cardinality(alerts') <= Cardinality(alerts) + 1
        BY <1>1, OneMore DEF ReportIInv, WorldInv
    <2>2. Cardinality(alerts') \in Nat /\ Cardinality(alerts) \in Nat
        BY <2>1, FS_CardinalityType DEF ReportIInv, WorldInv
    <2>3. Cardinality(alerts') <= MaxAlerts
        BY <1>1, <2>1, <2>2, ReportAssumption DEF Number
    <2> QED
        BY <1>1, <1>2, <1>4, <2>1, <2>3 DEF ReportIInv, WorldInv
<1>7. ListedInv'
    BY <1>1, <1>2, <1>4 DEF ReportIInv, ListedInv
<1>8. ASSUME report.step \in CountedIn, report.listed >= End(report.period, report.date)
      PROVE  Found' = Found
    <2>1. End(report.period, report.date) \in Int /\ Start(report.period, report.date) \in Int
        BY <1>8, WindowTypes DEF ReportIInv, TypeOK, Report, ListedInv, CountedIn
    <2>2. report.listed <= today
        BY <1>8 DEF ReportIInv, ListedInv, CountedIn
    <2>3. ~(today < End(report.period, report.date))
        BY <1>4, <1>8, <2>1, <2>2
    <2>4. ~Within(new.created, report)
        BY <1>2, <2>3 DEF Within
    <2> QED
        BY <1>1, <2>4 DEF Found, Within
<1>9. CountInv'
    BY <1>1, <1>6, <1>8, CountsStand
<1> QED
    BY <1>5, <1>6, <1>7, <1>9 DEF ReportIInv

LEMMA IngestInv ==
    ASSUME ReportIInv, NEW a \in Assets, NEW day \in Days, Ingest(a, day)
    PROVE  ReportIInv'
<1> DEFINE new == [id |-> Number(readings) + 1, asset |-> a, recorded |-> day]
<1>1. /\ UNCHANGED <<today, assets, alerts, reachable, report>>
      /\ readings' = readings \cup {new} /\ Number(readings) < MaxReadings
    BY DEF Ingest
<1>2. new \in Reading
    <2>1. Number(readings) \in 0 .. MaxReadings
        BY NumberOfReadings DEF ReportIInv
    <2>2. Number(readings) + 1 \in 1 .. MaxReadings
        BY <1>1, <2>1, ReportAssumption
    <2> QED
        BY <2>2 DEF Reading
<1> HIDE DEF new
<1>3. TypeOK'
    BY <1>1, <1>2 DEF ReportIInv, TypeOK
<1>4. WorldInv'
    <2>1. IsFiniteSet(readings') /\ Cardinality(readings') <= Cardinality(readings) + 1
        BY <1>1, OneMore DEF ReportIInv, WorldInv
    <2>2. Cardinality(readings') \in Nat /\ Cardinality(readings) \in Nat
        BY <2>1, FS_CardinalityType DEF ReportIInv, WorldInv
    <2>3. Cardinality(readings') <= MaxReadings
        BY <1>1, <2>1, <2>2, ReportAssumption DEF Number
    <2> QED
        BY <1>1, <2>1, <2>3 DEF ReportIInv, WorldInv
<1>5. ListedInv'
    BY <1>1 DEF ReportIInv, ListedInv
<1>6. CountInv'
    BY <1>1, <1>4, CountsStand DEF Found, Within
<1> QED
    BY <1>3, <1>4, <1>5, <1>6 DEF ReportIInv

LEMMA ReportNextInv == ReportIInv /\ [Next]_vars => ReportIInv'
<1> SUFFICES ASSUME ReportIInv, [Next]_vars PROVE ReportIInv'
    OBVIOUS
<1>1. CASE \E period \in Period, date \in Dates \cup {<<>>} : GetFacilityReport(period, date)
    BY <1>1, AskInv
<1>2. CASE VerifyFacilityAccess \/ GetFacilityAssets \/ QueryAlerts \/ Gathered
    BY <1>2, AccessInv, ListInv, QueryInv, GatheredInv
<1>3. CASE \E a \in Assets : GetTelemetryVolume(a) \/ VolumeFails(a)
    <2>1. PICK a \in Assets : GetTelemetryVolume(a) \/ VolumeFails(a)
        BY <1>3
    <2>2. Volume(a) \in 0 .. Volume(a) /\ 0 \in 0 .. Volume(a)
        <3>1. Volume(a) \in 0 .. MaxReadings
            BY VolumeType DEF ReportIInv
        <3> QED
            BY <3>1, ReportAssumption
    <2> QED
        BY <2>1, <2>2, CountedInv DEF GetTelemetryVolume, VolumeFails
<1>4. CASE DayEnds \/ Outage
    BY <1>4, DayEndsInv, OutageInv
<1>5. CASE \E a \in Assets : AddAsset(a) \/ CreateAlert(a) \/ \E day \in Days : Ingest(a, day)
    BY <1>5, AddAssetInv, CreateAlertInv, IngestInv
<1>6. CASE UNCHANGED vars
    <2>1. UNCHANGED <<today, assets, alerts, readings, reachable, report>>
        BY <1>6 DEF vars, world
    <2>2. TypeOK' /\ WorldInv' /\ ListedInv'
        BY <2>1 DEF ReportIInv, TypeOK, WorldInv, ListedInv
    <2>3. CountInv'
        BY <2>1, <2>2, CountsStand DEF Found, Within
    <2> QED
        BY <2>2, <2>3 DEF ReportIInv
<1> QED
    BY <1>1, <1>2, <1>3, <1>4, <1>5, <1>6 DEF Next, Works

\* The invariant that the theorems below follow from.
LEMMA ReportInductive == Spec => []ReportIInv
BY ReportInitInv, ReportNextInv, PTL DEF Spec

-----------------------------------------------------------------------------
(* FacilityReport: what follows *)

\* The world and the request for a report have their types, and counts are
\* within the bounds of what there is to count.
THEOREM ReportTypes == Spec => []TypeOK
<1>1. ReportIInv => TypeOK
    BY DEF ReportIInv
<1> QED
    BY <1>1, ReportInductive, PTL

\* A report of a period that was over when its assets were listed has every
\* alert of its days, of whichever month, leap year or week they are, under
\* its asset, and nothing that happens later changes that (reports.py).
THEOREM ClosedPeriodsStand == Spec => []ClosedPeriodsAreFinal
<1> DEFINE due == {x \in alerts : /\ x.asset \in assets
                                  /\ InPeriod(report.period, report.date, x.created)}
<1>1. ASSUME ReportIInv, report.step = "answered",
             report.listed >= End(report.period, report.date)
      PROVE  due = Found
    <2>1. /\ report.period \in Period /\ report.date \in Dates
          /\ report.listed \in Int
          /\ \A x \in alerts : x.created \in Days /\ x.created \in Int
        BY <1>1, DayTypes DEF ReportIInv, TypeOK, Report, ListedInv
    <2>2. End(report.period, report.date) \in Int
        BY <2>1, WindowTypes
    <2>3. \A x \in alerts : InPeriod(report.period, report.date, x.created) <=>
                               Within(x.created, report)
        BY <2>1, WindowsAreRight DEF Within
    <2>4. \A x \in alerts : x.asset \notin report.assets => ~Within(x.created, report)
        <3>1. SUFFICES ASSUME NEW x \in alerts, x.asset \notin report.assets
                       PROVE  ~(x.created < End(report.period, report.date))
            BY DEF Within
        <3>2. report.listed <= x.created
            BY <1>1, <3>1 DEF ReportIInv, ListedInv
        <3> QED
            BY <1>1, <2>1, <2>2, <3>2
    <2>5. report.assets \subseteq assets
        BY <1>1 DEF ReportIInv, ListedInv
    <2> QED
        BY <2>3, <2>4, <2>5 DEF Found
<1>2. ReportIInv => ClosedPeriodsAreFinal
    <2> SUFFICES ASSUME ReportIInv, report.step = "answered",
                        report.listed >= End(report.period, report.date)
                 PROVE  /\ report.counts.total = Number(due)
                        /\ \A a \in assets : report.counts.alerts[a] =
                              Number({x \in due : x.asset = a})
        BY DEF ClosedPeriodsAreFinal
    <2>1. /\ report.counts.total = Number(Found)
          /\ report.counts.alerts = [a \in Assets |-> Number({x \in Found : x.asset = a})]
        BY DEF ReportIInv, CountInv, CountedIn
    <2>2. assets \subseteq Assets /\ due = Found
        BY <1>1 DEF ReportIInv, TypeOK
    <2> QED
        BY <2>1, <2>2
<1> QED
    BY <1>2, ReportInductive, PTL

\* However many counts fail or come late, no more readings are reported of
\* an asset than are stored of its days.
THEOREM VolumesAreStored == Spec => []VolumeIsHonest
<1>1. ReportIInv => VolumeIsHonest
    <2> SUFFICES ASSUME ReportIInv, NEW a \in Assets, report.counts.readings[a] > 0
                 PROVE  /\ a \in report.assets
                        /\ report.counts.readings[a] <= Number({x \in readings :
                              x.asset = a /\ InPeriod(report.period, report.date, x.recorded)})
        BY DEF VolumeIsHonest
    <2>1. report.step \in CountedIn
        <3>1. NoCounts.readings[a] = 0
            BY DEF NoCounts
        <3> QED
            BY <3>1 DEF ReportIInv, CountInv
    <2>2. a \in report.assets /\ report.counts.readings[a] <= Volume(a)
        BY <2>1 DEF ReportIInv, CountInv
    <2>3. /\ report.period \in Period /\ report.date \in Dates
          /\ \A x \in readings : x.recorded \in Days
        BY <2>1 DEF ReportIInv, TypeOK, Report, Reading, ListedInv, CountedIn
    <2>4. \A x \in readings : InPeriod(report.period, report.date, x.recorded) <=>
                                 Within(x.recorded, report)
        BY <2>3, WindowsAreRight DEF Within
    <2>5. {x \in readings : x.asset = a /\ InPeriod(report.period, report.date, x.recorded)}
            = {x \in readings : x.asset = a /\ Within(x.recorded, report)}
        BY <2>4
    <2> QED
        BY <2>2, <2>5 DEF Volume
<1> QED
    BY <1>1, ReportInductive, PTL
=============================================================================
