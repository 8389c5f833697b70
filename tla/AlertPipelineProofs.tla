------------------------ MODULE AlertPipelineProofs ------------------------
(***************************************************************************)
(* Theorems about AlertPipeline, for every set of assets, metrics and      *)
(* series and every bound.                                                 *)
(***************************************************************************)
EXTENDS AlertPipeline, SequenceTheorems, FiniteSetTheorems, TLAPS

-----------------------------------------------------------------------------
(* Types.                                                                  *)

\* A run between its first and last step holds the baseline it scores.
Holding == pc \in {"fetch", "check", "post"} => held \in Baselines

TypeInv == TypeOK /\ Holding

LEMMA RequestType ==
    ASSUME NEW b \in Baselines, NEW d
    PROVE  Request(b, d) \in AlertRecords
BY DEF Request, AlertRecords, Baselines

LEMMA DistanceType ==
    ASSUME NEW b \in Baselines, NEW l \in Levels
    PROVE  Distance(b, l) \in Nat
BY DEF Distance, Baselines, Levels

LEMMA StatusType ==
    ASSUME NEW r \in AlertRecords
    PROVE  /\ [r EXCEPT !.status = "acknowledged"] \in AlertRecords
           /\ [r EXCEPT !.status = "resolved"] \in AlertRecords
BY DEF AlertRecords

\* What users do to an alert changes its status alone.
LEMMA TouchSteps ==
    ASSUME alerts \in Seq(AlertRecords), NEW i \in 1..Len(alerts),
           Acknowledge(i) \/ Resolve(i)
    PROVE  /\ alerts' \in Seq(AlertRecords)
           /\ Len(alerts') = Len(alerts)
           /\ \A j \in 1..Len(alerts) :
                 /\ alerts'[j].series = alerts[j].series
                 /\ \/ alerts'[j] = alerts[j]
                    \/ alerts'[j].status \in {"acknowledged", "resolved"}
<1>1. alerts[i] \in AlertRecords
    BY ElementOfSeq
<1>2. PICK new \in AlertRecords :
         /\ alerts' = [alerts EXCEPT ![i] = new]
         /\ new.status \in {"acknowledged", "resolved"}
         /\ new.series = alerts[i].series
    <2>1. CASE Acknowledge(i)
        <3> DEFINE new == [alerts[i] EXCEPT !.status = "acknowledged"]
        <3>1. /\ alerts' = [alerts EXCEPT ![i] = new]
              /\ new \in AlertRecords
            BY <1>1, <2>1, StatusType DEF Acknowledge
        <3>2. new.status = "acknowledged" /\ new.series = alerts[i].series
            BY <1>1 DEF AlertRecords
        <3> QED
            BY <3>1, <3>2
    <2>2. CASE Resolve(i)
        <3> DEFINE new == [alerts[i] EXCEPT !.status = "resolved"]
        <3>1. /\ alerts' = [alerts EXCEPT ![i] = new]
              /\ new \in AlertRecords
            BY <1>1, <2>2, StatusType DEF Resolve
        <3>2. new.status = "resolved" /\ new.series = alerts[i].series
            BY <1>1 DEF AlertRecords
        <3> QED
            BY <3>1, <3>2
    <2> QED
        BY <2>1, <2>2
<1>3. /\ alerts' \in Seq(AlertRecords)
      /\ Len(alerts') = Len(alerts)
      /\ \A j \in 1..Len(alerts) :
            alerts'[j] = IF j = i THEN new ELSE alerts[j]
    BY <1>2, ExceptSeq
<1> QED
    BY <1>2, <1>3

LEMMA TypeInit == Init => TypeInv
<1> SUFFICES ASSUME Init PROVE TypeInv
    OBVIOUS
<1>1. level \in [Monitored -> Levels \cup {Gap}]
    BY DEF Init, Levels
<1>2. budget \in [{"changes", "failures", "touches"} -> Nat]
    BY BoundsAssumption DEF Init
<1>3. alerts \in Seq(AlertRecords)
    BY EmptySeq DEF Init
<1> QED
    BY <1>1, <1>2, <1>3 DEF Init, TypeInv, TypeOK, Holding

LEMMA TypeNext == TypeInv /\ [Next]_vars => TypeInv'
<1> SUFFICES ASSUME TypeInv, [Next]_vars PROVE TypeInv'
    OBVIOUS
<1> USE DEF TypeInv
<1> USE DEF TypeOK, Holding, user, run
<1>a. ASSUME NEW what \in {"changes", "failures", "touches"}, Spend(what)
      PROVE  budget' \in [{"changes", "failures", "touches"} -> Nat]
    BY <1>a DEF Spend
<1>0. CASE UNCHANGED vars
    BY <1>0 DEF vars
<1>1. ASSUME NEW s \in Monitored, Change(s) PROVE TypeInv'
    BY <1>1, <1>a DEF Change
<1>2. ASSUME NEW s \in Monitored, FitFetch(s) PROVE TypeInv'
    <2>1. level[s] \in Levels
        BY <1>2 DEF FitFetch
    <2>2. PICK std \in Spreads :
             fits' = fits \cup {[id |-> fitted + 1, series |-> s,
                                 mean |-> level[s], std |-> std]}
        BY <1>2 DEF FitFetch
    <2>3. [id |-> fitted + 1, series |-> s, mean |-> level[s], std |-> std]
              \in Baselines
        BY <2>1 DEF Baselines
    <2> QED
        BY <1>2, <2>2, <2>3 DEF FitFetch
<1>3. ASSUME NEW b \in fits, FitStore(b) PROVE TypeInv'
    BY <1>3 DEF FitStore
<1>4. ASSUME NEW i \in 1..Len(alerts), Acknowledge(i) \/ Resolve(i)
      PROVE  TypeInv'
    <2>1. alerts' \in Seq(AlertRecords)
        BY <1>4, TouchSteps
    <2>2. budget' \in [{"changes", "failures", "touches"} -> Nat]
        BY <1>4, <1>a DEF Acknowledge, Resolve
    <2> QED
        BY <1>4, <2>1, <2>2 DEF Acknowledge, Resolve
<1>5. CASE BeginRun
    BY <1>5 DEF BeginRun
<1>6. ASSUME NEW b \in queue, ReadBaseline(b) PROVE TypeInv'
    BY <1>6 DEF ReadBaseline, BaselinesOf
<1>7. CASE Fetch
    <2>1. level[held.series] \in Levels
        BY <1>7 DEF Fetch, Baselines
    <2>2. Distance(held, level[held.series]) \in Nat
        BY <1>7, <2>1, DistanceType DEF Fetch
    <2> QED
        BY <1>7, <2>2 DEF Fetch, NextSeries
<1>8. CASE FetchGap
    BY <1>8 DEF FetchGap, NextSeries
<1>9. CASE CheckOpen
    BY <1>9 DEF CheckOpen, NextSeries
<1>10. CASE Post
    <2>1. Request(held, score) \in AlertRecords
        BY <1>10, RequestType DEF Post
    <2> QED
        BY <1>10, <2>1 DEF Post, NextSeries
<1>11. CASE Fail
    BY <1>11, <1>a DEF Fail, NextSeries
<1>12. CASE PostTimesOut
    <2>1. Request(held, score) \in AlertRecords
        BY <1>12, RequestType DEF PostTimesOut
    <2>2. Len(alerts) \in Nat
        OBVIOUS
    <2> QED
        BY <1>12, <1>a, <2>1, <2>2 DEF PostTimesOut, NextSeries
<1>13. ASSUME NEW request \in late, PostArrivesLate(request) PROVE TypeInv'
    BY <1>13 DEF PostArrivesLate
<1>14. CASE EndRun
    BY <1>14 DEF EndRun
<1>15. CASE Restart
    BY <1>15, <1>a DEF Restart
<1> QED
    BY <1>0, <1>1, <1>2, <1>3, <1>4, <1>5, <1>6, <1>7, <1>8, <1>9, <1>10,
       <1>11, <1>12, <1>13, <1>14, <1>15 DEF Next, Scheduler

\* Every state has the types the code relies on.
THEOREM AlertTypes == Spec => []TypeOK
<1>1. Spec => []TypeInv
    BY TypeInit, TypeNext, PTL DEF Spec
<1> QED
    BY <1>1, PTL DEF TypeInv

-----------------------------------------------------------------------------
(* Baselines.                                                              *)

\* However many users fit a series at once, it keeps one baseline: the lookup,
\* the delete and the insert are not interrupted.
THEOREM BaselineIsUnique == Spec => []OneBaselinePerSeries
<1>1. Init => OneBaselinePerSeries
    BY DEF Init, OneBaselinePerSeries
<1>2. OneBaselinePerSeries /\ [Next]_vars => OneBaselinePerSeries'
    <2> SUFFICES ASSUME OneBaselinePerSeries, [Next]_vars
                 PROVE  OneBaselinePerSeries'
        OBVIOUS
    <2>1. CASE UNCHANGED baselines
        BY <2>1 DEF OneBaselinePerSeries
    <2>2. ASSUME NEW b \in fits, FitStore(b) PROVE OneBaselinePerSeries'
        BY <2>2 DEF FitStore, BaselinesOf, OneBaselinePerSeries
    <2> QED
        BY <2>1, <2>2
        DEF Next, Scheduler, Change, FitFetch, Acknowledge, Resolve, BeginRun,
            ReadBaseline, Fetch, FetchGap, CheckOpen, Post, Fail, PostTimesOut,
            PostArrivesLate, EndRun, Restart, vars
<1> QED
    BY <1>1, <1>2, PTL DEF Spec

-----------------------------------------------------------------------------
(* Alerts.                                                                 *)

\* How a step changes the alerts.
LEMMA AlertSteps ==
    ASSUME [Next]_vars
    PROVE  \/ UNCHANGED alerts
           \/ \E i \in 1..Len(alerts) : Acknowledge(i) \/ Resolve(i)
           \/ Post
           \/ \E request \in late : PostArrivesLate(request)
BY DEF Next, Scheduler, Change, FitFetch, FitStore, BeginRun, ReadBaseline,
       Fetch, FetchGap, CheckOpen, Fail, PostTimesOut, EndRun, Restart, vars

LEMMA NeverReopenedStep ==
    ASSUME TypeInv, [Next]_vars
    PROVE  \A i \in 1..Len(alerts) :
              /\ i \in 1..Len(alerts')
              /\ alerts[i].status # "open" => alerts'[i].status # "open"
<1>a. alerts \in Seq(AlertRecords) /\ Len(alerts) \in Nat
    BY DEF TypeInv, TypeOK
<1>1. ASSUME NEW i \in 1..Len(alerts), Acknowledge(i) \/ Resolve(i)
      PROVE  \A j \in 1..Len(alerts) :
                /\ j \in 1..Len(alerts')
                /\ alerts[j].status # "open" => alerts'[j].status # "open"
    BY <1>1, <1>a, TouchSteps
<1>2. ASSUME NEW new, alerts' = Append(alerts, new)
      PROVE  \A j \in 1..Len(alerts) :
                /\ j \in 1..Len(alerts')
                /\ alerts[j].status # "open" => alerts'[j].status # "open"
    BY <1>2, <1>a
<1> QED
    BY <1>1, <1>2, AlertSteps DEF Post, PostArrivesLate

\* An alert is never deleted and never opens again.
THEOREM AlertsStayClosed == Spec => NeverReopened
<1>1. TypeInv /\ [Next]_vars
        => [\A i \in 1..Len(alerts) :
               /\ i \in 1..Len(alerts')
               /\ alerts[i].status # "open" => alerts'[i].status # "open"]_vars
    BY NeverReopenedStep
<1> QED
    BY <1>1, TypeInit, TypeNext, PTL DEF Spec, NeverReopened

AlertInv == OneOpenAlert /\ CheckStillHolds /\ late = {}

LEMMA OpenAfterTouch ==
    ASSUME TypeInv, NEW i \in 1..Len(alerts), Acknowledge(i) \/ Resolve(i),
           NEW asset
    PROVE  OpenAlerts(asset)' \subseteq OpenAlerts(asset)
<1>1. alerts \in Seq(AlertRecords)
    BY DEF TypeInv, TypeOK
<1>2. /\ Len(alerts') = Len(alerts)
      /\ \A j \in 1..Len(alerts) :
            /\ alerts'[j].series = alerts[j].series
            /\ \/ alerts'[j] = alerts[j]
               \/ alerts'[j].status \in {"acknowledged", "resolved"}
    BY <1>1, TouchSteps
<1> QED
    BY <1>2 DEF OpenAlerts

LEMMA AlertNext ==
    ASSUME ~Lateness
    PROVE  TypeInv /\ AlertInv /\ [Next]_vars => AlertInv'
<1> SUFFICES ASSUME TypeInv, AlertInv, [Next]_vars PROVE AlertInv'
    OBVIOUS
<1> USE DEF AlertInv
<1>a. alerts \in Seq(AlertRecords) /\ Len(alerts) \in Nat
    BY DEF TypeInv, TypeOK
<1>1. late' = {}
    BY DEF Next, Scheduler, Change, FitFetch, FitStore, Acknowledge, Resolve,
           BeginRun, ReadBaseline, Fetch, FetchGap, CheckOpen, Post, Fail,
           PostTimesOut, PostArrivesLate, EndRun, Restart, vars
\* The run gets to its POST only by finding no open alert.
<1>2. \/ CheckOpen
      \/ pc' # "post"
      \/ pc = "post" /\ held' = held
    BY DEF Next, Scheduler, Change, FitFetch, FitStore, Acknowledge, Resolve,
           BeginRun, ReadBaseline, Fetch, FetchGap, NextSeries, Post, Fail,
           PostTimesOut, PostArrivesLate, EndRun, Restart, vars, user, run
<1>3. CASE UNCHANGED alerts
    <2>1. \A asset : OpenAlerts(asset)' = OpenAlerts(asset)
        BY <1>3 DEF OpenAlerts
    <2>2. OneOpenAlert'
        BY <2>1 DEF OneOpenAlert
    <2>3. CASE CheckOpen
        <3>1. held \in Baselines
            BY <2>3 DEF CheckOpen, TypeInv, Holding
        <3> QED
            BY <1>1, <2>1, <2>2, <2>3, <3>1
            DEF CheckOpen, CheckStillHolds, NextSeries, Baselines
    <2>4. CASE ~CheckOpen
        BY <1>1, <1>2, <2>1, <2>2, <2>4 DEF CheckStillHolds
    <2> QED
        BY <2>3, <2>4
<1>4. ASSUME NEW i \in 1..Len(alerts), Acknowledge(i) \/ Resolve(i)
      PROVE  AlertInv'
    <2>1. \A asset : OpenAlerts(asset)' \subseteq OpenAlerts(asset)
        BY <1>4, OpenAfterTouch
    <2>2. UNCHANGED <<pc, held>>
        BY <1>4 DEF Acknowledge, Resolve, run
    <2> QED
        BY <1>1, <2>1, <2>2 DEF OneOpenAlert, CheckStillHolds
<1>5. CASE Post
    <2>1. /\ alerts' = Append(alerts, Request(held, score))
          /\ pc = "post" /\ pc' = "next"
        BY <1>5 DEF Post, NextSeries
    <2>2. /\ Len(alerts') = Len(alerts) + 1
          /\ \A j \in 1..Len(alerts) : alerts'[j] = alerts[j]
          /\ alerts'[Len(alerts) + 1].series = held.series
        BY <1>a, <2>1 DEF Request
    <2>3. ASSUME NEW asset, NEW i \in OpenAlerts(asset)'
          PROVE  \/ i \in OpenAlerts(asset)
                 \/ i = Len(alerts) + 1 /\ asset = AssetOf(held.series)
        BY <1>a, <2>2, <2>3 DEF OpenAlerts
    <2>4. OpenAlerts(AssetOf(held.series)) = {}
        BY <2>1 DEF CheckStillHolds
    <2>5. OneOpenAlert'
        BY <2>3, <2>4 DEF OneOpenAlert
    <2> QED
        BY <1>1, <2>1, <2>5 DEF CheckStillHolds
<1> QED
    BY <1>3, <1>4, <1>5, AlertSteps

\* As long as no POST is served after the scheduler gave up on it, an asset
\* has at most one open alert: the check made before the POST cannot go stale,
\* for the scheduler is the only one to open alerts.
THEOREM OpenAlertIsUnique ==
    ASSUME ~Lateness
    PROVE  Spec => []OneOpenAlert
<1>1. Init => TypeInv /\ AlertInv
    BY TypeInit
    DEF Init, AlertInv, OneOpenAlert, OpenAlerts, CheckStillHolds
<1>2. TypeInv /\ AlertInv /\ [Next]_vars => TypeInv' /\ AlertInv'
    BY TypeNext, AlertNext
<1>3. AlertInv => OneOpenAlert
    BY DEF AlertInv
<1> QED
    BY <1>1, <1>2, <1>3, PTL DEF Spec

-----------------------------------------------------------------------------
(* Alerts with late POSTs: an asset is owed the open alerts it has and     *)
(* those that are on their way.  Before a POST these are no more than the  *)
(* requests that were lost, for the check found no open alert and every    *)
(* POST on its way is one of these.                                        *)

Lost == MaxFailures - budget["failures"]
LateOf(asset) == {r \in late : AssetOf(r.alert.series) = asset}
Owed(asset) == Cardinality(OpenAlerts(asset)) + Cardinality(LateOf(asset))

DuplicateInv ==
    /\ IsFiniteSet(late)
    /\ Lost \in Nat
    /\ Cardinality(late) <= Lost
    /\ \A asset \in Assets : Owed(asset) <= 1 + Lost
    /\ pc = "post" => Owed(AssetOf(held.series)) <= Lost

LEMMA OpenIsFinite ==
    ASSUME TypeInv, NEW asset
    PROVE  IsFiniteSet(OpenAlerts(asset)) /\ Cardinality(OpenAlerts(asset)) \in Nat
<1>1. Len(alerts) \in Nat
    BY DEF TypeInv, TypeOK
<1>2. IsFiniteSet(1..Len(alerts))
    BY <1>1, FS_Interval
<1>3. OpenAlerts(asset) \in SUBSET (1..Len(alerts))
    BY DEF OpenAlerts
<1>4. IsFiniteSet(OpenAlerts(asset))
    BY <1>2, <1>3, FS_Subset
<1> QED
    BY <1>4, FS_CardinalityType

LEMMA OpenIsFiniteAfter ==
    ASSUME TypeInv', NEW asset
    PROVE  /\ IsFiniteSet(OpenAlerts(asset)')
           /\ Cardinality(OpenAlerts(asset)') \in Nat
<1>1. Len(alerts') \in Nat
    BY DEF TypeInv, TypeOK
<1>2. IsFiniteSet(1..Len(alerts'))
    BY <1>1, FS_Interval
<1>3. OpenAlerts(asset)' \in SUBSET (1..Len(alerts'))
    BY DEF OpenAlerts
<1>4. IsFiniteSet(OpenAlerts(asset)')
    BY <1>2, <1>3, FS_Subset
<1> QED
    BY <1>4, FS_CardinalityType

LEMMA LateIsFinite ==
    ASSUME IsFiniteSet(late), NEW asset
    PROVE  /\ IsFiniteSet(LateOf(asset)) /\ Cardinality(LateOf(asset)) \in Nat
           /\ Cardinality(LateOf(asset)) <= Cardinality(late)
           /\ Cardinality(late) \in Nat
<1>1. LateOf(asset) \in SUBSET late
    BY DEF LateOf
<1>2. IsFiniteSet(LateOf(asset)) /\ Cardinality(LateOf(asset)) <= Cardinality(late)
    BY <1>1, FS_Subset
<1> QED
    BY <1>2, FS_CardinalityType

\* A new alert is one more open alert of its asset, and of no other.
LEMMA OpenAfterAppend ==
    ASSUME TypeInv, TypeInv', NEW new \in AlertRecords, NEW asset,
           alerts' = Append(alerts, new)
    PROVE  Cardinality(OpenAlerts(asset)') <=
               Cardinality(OpenAlerts(asset)) +
                   (IF AssetOf(new.series) = asset THEN 1 ELSE 0)
<1>1. alerts \in Seq(AlertRecords) /\ Len(alerts) \in Nat
    BY DEF TypeInv, TypeOK
<1>2. /\ Len(alerts') = Len(alerts) + 1
      /\ \A i \in 1..Len(alerts) : alerts'[i] = alerts[i]
      /\ alerts'[Len(alerts) + 1] = new
    BY <1>1
<1>3. IsFiniteSet(OpenAlerts(asset)) /\ Cardinality(OpenAlerts(asset)) \in Nat
    BY OpenIsFinite
<1>4. CASE AssetOf(new.series) = asset
    <2> DEFINE More == OpenAlerts(asset) \cup {Len(alerts) + 1}
    <2>1. OpenAlerts(asset)' \in SUBSET More
        BY <1>1, <1>2 DEF OpenAlerts
    <2>2. /\ IsFiniteSet(More) /\ Cardinality(More) \in Nat
          /\ Cardinality(More) <= Cardinality(OpenAlerts(asset)) + 1
        <3>1. IsFiniteSet(More)
            BY <1>3, FS_AddElement
        <3>2. Cardinality(More) = IF Len(alerts) + 1 \in OpenAlerts(asset)
                                  THEN Cardinality(OpenAlerts(asset))
                                  ELSE Cardinality(OpenAlerts(asset)) + 1
            BY <1>3, FS_AddElement
        <3> HIDE DEF More
        <3> QED
            BY <1>3, <3>1, <3>2
    <2>3. /\ Cardinality(OpenAlerts(asset)') <= Cardinality(More)
          /\ Cardinality(OpenAlerts(asset)') \in Nat
        BY <2>1, <2>2, FS_Subset, FS_CardinalityType
    <2> HIDE DEF More
    <2> QED
        BY <1>3, <1>4, <2>2, <2>3
<1>5. CASE AssetOf(new.series) # asset
    <2>1. OpenAlerts(asset)' \in SUBSET OpenAlerts(asset)
        BY <1>1, <1>2, <1>5 DEF OpenAlerts
    <2>2. Cardinality(OpenAlerts(asset)') <= Cardinality(OpenAlerts(asset))
        BY <2>1, <1>3, FS_Subset
    <2> QED
        BY <1>3, <1>5, <2>2
<1> QED
    BY <1>4, <1>5

\* The loss of a request is spent from the budget.
LEMMA SpentIsLost ==
    ASSUME TypeInv, DuplicateInv, NEW what \in {"changes", "failures", "touches"},
           Spend(what)
    PROVE  /\ Lost' \in Nat
           /\ Lost' = IF what = "failures" THEN Lost + 1 ELSE Lost
<1>1. budget["failures"] \in Nat /\ MaxFailures \in Nat
    BY BoundsAssumption DEF TypeInv, TypeOK
<1>2. /\ budget[what] > 0
      /\ budget' = [budget EXCEPT ![what] = budget[what] - 1]
    BY DEF Spend
<1>3. budget'["failures"] =
          IF what = "failures" THEN budget["failures"] - 1 ELSE budget["failures"]
    BY <1>2 DEF TypeInv, TypeOK
<1> QED
    BY <1>1, <1>3 DEF Lost, DuplicateInv

\* A step that adds no alert and no late POST, and does not reach the POST,
\* leaves every asset owed as much or less.
LEMMA OwedNoMore ==
    ASSUME TypeInv, TypeInv', DuplicateInv, UNCHANGED late,
           \A asset : OpenAlerts(asset)' \subseteq OpenAlerts(asset),
           Lost' \in Nat, Lost' >= Lost,
           pc' # "post" \/ (pc = "post" /\ held' = held)
    PROVE  DuplicateInv'
<1>1. ASSUME NEW asset PROVE Owed(asset)' <= Owed(asset) /\ Owed(asset) \in Nat /\ Owed(asset)' \in Nat
    <2>1. Cardinality(OpenAlerts(asset)') <= Cardinality(OpenAlerts(asset))
        BY OpenIsFinite, FS_Subset
    <2>2. Cardinality(OpenAlerts(asset)) \in Nat
        BY OpenIsFinite
    <2>3. Cardinality(OpenAlerts(asset)') \in Nat
        BY OpenIsFinite, FS_Subset, FS_CardinalityType
    <2>4. LateOf(asset)' = LateOf(asset) /\ Cardinality(LateOf(asset)) \in Nat
        BY LateIsFinite DEF LateOf, DuplicateInv
    <2> QED
        BY <2>1, <2>2, <2>3, <2>4 DEF Owed
<1>2. \A asset \in Assets : Owed(asset)' <= 1 + Lost'
    BY <1>1 DEF DuplicateInv
<1>3. (pc = "post")' => Owed(AssetOf(held.series))' <= Lost'
    BY <1>1 DEF DuplicateInv
<1>4. IsFiniteSet(late)' /\ Cardinality(late)' <= Lost'
    BY LateIsFinite DEF DuplicateInv
<1> QED
    BY <1>2, <1>3, <1>4 DEF DuplicateInv

LEMMA DuplicateInit == Init => DuplicateInv
<1> SUFFICES ASSUME Init PROVE DuplicateInv
    OBVIOUS
<1>1. IsFiniteSet(late) /\ Cardinality(late) = 0
    BY FS_EmptySet DEF Init
<1>2. Lost = 0
    BY BoundsAssumption DEF Init, Lost
<1>3. \A asset : OpenAlerts(asset) = {} /\ LateOf(asset) = {}
    BY DEF Init, OpenAlerts, LateOf
<1>4. \A asset : Owed(asset) = 0
    BY <1>3, FS_EmptySet DEF Owed
<1>5. pc # "post"
    BY DEF Init
<1> QED
    BY <1>1, <1>2, <1>4, <1>5 DEF DuplicateInv

\* The check is the moment at which what the asset is owed is known.
LEMMA DuplicateCheck ==
    ASSUME TypeInv, TypeInv', DuplicateInv, CheckOpen
    PROVE  DuplicateInv'
<1>1. UNCHANGED <<alerts, late, budget>>
    BY DEF CheckOpen, user
<1>2. \A asset : OpenAlerts(asset)' = OpenAlerts(asset)
    BY <1>1 DEF OpenAlerts
<1>3. Lost' = Lost /\ Lost \in Nat
    BY <1>1 DEF Lost, DuplicateInv
<1>4. CASE OpenAlerts(AssetOf(held.series)) # {}
    <2>1. pc' # "post"
        BY <1>4 DEF CheckOpen, NextSeries
    <2> QED
        BY <1>1, <1>2, <1>3, <2>1, OwedNoMore
<1>5. CASE OpenAlerts(AssetOf(held.series)) = {}
    <2>1. held' = held
        BY <1>5 DEF CheckOpen
    <2>2. \A asset : Owed(asset)' = Owed(asset)
        BY <1>1, <1>2 DEF Owed, LateOf
    <2>3. /\ Cardinality(OpenAlerts(AssetOf(held.series))) = 0
          /\ Cardinality(LateOf(AssetOf(held.series))) <= Lost
        BY <1>3, <1>5, FS_EmptySet, LateIsFinite DEF DuplicateInv
    <2>4. Owed(AssetOf(held.series)) <= Lost
        BY <2>3, LateIsFinite DEF Owed, DuplicateInv
    <2> QED
        BY <1>1, <1>3, <2>1, <2>2, <2>4 DEF DuplicateInv
<1> QED
    BY <1>4, <1>5

LEMMA DuplicatePost ==
    ASSUME TypeInv, TypeInv', DuplicateInv, Post
    PROVE  DuplicateInv'
<1> DEFINE new == Request(held, score)
<1>1. /\ alerts' = Append(alerts, new) /\ UNCHANGED <<late, budget>>
      /\ pc = "post" /\ pc' = "next"
    BY DEF Post, NextSeries, user
<1>2. new \in AlertRecords /\ AssetOf(new.series) = AssetOf(held.series)
    BY <1>1, RequestType DEF TypeInv, Holding, Request
<1>3. Lost' = Lost /\ Lost \in Nat
    BY <1>1 DEF Lost, DuplicateInv
<1> HIDE DEF new
<1>4. ASSUME NEW asset \in Assets PROVE Owed(asset)' <= 1 + Lost'
    <2>1. Cardinality(OpenAlerts(asset)') <=
              Cardinality(OpenAlerts(asset)) +
                  (IF AssetOf(held.series) = asset THEN 1 ELSE 0)
        BY <1>1, <1>2, OpenAfterAppend
    <2>2. LateOf(asset)' = LateOf(asset)
        BY <1>1 DEF LateOf
    <2>3. /\ Cardinality(OpenAlerts(asset)) \in Nat
          /\ Cardinality(LateOf(asset)) \in Nat
        BY OpenIsFinite, LateIsFinite DEF DuplicateInv
    <2>4. Cardinality(OpenAlerts(asset)') \in Nat
        BY OpenIsFiniteAfter
    <2>5. Owed(asset)' <= Owed(asset) + (IF AssetOf(held.series) = asset THEN 1 ELSE 0)
        BY <2>1, <2>2, <2>3, <2>4 DEF Owed
    <2>6. Owed(asset) <= (IF AssetOf(held.series) = asset THEN Lost ELSE 1 + Lost)
        BY <1>1 DEF DuplicateInv
    <2>7. Owed(asset) \in Nat /\ Owed(asset)' \in Nat
        BY <2>2, <2>3, <2>4 DEF Owed
    <2> QED
        BY <1>3, <2>5, <2>6, <2>7
<1> QED
    BY <1>1, <1>3, <1>4 DEF DuplicateInv

\* A POST that is given up on moves from the run to the wire.
LEMMA DuplicateTimeout ==
    ASSUME TypeInv, TypeInv', DuplicateInv, PostTimesOut
    PROVE  DuplicateInv'
<1> DEFINE request == [id |-> budget["failures"], alert |-> Request(held, score)]
<1>1. /\ late' = late \cup {request} /\ UNCHANGED alerts
      /\ pc = "post" /\ pc' = "next" /\ Spend("failures")
    BY DEF PostTimesOut, NextSeries
<1>2. Lost' = Lost + 1 /\ Lost \in Nat /\ Lost' \in Nat
    BY <1>1, SpentIsLost DEF DuplicateInv
<1>3. AssetOf(request.alert.series) = AssetOf(held.series)
    BY DEF Request
<1> HIDE DEF request
<1>4. /\ IsFiniteSet(late')
      /\ Cardinality(late') <= Cardinality(late) + 1
    <2>1. /\ IsFiniteSet(late \cup {request})
          /\ Cardinality(late \cup {request}) =
                IF request \in late THEN Cardinality(late) ELSE Cardinality(late) + 1
        BY FS_AddElement DEF DuplicateInv
    <2> QED
        BY <1>1, <2>1, LateIsFinite DEF DuplicateInv
<1>5. Cardinality(late) \in Nat /\ Cardinality(late') \in Nat
    BY <1>4, FS_CardinalityType DEF DuplicateInv
<1>6. ASSUME NEW asset \in Assets PROVE Owed(asset)' <= 1 + Lost'
    <2> DEFINE Here == IF AssetOf(held.series) = asset THEN 1 ELSE 0
    <2>1. OpenAlerts(asset)' = OpenAlerts(asset)
        BY <1>1 DEF OpenAlerts
    <2>2. IsFiniteSet(LateOf(asset)) /\ Cardinality(LateOf(asset)) \in Nat
        BY LateIsFinite DEF DuplicateInv
    <2>3. Cardinality(LateOf(asset)') \in Nat
          /\ Cardinality(LateOf(asset)') <= Cardinality(LateOf(asset)) + Here
        <3>1. CASE AssetOf(held.series) = asset
            <4>1. LateOf(asset)' = LateOf(asset) \cup {request}
                BY <1>1, <1>3, <3>1 DEF LateOf
            <4>2. /\ IsFiniteSet(LateOf(asset) \cup {request})
                  /\ Cardinality(LateOf(asset) \cup {request}) =
                        IF request \in LateOf(asset) THEN Cardinality(LateOf(asset))
                        ELSE Cardinality(LateOf(asset)) + 1
                BY <2>2, FS_AddElement
            <4> QED
                BY <2>2, <3>1, <4>1, <4>2
        <3>2. CASE AssetOf(held.series) # asset
            <4>1. LateOf(asset)' = LateOf(asset)
                BY <1>1, <1>3, <3>2 DEF LateOf
            <4> QED
                BY <2>2, <3>2, <4>1
        <3> QED
            BY <3>1, <3>2
    <2>4. Cardinality(OpenAlerts(asset)) \in Nat
        BY OpenIsFinite
    <2>5. Owed(asset)' <= Owed(asset) + Here /\ Owed(asset) \in Nat /\ Owed(asset)' \in Nat
        BY <2>1, <2>2, <2>3, <2>4 DEF Owed
    <2>6. Owed(asset) <= 1 + Lost
        BY DEF DuplicateInv
    <2>7. AssetOf(held.series) = asset => Owed(asset) <= Lost
        BY <1>1 DEF DuplicateInv
    <2> QED
        BY <1>2, <2>5, <2>6, <2>7
<1>7. Cardinality(late)' <= Lost'
    BY <1>2, <1>4, <1>5 DEF DuplicateInv
<1> QED
    BY <1>1, <1>2, <1>4, <1>6, <1>7 DEF DuplicateInv

\* A late POST opens the alert that was on its way.
LEMMA DuplicateArrival ==
    ASSUME TypeInv, TypeInv', DuplicateInv, NEW request \in late,
           PostArrivesLate(request)
    PROVE  DuplicateInv'
<1>1. /\ alerts' = Append(alerts, request.alert)
      /\ late' = late \ {request} /\ UNCHANGED <<pc, held, budget>>
    BY DEF PostArrivesLate, user, run
<1>2. request.alert \in AlertRecords
    BY DEF TypeInv, TypeOK
<1>3. Lost' = Lost /\ Lost \in Nat
    BY <1>1 DEF Lost, DuplicateInv
<1>4. IsFiniteSet(late') /\ Cardinality(late') <= Cardinality(late)
    BY <1>1, FS_Subset DEF DuplicateInv
<1>5. Cardinality(late)' <= Lost'
    BY <1>3, <1>4, FS_CardinalityType DEF DuplicateInv
<1>6. ASSUME NEW asset
      PROVE  Owed(asset)' <= Owed(asset) /\ Owed(asset) \in Nat /\ Owed(asset)' \in Nat
    <2> DEFINE Here == IF AssetOf(request.alert.series) = asset THEN 1 ELSE 0
    <2>1. Cardinality(OpenAlerts(asset)') <= Cardinality(OpenAlerts(asset)) + Here
        BY <1>1, <1>2, OpenAfterAppend
    <2>2. IsFiniteSet(LateOf(asset)) /\ Cardinality(LateOf(asset)) \in Nat
        BY LateIsFinite DEF DuplicateInv
    <2>3. /\ Cardinality(LateOf(asset)') \in Nat
          /\ Cardinality(LateOf(asset)') = Cardinality(LateOf(asset)) - Here
        <3>1. LateOf(asset)' = LateOf(asset) \ {request}
            BY <1>1 DEF LateOf
        <3>2. request \in LateOf(asset) <=> AssetOf(request.alert.series) = asset
            BY DEF LateOf
        <3>3. /\ IsFiniteSet(LateOf(asset) \ {request})
              /\ Cardinality(LateOf(asset) \ {request}) =
                    IF request \in LateOf(asset) THEN Cardinality(LateOf(asset)) - 1
                    ELSE Cardinality(LateOf(asset))
            BY <2>2, FS_RemoveElement
        <3>4. Cardinality(LateOf(asset) \ {request}) \in Nat
            BY <3>3, FS_CardinalityType
        <3> QED
            BY <2>2, <3>1, <3>2, <3>3, <3>4
    <2>4. /\ Cardinality(OpenAlerts(asset)) \in Nat
          /\ Cardinality(OpenAlerts(asset)') \in Nat
        BY OpenIsFinite, OpenIsFiniteAfter
    <2> QED
        BY <2>1, <2>2, <2>3, <2>4 DEF Owed
<1>7. \A asset \in Assets : Owed(asset)' <= 1 + Lost'
    BY <1>3, <1>6 DEF DuplicateInv
<1>8. (pc = "post")' => Owed(AssetOf(held.series))' <= Lost'
    BY <1>1, <1>3, <1>6 DEF DuplicateInv
<1> QED
    BY <1>3, <1>4, <1>5, <1>7, <1>8 DEF DuplicateInv

LEMMA DuplicateNext == TypeInv /\ DuplicateInv /\ [Next]_vars => DuplicateInv'
<1> SUFFICES ASSUME TypeInv, DuplicateInv, [Next]_vars PROVE DuplicateInv'
    OBVIOUS
<1>t. TypeInv'
    BY TypeNext
<1>l. Lost \in Nat
    BY DEF DuplicateInv
<1>b. budget' = budget => Lost' = Lost
    BY DEF Lost
<1>1. ASSUME UNCHANGED <<alerts, late>>, Lost' \in Nat, Lost' >= Lost,
             pc' # "post" \/ (pc = "post" /\ held' = held)
      PROVE  DuplicateInv'
    <2>1. \A asset : OpenAlerts(asset)' \subseteq OpenAlerts(asset)
        BY <1>1 DEF OpenAlerts
    <2> QED
        BY <1>1, <1>t, <2>1, OwedNoMore
<1>2. CASE UNCHANGED vars
    BY <1>2, <1>1, <1>l, <1>b DEF vars, user, run
<1>3. ASSUME NEW s \in Monitored, Change(s) \/ FitFetch(s) PROVE DuplicateInv'
    <2>1. UNCHANGED <<alerts, late, pc, held>>
        BY <1>3 DEF Change, FitFetch, run
    <2>2. Lost' \in Nat /\ Lost' >= Lost
        BY <1>3, <1>l, <1>b, SpentIsLost DEF Change, FitFetch
    <2> QED
        BY <1>1, <2>1, <2>2
<1>4. ASSUME NEW b \in fits, FitStore(b) PROVE DuplicateInv'
    BY <1>4, <1>1, <1>l, <1>b DEF FitStore, run
<1>5. ASSUME NEW i \in 1..Len(alerts), Acknowledge(i) \/ Resolve(i)
      PROVE  DuplicateInv'
    <2>1. \A asset : OpenAlerts(asset)' \subseteq OpenAlerts(asset)
        BY <1>5, OpenAfterTouch
    <2>2. UNCHANGED <<late, pc, held>>
        BY <1>5 DEF Acknowledge, Resolve, run
    <2>3. Lost' \in Nat /\ Lost' >= Lost
        BY <1>5, <1>l, SpentIsLost DEF Acknowledge, Resolve
    <2> QED
        BY <1>t, <2>1, <2>2, <2>3, OwedNoMore
<1>6. CASE BeginRun
    BY <1>6, <1>1, <1>l, <1>b DEF BeginRun, user
<1>7. ASSUME NEW b \in queue, ReadBaseline(b) PROVE DuplicateInv'
    BY <1>7, <1>1, <1>l, <1>b DEF ReadBaseline, user
<1>8. CASE Fetch \/ FetchGap
    BY <1>8, <1>1, <1>l, <1>b DEF Fetch, FetchGap, NextSeries, user
<1>9. CASE CheckOpen
    BY <1>9, <1>t, DuplicateCheck
<1>10. CASE Post
    BY <1>10, <1>t, DuplicatePost
<1>11. CASE EndRun
    BY <1>11, <1>1, <1>l, <1>b DEF EndRun, user
<1>12. CASE Fail \/ Restart
    <2>1. UNCHANGED <<alerts, late>> /\ pc' # "post"
        BY <1>12 DEF Fail, Restart, NextSeries
    <2>2. Lost' \in Nat /\ Lost' >= Lost
        BY <1>12, <1>l, SpentIsLost DEF Fail, Restart
    <2> QED
        BY <1>1, <2>1, <2>2
<1>13. CASE PostTimesOut
    BY <1>13, <1>t, DuplicateTimeout
<1>14. ASSUME NEW request \in late, PostArrivesLate(request) PROVE DuplicateInv'
    BY <1>14, <1>t, DuplicateArrival
<1> QED
    BY <1>2, <1>3, <1>4, <1>5, <1>6, <1>7, <1>8, <1>9, <1>10, <1>11, <1>12,
       <1>13, <1>14 DEF Next, Scheduler

\* With POSTs that are served late, and whatever else fails, an asset has at
\* most one more open alert than requests were lost.
THEOREM DuplicatesAreBounded == Spec => []DuplicatesAreRare
<1>1. TypeInv /\ DuplicateInv => DuplicatesAreRare
    <2> SUFFICES ASSUME TypeInv, DuplicateInv, NEW asset \in Assets
                 PROVE  Cardinality(OpenAlerts(asset)) <= 1 + MaxFailures - budget["failures"]
        BY DEF DuplicatesAreRare
    <2>1. /\ Cardinality(OpenAlerts(asset)) \in Nat
          /\ Cardinality(LateOf(asset)) \in Nat
        BY OpenIsFinite, LateIsFinite DEF DuplicateInv
    <2>2. Cardinality(OpenAlerts(asset)) <= 1 + Lost
        BY <2>1 DEF DuplicateInv, Owed
    <2> QED
        BY <2>1, <2>2, BoundsAssumption DEF Lost, TypeInv, TypeOK
<1>2. TypeInv /\ DuplicateInv /\ [Next]_vars => TypeInv' /\ DuplicateInv'
    BY TypeNext, DuplicateNext
<1> QED
    BY <1>1, <1>2, TypeInit, DuplicateInit, PTL DEF Spec
=============================================================================
