--------------------------- MODULE AlertPipeline ---------------------------
(***************************************************************************)
(* Alerts on baseline deviations: users fit frozen baselines in            *)
(* ml-service, its scheduler thread scores the latest reading of each      *)
(* fitted series every interval and posts an alert to notification-service *)
(* when one deviates and no alert of the asset is open, and users          *)
(* acknowledge and resolve alerts.  The scheduler talks to auth-,          *)
(* asset-, telemetry- and notification-service over HTTP: a request can    *)
(* fail, and one the client gave up on can still arrive later.             *)
(*                                                                         *)
(* Readings are levels: a reading deviates from a baseline when it lies    *)
(* beyond k_std standard deviations, one level away, and is critical       *)
(* beyond twice that, two levels away.                                     *)
(***************************************************************************)
EXTENDS Integers, Sequences, FiniteSets

CONSTANTS
    Assets, Metrics,
    Monitored,    \* the (asset, metric) series users care about
    Gap,          \* the level of a series whose telemetry cannot be fetched
    Lateness,     \* TRUE if a request that timed out may still be served
    MaxFits,      \* bound: baselines fitted
    MaxChanges,   \* bound: changes of the readings
    MaxFailures,  \* bound: requests that fail, and restarts of ml-service
    MaxTouches    \* bound: acknowledgements and resolutions

ASSUME MonitoredAssumption == Monitored \subseteq Assets \X Metrics
ASSUME BoundsAssumption ==
    {MaxFits, MaxChanges, MaxFailures, MaxTouches} \subseteq Nat
ASSUME LatenessAssumption == Lateness \in BOOLEAN
ASSUME GapAssumption == Gap \notin Int

Levels == 0..2

\* The standard deviation of the residuals: NaN for one reference row, zero
\* for a perfect fit, sound otherwise.
Spreads == {"sound", "nan", "zero"}

Baselines == [id: Nat, series: Monitored, mean: Levels, std: Spreads]

AlertRecords == [series: Monitored, severity: {"warning", "critical"},
                 status: {"open", "acknowledged", "resolved"}]

VARIABLES
    level,      \* per series: the latest reading, or Gap
    baselines,  \* rows of asset_baselines
    fits,       \* fits in progress: computed, not yet stored
    fitted,     \* baselines fitted so far: the next id
    alerts,     \* rows of alerts, in the order they were created
    pc,         \* the statement the scheduler's run is at
    queue,      \* the baselines of the run that are still to be checked
    held,       \* the baseline the run is scoring, as it was read
    score,      \* how many levels the reading was away from it
    late,       \* POSTs the scheduler gave up on and the server has not read
    budget      \* how often the environment may still act

user == <<level, fits, fitted, budget>>
run == <<pc, queue, held, score>>
vars == <<user, baselines, alerts, run, late>>

NoBaseline == [id |-> 0, series |-> <<>>, mean |-> 0, std |-> "sound"]

AssetOf(series) == series[1]

Distance(b, l) == IF l >= b.mean THEN l - b.mean ELSE b.mean - l

\* score_baseline's is_deviation.  No comparison with NaN is true, and the
\* division by zero is an exception, which the run survives: either way the
\* series does not count as deviating.
Deviates(b, l) == b.std = "sound" /\ Distance(b, l) # 0

BaselinesOf(s) == {b \in baselines : b.series = s}

OpenAlerts(asset) ==
    {i \in 1..Len(alerts) :
        AssetOf(alerts[i].series) = asset /\ alerts[i].status = "open"}

\* The alert that _create_alert asks for.
Request(b, distance) ==
    [series |-> b.series, status |-> "open",
     severity |-> IF distance >= 2 THEN "critical" ELSE "warning"]

Spend(what) ==
    /\ budget[what] > 0
    /\ budget' = [budget EXCEPT ![what] = @ - 1]

Init ==
    /\ level \in [Monitored -> {0, Gap}]
    /\ baselines = {}
    /\ fits = {}
    /\ fitted = 0
    /\ alerts = <<>>
    /\ pc = "idle"
    /\ queue = {}
    /\ held = NoBaseline
    /\ score = 0
    /\ late = {}
    /\ budget = [changes |-> MaxChanges, failures |-> MaxFailures,
                 touches |-> MaxTouches]

-----------------------------------------------------------------------------
(* The plant and the users.                                                *)

Change(s) ==
    /\ Spend("changes")
    /\ \E l \in (Levels \cup {Gap}) \ {level[s]} :
          level' = [level EXCEPT ![s] = l]
    /\ UNCHANGED <<fits, fitted, baselines, alerts, run, late>>

\* fit_baseline up to its last await: the readings are fetched, the
\* regression computed.
FitFetch(s) ==
    /\ fitted < MaxFits
    /\ level[s] # Gap
    /\ fitted' = fitted + 1
    /\ \E std \in Spreads :
          fits' = fits \cup {[id |-> fitted + 1, series |-> s,
                              mean |-> level[s], std |-> std]}
    /\ UNCHANGED <<level, budget, baselines, alerts, run, late>>

\* Slip: the row to replace was looked up before the await, when there was
\* none.
SlipFitStore(b) ==
    /\ baselines' = baselines \cup {b}
    /\ fits' = fits \ {b}
    /\ UNCHANGED <<level, fitted, budget, alerts, run, late>>

\* The rest of fit_baseline has no await: the existing row, if any, is
\* deleted and the new one added in one transaction.
FitStore(b) ==
    /\ \/ BaselinesOf(b.series) = {} /\ baselines' = baselines \cup {b}
       \/ \E existing \in BaselinesOf(b.series) :
             baselines' = (baselines \ {existing}) \cup {b}
    /\ fits' = fits \ {b}
    /\ UNCHANGED <<level, fitted, budget, alerts, run, late>>

\* Slip: acknowledging an alert opens it again.
SlipReopen(i) ==
    /\ Spend("touches")
    /\ alerts' = [alerts EXCEPT ![i].status = "open"]
    /\ UNCHANGED <<level, fits, fitted, baselines, run, late>>

\* acknowledge_alert and resolve_alert look at no status: an alert that is
\* resolved can be acknowledged.
Acknowledge(i) ==
    /\ Spend("touches")
    /\ alerts' = [alerts EXCEPT ![i].status = "acknowledged"]
    /\ UNCHANGED <<level, fits, fitted, baselines, run, late>>

Resolve(i) ==
    /\ Spend("touches")
    /\ alerts' = [alerts EXCEPT ![i].status = "resolved"]
    /\ UNCHANGED <<level, fits, fitted, baselines, run, late>>

-----------------------------------------------------------------------------
(* A run of the scheduler: _check_all_baselines.                           *)

\* The service account logs in and the baselines are listed.  When the login
\* fails the run is over at once, and nothing changes.
BeginRun ==
    /\ pc = "idle"
    /\ queue' = baselines
    /\ pc' = "next"
    /\ UNCHANGED <<user, baselines, alerts, held, score, late>>

\* What follows for the series being checked is done: the run goes on.
NextSeries ==
    /\ pc' = "next"
    /\ held' = NoBaseline
    /\ score' = 0
    /\ UNCHANGED queue

\* score_baseline reads the baseline again: it may have been refitted since
\* the list was read, but none is ever gone.
ReadBaseline(b) ==
    /\ pc = "next"
    /\ queue' = queue \ {b}
    /\ \E now \in BaselinesOf(b.series) : held' = now
    /\ pc' = "fetch"
    /\ UNCHANGED <<user, baselines, alerts, score, late>>

\* The readings arrive and are scored with the baseline that was read, even if
\* it was replaced meanwhile.
Fetch ==
    /\ pc = "fetch"
    /\ level[held.series] # Gap
    /\ IF Deviates(held, level[held.series])
       THEN /\ pc' = "check"
            /\ score' = Distance(held, level[held.series])
            /\ UNCHANGED <<queue, held>>
       ELSE NextSeries
    /\ UNCHANGED <<user, baselines, alerts, late>>

\* Slip: the exception leaves the loop over the baselines.
SlipGapEndsRun ==
    /\ pc = "fetch"
    /\ level[held.series] = Gap
    /\ pc' = "idle"
    /\ queue' = {}
    /\ held' = NoBaseline
    /\ UNCHANGED <<user, baselines, alerts, score, late>>

\* There is nothing to score: the exception is caught and the run goes on.
FetchGap ==
    /\ pc = "fetch"
    /\ level[held.series] = Gap
    /\ NextSeries
    /\ UNCHANGED <<user, baselines, alerts, late>>

\* Slip: an open alert counts only if it is of the same metric.
SlipCheckMetric ==
    /\ pc = "check"
    /\ IF \E i \in 1..Len(alerts) :
             alerts[i].series = held.series /\ alerts[i].status = "open"
       THEN NextSeries
       ELSE pc' = "post" /\ UNCHANGED <<queue, held, score>>
    /\ UNCHANGED <<user, baselines, alerts, late>>

\* Slip: the list is not filtered by asset, and only its first row looked at.
SlipCheckNewest ==
    /\ pc = "check"
    /\ IF Len(alerts) \in OpenAlerts(AssetOf(held.series))
       THEN NextSeries
       ELSE pc' = "post" /\ UNCHANGED <<queue, held, score>>
    /\ UNCHANGED <<user, baselines, alerts, late>>

\* _has_open_alert asks for open alerts of the asset, of whatever metric.
CheckOpen ==
    /\ pc = "check"
    /\ IF OpenAlerts(AssetOf(held.series)) # {}
       THEN NextSeries
       ELSE pc' = "post" /\ UNCHANGED <<queue, held, score>>
    /\ UNCHANGED <<user, baselines, alerts, late>>

\* create_alert, and the scheduler hears of it (or does not: it is all the
\* same to the next check).
Post ==
    /\ pc = "post"
    /\ alerts' = Append(alerts, Request(held, score))
    /\ NextSeries
    /\ UNCHANGED <<user, baselines, late>>

\* A request of the run fails.  The exception is caught.
Fail ==
    /\ pc \in {"fetch", "check", "post"}
    /\ Spend("failures")
    /\ NextSeries
    /\ UNCHANGED <<level, fits, fitted, baselines, alerts, late>>

\* The POST times out at the client while the server has yet to read it.
PostTimesOut ==
    /\ Lateness
    /\ pc = "post"
    /\ Spend("failures")
    /\ late' = late \cup {[id |-> budget["failures"], alert |-> Request(held, score)]}
    /\ NextSeries
    /\ UNCHANGED <<level, fits, fitted, baselines, alerts>>

PostArrivesLate(request) ==
    /\ alerts' = Append(alerts, request.alert)
    /\ late' = late \ {request}
    /\ UNCHANGED <<user, baselines, run>>

EndRun ==
    /\ pc = "next"
    /\ queue = {}
    /\ pc' = "idle"
    /\ UNCHANGED <<user, baselines, alerts, queue, held, score, late>>

\* ml-service restarts, and with it the scheduler; a fit in progress is lost.
Restart ==
    /\ Spend("failures")
    /\ pc' = "idle"
    /\ queue' = {}
    /\ held' = NoBaseline
    /\ score' = 0
    /\ fits' = {}
    /\ UNCHANGED <<level, fitted, baselines, alerts, late>>

Scheduler ==
    \/ BeginRun
    \/ \E b \in queue : ReadBaseline(b)
    \/ Fetch
    \/ FetchGap
    \/ CheckOpen
    \/ Post
    \/ EndRun

Next ==
    \/ Scheduler
    \/ \E s \in Monitored : Change(s) \/ FitFetch(s)
    \/ \E b \in fits : FitStore(b)
    \/ \E i \in 1..Len(alerts) : Acknowledge(i) \/ Resolve(i)
    \/ Fail
    \/ PostTimesOut
    \/ \E request \in late : PostArrivesLate(request)
    \/ Restart

Spec == Init /\ [][Next]_vars

\* The interval job fires again and again, and a run that is at a statement
\* goes on.  Each series of a run is reached, for the run ends.
FairSpec == Spec /\ WF_vars(Scheduler)

-----------------------------------------------------------------------------
(* Properties.                                                             *)

TypeOK ==
    /\ level \in [Monitored -> Levels \cup {Gap}]
    /\ baselines \subseteq Baselines
    /\ fits \subseteq Baselines
    /\ fitted \in Nat
    /\ alerts \in Seq(AlertRecords)
    /\ pc \in {"idle", "next", "fetch", "check", "post"}
    /\ queue \subseteq Baselines
    /\ held \in Baselines \cup {NoBaseline}
    /\ score \in Nat
    /\ late \subseteq [id: Nat, alert: AlertRecords]
    /\ budget \in [{"changes", "failures", "touches"} -> Nat]

\* Users that fit the same series at the same time leave one baseline, so it
\* does not matter which row .first() picks.
OneBaselinePerSeries ==
    \A b, c \in baselines : b.series = c.series => b = c

\* _has_open_alert works: as long as no POST is served after the scheduler
\* gave up on it, an asset never has two open alerts, although the check and
\* the POST are two requests and users act in between.
OneOpenAlert == \A asset \in Assets : \A i, j \in OpenAlerts(asset) : i = j

\* What is left of that when POSTs are served late, by a scheduler that has
\* gone on meanwhile: an asset has at most one more open alert than requests
\* were lost.  A duplicate is never raised again by the runs that follow.
DuplicatesAreRare ==
    \A asset \in Assets :
        Cardinality(OpenAlerts(asset)) <= 1 + MaxFailures - budget["failures"]

\* An alert never opens again, and no alert is deleted.
NeverReopened ==
    [][\A i \in 1..Len(alerts) :
          /\ i \in 1..Len(alerts')
          /\ alerts[i].status # "open" => alerts'[i].status # "open"]_vars

\* The series deviates from its only baseline.
Deviating(s) ==
    level[s] # Gap /\ \E b \in BaselinesOf(s) : Deviates(b, level[s])

\* A deviation that lasts is alarmed: once readings, baselines and users
\* settle, the asset has an open alert, whatever fails on the way and however
\* many other series cannot be scored.
DeviationIsAlarmed ==
    \A s \in Monitored :
        <>[]Deviating(s) => <>[](OpenAlerts(AssetOf(s)) # {})

\* OneOpenAlert made inductive: what the scheduler found out before its POST
\* still holds when the POST is served, for nobody else opens alerts.
CheckStillHolds ==
    pc = "post" => /\ held.series \in Monitored
                   /\ OpenAlerts(AssetOf(held.series)) = {}
=============================================================================
