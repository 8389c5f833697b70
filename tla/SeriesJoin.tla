----------------------------- MODULE SeriesJoin -----------------------------
(***************************************************************************)
(* How ml-service gets the row it scores: the series of the metrics it     *)
(* needs are fetched one after the other from telemetry-service            *)
(* (telemetry.py list_readings), each the newest Limit readings at that    *)
(* moment, joined on their time, restricted to the moments the unit runs,  *)
(* and the last row is taken (buffer_builder.py build_buffer with          *)
(* live_features.py; baselines.py _fetch_target_and_weather with           *)
(* score_baseline).  Readings are stored between the fetches, late ones    *)
(* too, and a new mapping gives a metric readings that are old.            *)
(***************************************************************************)
EXTENDS Integers, Sequences, FiniteSets, FiniteSetsExt

CONSTANTS
    Metrics,   \* metrics of the asset
    Stage,     \* the one that says whether the unit runs
    Times,     \* moments readings are recorded at
    Possible,  \* bound: the readings there may be
    Wanted,    \* the metrics a request fetches, in their order, by its kind
    Limit      \* readings GET /telemetry returns at most

ASSUME SeriesAssumption ==
    /\ Times \subseteq Nat /\ Limit \in Nat \ {0} /\ Stage \in Metrics
    /\ Possible \subseteq [metric: Metrics, time: Times, on: BOOLEAN]
    /\ DOMAIN Wanted = {"buffer", "baseline"}
    /\ \A k \in DOMAIN Wanted : Wanted[k] \in Seq(Metrics) /\ Wanted[k] # <<>>

VARIABLES
    mapped,    \* telemetry-service: readings of the asset that have a metric
    request    \* a request of ml-service

seriesVars == <<mapped, request>>

(* "before" are the readings stored when the request began; nobody reads   *)
(* it but the properties.                                                  *)
Request ==
    [kind: DOMAIN Wanted, step: {"none", "fetching", "scored", "refused"},
     before: SUBSET Possible, series: Seq(SUBSET Possible), scored: Times \cup {-1}]

SeriesTypeOK ==
    /\ mapped \subseteq Possible
    /\ request \in Request
    /\ Len(request.series) <= Len(Wanted[request.kind])

Metric(m, S) == {r \in S : r.metric = m}

-----------------------------------------------------------------------------
(* list_readings: ordered by time, newest first, and cut; readings of one  *)
(* time come in any order.                                                 *)

(* Mutant: oldest first. *)
SlipAscending(S) ==
    {W \in kSubset(Min({Limit, Cardinality(S)}), S) :
        \A r \in S \ W, w \in W : r.time >= w.time}

Newest(S) ==
    {W \in kSubset(Min({Limit, Cardinality(S)}), S) :
        \A r \in S \ W, w \in W : r.time <= w.time}

(* The inner join on recorded_at: the times all series have.               *)
Joined(series) ==
    {t \in Times : \A i \in DOMAIN series : \E r \in series[i] : r.time = t}

(* stage2_only: rows at which the unit runs, if the request asks for it.   *)
Running(series) ==
    {t \in Joined(series) :
        \A i \in DOMAIN series : Metric(Stage, series[i]) # {} =>
            \E r \in series[i] : r.time = t /\ r.on}

(* Mutant: the series are taken as they come, newest first. *)
SlipUnsorted(times) == Min(times)

(* iloc[-1] of what fetch_metric_readings has sorted.                      *)
Latest(times) == Max(times)

-----------------------------------------------------------------------------
Begin(kind) ==
    /\ request.step = "none"
    /\ request' = [request EXCEPT !.kind = kind, !.step = "fetching", !.before = mapped]
    /\ UNCHANGED mapped

RefuseToScore == request' = [request EXCEPT !.step = "refused"] /\ UNCHANGED mapped

(* A metric without readings: build_buffer refuses at once,                *)
(* _fetch_target_and_weather when it has fetched all.                      *)
Fetch ==
    LET wanted == Wanted[request.kind]
        n == Len(request.series) + 1
    IN  /\ request.step = "fetching" /\ n <= Len(wanted)
        /\ \E W \in Newest(Metric(wanted[n], mapped)) :
              IF W = {} /\ request.kind = "buffer"
              THEN RefuseToScore
              ELSE /\ request' = [request EXCEPT !.series = Append(@, W)]
                   /\ UNCHANGED mapped

(* telemetry-service is unavailable, or asset-service does not know one of *)
(* the metrics.                                                            *)
FetchFails ==
    /\ request.step = "fetching" /\ Len(request.series) < Len(Wanted[request.kind])
    /\ RefuseToScore

Fetched == request.step = "fetching" /\ Len(request.series) = Len(Wanted[request.kind])

(* No series, no common time, or the unit was off at all of them.          *)
NothingToScore == Fetched /\ Running(request.series) = {} /\ RefuseToScore

Score ==
    /\ Fetched /\ Running(request.series) # {}
    /\ request' = [request EXCEPT !.step = "scored",
                                  !.scored = Latest(Running(request.series))]
    /\ UNCHANGED mapped

(* A reading is stored, or the backfill of a mapping gives it its metric.  *)
Store(r) ==
    /\ r \notin mapped
    /\ mapped' = mapped \cup {r}
    /\ UNCHANGED request

-----------------------------------------------------------------------------
SeriesInit ==
    /\ mapped = {}
    /\ request = [kind |-> "buffer", step |-> "none", before |-> {},
                  series |-> <<>>, scored |-> -1]

SeriesNext ==
    \/ \E kind \in DOMAIN Wanted : Begin(kind)
    \/ Fetch \/ FetchFails \/ NothingToScore \/ Score
    \/ \E r \in Possible : Store(r)

SeriesSpec == SeriesInit /\ [][SeriesNext]_seriesVars

-----------------------------------------------------------------------------
(* Properties *)

(* Moments all metrics had when the request began and that the cap has not *)
(* pushed out of any of them since.                                        *)
InReach(r) == Cardinality({x \in Metric(r.metric, mapped) : x.time >= r.time}) <= Limit
Stable ==
    {t \in Times : \A i \in DOMAIN Wanted[request.kind] :
        \E r \in request.before :
            r.metric = Wanted[request.kind][i] /\ r.time = t /\ InReach(r)}
StableOn ==
    {t \in Stable : Stage \in {Wanted[request.kind][i] : i \in DOMAIN Wanted[request.kind]} =>
        \E r \in request.before : r.metric = Stage /\ r.time = t /\ r.on}

(* The series are fetched at different moments, but what all of them had   *)
(* and still have is in the join.                                          *)
StableMomentsAreJoined ==
    Fetched => Stable \subseteq Joined(request.series)

(* The row that is scored is not older than the newest such moment at      *)
(* which the unit ran.                                                     *)
ScoredIsNewest ==
    request.step = "scored" => \A t \in StableOn : t <= request.scored
=============================================================================
