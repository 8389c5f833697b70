--------------------------- MODULE ReadingLedger ---------------------------
(***************************************************************************)
(* What telemetry-service promises of its database, whoever writes to it:  *)
(* a ledger of readings that only grows, in which a key is used once, a    *)
(* call writes all its new rows at once or none, and the metric of a row   *)
(* is stamped at most once, always with a metric somebody mapped its point *)
(* to.  TelemetryIngestion implements it with threads, transactions and    *)
(* crashes.                                                                *)
(***************************************************************************)
EXTENDS Naturals, Sequences

CONSTANTS
    Points,      \* (asset_id, external_key): where a reading comes from
    Contents,    \* (value, recorded_at): what a reading says
    CallerKeys,  \* idempotency keys a caller may supply
    Metrics,     \* metric_definition_id values
    NoMetric     \* the NULL of metric_definition_id

ContentKeys == Points \X Contents

Keys == CallerKeys \cup ContentKeys

Rows == [key: Keys, point: Points, content: Contents,
         metric: Metrics \cup {NoMetric}, call: Nat]

Mappings == [point: Points, metric: Metrics]

VARIABLES
    readings,  \* the committed rows of telemetry_readings
    mappings   \* the committed rows of metric_mappings, oldest first

ledger == <<readings, mappings>>

KeysOf(rows) == {r.key : r \in rows}

\* No two of these rows share a key.
KeysDistinct(rows) == \A r, s \in rows : r.key = s.key => r = s

\* The metrics a point has been mapped to.  Nothing keeps them to one: the
\* table has no unique constraint.
MappedMetrics(p) ==
    {mappings[i].metric : i \in {j \in 1..Len(mappings) : mappings[j].point = p}}

\* A row's metric is NULL or one its point has been mapped to.
Sourced(r) == r.metric \in MappedMetrics(r.point) \cup {NoMetric}

\* The row once the backfill has stamped it.
Stamped(r, m) == [r EXCEPT !.metric = m]

Init ==
    /\ readings = {}
    /\ mappings = <<>>

\* One ingestion call stores its new rows.
Accept ==
    LET new == readings' \ readings IN
    /\ readings \subseteq readings'
    /\ new \subseteq Rows
    /\ KeysDistinct(new)
    /\ KeysOf(new) \cap KeysOf(readings) = {}
    /\ \A r \in new : Sourced(r)
    /\ UNCHANGED mappings

\* A metric is mapped, and rows of the point that have none yet get it.  The
\* ledger does not promise that all of them do: a row can be written with no
\* metric while its point is being mapped.
Map(new) ==
    LET stamped == readings \ readings' IN
    /\ mappings' = Append(mappings, new)
    /\ \A r \in stamped : r.point = new.point /\ r.metric = NoMetric
    /\ readings' = (readings \ stamped)
                       \cup {Stamped(r, new.metric) : r \in stamped}

Next == Accept \/ \E new \in Mappings : Map(new)

Spec == Init /\ [][Next]_ledger
=============================================================================
