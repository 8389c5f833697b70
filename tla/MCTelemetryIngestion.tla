------------------------ MODULE MCTelemetryIngestion ------------------------
(* Small instances of TelemetryIngestion.                                   *)
EXTENDS TelemetryIngestion

CONSTANTS p, q, a, b, k

reading(point, content) == [point |-> point, content |-> content, ikey |-> NoKey]
keyed(point, content) == [point |-> point, content |-> content, ikey |-> k]

payload(items) == [items |-> items, invalid |-> FALSE, alien |-> FALSE]

\* Batches that share keys in both orders, repeat one, hold one reading only,
\* reuse a caller's key for another content, or hold a bad entry.
RacingSubmissions ==
    {payload(items) : items \in
        { <<reading(p, a)>>,
          <<reading(p, a), reading(p, b)>>,
          <<reading(p, b), reading(p, a)>>,
          <<keyed(p, a), reading(p, a)>>,
          <<keyed(p, b), keyed(p, b)>> }}
    \cup {[payload(<<reading(p, b)>>) EXCEPT !.invalid = TRUE]}

\* Readings of two points, for the run that maps them; two batches hold the
\* same keys in opposite orders, so that their inserts can deadlock.
MappedSubmissions ==
    { payload(<<reading(p, a)>>),
      payload(<<reading(q, a), reading(p, b)>>),
      payload(<<reading(p, b), reading(q, a)>>),
      [payload(<<reading(q, b)>>) EXCEPT !.alien = TRUE] }
=============================================================================
