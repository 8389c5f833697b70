---------------------------- MODULE MCSeriesJoin ----------------------------
(* Three moments and a cap of two readings: the oldest reading of a metric  *)
(* drops out of its series while the others are fetched.  At the last       *)
(* moment the unit is on according to one point and off to another.         *)
EXTENDS SeriesJoin

MCWanted == [buffer |-> <<"pressure", "stage">>,
             baseline |-> <<"pressure", "weather", "stage">>]

MCPossible ==
    [metric: {"pressure", "stage"}, time: Times, on: {TRUE}]
    \cup [metric: {"weather"}, time: {2, 3}, on: {TRUE}]
    \cup [metric: {"stage"}, time: {3}, on: {FALSE}]
=============================================================================
