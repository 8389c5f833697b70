--------------------------- MODULE FacilityReport ---------------------------
(***************************************************************************)
(* notification-service's report of a facility                             *)
(* (notification-service/app/routers/reports.py and services/), and the    *)
(* count of readings it asks telemetry-service for (get_telemetry_volume). *)
(*                                                                         *)
(* The handler awaits asset-service twice, reads the alerts in one query   *)
(* and awaits telemetry-service for all assets at once; assets, alerts and *)
(* readings are added meanwhile and the day may end.  Every window starts  *)
(* and ends at midnight, so an instant is the day it lies in, counted as   *)
(* Python's datetime counts days.                                          *)
(***************************************************************************)
EXTENDS Integers, FiniteSets, FiniteSetsExt

CONSTANTS
    Dates,        \* the dates <<year, month, day>> at which anything happens
    Assets,       \* assets the facility may have
    FirstAssets,  \* those it has at first
    MaxAlerts,    \* bound: alerts
    MaxReadings   \* bound: readings

-----------------------------------------------------------------------------
(* Python's datetime: its years are 1 to 9999.                             *)

Leap(y) == y % 4 = 0 /\ (y % 100 # 0 \/ y % 400 = 0)
DaysIn(y, m) == CASE m \in {4, 6, 9, 11} -> 30
                  [] m = 2 -> IF Leap(y) THEN 29 ELSE 28
                  [] OTHER -> 31

DaysBeforeYear(y) ==
    365 * (y - 1) + (y - 1) \div 4 - (y - 1) \div 100 + (y - 1) \div 400
DaysBeforeMonth(y, m) ==
    <<0, 31, 59, 90, 120, 151, 181, 212, 243, 273, 304, 334>>[m]
    + (IF m > 2 /\ Leap(y) THEN 1 ELSE 0)

(* datetime(y, m, d).toordinal()                                           *)
Midnight(y, m, d) == DaysBeforeYear(y) + DaysBeforeMonth(y, m) + d

(* A date that is none cannot be made, and the windows of the dates end at *)
(* one that can.                                                           *)
ASSUME ReportAssumption ==
    /\ Dates # {} /\ Dates \subseteq (2 .. 9998) \X (1 .. 12) \X (1 .. 31)
    /\ \A d \in Dates : d[3] <= DaysIn(d[1], d[2])
    /\ FirstAssets \subseteq Assets
    /\ MaxAlerts \in Nat /\ MaxReadings \in Nat

DayOf(date) == Midnight(date[1], date[2], date[3])
Days == {DayOf(date) : date \in Dates}
DateOf(day) == CHOOSE date \in Dates : DayOf(date) = day

-----------------------------------------------------------------------------
VARIABLES
    today,      \* the day it is
    assets,     \* asset-service: the facility's assets
    alerts,     \* notification-service: table alerts
    readings,   \* telemetry-service: table telemetry_readings
    reachable,  \* whether telemetry-service is
    report      \* the request for a report

world == <<today, assets, alerts, readings, reachable>>
vars == <<world, report>>

Later == {day \in Days : day > today}

-----------------------------------------------------------------------------
(* resolve_report_period: the first day of the window and the first after  *)
(* it.                                                                     *)

Period == {"daily", "weekly", "monthly"}

(* Mutant: the month after the twelfth is not the first of the next year. *)
SlipDecember(date) ==
    IF date[2] = 12 THEN Midnight(date[1], 12, 31) ELSE Midnight(date[1], date[2] + 1, 1)

NextMonth(date) ==
    IF date[2] = 12 THEN Midnight(date[1] + 1, 1, 1) ELSE Midnight(date[1], date[2] + 1, 1)

(* The week is the seven days that end with the date.                      *)
Start(period, date) ==
    CASE period = "daily" -> DayOf(date)
      [] period = "weekly" -> (DayOf(date) + 1) - 7
      [] OTHER -> Midnight(date[1], date[2], 1)

End(period, date) ==
    IF period = "monthly" THEN NextMonth(date) ELSE DayOf(date) + 1

-----------------------------------------------------------------------------
Alert == [id: 1 .. MaxAlerts, asset: Assets, created: Days]
Reading == [id: 1 .. MaxReadings, asset: Assets, recorded: Days]

Counts == [total: 0 .. MaxAlerts, alerts: [Assets -> 0 .. MaxAlerts],
           readings: [Assets -> 0 .. MaxReadings]]
NoCounts == [total |-> 0, alerts |-> [a \in Assets |-> 0], readings |-> [a \in Assets |-> 0]]

(* "date" is the anchor (<<>> when the caller gives none), "listed" the day *)
(* asset-service listed the assets, "waits" the assets whose count is out. *)
Report ==
    [step: {"none", "asked", "resolved", "listed", "counting", "answered", "refused"},
     period: Period, date: Dates \cup {<<>>}, assets: SUBSET Assets, listed: Days,
     waits: SUBSET Assets, counts: Counts]

TypeOK ==
    /\ today \in Days /\ assets \subseteq Assets
    /\ alerts \subseteq Alert /\ readings \subseteq Reading
    /\ reachable \in BOOLEAN
    /\ report \in Report

Within(day, r) == Start(r.period, r.date) <= day /\ day < End(r.period, r.date)

-----------------------------------------------------------------------------
(* The handler *)

GetFacilityReport(period, date) ==
    /\ report.step = "none"
    /\ report' = [report EXCEPT !.step = "asked", !.period = period, !.date = date]
    /\ UNCHANGED world

Refuse == report' = [report EXCEPT !.step = "refused"] /\ UNCHANGED world

(* verify_facility_access: 403, 404, or 503 when asset-service does not    *)
(* answer; a text that is no date is refused next.  Without a date the     *)
(* report is about the day it is now.                                      *)
VerifyFacilityAccess ==
    /\ report.step = "asked"
    /\ \/ Refuse
       \/ /\ report' = [report EXCEPT !.step = "resolved",
                            !.date = IF @ = <<>> THEN DateOf(today) ELSE @]
          /\ UNCHANGED world

GetFacilityAssets ==
    /\ report.step = "resolved"
    /\ \/ Refuse
       \/ /\ report' = [report EXCEPT !.step = "listed", !.assets = assets,
                                      !.listed = today]
          /\ UNCHANGED world

Number(S) == Cardinality(S)

(* One query finds the alerts of all assets, a loop counts them, by asset  *)
(* and (not modelled: they are counts of the same rows) by severity, source*)
(* and status.                                                             *)
CountAlerts(found) ==
    [NoCounts EXCEPT
        !.total = Number(found),
        !.alerts = [a \in Assets |-> Number({x \in found : x.asset = a})]]

(* A facility without assets is answered at once.                          *)
QueryAlerts ==
    LET found == {x \in alerts : x.asset \in report.assets /\ Within(x.created, report)}
    IN  /\ report.step = "listed"
        /\ report' = [report EXCEPT
              !.step = IF report.assets = {} THEN "answered" ELSE "counting",
              !.waits = report.assets,
              !.counts = CountAlerts(found)]
        /\ UNCHANGED world

(* Mutant: the readings of the period are counted, whosever they are. *)
SlipVolumeOfAll(a) == Number({x \in readings : Within(x.recorded, report)})

(* get_telemetry_volume *)
Volume(a) == Number({x \in readings : x.asset = a /\ Within(x.recorded, report)})

Counted(a, n) ==
    /\ report.step = "counting" /\ a \in report.waits
    /\ report' = [report EXCEPT !.waits = @ \ {a}, !.counts.readings[a] = n]
    /\ UNCHANGED world

GetTelemetryVolume(a) == reachable /\ Counted(a, Volume(a))

(* Mutant: the call is waited for. *)
SlipNoError(a) == FALSE /\ Counted(a, 0)

(* httpx.RequestError, its timeout among them, or a status that is not 200.*)
VolumeFails(a) == Counted(a, 0)

Gathered ==
    /\ report.step = "counting" /\ report.waits = {}
    /\ report' = [report EXCEPT !.step = "answered"]
    /\ UNCHANGED world

-----------------------------------------------------------------------------
(* Meanwhile *)

DayEnds ==
    /\ Later # {} /\ today' = Min(Later)
    /\ UNCHANGED <<assets, alerts, readings, reachable, report>>

AddAsset(a) ==
    /\ a \notin assets /\ assets' = assets \cup {a}
    /\ UNCHANGED <<today, alerts, readings, reachable, report>>

(* An alert has the time of the insert.                                    *)
CreateAlert(a) ==
    /\ a \in assets /\ Number(alerts) < MaxAlerts
    /\ alerts' = alerts \cup {[id |-> Number(alerts) + 1, asset |-> a,
                               created |-> today]}
    /\ UNCHANGED <<today, assets, readings, reachable, report>>

(* A device reports late, or a file is uploaded: the time is the caller's. *)
Ingest(a, day) ==
    /\ a \in assets /\ Number(readings) < MaxReadings
    /\ readings' = readings \cup {[id |-> Number(readings) + 1, asset |-> a,
                                   recorded |-> day]}
    /\ UNCHANGED <<today, assets, alerts, reachable, report>>

(* Nobody notices before the counts are asked for.                         *)
Outage ==
    /\ report.step = "counting" /\ reachable' = ~reachable
    /\ UNCHANGED <<today, assets, alerts, readings, report>>

-----------------------------------------------------------------------------
Init ==
    /\ today = Min(Days) /\ assets = FirstAssets
    /\ alerts = {} /\ readings = {} /\ reachable = TRUE
    /\ report = [step |-> "none", period |-> "daily", date |-> <<>>,
                 assets |-> {}, listed |-> Min(Days), waits |-> {}, counts |-> NoCounts]

Works ==
    \/ VerifyFacilityAccess \/ GetFacilityAssets \/ QueryAlerts \/ Gathered
    \/ \E a \in Assets : GetTelemetryVolume(a) \/ VolumeFails(a)

Next ==
    \/ \E period \in Period, date \in Dates \cup {<<>>} : GetFacilityReport(period, date)
    \/ Works
    \/ DayEnds \/ Outage
    \/ \E a \in Assets : AddAsset(a) \/ CreateAlert(a)
                         \/ \E day \in Days : Ingest(a, day)

Spec == Init /\ [][Next]_vars

(* The event loop runs what is ready, and the HTTP client has a timeout.   *)
FairSpec == Spec /\ WF_vars(Works)

-----------------------------------------------------------------------------
(* Properties *)

(* What "this day", "the seven days that end with it" and "its month" are, *)
(* said without windows.                                                   *)
InPeriod(period, date, day) ==
    CASE period = "daily" -> day = DayOf(date)
      [] period = "weekly" -> DayOf(date) - day \in 0 .. 6
      [] OTHER -> <<DateOf(day)[1], DateOf(day)[2]>> = <<date[1], date[2]>>

(* The assets were listed when the period was over: the report has every   *)
(* alert of the period, of that month or day and no other, in total and    *)
(* under its asset, and whatever happens later makes it no less true.      *)
ClosedPeriodsAreFinal ==
    LET due == {x \in alerts : x.asset \in assets
                               /\ InPeriod(report.period, report.date, x.created)}
    IN  report.step = "answered" /\ report.listed >= End(report.period, report.date) =>
            /\ report.counts.total = Number(due)
            /\ \A a \in assets :
                  report.counts.alerts[a] = Number({x \in due : x.asset = a})

(* A count of readings that telemetry-service could not give is 0: never   *)
(* more is reported than is stored.                                        *)
VolumeIsHonest ==
    \A a \in Assets : report.counts.readings[a] > 0 =>
        /\ a \in report.assets
        /\ report.counts.readings[a] <= Number({x \in readings :
              x.asset = a /\ InPeriod(report.period, report.date, x.recorded)})

(* Every report is answered or refused, whatever services are down.        *)
ReportEnds == report.step = "asked" ~> report.step \in {"answered", "refused"}
=============================================================================
