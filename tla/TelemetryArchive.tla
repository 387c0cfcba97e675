-------------------------- MODULE TelemetryArchive --------------------------
(***************************************************************************)
(* The tables Analytics keeps in TimescaleDB and the SQL its repositories  *)
(* run on them (telemetry_repository.py, alert_repository.py,              *)
(* health_repository.py).  A table is a set of rows; an optional argument  *)
(* is a set of at most one element.  Where ORDER BY leaves rows tied, an   *)
(* answer is any of several, and the operator the set of them; a row of a  *)
(* locomotive is its only one of that time (and sensor).  Times are        *)
(* seconds, scores thousandths, averages rounded down; texts and units are *)
(* left out.                                                               *)
(***************************************************************************)
EXTENDS HistoryQuery, TLC

\* _build_where().
Where(rows, locomotive, sensor, start, end) ==
    {r \in rows : /\ locomotive = {} \/ r.locomotive \in locomotive
                  /\ sensor = {} \/ r.sensor \in sensor
                  /\ \A t \in start : t <= r.time
                  /\ \A t \in end : r.time <= t}

\* Mutant: a half-open window.
Between_HalfOpen(rows, locomotive, start, end) ==
    {r \in rows : (locomotive = {} \/ r.locomotive \in locomotive) /\ start <= r.time /\ r.time < end}

\* WHERE time BETWEEN start AND end, and the locomotive if one is given.
Between(rows, locomotive, start, end) ==
    {r \in rows : (locomotive = {} \/ r.locomotive \in locomotive) /\ start <= r.time /\ r.time <= end}

NewestFirst(rows) ==
    {s \in SetToSeqs(rows) : \A i \in 2..Len(s) : s[i - 1].time >= s[i].time}

\* OFFSET and LIMIT.
Page(s, offset, limit) == SubSeq(s, offset + 1, Min({offset + limit, Len(s)}))

Total(rows, ValueOf(_)) == MapThenSumSet(ValueOf, rows)
Average(rows, ValueOf(_)) == Total(rows, ValueOf) \div Cardinality(rows)

-----------------------------------------------------------------------------
(* telemetry_repository.py.                                                *)

\* Whether query_bucketed() reads raw_telemetry and not a continuous aggregate.
ReadsRaw(span, age, requested) ==
    (requested \in AllowedBuckets /\ age <= RawRetention) \/ PickLevel(span) = NoBucket

BucketOf(time, width) == time - (time % width)

\* ORDER BY: the i-th of these times.
Nth(times, i) == CHOOSE t \in times : Cardinality({u \in times : u < t}) = i - 1

\* The rows of one locomotive and sensor.  A window of an aggregate is a window of its
\* buckets: one that began before the window is left out whole.
Buckets(rows, start, end, width, raw) ==
    LET read == IF raw THEN Where(rows, {}, {}, start, end)
                ELSE {r \in rows : LET b == BucketOf(r.time, width) IN
                        (\A t \in start : t <= b) /\ (\A t \in end : b <= t)}
        times == {BucketOf(r.time, width) : r \in read}
    IN [i \in 1..Cardinality(times) |->
            LET b == Nth(times, i)
                inside == {r \in rows : BucketOf(r.time, width) = b /\ (raw => r \in read)}
            IN [bucket |-> b, value |-> Average(inside, LAMBDA r : r.value)]]

Span(start, end) ==
    IF start = {} \/ end = {} THEN 15 * Minute ELSE Max(end) - Max(start)

\* query_bucketed() of one locomotive and sensor.
QueryBucketed(readings, now, q) ==
    LET rows == Where(readings, q.locomotive, q.sensor, {}, {})
        span == Span(q.start, q.end)
        age == IF q.start = {} THEN 0 ELSE now - Max(q.start)
        width == BucketFor(span, age, q.bucket)
        page == Page(Buckets(rows, q.start, q.end, width, ReadsRaw(span, age, q.bucket)),
                     q.offset, q.limit)
        marked == InsertGapMarkers(page, width)
    IN IF q.points # 0 /\ Len(marked) > q.points THEN Lttb(marked, q.points) ELSE marked

QueryRaw(readings, q) ==
    {Page(s, q.offset, q.limit) :
        s \in NewestFirst(Where(readings, q.locomotive, q.sensor, q.start, q.end))}

\* Mutant: the oldest row of each sensor.
Snapshot_Oldest(readings, locomotive, at) ==
    LET past == Where(readings, {locomotive}, {}, {}, {at}) IN
    {r \in past : \A s \in past : s.sensor = r.sensor => r.time <= s.time}

\* query_snapshot(): DISTINCT ON (sensor_type) ... ORDER BY sensor_type, time DESC.
Snapshot(readings, locomotive, at) ==
    LET past == Where(readings, {locomotive}, {}, {}, {at}) IN
    {r \in past : \A s \in past : s.sensor = r.sensor => s.time <= r.time}

NotAvailable == "N/A"

QueryLocomotiveType(readings, locomotive) ==
    LET rows == Where(readings, {locomotive}, {}, {}, {}) IN
    IF rows = {} THEN NotAvailable ELSE (CHOOSE r \in rows : TRUE).type

\* For each sensor read.  STDDEV is NULL, and reported as 0.0, for a single sample: spread
\* is its square, times samples * (samples - 1).
SensorStats(readings, locomotive, start, end) ==
    LET rows == Between(readings, locomotive, start, end) IN
    [s \in {r.sensor : r \in rows} |->
        LET samples == Where(rows, {}, {s}, {}, {})
            values == {r.filtered : r \in samples}
            n == Cardinality(samples)
            sum == Total(samples, LAMBDA r : r.filtered)
        IN [sum |-> sum, min |-> Min(values), max |-> Max(values), samples |-> n,
            spread |-> n * Total(samples, LAMBDA r : r.filtered * r.filtered) - sum * sum]]

\* query_raw_for_anomalies(), a series per sensor.
AnomalySeries(readings, locomotive, start, end) ==
    LET rows == Between(readings, {locomotive}, start, end) IN
    [s \in {r.sensor : r \in rows} |->
        SetToSortSeq(Where(rows, {}, {s}, {}, {}), LAMBDA a, b : a.time < b.time)]

\* query_utilization().
Utilization(readings, locomotive, since) ==
    LET rows == Where(readings, locomotive, {"speed_actual"}, {since}, {}) IN
    [total |-> Cardinality(rows),
     active |-> Cardinality({r \in rows : r.filtered > 0}),
     average |-> IF rows = {} THEN 0 ELSE Average(rows, LAMBDA r : r.filtered),
     max |-> Max({r.filtered : r \in rows} \cup {0})]

-----------------------------------------------------------------------------
(* alert_repository.py.                                                    *)

FindMany(alerts, q) ==
    LET found == {a \in Where(alerts, q.locomotive, {}, q.start, q.end) :
                    /\ q.severity = {} \/ a.severity \in q.severity
                    /\ q.acknowledged = {} \/ a.acknowledged \in q.acknowledged}
    IN {Page(s, q.offset, q.limit) : s \in NewestFirst(found)}

FindById(alerts, id) == {a \in alerts : a.id = id}

Acknowledge(alerts, id) ==
    {IF a.id = id THEN [a EXCEPT !.acknowledged = TRUE] ELSE a : a \in alerts}

\* Mutant: INSERT ... ON CONFLICT DO UPDATE.
StoreAlert_Upsert(alerts, row) == {a \in alerts : a.id # row.id} \cup {row}

\* db-writer's INSERT ... ON CONFLICT DO NOTHING.
StoreAlert(alerts, row) == IF FindById(alerts, row.id) = {} THEN alerts \cup {row} ELSE alerts

ReportLimit == 500

\* query_alerts().
ReportAlerts(alerts, locomotive, start, end) ==
    {Page(s, 0, ReportLimit) : s \in NewestFirst(Between(alerts, locomotive, start, end))}

BySeverity(alerts) ==
    [s \in {a.severity : a \in alerts} |-> Cardinality({a \in alerts : a.severity = s})]

\* query_fleet_alert_summary().
FleetAlertSummary(alerts, start, end) ==
    LET found == Between(alerts, {}, start, end) IN
    [total |-> Cardinality(found), bySeverity |-> BySeverity(found)]

-----------------------------------------------------------------------------
(* health_repository.py.                                                   *)

\* get_latest_readings().
LatestReadings(readings, locomotive) ==
    LET rows == Where(readings, {locomotive}, {}, {}, {}) IN
    {r \in rows : \A s \in rows : s.sensor = r.sensor => s.time <= r.time}

\* get_snapshot_at(): no answer, or any of the newest.
SnapshotAt(snapshots, locomotive, at) ==
    LET past == Where(snapshots, {locomotive}, {}, {}, {at}) IN
    {s \in past : \A o \in past : o.time <= s.time}

ScoreStats(rows) ==
    [avg |-> Average(rows, LAMBDA s : s.score),
     min |-> Min({s.score : s \in rows}), max |-> Max({s.score : s \in rows})]

NoScores == [avg |-> 0, min |-> 0, max |-> 0]

\* Mutant: a locomotive of just 80 points is not healthy.
FleetHealth_Above(snapshots, start, end) ==
    LET rows == Between(snapshots, {}, start, end)
        avg == [l \in {s.locomotive : s \in rows} |->
                  Average(Where(rows, {l}, {}, {}, {}), LAMBDA s : s.score)]
        count(Is(_)) == Cardinality({l \in DOMAIN avg : Is(avg[l])})
    IN [total |-> Cardinality(DOMAIN avg),
        avg |-> IF DOMAIN avg = {} THEN 0 ELSE Total(DOMAIN avg, LAMBDA l : avg[l]) \div Cardinality(DOMAIN avg),
        min |-> Min(Range(avg) \cup (IF rows = {} THEN {0} ELSE {})),
        max |-> Max(Range(avg) \cup {0}),
        healthy |-> count(LAMBDA x : x > 80000),
        warning |-> count(LAMBDA x : x >= 50000 /\ x < 80000),
        critical |-> count(LAMBDA x : x < 50000)]

\* query_fleet_health().
FleetHealth(snapshots, start, end) ==
    LET rows == Between(snapshots, {}, start, end)
        avg == [l \in {s.locomotive : s \in rows} |->
                  Average(Where(rows, {l}, {}, {}, {}), LAMBDA s : s.score)]
        count(Is(_)) == Cardinality({l \in DOMAIN avg : Is(avg[l])})
    IN [total |-> Cardinality(DOMAIN avg),
        avg |-> IF DOMAIN avg = {} THEN 0 ELSE Total(DOMAIN avg, LAMBDA l : avg[l]) \div Cardinality(DOMAIN avg),
        min |-> Min(Range(avg) \cup (IF rows = {} THEN {0} ELSE {})),
        max |-> Max(Range(avg) \cup {0}),
        healthy |-> count(LAMBDA x : x >= 80000),
        warning |-> count(LAMBDA x : x >= 50000 /\ x < 80000),
        critical |-> count(LAMBDA x : x < 50000)]

\* Mutant: the highest averages first.
WorstLocomotives_Best(snapshots, start, end, limit) ==
    LET rows == Between(snapshots, {}, start, end)
        stats == {ScoreStats(Where(rows, {l}, {}, {}, {})) @@ [locomotive |-> l] :
                    l \in {s.locomotive : s \in rows}}
        highest(s) == {x \in s : \A y \in s : x.avg >= y.avg}
        orders[s \in SUBSET stats] ==
            IF s = {} THEN {<<>>} ELSE UNION {{<<x>> \o o : o \in orders[s \ {x}]} : x \in highest(s)}
    IN {Page(s, 0, limit) : s \in orders[stats]}

\* query_worst_locomotives(): the lowest averages first.
WorstLocomotives(snapshots, start, end, limit) ==
    LET rows == Between(snapshots, {}, start, end)
        stats == {ScoreStats(Where(rows, {l}, {}, {}, {})) @@ [locomotive |-> l] :
                    l \in {s.locomotive : s \in rows}}
        lowest(s) == {x \in s : \A y \in s : x.avg <= y.avg}
        orders[s \in SUBSET stats] ==
            IF s = {} THEN {<<>>} ELSE UNION {{<<x>> \o o : o \in orders[s \ {x}]} : x \in lowest(s)}
    IN {Page(s, 0, limit) : s \in orders[stats]}

\* query_health_trend(), a point per minute.
HealthTrend(snapshots, locomotive, start, end) ==
    LET rows == Between(snapshots, locomotive, start, end)
        times == {BucketOf(s.time, Minute) : s \in rows}
    IN [i \in 1..Cardinality(times) |->
            LET t == Nth(times, i) IN
            ScoreStats({s \in rows : BucketOf(s.time, Minute) = t}) @@ [time |-> t]]

\* query_latest_health(): the window's scores, and its newest snapshot.
LatestHealth(snapshots, locomotive, start, end) ==
    LET rows == Between(snapshots, locomotive, start, end)
        newest == {s \in rows : \A o \in rows : o.time <= s.time}
    IN IF rows = {}
         THEN {NoScores @@ [category |-> NotAvailable, damage |-> 0, factors |-> {}]}
         ELSE {ScoreStats(rows) @@
                 [category |-> s.category, damage |-> s.damage, factors |-> s.factors] : s \in newest}

\* query_fleet_latest_snapshots(): ROW_NUMBER() = 1 of each locomotive.
FleetLatestSnapshots(snapshots) ==
    {s \in snapshots : \A o \in snapshots : o.locomotive = s.locomotive => o.time <= s.time}
=============================================================================
