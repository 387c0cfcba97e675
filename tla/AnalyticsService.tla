-------------------------- MODULE AnalyticsService --------------------------
(***************************************************************************)
(* The gRPC calls the gateway and the report service make to Analytics:    *)
(* each method of the servicer (servicer.py), the method of the client     *)
(* that calls it and decodes its reply (grpc_client.py), and the gateway's *)
(* endpoints (router_alerts.py, router_locomotives.py).                    *)
(*                                                                         *)
(* proto3 has no absent scalar: what is absent travels as the field's zero *)
(* value and a zero is taken for absent, but where a flag goes with it.    *)
(* db holds the tables and health:cache:<id>, a function of the            *)
(* locomotives cached.                                                     *)
(***************************************************************************)
EXTENDS TelemetryArchive, HealthScore

NoText == ""
NoTime == -1

OnWire(argument, zero) == IF argument = {} THEN zero ELSE CHOOSE x \in argument : TRUE
FromWire(field, zero) == IF field = zero THEN {} ELSE {field}
OrDefault(number, default) == IF number = 0 THEN default ELSE number

\* A reply is its status and its body; a call that is aborted has an empty one.
Answer(body) == [code |-> "OK", body |-> body]
Abort(code) == [code |-> code, body |-> {}]

-----------------------------------------------------------------------------
(* Telemetry.                                                              *)

\* Mutant: a gap travels as a zero.
TelemetryPoint_NoFlag(row) ==
    [bucket |-> row.bucket, average |-> IF IsGap(row) THEN 0 ELSE row.value, isGap |-> FALSE]

TelemetryPoint(row) ==
    [bucket |-> row.bucket, average |-> IF IsGap(row) THEN 0 ELSE row.value, isGap |-> IsGap(row)]

GetTelemetryBucketed(db, now, request) ==
    LET rows == QueryBucketed(db.readings, now,
                    [request EXCEPT !.locomotive = FromWire(@, NoText), !.sensor = FromWire(@, NoText),
                                    !.start = FromWire(@, NoTime), !.end = FromWire(@, NoTime),
                                    !.limit = OrDefault(@, 500)])
    IN [i \in DOMAIN rows |-> TelemetryPoint(rows[i])]

get_telemetry_bucketed(db, now, q) ==
    LET points == GetTelemetryBucketed(db, now,
                    [q EXCEPT !.locomotive = OnWire(@, NoText), !.sensor = OnWire(@, NoText),
                              !.start = OnWire(@, NoTime), !.end = OnWire(@, NoTime)])
    IN [i \in DOMAIN points |->
          [bucket |-> points[i].bucket, value |-> IF points[i].isGap THEN Gap ELSE points[i].average]]

\* _row_to_raw_proto(), and _raw_point_to_dict().
RawPoint(row) ==
    [time |-> row.time, locomotive |-> row.locomotive, type |-> row.type, sensor |-> row.sensor,
     value |-> row.value, filtered |-> row.filtered, latitude |-> OnWire(row.latitude, 0)]
RawPointToDict(point) == [point EXCEPT !.latitude = FromWire(@, 0)]

GetTelemetryRaw(db, request) ==
    {[i \in DOMAIN rows |-> RawPoint(rows[i])] :
        rows \in QueryRaw(db.readings,
            [locomotive |-> FromWire(request.locomotive, NoText), sensor |-> FromWire(request.sensor, NoText),
             start |-> FromWire(request.start, NoTime), end |-> FromWire(request.end, NoTime),
             offset |-> request.offset, limit |-> OrDefault(request.limit, 200)])}

get_telemetry_raw(db, q) ==
    {[i \in DOMAIN points |-> RawPointToDict(points[i])] :
        points \in GetTelemetryRaw(db,
            [q EXCEPT !.locomotive = OnWire(@, NoText), !.sensor = OnWire(@, NoText),
                      !.start = OnWire(@, NoTime), !.end = OnWire(@, NoTime)])}

GetTelemetrySnapshot(db, request) ==
    IF request.locomotive = NoText \/ request.at = NoTime THEN Abort("INVALID_ARGUMENT")
    ELSE Answer({RawPoint(r) : r \in Snapshot(db.readings, request.locomotive, request.at)})

get_telemetry_snapshot(db, locomotive, at) ==
    LET reply == GetTelemetrySnapshot(db, [locomotive |-> locomotive, at |-> at]) IN
    [reply EXCEPT !.body = {RawPointToDict(p) : p \in @}]

GetSensorStats(db, request) ==
    [stats |-> SensorStats(db.readings, FromWire(request.locomotive, NoText), request.start, request.end),
     type |-> IF request.locomotive = NoText THEN NoText
              ELSE QueryLocomotiveType(db.readings, request.locomotive)]

get_sensor_stats(db, locomotive, start, end) ==
    GetSensorStats(db, [locomotive |-> OnWire(locomotive, NoText), start |-> start, end |-> end])

GetRawForAnomalies(db, request) ==
    LET series == AnomalySeries(db.readings, request.locomotive, request.start, request.end) IN
    [s \in DOMAIN series |->
        [i \in DOMAIN series[s] |-> [filtered |-> series[s][i].filtered, time |-> series[s][i].time]]]

get_raw_for_anomalies(db, locomotive, start, end) ==
    GetRawForAnomalies(db, [locomotive |-> locomotive, start |-> start, end |-> end])

GetUtilization(db, now, request) ==
    Utilization(db.readings, FromWire(request.locomotive, NoText), now - OrDefault(request.hours, 24) * Hour)

get_utilization(db, now, locomotive, hours) ==
    GetUtilization(db, now, [locomotive |-> OnWire(locomotive, NoText), hours |-> hours])

-----------------------------------------------------------------------------
(* Alerts.                                                                 *)

\* _row_to_alert_proto(), which _alert_to_dict() undoes.
AlertProto(row) ==
    [id |-> row.id, locomotive |-> row.locomotive, sensor |-> row.sensor,
     severity |-> row.severity, time |-> row.time, acknowledged |-> row.acknowledged]
AlertToDict(alert) ==
    [id |-> alert.id, locomotive |-> alert.locomotive, sensor |-> alert.sensor,
     severity |-> alert.severity, time |-> alert.time, acknowledged |-> alert.acknowledged]
Alerts(rows) == [i \in DOMAIN rows |-> AlertToDict(AlertProto(rows[i]))]

\* Mutant: FALSE is taken for absent.
AcknowledgedFilter_NoFlag(request) == FromWire(request.acknowledged, FALSE)

AcknowledgedFilter(request) == IF request.filterAcknowledged THEN {request.acknowledged} ELSE {}

ListAlerts(db, request) ==
    FindMany(db.alerts,
        [locomotive |-> FromWire(request.locomotive, NoText), severity |-> FromWire(request.severity, NoText),
         acknowledged |-> AcknowledgedFilter(request),
         start |-> FromWire(request.start, NoTime), end |-> FromWire(request.end, NoTime),
         offset |-> request.offset, limit |-> OrDefault(request.limit, 50)])

list_alerts(db, q) ==
    {Alerts(rows) : rows \in ListAlerts(db,
        [locomotive |-> OnWire(q.locomotive, NoText), severity |-> OnWire(q.severity, NoText),
         filterAcknowledged |-> q.acknowledged # {}, acknowledged |-> OnWire(q.acknowledged, FALSE),
         start |-> OnWire(q.start, NoTime), end |-> OnWire(q.end, NoTime),
         offset |-> q.offset, limit |-> q.limit])}

Found(rows) ==
    IF rows = {} THEN Abort("NOT_FOUND") ELSE Answer({AlertProto(r) : r \in rows})

GetAlert(db, id) == Found(FindById(db.alerts, id))

\* The tables it leaves, and its reply.
AcknowledgeAlert(db, id) ==
    LET alerts == Acknowledge(db.alerts, id) IN
    [db |-> [db EXCEPT !.alerts = alerts], reply |-> Found(FindById(alerts, id))]

GetReportAlerts(db, request) ==
    ReportAlerts(db.alerts, FromWire(request.locomotive, NoText), request.start, request.end)

get_report_alerts(db, locomotive, start, end) ==
    {Alerts(rows) : rows \in GetReportAlerts(db,
        [locomotive |-> OnWire(locomotive, NoText), start |-> start, end |-> end])}

GetFleetAlertSummary(db, request) == FleetAlertSummary(db.alerts, request.start, request.end)
get_fleet_alert_summary(db, start, end) == GetFleetAlertSummary(db, [start |-> start, end |-> end])

GetAlertFrequency(db, request) ==
    LET counts == FleetAlertSummary(db.alerts, request.start, request.end).bySeverity IN
    {[severity |-> s, count |-> counts[s]] : s \in DOMAIN counts}

\* The severity and the sensor it sends are not looked at.
get_alert_frequency(db, start, end, severity) ==
    GetAlertFrequency(db, [start |-> start, end |-> end, severity |-> severity])

-----------------------------------------------------------------------------
(* Health.                                                                 *)

\* DEFAULT_THRESHOLDS in hundredths of the unit, HEALTH_WEIGHTS in hundredths.
DefaultThresholds ==
    [diesel_rpm |-> <<0, 105000>>, oil_pressure |-> <<150, 500>>, coolant_temp |-> <<7000, 9500>>,
     fuel_level |-> <<500, 10000>>, fuel_rate |-> <<1000, 20000>>, traction_motor_temp |-> <<4000, 13000>>,
     catenary_voltage |-> <<1900000, 2900000>>, pantograph_current |-> <<0, 40000>>,
     transformer_temp |-> <<4000, 9000>>, igbt_temp |-> <<3000, 8500>>,
     dc_link_voltage |-> <<200000, 320000>>, speed_actual |-> <<0, 12000>>,
     brake_pipe_pressure |-> <<400, 550>>, wheel_slip_ratio |-> <<0, 50>>, crankcase_pressure |-> <<0, 5000>>]

HealthWeights ==
    [brake_pipe_pressure |-> 40, crankcase_pressure |-> 40, oil_pressure |-> 35, igbt_temp |-> 30,
     catenary_voltage |-> 25, coolant_temp |-> 20, transformer_temp |-> 20, wheel_slip_ratio |-> 20,
     dc_link_voltage |-> 20, traction_motor_temp |-> 15, diesel_rpm |-> 15, speed_actual |-> 15,
     pantograph_current |-> 15, fuel_level |-> 10, fuel_rate |-> 10, recuperation_current |-> 5]

Weight(sensor) == IF sensor \in DOMAIN HealthWeights THEN HealthWeights[sensor] ELSE 5
Thresholds(sensor) ==
    IF sensor \in DOMAIN DefaultThresholds THEN DefaultThresholds[sensor] ELSE <<0, 10000>>

\* What a reading costs, in thousandths of a point: a part of three tenths of its weight
\* inside the thresholds, and outside of all of it.
FallbackPenalty(sensor, value) ==
    LET lo == Thresholds(sensor)[1]
        hi == Thresholds(sensor)[2]
        lost == IF value < lo THEN ((lo - value) * 1000) \div Max({lo, 100})
                ELSE IF value > hi THEN ((value - hi) * 1000) \div Max({hi, 100})
                ELSE (Abs(2 * value - lo - hi) * 300) \div (hi - lo)
    IN Min({lost, 1000}) * Weight(sensor)

RoundTo(number, unit) == ((number + unit \div 2) \div unit) * unit

\* _compute_health_from_readings(): the factors are five sensors none of the others outweighs.
ComputeHealth(locomotive, rows) ==
    LET cost == [s \in {r.sensor : r \in rows} |->
                    Total({r \in rows : r.sensor = s}, LAMBDA r : FallbackPenalty(s, r.value))]
        score == AtLeastZero(100000 - Total(DOMAIN cost, LAMBDA s : cost[s]))
        size == Min({5, Cardinality(DOMAIN cost)})
        costliest == {f \in kSubset(size, DOMAIN cost) :
                        \A s \in f, t \in DOMAIN cost \ f : cost[s] >= cost[t]}
    IN {[locomotive |-> locomotive, type |-> (CHOOSE r \in rows : TRUE).type,
         score |-> RoundTo(score, 100), category |-> CategoryOf(score), factors |-> f, damage |-> 0] :
            f \in costliest}

\* _dict_to_health_proto(), of what the processor published.
HealthOfDict(d) ==
    [locomotive |-> d.locomotive, type |-> d.type, score |-> d.score, category |-> d.category,
     factors |-> d.factors, damage |-> d.damage]

\* _row_to_health_proto(), of a row that get_snapshot_at() gives no locomotive.
HealthOfRow(row) ==
    [locomotive |-> NoText, type |-> row.type, score |-> row.score, category |-> row.category,
     factors |-> row.factors, damage |-> row.damage]

\* _health_to_dict().
HealthToDict(h) ==
    [locomotive |-> h.locomotive, type |-> h.type, score |-> h.score, category |-> h.category,
     factors |-> h.factors, damage |-> h.damage]

\* An entry that does not decode is passed over for the table.
GetCurrentHealth(db, locomotive) ==
    LET rows == LatestReadings(db.readings, locomotive) IN
    IF locomotive \in DOMAIN db.cache /\ db.cache[locomotive].readable
      THEN Answer({HealthOfDict(db.cache[locomotive].health)})
    ELSE IF rows = {} THEN Abort("NOT_FOUND")
    ELSE Answer(ComputeHealth(locomotive, rows))

GetHealthAt(db, locomotive, at) ==
    LET rows == SnapshotAt(db.snapshots, locomotive, at) IN
    IF rows = {} THEN Abort("NOT_FOUND") ELSE Answer({HealthOfRow(r) : r \in rows})

get_current_health(db, locomotive) ==
    LET reply == GetCurrentHealth(db, locomotive) IN
    [reply EXCEPT !.body = {HealthToDict(h) : h \in @}]

get_health_at(db, locomotive, at) ==
    LET reply == GetHealthAt(db, locomotive, at) IN
    [reply EXCEPT !.body = {HealthToDict(h) : h \in @}]

GetFleetHealth(db, request) == FleetHealth(db.snapshots, request.start, request.end)
get_fleet_health(db, start, end) == <<GetFleetHealth(db, [start |-> start, end |-> end])>>

GetHealthTrend(db, request) ==
    HealthTrend(db.snapshots, FromWire(request.locomotive, NoText), request.start, request.end)
get_health_trend(db, locomotive, start, end) ==
    GetHealthTrend(db, [locomotive |-> OnWire(locomotive, NoText), start |-> start, end |-> end])

GetLatestHealth(db, request) ==
    LatestHealth(db.snapshots, FromWire(request.locomotive, NoText), request.start, request.end)
get_latest_health(db, locomotive, start, end) ==
    GetLatestHealth(db, [locomotive |-> OnWire(locomotive, NoText), start |-> start, end |-> end])

GetWorstLocomotives(db, request) ==
    WorstLocomotives(db.snapshots, request.start, request.end, OrDefault(request.limit, 10))
get_worst_locomotives(db, start, end) ==
    GetWorstLocomotives(db, [start |-> start, end |-> end, limit |-> 10])

GetFleetLatestSnapshots(db) ==
    {[locomotive |-> s.locomotive, type |-> s.type, score |-> s.score, category |-> s.category] :
        s \in FleetLatestSnapshots(db.snapshots)}

-----------------------------------------------------------------------------
(* The gateway's endpoints.                                                *)

\* NOT_FOUND is the status an endpoint expects; the others are errors of the server.
HttpStatus(reply) ==
    CASE reply.code = "OK" -> 200 [] reply.code = "NOT_FOUND" -> 404 [] OTHER -> 500

\* _dict_to_health_index(): a HealthIndex takes no locomotive but a UUID.
HealthIndexStatus(reply) ==
    IF \E h \in reply.body : h.locomotive = NoText THEN 500 ELSE HttpStatus(reply)

get_locomotive_health(db, locomotive) == HealthIndexStatus(get_current_health(db, locomotive))
get_locomotive_health_at(db, locomotive, at) == HealthIndexStatus(get_health_at(db, locomotive, at))
get_alert(db, id) == HttpStatus(GetAlert(db, id))
acknowledge_alert(db, id) == HttpStatus(AcknowledgeAlert(db, id).reply)
=============================================================================
