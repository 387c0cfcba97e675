--------------------------- MODULE ReportContents ---------------------------
(***************************************************************************)
(* What a report says: the data the report service gathers from Analytics  *)
(* for one locomotive or for the fleet (report_generator.py), the three    *)
(* formats it is stored in (report_formatter.py), and how it is read back  *)
(* (report-service's servicer.py, ReportClient, the gateway's routers).    *)
(* Component scores are thousandths, health scores thousandths of a point; *)
(* texts, colours and layout are left out but where they depend on data.   *)
(***************************************************************************)
EXTENDS AnalyticsService

\* calculate_component_score().
ComponentScore(sensor, value) ==
    IF sensor \notin DOMAIN DefaultThresholds THEN 1000
    ELSE LET lo == DefaultThresholds[sensor][1]
             hi == DefaultThresholds[sensor][2]
         IN AtLeastZero(1000 - (Abs(2 * value - lo - hi) * 1000) \div (hi - lo))

\* calculate_overall_score().
OverallScore(components) ==
    IF DOMAIN components = {} THEN 0
    ELSE Total(DOMAIN components, LAMBDA s : components[s] * Weight(s))
            \div Total(DOMAIN components, Weight)

\* detect_zscore_anomalies(): |v - mean| > 3 * std, both sides times n and squared.
DetectZscoreAnomalies(values) ==
    LET n == Len(values)
        sum == Total(1..n, LAMBDA i : values[i])
        spread == n * Total(1..n, LAMBDA i : values[i] * values[i]) - sum * sum
    IN IF n < 2 \/ spread = 0 THEN {}
       ELSE {i \in 1..n : (n * values[i] - sum) * (n * values[i] - sum) > 9 * spread}

\* _detect_anomalies(): the first twenty of each sensor that has any.
DetectAnomalies(series) ==
    LET found == [s \in DOMAIN series |->
                    DetectZscoreAnomalies([i \in DOMAIN series[s] |-> series[s][i].filtered])]
    IN [s \in {s \in DOMAIN found : found[s] # {}} |-> Page(SetToSortSeq(found[s], <), 0, 20)]

\* Mutant: an alert counts once for each sensor.
SummarizeAlerts_PerSensor(alerts) ==
    [total |-> Len(alerts), bySeverity |-> [s \in {alerts[i].severity : i \in DOMAIN alerts} |->
        Cardinality({alerts[i].sensor : i \in {i \in DOMAIN alerts : alerts[i].severity = s}})]]

SummarizeAlerts(alerts) ==
    [total |-> Len(alerts), bySeverity |-> [s \in {alerts[i].severity : i \in DOMAIN alerts} |->
        Cardinality({i \in DOMAIN alerts : alerts[i].severity = s})]]

-----------------------------------------------------------------------------
(* report_generator.py.  A report of the fleet has no locomotive; the      *)
(* statistics of the fleet are a set of at most one record.                *)

GenerateSingleReport(db, l, start, end) ==
    LET found == get_sensor_stats(db, {l}, start, end)
        components == [s \in DOMAIN found.stats |->
                         ComponentScore(s, found.stats[s].sum \div found.stats[s].samples)]
    IN {[locomotive |-> {l}, type |-> found.type, stats |-> found.stats,
         overview |-> latest @@ [calculated |-> OverallScore(components) * 100,
                                 trend |-> get_health_trend(db, {l}, start, end),
                                 fleet |-> {}, worst |-> <<>>],
         alerts |-> alerts, summary |-> SummarizeAlerts(alerts),
         anomalies |-> DetectAnomalies(get_raw_for_anomalies(db, l, start, end))] :
            latest \in get_latest_health(db, {l}, start, end),
            alerts \in get_report_alerts(db, {l}, start, end)}

GenerateFleetReport(db, start, end) ==
    LET health == Head(get_fleet_health(db, start, end)) IN
    {[locomotive |-> {}, type |-> "fleet", stats |-> get_sensor_stats(db, {}, start, end).stats,
      overview |-> [calculated |-> health.avg, avg |-> health.avg, min |-> health.min, max |-> health.max,
                    category |-> CategoryOf(health.avg), damage |-> 0, factors |-> {}, trend |-> <<>>,
                    fleet |-> {[total |-> health.total, healthy |-> health.healthy,
                                warning |-> health.warning, critical |-> health.critical]},
                    worst |-> worst],
      alerts |-> <<>>, summary |-> get_fleet_alert_summary(db, start, end), anomalies |-> <<>>] :
        worst \in get_worst_locomotives(db, start, end)}

GenerateReportData(db, job) ==
    IF job.locomotive = {} THEN GenerateFleetReport(db, job.start, job.end)
    ELSE GenerateSingleReport(db, OnWire(job.locomotive, NoText), job.start, job.end)

-----------------------------------------------------------------------------
(* report_formatter.py.                                                    *)

\* Mutant: the worst locomotives are rows of a report of one locomotive only.
CsvRows_NoWorst(report) ==
    [i \in 1..Cardinality(DOMAIN report.stats) |->
        LET s == SetToSeq(DOMAIN report.stats)[i] IN
        [section |-> "sensor_stats", sensor |-> s, samples |-> report.stats[s].samples]]
    \o [i \in DOMAIN report.alerts |->
        [section |-> "alert", sensor |-> report.alerts[i].sensor, severity |-> report.alerts[i].severity,
         time |-> report.alerts[i].time]]

\* The rows of _format_csv(); the columns a section has no use for are left out.
CsvRows(report) ==
    [i \in 1..Cardinality(DOMAIN report.stats) |->
        LET s == SetToSeq(DOMAIN report.stats)[i] IN
        [section |-> "sensor_stats", sensor |-> s, samples |-> report.stats[s].samples]]
    \o [i \in DOMAIN report.alerts |->
        [section |-> "alert", sensor |-> report.alerts[i].sensor, severity |-> report.alerts[i].severity,
         time |-> report.alerts[i].time]]
    \o [i \in DOMAIN report.overview.worst |->
        [section |-> "worst_locomotive", locomotive |-> report.overview.worst[i].locomotive,
         avg |-> report.overview.worst[i].avg]]

FormatCsv(report) == [rows |-> CsvRows(report), summary |-> report.overview]

\* The score's box is coloured by the calculated score beside the category.
PdfHealthOverview(overview) ==
    [score |-> overview.calculated, colour |-> CategoryOf(overview.calculated), category |-> overview.category,
     avg |-> overview.avg, min |-> overview.min, max |-> overview.max, damage |-> overview.damage]

\* The bar of the fleet is drawn if there are locomotives, in parts of its width.
PdfFleetStats(fleet) ==
    [counts |-> fleet,
     bar |-> IF fleet.total = 0 THEN <<>>
             ELSE [c \in {c \in {"healthy", "warning", "critical"} : fleet[c] > 0} |->
                    (180 * fleet[c]) \div fleet.total]]

\* The ten first of the factors, which are never more than five.
PdfTopFactors(overview) == overview.factors

PdfAlerts(summary, alerts) ==
    [summary |-> IF summary.total > 0 THEN {summary} ELSE {},
     history |-> Page(alerts, 0, 30), of |-> Len(alerts)]

PdfAnomalies(anomalies) == [s \in DOMAIN anomalies |-> Len(anomalies[s])]

\* _format_pdf(), section by section; one without data is left out.  Its header prints the
\* locomotive, which for the fleet is None.
FormatPdf(report) ==
    [header |-> [locomotive |-> report.locomotive, type |-> report.type],
     health |-> PdfHealthOverview(report.overview),
     fleet |-> {PdfFleetStats(f) : f \in report.overview.fleet},
     worst |-> IF report.overview.fleet = {} THEN <<>> ELSE report.overview.worst,
     factors |-> IF report.overview.fleet = {} THEN PdfTopFactors(report.overview) ELSE {},
     stats |-> report.stats,
     alerts |-> PdfAlerts(report.summary, report.alerts),
     anomalies |-> PdfAnomalies(report.anomalies)]

FormatReport(report, format) ==
    CASE format = "csv" -> FormatCsv(report)
      [] format = "pdf" -> [pdf_base64 |-> FormatPdf(report)]
      [] OTHER          -> report

-----------------------------------------------------------------------------
(* Reading reports back.  A row's data is a set of at most one document,   *)
(* which an empty dictionary is not; a failed report's is the error.       *)

\* Mutant: data travels whatever the status.
EntityToProto_AnyStatus(row, includeData) ==
    [id |-> row.id, locomotive |-> OnWire(row.locomotive, NoText), format |-> row.format, status |-> row.status,
     data |-> IF includeData THEN row.data ELSE {}]

EntityToProto(row, includeData) ==
    [id |-> row.id, locomotive |-> OnWire(row.locomotive, NoText), format |-> row.format, status |-> row.status,
     data |-> IF includeData /\ row.status = "completed" THEN row.data ELSE {}]

\* _report_entry_to_dict().
ReportEntryToDict(entry) == [entry EXCEPT !.locomotive = FromWire(@, NoText)]

\* ReportServicer.GetReport(), and what ReportClient makes of it.
GetReport(reports, id) ==
    LET rows == {r \in reports : r.id = id} IN
    IF rows = {} THEN Abort("NOT_FOUND") ELSE Answer({EntityToProto(r, TRUE) : r \in rows})
get_report(reports, id) ==
    LET reply == GetReport(reports, id) IN [reply EXCEPT !.body = {ReportEntryToDict(e) : e \in @}]

\* ReportServicer.ListReports() with find_many(): a page, and how many there are.
ListReports(reports, request) ==
    LET found == {r \in reports : /\ request.locomotive = NoText \/ r.locomotive = {request.locomotive}
                                  /\ request.status = NoText \/ r.status = request.status}
    IN {[reports |-> [i \in DOMAIN page |-> EntityToProto(page[i], FALSE)], total |-> Cardinality(found)] :
            page \in {Page(s, request.offset, OrDefault(request.limit, 20)) : s \in NewestFirst(found)}}
list_reports(reports, q) ==
    {[reply EXCEPT !.reports = [i \in DOMAIN @ |-> ReportEntryToDict(@[i])]] :
        reply \in ListReports(reports, [q EXCEPT !.locomotive = OnWire(@, NoText), !.status = OnWire(@, NoText)])}

\* The file of one document; the servicer's _format_csv() writes the rows and no summary, or
\* all of a document without rows.
FileOf(format, document) ==
    CASE format = "csv" /\ "rows" \in DOMAIN document -> document.rows
      [] format = "pdf"                               -> document.pdf_base64
      [] OTHER                                        -> document

DownloadReport(reports, id) ==
    LET rows == {r \in reports : r.id = id}
        row == CHOOSE r \in rows : TRUE
    IN IF rows = {} THEN Abort("NOT_FOUND")
       ELSE IF row.status # "completed" THEN Abort("FAILED_PRECONDITION")
       ELSE IF row.data = {} THEN Abort("NOT_FOUND")
       ELSE IF row.format \notin {"json", "csv", "pdf"} THEN Abort("INVALID_ARGUMENT")
       ELSE IF row.format = "pdf" /\ \E d \in row.data : "pdf_base64" \notin DOMAIN d THEN Abort("NOT_FOUND")
       ELSE Answer({FileOf(row.format, d) : d \in row.data})

\* The gateway's endpoints.
get_report_status(reports, id) == HttpStatus(get_report(reports, id))
download_report(reports, id) ==
    LET reply == DownloadReport(reports, id) IN
    IF reply.code = "FAILED_PRECONDITION" THEN 409 ELSE HttpStatus(reply)

-----------------------------------------------------------------------------
(* The report service's other endpoints.                                   *)

\* fleet_analytics(), which get_fleet_summary() repeats without the types.
FleetAnalytics(db) ==
    LET rows == GetFleetLatestSnapshots(db)
        count(Of(_)) == [k \in {Of(r) : r \in rows} |-> Cardinality({r \in rows : Of(r) = k})]
    IN [total |-> Cardinality(rows), avg |-> IF rows = {} THEN 0 ELSE Average(rows, LAMBDA r : r.score),
        byCategory |-> count(LAMBDA r : r.category), byType |-> count(LAMBDA r : r.type)]

\* utilization(), which get_utilization_stats() repeats for a day; the rate in ten-thousandths.
UtilizationRate(db, now, locomotive, hours) ==
    LET use == get_utilization(db, now, locomotive, hours) IN
    [total |-> use.total, average |-> use.average,
     rate |-> IF use.total = 0 THEN 0 ELSE (10000 * use.active) \div use.total]

\* get_health_index().
get_health_index(db, locomotive) == HttpStatus(get_current_health(db, locomotive))
=============================================================================
