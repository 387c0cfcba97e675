-------------------------- MODULE AnalyticsAnswers --------------------------
(***************************************************************************)
(* Which small tables Analytics answers wrongly: its queries are written   *)
(* one by one in SQL, and its clients show the answers of several beside   *)
(* one another.  Each set below holds the tables for which two queries of  *)
(* the same rows disagree, for which a client is told something else than  *)
(* the query found, or of which a report contradicts another.              *)
(***************************************************************************)
EXTENDS ReportContents

Locos == {"a", "b"}
Roster == <<"a", "b", "c", "d", "e", "f", "g", "h", "i", "j", "k", "l">>
TypeOf == [l \in Range(Roster) |-> IF l = "b" THEN "KZ8A" ELSE "TE33A"]
Instants == {0, 30, 90}
Windows == {w \in Instants \X Instants : w[1] <= w[2]}
Filters == {{}} \cup {{l} : l \in Locos}
Latest == Max(Instants)

\* Tables of up to n of these rows, no two of one key.
TablesOf(rows, n, Key(_)) ==
    {t \in {{}} \cup {Range(s) : s \in [1..n -> rows]} : \A r, s \in t : Key(r) = Key(s) => r = s}

ReadingTables ==
    TablesOf({[time |-> t, locomotive |-> l, type |-> TypeOf[l], sensor |-> s, value |-> v,
               filtered |-> v \div 2, latitude |-> IF t = 0 THEN {} ELSE {5110}] :
                t \in Instants, l \in Locos, s \in {"speed_actual", "oil_pressure"}, v \in {0, 400}},
             3, LAMBDA r : <<r.time, r.locomotive, r.sensor>>)

AlertTables ==
    TablesOf({[time |-> t, id |-> i, locomotive |-> l, sensor |-> "oil_pressure", severity |-> s,
               acknowledged |-> k] :
                t \in Instants, i \in 1..3, l \in Locos, s \in {"warning", "critical"}, k \in BOOLEAN},
             2, LAMBDA a : a.id)

\* The processor judges a score before it rounds it to hundredths of a point.
SnapshotOf(t, l, score) ==
    [time |-> t, locomotive |-> l, type |-> TypeOf[l], score |-> RoundTo(score, 10),
     category |-> CategoryOf(score), damage |-> 0, factors |-> {}]

\* Fleets about as large as the list of the worst locomotives, or larger, in which no two
\* average the same, or just the tied one and the one before.
LargeFleets ==
    {{SnapshotOf(30, Roster[i], 20000 + 6000 * (IF i = tied THEN i - 1 ELSE i)) : i \in 1..size} :
        size \in 10..Len(Roster), tied \in {1, 10, 11}}

SnapshotTables ==
    TablesOf({SnapshotOf(t, l, score) : t \in Instants, l \in Locos, score \in {20000, 50000, 79990, 79996, 80000}},
             3, LAMBDA s : <<s.time, s.locomotive>>)
  \cup LargeFleets

-----------------------------------------------------------------------------
(* Queries of the same rows.                                               *)

StatsOf(rows, filter, w) == SensorStats(rows, filter, w[1], w[2])

\* The newest readings are those of the snapshot taken now; the fleet's samples are its
\* locomotives' together; the utilization and the series searched for anomalies are the samples
\* of the statistics of the same window, and the raw rows the newest of them, up to the limit.
DisagreeingReadings ==
    {rows \in ReadingTables :
        \/ \E l \in Locos : Snapshot(rows, l, Latest) # LatestReadings(rows, l)
        \/ \E w \in Windows :
             LET fleet == StatsOf(rows, {}, w)
                 of(l) == StatsOf(rows, {l}, w)
                 samples(stats, s) == IF s \in DOMAIN stats THEN stats[s].samples ELSE 0
                 raw(l, s, limit) == [locomotive |-> {l}, sensor |-> {s}, start |-> {w[1]}, end |-> {w[2]},
                                      offset |-> 0, limit |-> limit]
             IN \/ DOMAIN fleet # UNION {DOMAIN of(l) : l \in Locos}
                \/ \E s \in DOMAIN fleet : fleet[s].samples # Total(Locos, LAMBDA l : samples(of(l), s))
                \/ \E l \in Locos :
                     LET series == AnomalySeries(rows, l, w[1], w[2]) IN
                     \/ DOMAIN series # DOMAIN of(l)
                     \/ \E s \in DOMAIN series :
                          \/ Len(series[s]) # of(l)[s].samples
                          \/ \E limit \in {1, 200} : \E answer \in QueryRaw(rows, raw(l, s, limit)) :
                               answer # Page(Reverse(series[s]), 0, limit)
                     \/ /\ w[2] = Latest
                        /\ LET use == Utilization(rows, {l}, w[1]) IN
                           \/ use.total # samples(of(l), "speed_actual")
                           \/ ~(use.average <= use.max /\ (use.active = 0 <=> use.max = 0))}

\* A window's summary counts what the list of the same window shows, of every severity, up to
\* the list's limit; the list is the beginning of the report's alerts; no alert off the first
\* page is newer than one on it.
DisagreeingAlerts ==
    {alerts \in AlertTables :
        \E w \in Windows, filter \in Filters :
            LET list(severity, limit) ==
                    FindMany(alerts, [locomotive |-> filter, severity |-> severity, acknowledged |-> {},
                                      start |-> {w[1]}, end |-> {w[2]}, offset |-> 0, limit |-> limit])
                summary == FleetAlertSummary(alerts, w[1], w[2])
                counted(s) == IF s \in DOMAIN summary.bySeverity THEN summary.bySeverity[s] ELSE 0
            IN \/ \E limit \in {1, 50} :
                    \/ list({}, limit) # {Page(s, 0, limit) : s \in ReportAlerts(alerts, filter, w[1], w[2])}
                    \/ /\ filter = {}
                       /\ \/ \E answer \in list({}, limit) : Len(answer) # Min({limit, summary.total})
                          \/ \E s \in {"warning", "critical"} :
                               \E answer \in list({s}, limit) : Len(answer) # Min({limit, counted(s)})
               \/ \E page \in list({}, 1), answer \in list({}, 50) :
                     \E a \in Range(page), b \in Range(answer) : b.time > a.time}

\* A score that rounding lifts over the threshold its category was judged by.
Lifted(snapshot) == CategoryOf(snapshot.score) # snapshot.category

\* The fleet's counts are of its locomotives, and the processor's categories where each has
\* one snapshot; the worst list names as many locomotives as its limit lets it, none of them
\* better than one left out, and begins with a critical one when the counts have one; the
\* trend's extremes are the window's, and the newest snapshot is the one of the window's end
\* and of the fleet's list.
DisagreeingSnapshots ==
    {rows \in SnapshotTables :
        \/ \E w \in Windows :
             LET fleet == FleetHealth(rows, w[1], w[2])
                 found == Between(rows, {}, w[1], w[2])
                 judged(c) == Cardinality({s \in found : s.category = c})
             IN \/ fleet.total # fleet.healthy + fleet.warning + fleet.critical
                \/ \E limit \in {1, 10} : \E worst \in WorstLocomotives(rows, w[1], w[2], limit) :
                     \/ Len(worst) # Min({limit, fleet.total})
                     \/ \E l \in {s.locomotive : s \in found} \ {r.locomotive : r \in Range(worst)} :
                          Average(Where(found, {l}, {}, {}, {}), LAMBDA s : s.score) < Last(worst).avg
                     \/ worst # <<>> /\ (fleet.critical > 0) # (CategoryOf(worst[1].avg) = "kritichno")
                \/ /\ \A s, o \in found : s.locomotive = o.locomotive => s = o
                   /\ \A s \in found : ~Lifted(s)
                   /\ <<fleet.healthy, fleet.warning, fleet.critical>>
                        # <<judged("norma"), judged("vnimanie"), judged("kritichno")>>
                \/ \E filter \in Filters : \E latest \in LatestHealth(rows, filter, w[1], w[2]) :
                     LET trend == HealthTrend(rows, filter, w[1], w[2]) IN
                     \/ (trend = <<>>) # (latest.category = NotAvailable)
                     \/ /\ trend # <<>>
                        /\ \/ latest.min # Min({p.min : p \in Range(trend)})
                           \/ latest.max # Max({p.max : p \in Range(trend)})
                           \/ \A s \in rows : s.category # latest.category
                           \/ \E l \in filter : \E s \in SnapshotAt(rows, l, w[2]) :
                                s.category # latest.category
        \/ \E l \in Locos :
             SnapshotAt(rows, l, Latest) # {s \in FleetLatestSnapshots(rows) : s.locomotive = l}}

-----------------------------------------------------------------------------
(* What the client is told.                                                *)

NoRows == [readings |-> {}, alerts |-> {}, snapshots |-> {}, cache |-> <<>>]

\* The sparse tables of one sensor, whose charts have gaps and true zeros.
SparseReadings ==
    TablesOf({[time |-> t, locomotive |-> "a", type |-> "TE33A", sensor |-> "speed_actual", value |-> v,
               filtered |-> v, latitude |-> {}] : t \in {0, 2, 4, 20, 60}, v \in {0, 400}},
             4, LAMBDA r : r.time)

\* A chart the client draws otherwise than query_bucketed() found it: a gap is shown as a
\* gap and a zero as a zero, for the window whole or open.
DistortedCharts ==
    {rows \in SparseReadings :
        \E start \in {{}, {0}, {2}}, end \in {{}, {60}}, limit \in {0, 2, 500}, points \in {0, 3} :
            LET q == [locomotive |-> {"a"}, sensor |-> {"speed_actual"}, start |-> start, end |-> end,
                      offset |-> 0, limit |-> limit, bucket |-> 2, points |-> points]
            IN get_telemetry_bucketed([NoRows EXCEPT !.readings = rows], 60, q)
                 # QueryBucketed(rows, 60, [q EXCEPT !.limit = OrDefault(limit, 500)])}

\* A list the client asks for with some filters, and is given with others: no answer to
\* "acknowledged?" is neither yes nor no.
DistortedLists ==
    {alerts \in AlertTables :
        \E filter \in Filters, severity \in {{}, {"warning"}}, acknowledged \in {{}, {TRUE}, {FALSE}},
           start \in {{}, {0}, {30}} :
            LET q == [locomotive |-> filter, severity |-> severity, acknowledged |-> acknowledged,
                      start |-> start, end |-> {}, offset |-> 0, limit |-> 50]
            IN list_alerts([NoRows EXCEPT !.alerts = alerts], q) # FindMany(alerts, q)}

\* A reading whose place the client is told otherwise; there is no telling the equator from
\* nowhere, and the railway crosses neither it nor the meridian.
DistortedPlaces ==
    {latitude \in {{}, {5110}, {4350}} :
        LET row == [time |-> 0, locomotive |-> "a", type |-> "TE33A", sensor |-> "speed_actual",
                    value |-> 0, filtered |-> 0, latitude |-> latitude]
        IN get_telemetry_snapshot([NoRows EXCEPT !.readings = {row}], "a", 0).body # {row}}

CachedHealth ==
    [locomotive |-> "a", type |-> "TE33A", score |-> 90000, category |-> "norma", factors |-> {}, damage |-> 0]

\* The locomotives whose health the client is told though nothing is known of them, or is
\* not told though readings or a cached score are there, whether or not the entry decodes.
Misinformed ==
    {rows \in ReadingTables :
        \E readable \in BOOLEAN, cached \in SUBSET {"a"}, l \in Locos :
            LET entry == [readable |-> readable, health |-> CachedHealth]
                db == [NoRows EXCEPT !.readings = rows, !.cache = [c \in cached |-> entry]]
                known == (l \in cached /\ readable) \/ \E r \in rows : r.locomotive = l
            IN \/ get_locomotive_health(db, l) # IF known THEN 200 ELSE 404
               \/ \E h \in get_current_health(db, l).body :
                     \/ h.locomotive # l
                     \/ l \in cached /\ readable /\ h # entry.health}

\* The histories of one alert, stored, acknowledged and stored again by a redelivery, in any
\* order, that end with an acknowledgement lost.
Deed == {"store", "acknowledge"}
ForgottenAcknowledgements ==
    {deeds \in [1..4 -> Deed] :
        LET row == [time |-> 0, id |-> 1, locomotive |-> "a", sensor |-> "oil_pressure",
                    severity |-> "warning", acknowledged |-> FALSE]
            after[i \in 0..4] ==
                IF i = 0 THEN NoRows
                ELSE IF deeds[i] = "store" THEN [after[i - 1] EXCEPT !.alerts = StoreAlert(@, row)]
                ELSE AcknowledgeAlert(after[i - 1], 1).db
            seen(i) == deeds[i] = "acknowledge" /\ acknowledge_alert(after[i - 1], 1) = 200
        IN \/ \E i \in 1..4 : seen(i) # (deeds[i] = "acknowledge" /\ \E j \in 1..i : deeds[j] = "store")
           \/ \E i \in 1..4 : seen(i) /\ \E a \in after[4].alerts : ~a.acknowledged}

-----------------------------------------------------------------------------
(* Reports of the same rows.                                               *)

ReportsOf(db, filter, w) == GenerateReportData(db, [locomotive |-> filter, start |-> w[1], end |-> w[2]])
CountOf(report, severity) ==
    IF severity \in DOMAIN report.summary.bySeverity THEN report.summary.bySeverity[severity] ELSE 0
SectionOf(report, section) == SelectSeq(CsvRows(report), LAMBDA row : row.section = section)

\* The fleet's alerts are its locomotives' together, and a locomotive's CSV has a row for each:
\* while no locomotive has more than ReportLimit in the window, above which its report counts
\* but the newest of them and the fleet's counts all.
MisaddedReports ==
    {alerts \in AlertTables :
        \E w \in Windows :
            LET db == [NoRows EXCEPT !.alerts = alerts]
            IN \E fleet \in ReportsOf(db, {}, w), a \in ReportsOf(db, {"a"}, w), b \in ReportsOf(db, {"b"}, w) :
                 \/ fleet.summary.total # a.summary.total + b.summary.total
                 \/ \E s \in {"warning", "critical"} :
                      \/ CountOf(fleet, s) # CountOf(a, s) + CountOf(b, s)
                      \/ Len(SelectSeq(SectionOf(a, "alert"), LAMBDA row : row.severity = s)) # CountOf(a, s)}

\* A healthy fleet has a healthy locomotive and a critical one a critical locomotive; the CSV
\* lists the ten worst locomotives or all there are; the list begins with the fleet's lowest
\* score and, when all are on it, ends with the highest; and a fleet of one locomotive scores
\* what the locomotive does.
MisjudgedFleets ==
    {rows \in SnapshotTables :
        \E w \in Windows :
            LET db == [NoRows EXCEPT !.snapshots = rows]
                locomotives == {s.locomotive : s \in Between(rows, {}, w[1], w[2])}
            IN \E report \in ReportsOf(db, {}, w) : \E fleet \in report.overview.fleet :
                 LET worst == report.overview.worst IN
                 \/ report.overview.category = "norma" /\ fleet.healthy = 0
                 \/ report.overview.category = "kritichno" /\ fleet.total > 0 /\ fleet.critical = 0
                 \/ Len(SectionOf(report, "worst_locomotive")) # Min({10, fleet.total})
                 \/ /\ worst # <<>>
                    /\ \/ report.overview.min # worst[1].avg
                       \/ report.overview.max < Last(worst).avg
                       \/ fleet.total <= 10 /\ report.overview.max # Last(worst).avg
                 \/ \E l \in locomotives : \E single \in ReportsOf(db, {l}, w) :
                      locomotives = {l} /\ single.overview.avg # report.overview.avg}

\* The lengths of a window in which one spike among equal readings is not what is found, by
\* test_detect_single_outlier; in ten readings or fewer none can be three deviations off.
MissedSpikes ==
    {n \in 1..40 : \E at \in 1..n : \E height \in {-7, 1, 40} :
        DetectZscoreAnomalies([i \in 1..n |-> IF i = at THEN height ELSE 0])
            # IF n > 10 THEN {at} ELSE {}}

\* The rows of the reports' table whose data is shown, listed or downloaded before it is
\* there or not after, or is another's.
StoredReports ==
    UNION {{[id |-> 1, locomotive |-> filter, format |-> format, status |-> status, time |-> 0,
             data |-> CASE status = "processing" -> {}
                        [] status = "failed" -> {"error"}
                        [] status = "completed" -> {FormatReport(report, format)}] :
                report \in ReportsOf(NoRows, filter, <<0, 90>>)} :
              filter \in Filters, format \in {"json", "csv", "pdf"},
              status \in {"processing", "completed", "failed"}}

LostReports ==
    {row \in StoredReports :
        LET reports == {row, [row EXCEPT !.id = 2, !.time = 30, !.status = "processing", !.data = {}]}
            shown == UNION {e.data : e \in get_report(reports, 1).body}
            file == DownloadReport(reports, 1)
        IN \/ (shown # {}) # (row.status = "completed")
           \/ file.body # {FileOf(row.format, d) : d \in shown}
           \/ download_report(reports, 1) # IF row.status = "completed" THEN 200 ELSE 409
           \/ get_report_status(reports, 3) # 404
           \/ \E list \in list_reports(reports, [locomotive |-> row.locomotive, status |-> {row.status},
                                                 offset |-> 0, limit |-> 0]) :
                \/ Len(list.reports) # list.total
                \/ \A i \in DOMAIN list.reports : list.reports[i].id # 1
                \/ \E i \in DOMAIN list.reports : list.reports[i].data # {}}
=============================================================================
