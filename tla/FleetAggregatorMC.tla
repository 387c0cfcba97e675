------------------------- MODULE FleetAggregatorMC -------------------------
(***************************************************************************)
(* The instance of FleetAggregator for TLC, beside the functions that the  *)
(* processor and Analytics compute without state.  What those promise is   *)
(* evaluated once, in the initial state: each set below holds the inputs   *)
(* a function mistreats.                                                   *)
(***************************************************************************)
EXTENDS FleetAggregator, SensorSignals, AnalyticsAnswers
CONSTANTS l1, l2

\* alert_evaluator.py:139, "mirrors HI formula": a single sensor that raises an alert costs
\* health, and the more severe the alert the more of its weight it costs; one that costs health
\* raises an alert, but for the oil pressure where the evaluator masks it and health_service.py
\* does not: while the engine sleeps, and above the critical pressure at an engine speed that
\* explains it.
AlertsMirrorHealth == Init => Misjudged = {}

\* alert_evaluator.py:170, "AESS sleep suppresses false oil-pressure shutdowns": a healthy
\* engine raises an oil pressure alert at no time but shortly after it falls asleep or wakes.
FalseAlarmsSettle == Init => UnsettledAlarms = {}

\* test_alert_evaluator.py:41, "test_no_alerts_all_nominal", at every working point and with
\* the noise of every sensor at either end of its own: a healthy locomotive raises no alert and
\* keeps the best category, but for the alerts of the top notches and of an idle recuperation,
\* the category at the top notch, and the category of a sleeping engine, whose oil pressure is
\* charged for though README.md:120 excludes it; none is ever judged critical.
HealthyIsQuiet == Init => (MisjudgedDiesels = {} /\ MisjudgedElectrics = {})

\* telemetry_repository.py:193, "so uPlot breaks the line while x stays monotonic", :162, "Always
\* preserve gaps", and :115, "downsampling that preserves peaks/valleys": the rows a query found
\* are marked where data is missing and nowhere else; thinned, as the chart always has them, they
\* keep both ends, time never goes back, and no line is drawn where data is missing, though not
\* every marker is kept; without gaps they keep a spike as well.  No window has more rows than
\* the limit TrendsPanel.tsx:170 gives, which would cut the newest ones off.
ChartShowsTheData ==
    Init => (MismarkedSeries = {} /\ MisdrawnSeries = {} /\ BridgedSeries = {} /\ TruncatedWindows = {})

\* The reports and the dashboard show the answers of several queries beside one another
\* (report_generator.py:92): over the same rows and the same window the lists, as far as their
\* limits let them, the counts, the samples and the extremes agree, and so do the two queries of
\* a locomotive's newest rows.
QueriesAgree ==
    Init => (DisagreeingReadings = {} /\ DisagreeingAlerts = {} /\ DisagreeingSnapshots = {})

\* grpc_client.py:85, "is_gap carries the null intent across the wire since proto3 doubles
\* can't be nullable (0.0 stays 0.0)": what is absent and what is zero or false reach the
\* client as the query found them, in charts, filters and places; and a health is answered
\* exactly for the locomotives something is known of, from a decodable cache entry if any.
AnswersAreTrue ==
    Init => (DistortedCharts = {} /\ DistortedLists = {} /\ DistortedPlaces = {} /\ Misinformed = {})

\* alert_repository.py:65: an alert acknowledged stays so, though db-writer may be delivered
\* its row again; an acknowledgement is answered 200 exactly when there is such an alert.
AcknowledgedStays == Init => ForgottenAcknowledgements = {}

\* report_generator.py:92, "aggregated", and :39: a report of the fleet, gathered by other queries
\* than those of its locomotives, adds up to them while none has more alerts than a report
\* reads, and lists the worst ten of them or all there are; a single spike is found as
\* an anomaly (test_anomaly_detector.py:13) in windows long enough; and a report is shown and
\* downloaded, the same, from the moment it is completed and not before (servicer.py:26).
ReportsAddUp ==
    Init => (MisaddedReports = {} /\ MisjudgedFleets = {} /\ MissedSpikes = {} /\ LostReports = {})
=============================================================================
