---------------------------- MODULE HealthScore ----------------------------
(***************************************************************************)
(* What the processor computes from one filtered reading: the health index *)
(* of health_service.py and the alerts of alert_evaluator.py, from the     *)
(* sensor specifications of constants.py.  Values are in hundredths of the *)
(* sensor's unit, fractions and penalties in thousandths.  The accumulated *)
(* Montsinger damage is TelemetryIngest's, and is added to the penalty     *)
(* there; messages, units and recommendations are left out.                *)
(***************************************************************************)
EXTENDS Integers, FiniteSets, FiniteSetsExt, TLC

\* SensorSpec; exponent is twice the code's k, so that 1.5 is a number here.
SensorSpec(weight, nominal, safe, critical, bound, exponent) ==
    [weight |-> weight, nominal |-> nominal, safe |-> safe, critical |-> critical,
     bound |-> bound, exponent |-> exponent]

CommonSpecs ==
    [brake_pipe_pressure |-> SensorSpec(40, 510, 20, 200, "lower", 6),
     wheel_slip_ratio |-> SensorSpec(20, 0, 5, 50, "upper", 4),
     speed_actual |-> SensorSpec(15, 6000, 6000, 12000, "upper", 4)]

DieselSpecs ==
    [diesel_rpm |-> SensorSpec(15, 70000, 20000, 105000, "upper", 4),
     oil_pressure |-> SensorSpec(35, 350, 100, 150, "lower", 4),
     coolant_temp |-> SensorSpec(20, 8200, 1300, 9500, "upper", 4),
     fuel_level |-> SensorSpec(10, 5000, 4000, 500, "lower", 3),
     fuel_rate |-> SensorSpec(10, 8000, 6000, 20000, "upper", 3),
     traction_motor_temp |-> SensorSpec(15, 8500, 4500, 13000, "upper", 4),
     crankcase_pressure |-> SensorSpec(40, 0, 1000, 5000, "upper", 6)]

ElectricSpecs ==
    [catenary_voltage |-> SensorSpec(25, 2500000, 400000, 1900000, "both", 4),
     pantograph_current |-> SensorSpec(15, 20000, 15000, 40000, "upper", 4),
     transformer_temp |-> SensorSpec(20, 6500, 1500, 9000, "upper", 4),
     igbt_temp |-> SensorSpec(30, 5700, 1800, 8500, "upper", 4),
     recuperation_current |-> SensorSpec(5, 10000, 10000, 0, "lower", 2),
     dc_link_voltage |-> SensorSpec(20, 280000, 30000, 200000, "both", 4)]

\* Two tables with different sensors, as one.
Joined(f, g) ==
    [s \in DOMAIN f \cup DOMAIN g |-> IF s \in DOMAIN f THEN f[s] ELSE g[s]]

\* The sensors of one type and those every locomotive has.
WithCommon(specs) == Joined(specs, CommonSpecs)

LocoSpecs == [TE33A |-> WithCommon(DieselSpecs), KZ8A |-> WithCommon(ElectricSpecs)]

Abs(n) == IF n < 0 THEN -n ELSE n
AtLeastZero(n) == IF n < 0 THEN 0 ELSE n

\* Zero stands for the code's 1e-6: the smallest exceedance is then the whole range.
CritRange(spec) == AtLeastZero(Abs(spec.critical - spec.nominal) - spec.safe)

RawDeviation(value, spec) ==
    CASE spec.bound = "both"  -> Abs(value - spec.nominal)
      [] spec.bound = "upper" -> AtLeastZero(value - spec.nominal)
      [] spec.bound = "lower" -> AtLeastZero(spec.nominal - value)

\* The part of the critical range a deviation covers, in thousandths.
Share(deviation, spec) ==
    LET exceedance == AtLeastZero(deviation - spec.safe) IN
    IF exceedance >= CritRange(spec)
      THEN IF exceedance = 0 THEN 0 ELSE 1000
      ELSE (1000 * exceedance) \div CritRange(spec)

Normalized(value, spec) == Share(RawDeviation(value, spec), spec)

Sqrt(n) == CHOOSE r \in 0..1000 : r * r <= n /\ n < (r + 1) * (r + 1)

\* share^k, in thousandths.
Power(share, exponent) ==
    LET square == (share * share) \div 1000 IN
    IF exponent = 2 THEN share
    ELSE IF exponent = 3 THEN Sqrt(square * share)
    ELSE IF exponent = 4 THEN square
    ELSE (square * share) \div 1000

SensorPenalty(value, spec) == spec.weight * Power(Normalized(value, spec), spec.exponent)

\* A reading maps the sensors it carries to their values.
Known(type, reading) == DOMAIN reading \cap DOMAIN LocoSpecs[type]

TotalPenalty(type, reading) ==
    MapThenSumSet(LAMBDA s : SensorPenalty(reading[s], LocoSpecs[type][s]), Known(type, reading))

\* HI(t), in thousandths of a point; damage is what the aging sensors have accumulated.
Score(type, reading, damage) == AtLeastZero(100000 - damage - TotalPenalty(type, reading))

CategoryOf(score) ==
    IF score >= 80000 THEN "norma" ELSE IF score >= 50000 THEN "vnimanie" ELSE "kritichno"

-----------------------------------------------------------------------------
(* alert_evaluator.py.                                                     *)

AessRpmThreshold == 5000
AessMaskedSensors == {"diesel_rpm", "oil_pressure"}

AessActive(type, reading) ==
    /\ type = "TE33A"
    /\ "diesel_rpm" \in DOMAIN reading
    /\ reading["diesel_rpm"] <= AessRpmThreshold

\* Mutant: a full engine's pressure is expected at any speed.
OilIsExpected_AtAnySpeed(reading) == reading["oil_pressure"] >= 300

\* Mutant: the expected pressure starts from nothing.
OilIsExpected_FromNothing(reading) ==
    LET rpm == IF "diesel_rpm" \in DOMAIN reading THEN reading["diesel_rpm"] ELSE 0 IN
    reading["oil_pressure"] >= (rpm * 300) \div 105000

\* The pressure expected at the engine's speed: 1.5 bar standing, 3.0 at 1050 rpm.
OilIsExpected(reading) ==
    LET rpm == IF "diesel_rpm" \in DOMAIN reading THEN reading["diesel_rpm"] ELSE 0 IN
    reading["oil_pressure"] >= 150 + (rpm * 150) \div 105000

\* Mutant: the edge of the safe zone is outside it.
ThresholdViolated_AtTheEdge(value, spec) ==
    CASE spec.bound = "both"  -> Abs(value - spec.nominal) >= spec.safe
      [] spec.bound = "upper" -> value >= spec.nominal + spec.safe
      [] spec.bound = "lower" -> value <= spec.nominal - spec.safe

ThresholdViolated(value, spec) ==
    CASE spec.bound = "both"  -> Abs(value - spec.nominal) > spec.safe
      [] spec.bound = "upper" -> value > spec.nominal + spec.safe
      [] spec.bound = "lower" -> value < spec.nominal - spec.safe

SeverityDeviation(value, spec) ==
    CASE spec.bound = "both"  -> Abs(value - spec.nominal)
      [] spec.bound = "upper" -> AtLeastZero(value - spec.nominal)
      [] spec.bound = "lower" -> AtLeastZero(spec.nominal - value)

\* info, warning, critical and emergency as 1 to 4.
SeverityFromSpec(value, spec) ==
    LET share == Share(SeverityDeviation(value, spec), spec) IN
    IF spec.weight >= 35 THEN 4 ELSE 1 + Cardinality({limit \in {300, 600, 900} : share >= limit})

\* Mutant: a sleeping engine masks nothing.
Alerting_Unmasked(type, reading) ==
    {s \in Known(type, reading) :
        /\ s = "oil_pressure" => ~OilIsExpected(reading)
        /\ ThresholdViolated(reading[s], LocoSpecs[type][s])}

\* The sensors a reading raises an alert for.
Alerting(type, reading) ==
    {s \in Known(type, reading) :
        /\ ~(AessActive(type, reading) /\ s \in AessMaskedSensors)
        /\ s = "oil_pressure" => ~OilIsExpected(reading)
        /\ ThresholdViolated(reading[s], LocoSpecs[type][s])}

EvaluateAlerts(type, reading) ==
    {[sensor |-> s, severity |-> SeverityFromSpec(reading[s], LocoSpecs[type][s])] :
        s \in Alerting(type, reading)}

-----------------------------------------------------------------------------
(* The inputs the functions above mistreat, over every specification and a *)
(* value in each of its zones.                                             *)

Samples(spec) ==
    LET step == CritRange(spec) \div 10
        unit == IF step = 0 THEN 1 ELSE step IN
    {spec.nominal + side * (spec.safe + i * unit) : side \in {-1, 1}, i \in -1..12}

\* Readings of one sensor: alone, or beside an engine that stands, sleeps or turns.
EngineSpeeds == {0, AessRpmThreshold, AessRpmThreshold + 1, 30000, 67500, 105000}
Readings(type, s) ==
    UNION {{[x \in {s} |-> v]} \cup
           {[x \in {s, "diesel_rpm"} |-> IF x = s THEN v ELSE rpm] : rpm \in EngineSpeeds} :
        v \in Samples(LocoSpecs[type][s])}

\* The sensors that cost health, and those of them that cost it without an alert.
Costing(type, reading) ==
    {s \in Known(type, reading) : SensorPenalty(reading[s], LocoSpecs[type][s]) > 0}
Silent(type, reading) == Costing(type, reading) \ Alerting(type, reading)

\* The oil pressure costs health unannounced while the engine sleeps, and when the engine's
\* speed explains it, which it never does below the critical pressure.
WellAnnounced(type, reading) ==
    /\ Alerting(type, reading) \subseteq Costing(type, reading)
    /\ Silent(type, reading) \subseteq {"oil_pressure"}
    /\ Silent(type, reading) # {} =>
         AessActive(type, reading) \/ reading["oil_pressure"] >= DieselSpecs.oil_pressure.critical

\* The sensors whose alerts and penalties disagree about some reading, or some two values.
Misjudged ==
    UNION {{s \in DOMAIN LocoSpecs[type] :
              LET spec == LocoSpecs[type][s] IN
              \/ \E reading \in Readings(type, s) : ~WellAnnounced(type, reading)
              \/ \E v, w \in Samples(spec) :
                     /\ SensorPenalty(v, spec) < SensorPenalty(w, spec)
                     /\ SeverityFromSpec(v, spec) > SeverityFromSpec(w, spec)} :
           type \in DOMAIN LocoSpecs}
=============================================================================
