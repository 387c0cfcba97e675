--------------------------- MODULE SensorSignals ---------------------------
(***************************************************************************)
(* The signals the simulator's generators produce for a healthy locomotive *)
(* (te33a.py, kz8a.py), smoothed by the processor's filter                 *)
(* (filter_service.py) and judged by HealthScore's alert evaluation.       *)
(* Values are in hundredths; temperatures are at their target, the fuel in *)
(* the tank is left out, and noise is a bounded offset of each sensor.     *)
(***************************************************************************)
EXTENDS HealthScore, Sequences, SequencesExt

\* A diesel engine sleeps (AESS) or runs in a notch of its controller.
Asleep == -1
Notch == 0..8
Setting == Notch \cup {Asleep}

\* add_noise() stays within three deviations of 0.5 % of the nominal value, or of 0.01 where
\* there is none; a sensor's noise is its offset in thousandths of the nominal value.
Offsets == -15..15
WithNoise(value, nominal, offset) ==
    value + (IF nominal = 0 THEN offset \div 5 ELSE (nominal * offset) \div 1000)

Rpm(notch) == 30000 + notch * 9375
OilPressure(notch) == 150 + (Rpm(notch) * 300) \div 105000

\* noise gives every sensor an offset of its own.
CommonSensors(speed, noise) ==
    [speed_actual |-> WithNoise(100 * speed, 6000, noise["speed_actual"]),
     brake_pipe_pressure |-> WithNoise(510, 510, noise["brake_pipe_pressure"]),
     wheel_slip_ratio |-> WithNoise(0, 0, noise["wheel_slip_ratio"])]

EngineSensors(setting, noise) ==
    IF setting = Asleep
      THEN [diesel_rpm |-> WithNoise(0, 30000, noise["diesel_rpm"]),
            oil_pressure |-> WithNoise(0, 350, noise["oil_pressure"]),
            fuel_rate |-> 0,
            coolant_temp |-> WithNoise(3500, 8200, noise["coolant_temp"]),
            traction_motor_temp |-> WithNoise(3000, 8500, noise["traction_motor_temp"]),
            crankcase_pressure |-> WithNoise(200, 0, noise["crankcase_pressure"])]
      ELSE [diesel_rpm |-> WithNoise(Rpm(setting), 70000, noise["diesel_rpm"]),
            oil_pressure |-> WithNoise(OilPressure(setting), 350, noise["oil_pressure"]),
            fuel_rate |->
              WithNoise(1500 + (Power(125 * setting, 3) * 165) \div 10, 8000, noise["fuel_rate"]),
            coolant_temp |-> WithNoise(7200 + 250 * setting, 8200, noise["coolant_temp"]),
            traction_motor_temp |->
              WithNoise(4000 + 875 * setting, 8500, noise["traction_motor_temp"]),
            crankcase_pressure |-> WithNoise(200, 0, noise["crankcase_pressure"])]

GenerateTe33a(setting, speed, noise) ==
    Joined(EngineSensors(setting, noise), CommonSensors(speed, noise))

PantographCurrent(speed) == 5000 + 250 * speed

\* Recuperation only flows when braking from speed.
Recuperation(speed, braking) ==
    IF braking /\ speed > 20 THEN ((120 - speed) * 20000) \div 120 ELSE 0

ElectricSensors(speed, braking, noise) ==
    LET current == PantographCurrent(speed) IN
    [catenary_voltage |-> WithNoise(2500000 - 8 * current, 2500000, noise["catenary_voltage"]),
     pantograph_current |-> WithNoise(current, 20000, noise["pantograph_current"]),
     igbt_temp |-> WithNoise(3500 + current \div 10, 5700, noise["igbt_temp"]),
     transformer_temp |-> WithNoise(4500 + (current * 35) \div 400, 6500, noise["transformer_temp"]),
     dc_link_voltage |-> WithNoise(280000, 280000, noise["dc_link_voltage"]),
     recuperation_current |->
       WithNoise(Recuperation(speed, braking), 10000, noise["recuperation_current"])]

GenerateKz8a(speed, braking, noise) ==
    Joined(ElectricSensors(speed, braking, noise), CommonSensors(speed, noise))

\* Mutant: the pressure is smoothed far more than the speed it is compared with.
Gain_SlowPressure(sensor) ==
    CASE sensor = "diesel_rpm" -> 25
      [] sensor = "oil_pressure" -> 5

\* EMA_GAINS, in percent; sensors it does not name have the default.
Gain(sensor) ==
    CASE sensor = "diesel_rpm" -> 25
      [] sensor = "oil_pressure" -> 20

EmaFilter(sensor, previous, raw) == (Gain(sensor) * raw + (100 - Gain(sensor)) * previous) \div 100

\* The engine sensors of a raw reading; the filter passes the first one unchanged.
EngineReading(setting) ==
    IF setting = Asleep
      THEN [diesel_rpm |-> 0, oil_pressure |-> 0]
      ELSE [diesel_rpm |-> Rpm(setting), oil_pressure |-> OilPressure(setting)]

Filtered(history) ==
    LET filter[i \in DOMAIN history] ==
          LET raw == EngineReading(history[i]) IN
          IF i = 1 THEN raw
          ELSE [s \in DOMAIN raw |-> EmaFilter(s, filter[i - 1][s], raw[s])]
    IN filter

-----------------------------------------------------------------------------
(* The inputs the functions above mistreat.                                *)

\* The largest number of readings for which the smoothed speed and pressure of an engine
\* may misrepresent a switch between sleeping and running.
SettleReadings == 11

\* Three phases of an engine, the last of 12 readings.
Phases(a, b, c, m, n) ==
    [i \in 1..m + n + 12 |-> IF i <= m THEN a ELSE IF i <= m + n THEN b ELSE c]

Histories ==
    {Phases(a, b, c, m, n) :
        a \in {Asleep, 0, 8}, b \in {Asleep, 0, 5, 8}, c \in {Asleep, 0, 8}, m \in {1, 6, 12}, n \in 1..12}

\* Where an engine raises an oil pressure alert with no switch in the readings before.
UnsettledAlarms ==
    {history \in Histories :
        LET readings == Filtered(history) IN
        \E k \in DOMAIN history :
            /\ "oil_pressure" \in Alerting("TE33A", readings[k])
            /\ \A j \in 2..k :
                k - j < SettleReadings => ((history[j] = Asleep) <=> (history[j - 1] = Asleep))}

\* Every sensor's noise at one of its ends, whatever the other sensors' is.
LoudNoise(type) == [DOMAIN LocoSpecs[type] -> {-15, 15}]

\* The steady states in which a healthy locomotive raises an alert, but for the two sensors
\* the generator drives out of their zone in the top notches, and for a recuperation current
\* that is zero but for its noise; or in which it loses its category where nothing explains
\* it: in the top notch its engine may cost it the best one, and asleep its oil pressure
\* does, which health_service.py does not mask (README.md:120 says that it is).
MisjudgedDiesels ==
    {c \in [setting : Setting, speed : {0, 110}, noise : LoudNoise("TE33A")] :
        LET setting == c.setting
            reading == GenerateTe33a(setting, c.speed, c.noise)
            category == CategoryOf(Score("TE33A", reading, 0))
        IN ~ /\ Alerting("TE33A", reading) \subseteq
                   (IF setting \in {7, 8} THEN {"diesel_rpm", "fuel_rate"} ELSE {})
             /\ category # "kritichno"
             /\ setting \in 0..7 => category = "norma"}

MisjudgedElectrics ==
    {c \in [braking : BOOLEAN, speed : {0, 20, 21, 110}, noise : LoudNoise("KZ8A")] :
        LET reading == GenerateKz8a(c.speed, c.braking, c.noise)
        IN ~ /\ Alerting("KZ8A", reading) \subseteq
                   (IF Recuperation(c.speed, c.braking) = 0 THEN {"recuperation_current"} ELSE {})
             /\ CategoryOf(Score("KZ8A", reading, 0)) = "norma"}
=============================================================================
