---------------------------- MODULE LocomotiveState ----------------------------
(***************************************************************************)
(* One locomotive of the simulator (models/locomotive_state.py): the mode  *)
(* machine, the scenario, and the movement along a segment of its route,   *)
(* with what the operator may do to it at any time (runner.py and the      *)
(* endpoints of simulator/main.py) and the runner's removal of locomotives *)
(* that arrived.                                                           *)
(*                                                                         *)
(* Speeds and distances are whole numbers, a tick at speed v covers v, and *)
(* what the code draws at random, the drift of the cruising speed and the  *)
(* durations of modes, is any value of its range.  The notch and the       *)
(* thermal state only feed sensors and are left out.                       *)
(***************************************************************************)
EXTENDS Integers

CONSTANTS
    Route,           \* Route[r]: the length of route r
    None,            \* no locomotive; a field that a PATCH leaves out
    MaxSpeed,        \* bound of speed_kmh in the requests
    Accelerate, Brake, SlowDown, PickUp,   \* change of speed in a tick: departure,
                                           \* emergency, arrival, recovery
    DepartMax, CruiseMin, CruiseMax, RecoverMax,
    MaxDuration,     \* upper end of MODE_DURATIONS
    Ramp,            \* length of the longer ramp of a scenario
    EmergencyRamp,   \* _EMERGENCY_DURATION_TICKS
    Creations,       \* bound: bodies of POST /locomotives
    Patches,         \* bound: bodies of PATCH /locomotives/{id}
    MaxRequests      \* bound: requests of the operator

Mode == {"depot", "departure", "cruising", "arrival", "aess_sleep", "emergency", "recovery"}
Scenario == {"normal", "degradation", "emergency"}
OnArrival == {"loop", "stop", "remove"}

State == [route : DOMAIN Route, mode : Mode, scenario : Scenario, auto : BOOLEAN,
          speed : Nat, distance : Nat, start : Nat, end : Nat,
          onArrival : OnArrival, arrived : BOOLEAN, forward : BOOLEAN,
          modeTicks : Nat, modeDuration : 1..MaxDuration, scenarioTick : 0..Ramp,
          igbt : 0..Ramp, brake : 0..EmergencyRamp]   \* place on the ramp, 0: no override

Optional(S) == S \cup {None}

Creation == [route : DOMAIN Route, mode : Mode, scenario : Scenario, auto : BOOLEAN,
             speed : 0..MaxSpeed, start : Nat, end : Nat, onArrival : OnArrival]

Patch == [route : Optional(DOMAIN Route), mode : Optional(Mode),
          scenario : Optional(Scenario), auto : Optional(BOOLEAN),
          speed : Optional(0..MaxSpeed), start : Optional(Nat), end : Optional(Nat),
          onArrival : Optional(OnArrival)]

ASSUME LocomotiveAssumption ==
    /\ \A r \in DOMAIN Route : Route[r] \in Nat
    /\ None \notin DOMAIN Route /\ None \notin Mode \cup Scenario \cup OnArrival
    /\ None \notin BOOLEAN /\ None \notin Nat /\ None \notin State
    /\ {MaxSpeed, Accelerate, Brake, SlowDown, PickUp, DepartMax, CruiseMin, CruiseMax,
        RecoverMax, MaxRequests} \subseteq Nat
    /\ {MaxDuration, EmergencyRamp, Ramp} \subseteq Nat \ {0}
    /\ EmergencyRamp <= Ramp /\ CruiseMin <= CruiseMax
    /\ Creations \subseteq Creation /\ Patches \subseteq Patch

VARIABLES
    loco,        \* the LocomotiveState in the runner's fleet
    requests     \* requests the operator made

vars == <<loco, requests>>

AtMost(a, b) == IF a < b THEN a ELSE b
AtLeast(a, b) == IF a > b THEN a ELSE b
Clamp(low, x, high) == AtLeast(low, AtMost(x, high))

-----------------------------------------------------------------------------
(* tick(): the mode machine, then the scenario, then the movement.         *)

\* The states _enter_mode() may leave.
Enter(s, mode) ==
    {[s EXCEPT !.mode = mode, !.modeTicks = 0, !.modeDuration = d] : d \in 1..MaxDuration}

\* s after `mode` had its tick: it goes on, or ends in `next`.
Lasts(s, next) == IF s.modeTicks >= s.modeDuration THEN Enter(s, next) ELSE {s}

Transition(s) ==
    LET t == [s EXCEPT !.modeTicks = @ + 1] IN
    CASE ~s.auto -> {s}
      [] s.auto /\ s.mode = "depot" -> Lasts(t, "departure")
      [] s.auto /\ s.mode = "departure" ->
            Lasts([t EXCEPT !.speed = AtMost(DepartMax, @ + Accelerate)], "cruising")
      [] s.auto /\ s.mode = "cruising" ->
            UNION {Lasts([t EXCEPT !.speed = v], "arrival") : v \in CruiseMin..CruiseMax}
      [] s.auto /\ s.mode = "arrival" ->
            IF t.modeTicks >= t.modeDuration
            THEN Enter([t EXCEPT !.speed = 0, !.forward = ~@], "depot")
            ELSE {[t EXCEPT !.speed = AtLeast(0, @ - SlowDown)]}
      [] s.auto /\ s.mode = "aess_sleep" -> Lasts([t EXCEPT !.speed = 0], "departure")
      [] s.auto /\ s.mode = "emergency" ->
            Lasts([t EXCEPT !.speed = AtLeast(0, @ - Brake)], "recovery")
      [] s.auto /\ s.mode = "recovery" ->
            Lasts([t EXCEPT !.speed = AtMost(RecoverMax, @ + PickUp)], "cruising")

\* Mutant: the emergency brakes but leaves the mode, "without touching kinematics".
Emergency_KeepsMode(s) ==
    [s EXCEPT !.igbt = 0, !.brake = AtMost(s.scenarioTick, EmergencyRamp),
              !.speed = AtLeast(0, @ - Brake)]

\* The brake pipe empties, and the mode is forced whatever the mode machine did.
Emergency(s) ==
    [s EXCEPT !.igbt = 0, !.brake = AtMost(s.scenarioTick, EmergencyRamp),
              !.mode = "emergency", !.speed = AtLeast(0, @ - Brake)]

\* scenario_tick only counts as far as the longer ramp.
ApplyScenario(s) ==
    LET t == [s EXCEPT !.scenarioTick = AtMost(@ + 1, Ramp)] IN
    CASE s.scenario = "normal" -> [t EXCEPT !.igbt = 0, !.brake = 0]
      [] s.scenario = "degradation" -> [t EXCEPT !.igbt = t.scenarioTick, !.brake = 0]
      [] s.scenario = "emergency" -> Emergency(t)

\* _on_segment_bound_hit()
BoundHit(s, atEnd) ==
    CASE s.onArrival = "loop" -> [s EXCEPT !.forward = ~@]
      [] s.onArrival # "loop" /\ ~atEnd -> [s EXCEPT !.speed = 0, !.forward = TRUE]
      [] s.onArrival = "stop" /\ atEnd ->
            [s EXCEPT !.speed = 0, !.mode = "depot", !.auto = FALSE, !.arrived = TRUE]
      [] s.onArrival = "remove" /\ atEnd -> [s EXCEPT !.speed = 0, !.arrived = TRUE]

\* _update_gps()
Move(s) ==
    IF s.speed = 0 THEN s
    ELSE IF s.forward
    THEN IF s.distance + s.speed >= s.end
         THEN BoundHit([s EXCEPT !.distance = s.end], TRUE)
         ELSE [s EXCEPT !.distance = @ + s.speed]
    ELSE IF s.distance - s.speed <= s.start
         THEN BoundHit([s EXCEPT !.distance = s.start], FALSE)
         ELSE [s EXCEPT !.distance = @ - s.speed]

Ticked(s) == {Move(ApplyScenario(t)) : t \in Transition(s)}

-----------------------------------------------------------------------------
(* The operator's requests.                                                *)

\* add_locomotive() and __post_init__().  An end of 0 means the whole route.
Added(body, duration) ==
    LET length == Route[body.route]
        start == AtMost(body.start, length)
        end == AtLeast(start, AtMost(body.end, length))
    IN  [route |-> body.route, mode |-> body.mode, scenario |-> body.scenario,
         auto |-> body.auto, speed |-> body.speed, distance |-> start, start |-> start,
         end |-> IF end = 0 THEN length ELSE end, onArrival |-> body.onArrival,
         arrived |-> FALSE, forward |-> TRUE, modeTicks |-> 0, modeDuration |-> duration,
         scenarioTick |-> 0, igbt |-> 0, brake |-> 0]

Given(field, otherwise) == IF field = None THEN otherwise ELSE field

\* Mutant: a change of route keeps the segment.
OnNewRoute_KeepsEnd(s, route) ==
    IF route = None THEN s ELSE [s EXCEPT !.route = route, !.start = 0, !.distance = 0]

\* Changing the route snaps the position to its start and the segment to all of it.
OnNewRoute(s, route) ==
    IF route = None THEN s
    ELSE [s EXCEPT !.route = route, !.start = 0, !.end = Route[route], !.distance = 0]

InSegment(s, patch) ==
    LET length == Route[s.route]
        start == IF patch.start = None THEN s.start ELSE AtMost(patch.start, length)
        end == IF patch.end = None THEN s.end
               ELSE AtLeast(start, AtMost(patch.end, length))
    IN  [s EXCEPT !.start = start, !.end = end, !.distance = Clamp(start, @, end)]

\* Mutant: a new scenario goes on where the last one was.
InScenario_KeepsTick(s, scenario) ==
    IF scenario \in {None, s.scenario} THEN s ELSE [s EXCEPT !.scenario = scenario]

\* A new scenario starts its ramp afresh.
InScenario(s, scenario) ==
    IF scenario \in {None, s.scenario} THEN s
    ELSE [s EXCEPT !.scenario = scenario, !.scenarioTick = 0,
                   !.igbt = IF scenario = "normal" THEN 0 ELSE @,
                   !.brake = IF scenario = "normal" THEN 0 ELSE @]

\* update_locomotive(): modeTicks start again with a given mode, its duration does not.
Updated(s, patch) ==
    LET t == InScenario(InSegment(OnNewRoute(s, patch.route), patch), patch.scenario) IN
    [t EXCEPT !.mode = Given(patch.mode, @),
              !.modeTicks = IF patch.mode = None THEN @ ELSE 0,
              !.onArrival = Given(patch.onArrival, @),
              !.auto = Given(patch.auto, @),
              !.speed = Given(patch.speed, @)]

-----------------------------------------------------------------------------

Init == loco = None /\ requests = 0

Asked ==
    /\ requests < MaxRequests
    /\ requests' = requests + 1

Create ==
    /\ loco = None
    /\ Asked
    /\ \E body \in Creations, d \in 1..MaxDuration : loco' = Added(body, d)

Update ==
    /\ loco # None
    /\ Asked
    /\ \E patch \in Patches : loco' = Updated(loco, patch)

Delete ==
    /\ loco # None
    /\ Asked
    /\ loco' = None

\* The runner drops the locomotive that arrived with on_arrival "remove".
Dropped(s) == s.arrived /\ s.onArrival = "remove"

Tick ==
    /\ loco # None
    /\ \E s \in Ticked(loco) : loco' = IF Dropped(s) THEN None ELSE s
    /\ UNCHANGED requests

Next == Create \/ Update \/ Delete \/ Tick

Spec == Init /\ [][Next]_vars

\* The runner ticks.
FairSpec == Spec /\ WF_vars(Tick)

-----------------------------------------------------------------------------
(* Properties.                                                             *)

TypeOK == loco \in State \cup {None} /\ requests \in 0..MaxRequests

\* Whatever routes, stations and modes the operator sets while it moves, a locomotive and
\* its segment stay on its route: position_at() is asked for no other place.
OnRoute ==
    loco # None =>
        \A d \in {loco.distance, loco.start, loco.end} : 0 <= d /\ d <= Route[loco.route]

\* locomotive_state.py:251, "Snap into EMERGENCY and force a stop regardless of auto/manual
\* mode": a locomotive whose scenario stays "emergency" stops and does not start again.
EmergencyStops ==
    <>[](loco # None /\ loco.scenario = "emergency") =>
        <>[](loco # None /\ loco.speed = 0)

\* locomotive_state.py:130, "re-arming a scenario gives a fresh ramp": an override starts at
\* the first step of its ramp and moves by one, however scenarios and modes are switched.
FreshRamp ==
    [][loco # None /\ loco' # None =>
        /\ loco'.igbt \in {0, 1, loco.igbt, loco.igbt + 1}
        /\ loco'.brake \in {0, 1, loco.brake, loco.brake + 1}]_vars
=============================================================================
