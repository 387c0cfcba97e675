------------------------ MODULE LocomotiveStateProofs ------------------------
(***************************************************************************)
(* Theorems about the simulator's locomotive, for every set of routes and  *)
(* every bodies of requests, however many the operator makes.              *)
(***************************************************************************)
EXTENDS LocomotiveState, TLAPS

-----------------------------------------------------------------------------
(* What the operators on a locomotive leave it as.                         *)

\* A well-formed locomotive that is on its route.  Every operator below keeps it so.
Placed(s) ==
    /\ s \in State
    /\ s.distance <= Route[s.route] /\ s.start <= Route[s.route] /\ s.end <= Route[s.route]

LEMMA AtMostIsBoth ==
    ASSUME NEW a \in Nat, NEW b \in Nat
    PROVE  AtMost(a, b) \in Nat /\ AtMost(a, b) <= a /\ AtMost(a, b) <= b
BY DEF AtMost

LEMMA Parameters ==
    /\ Accelerate \in Nat /\ Brake \in Nat /\ SlowDown \in Nat /\ PickUp \in Nat
    /\ DepartMax \in Nat /\ RecoverMax \in Nat /\ CruiseMin \in Nat /\ CruiseMax \in Nat
    /\ MaxSpeed \in Nat /\ MaxRequests \in Nat
    /\ Ramp \in Nat /\ EmergencyRamp \in Nat /\ MaxDuration \in Nat /\ EmergencyRamp <= Ramp
BY LocomotiveAssumption

LEMMA RouteIsNat == \A r \in DOMAIN Route : Route[r] \in Nat
BY LocomotiveAssumption

\* A change of its speed, direction, mode or timers does not move it.
LEMMA SpeedKeepsPlace ==
    ASSUME NEW s, Placed(s), NEW v \in Nat
    PROVE  Placed([s EXCEPT !.speed = v])
BY DEF Placed, State

LEMMA TicksKeepPlace ==
    ASSUME NEW s, Placed(s), NEW n \in Nat
    PROVE  Placed([s EXCEPT !.modeTicks = n])
BY DEF Placed, State

LEMMA ModeKeepsPlace ==
    ASSUME NEW s, Placed(s), NEW mode \in Mode
    PROVE  Placed([s EXCEPT !.mode = mode])
BY DEF Placed, State

LEMMA TurnKeepsPlace ==
    ASSUME NEW s, Placed(s), NEW forward \in BOOLEAN
    PROVE  Placed([s EXCEPT !.forward = forward])
BY DEF Placed, State

LEMMA DistanceKeepsPlace ==
    ASSUME NEW s, Placed(s), NEW d \in Nat, d <= Route[s.route]
    PROVE  Placed([s EXCEPT !.distance = d])
BY DEF Placed, State

LEMMA RampsKeepPlace ==
    ASSUME NEW s, Placed(s), NEW t \in 0..Ramp, NEW i \in 0..Ramp, NEW b \in 0..EmergencyRamp
    PROVE  Placed([s EXCEPT !.scenarioTick = t, !.igbt = i, !.brake = b])
BY DEF Placed, State

LEMMA EnterKeepsPlace ==
    ASSUME NEW s, Placed(s), NEW mode \in Mode
    PROVE  \A t \in Enter(s, mode) : Placed(t)
<1>1. ASSUME NEW d \in 1..MaxDuration
      PROVE  Placed([s EXCEPT !.mode = mode, !.modeTicks = 0, !.modeDuration = d])
  BY DEF Placed, State
<1> QED
  BY <1>1 DEF Enter

LEMMA LastsKeepsPlace ==
    ASSUME NEW s, Placed(s), NEW mode \in Mode
    PROVE  \A t \in Lasts(s, mode) : Placed(t)
BY EnterKeepsPlace DEF Lasts

-----------------------------------------------------------------------------
(* A tick.                                                                 *)

LEMMA TransitionKeepsPlace ==
    ASSUME NEW s, Placed(s)
    PROVE  \A t \in Transition(s) : Placed(t)
<1> DEFINE t == [s EXCEPT !.modeTicks = @ + 1]
<1>1. Placed(t) /\ t.speed = s.speed /\ s.speed \in Nat /\ s.modeTicks \in Nat
      /\ s.mode \in Mode /\ s.auto \in BOOLEAN /\ t.forward = s.forward /\ s.forward \in BOOLEAN
  <2>1. s \in State /\ s.modeTicks + 1 \in Nat
    BY DEF Placed, State
  <2>2. Placed([s EXCEPT !.modeTicks = s.modeTicks + 1])
    BY <2>1, TicksKeepPlace
  <2> QED
    BY <2>1, <2>2 DEF State
<1> HIDE DEF t
<1>2. CASE ~s.auto
  BY <1>2 DEF Transition
<1>3. CASE s.auto /\ s.mode = "depot"
  <2>1. Transition(s) = Lasts(t, "departure")
    BY <1>3 DEF Transition, t
  <2> QED
    BY <1>1, <2>1, LastsKeepsPlace DEF Mode
<1>4. CASE s.auto /\ s.mode = "departure"
  <2> DEFINE u == [t EXCEPT !.speed = AtMost(DepartMax, t.speed + Accelerate)]
  <2>1. Transition(s) = Lasts(u, "cruising")
    BY <1>4 DEF Transition, t
  <2>2. AtMost(DepartMax, t.speed + Accelerate) \in Nat
    BY <1>1, Parameters DEF AtMost
  <2>3. Placed(u)
    BY <1>1, <2>2, SpeedKeepsPlace
  <2> QED
    BY <2>1, <2>3, LastsKeepsPlace DEF Mode
<1>5. CASE s.auto /\ s.mode = "cruising"
  <2>1. Transition(s)
          = UNION {Lasts([t EXCEPT !.speed = v], "arrival") : v \in CruiseMin..CruiseMax}
    BY <1>5 DEF Transition, t
  <2>2. ASSUME NEW v \in CruiseMin..CruiseMax
        PROVE  \A u \in Lasts([t EXCEPT !.speed = v], "arrival") : Placed(u)
    <3>1. Placed([t EXCEPT !.speed = v])
      BY <1>1, Parameters, SpeedKeepsPlace
    <3> QED
      BY <3>1, LastsKeepsPlace DEF Mode
  <2> QED
    BY <2>1, <2>2
<1>6. CASE s.auto /\ s.mode = "arrival" /\ t.modeTicks >= t.modeDuration
  <2> DEFINE u == [t EXCEPT !.speed = 0, !.forward = ~t.forward]
  <2>1. Transition(s) = Enter(u, "depot")
    BY <1>6 DEF Transition, t
  <2>2. Placed([t EXCEPT !.speed = 0])
    BY <1>1, SpeedKeepsPlace
  <2>3. Placed([[t EXCEPT !.speed = 0] EXCEPT !.forward = ~t.forward])
    BY <1>1, <2>2, TurnKeepsPlace
  <2>4. Placed(u)
    BY <2>3
  <2> QED
    BY <2>1, <2>4, EnterKeepsPlace DEF Mode
<1>7. CASE s.auto /\ s.mode = "arrival" /\ ~(t.modeTicks >= t.modeDuration)
  <2>1. Transition(s) = {[t EXCEPT !.speed = AtLeast(0, t.speed - SlowDown)]}
    BY <1>7 DEF Transition, t
  <2>2. AtLeast(0, t.speed - SlowDown) \in Nat
    BY <1>1, Parameters DEF AtLeast
  <2> QED
    BY <1>1, <2>1, <2>2, SpeedKeepsPlace
<1>8. CASE s.auto /\ s.mode = "aess_sleep"
  <2>1. Transition(s) = Lasts([t EXCEPT !.speed = 0], "departure")
    BY <1>8 DEF Transition, t
  <2>2. Placed([t EXCEPT !.speed = 0])
    BY <1>1, SpeedKeepsPlace
  <2> QED
    BY <2>1, <2>2, LastsKeepsPlace DEF Mode
<1>9. CASE s.auto /\ s.mode = "emergency"
  <2> DEFINE u == [t EXCEPT !.speed = AtLeast(0, t.speed - Brake)]
  <2>1. Transition(s) = Lasts(u, "recovery")
    BY <1>9 DEF Transition, t
  <2>2. AtLeast(0, t.speed - Brake) \in Nat
    BY <1>1, Parameters DEF AtLeast
  <2>3. Placed(u)
    BY <1>1, <2>2, SpeedKeepsPlace
  <2> QED
    BY <2>1, <2>3, LastsKeepsPlace DEF Mode
<1>10. CASE s.auto /\ s.mode = "recovery"
  <2> DEFINE u == [t EXCEPT !.speed = AtMost(RecoverMax, t.speed + PickUp)]
  <2>1. Transition(s) = Lasts(u, "cruising")
    BY <1>10 DEF Transition, t
  <2>2. AtMost(RecoverMax, t.speed + PickUp) \in Nat
    BY <1>1, Parameters DEF AtMost
  <2>3. Placed(u)
    BY <1>1, <2>2, SpeedKeepsPlace
  <2> QED
    BY <2>1, <2>3, LastsKeepsPlace DEF Mode
<1> QED
  BY <1>1, <1>2, <1>3, <1>4, <1>5, <1>6, <1>7, <1>8, <1>9, <1>10 DEF Mode

LEMMA ScenarioKeepsPlace ==
    ASSUME NEW s, Placed(s)
    PROVE  Placed(ApplyScenario(s))
<1> DEFINE n == AtMost(s.scenarioTick + 1, Ramp)
           t == [s EXCEPT !.scenarioTick = n]
<1>1. s \in State /\ s.scenarioTick \in 0..Ramp /\ s.scenario \in Scenario /\ s.speed \in Nat
  BY DEF Placed, State
<1>2. n \in 0..Ramp
  BY <1>1, Parameters DEF AtMost
<1>3. AtMost(n, EmergencyRamp) \in 0..EmergencyRamp
  BY <1>2, Parameters DEF AtMost
<1>4. AtLeast(0, s.speed - Brake) \in Nat
  BY <1>1, Parameters DEF AtLeast
<1>a. 0 \in 0..Ramp /\ 0 \in 0..EmergencyRamp
  BY Parameters
<1> HIDE DEF n
<1>5. CASE s.scenario = "normal"
  <2>1. ApplyScenario(s) = [s EXCEPT !.scenarioTick = n, !.igbt = 0, !.brake = 0]
    BY <1>1, <1>5 DEF ApplyScenario, n, State
  <2> QED
    BY <1>1, <1>2, <1>a, <2>1 DEF Placed, State
<1>6. CASE s.scenario = "degradation"
  <2>1. ApplyScenario(s) = [s EXCEPT !.scenarioTick = n, !.igbt = n, !.brake = 0]
    BY <1>1, <1>6 DEF ApplyScenario, n, State
  <2> QED
    BY <1>1, <1>2, <1>a, <2>1 DEF Placed, State
<1>7. CASE s.scenario = "emergency"
  <2> DEFINE u == [s EXCEPT !.scenarioTick = n, !.igbt = 0, !.brake = AtMost(n, EmergencyRamp)]
             v == [u EXCEPT !.mode = "emergency"]
  <2>1. ApplyScenario(s) = [v EXCEPT !.speed = AtLeast(0, s.speed - Brake)]
        /\ v.speed = s.speed
    BY <1>1, <1>7 DEF ApplyScenario, Emergency, n, State
  <2>2. Placed(u)
    BY <1>2, <1>3, <1>a, RampsKeepPlace
  <2>3. Placed(v)
    BY <2>2, ModeKeepsPlace DEF Mode
  <2> HIDE DEF v
  <2> QED
    BY <1>4, <2>1, <2>3, SpeedKeepsPlace
<1> QED
  BY <1>1, <1>5, <1>6, <1>7 DEF Scenario

LEMMA BoundHitKeepsPlace ==
    ASSUME NEW s, Placed(s), NEW atEnd \in BOOLEAN
    PROVE  Placed(BoundHit(s, atEnd))
<1>1. s \in State /\ s.onArrival \in OnArrival
  BY DEF Placed, State
<1>2. CASE s.onArrival = "loop"
  BY <1>1, <1>2 DEF BoundHit, Placed, State
<1>3. CASE s.onArrival # "loop" /\ ~atEnd
  BY <1>1, <1>3 DEF BoundHit, Placed, State
<1>4. CASE s.onArrival = "stop" /\ atEnd
  BY <1>1, <1>4 DEF BoundHit, Placed, State, Mode
<1>5. CASE s.onArrival = "remove" /\ atEnd
  BY <1>1, <1>5 DEF BoundHit, Placed, State
<1> QED
  BY <1>1, <1>2, <1>3, <1>4, <1>5 DEF OnArrival

LEMMA MoveKeepsPlace ==
    ASSUME NEW s, Placed(s)
    PROVE  Placed(Move(s))
<1>1. s \in State /\ {s.speed, s.distance, s.start, s.end} \subseteq Nat
      /\ s.distance <= Route[s.route] /\ s.start <= Route[s.route] /\ s.end <= Route[s.route]
      /\ Route[s.route] \in Nat
  BY RouteIsNat DEF Placed, State
<1>2. CASE s.speed = 0
  BY <1>2 DEF Move
<1>3. CASE s.speed # 0 /\ s.forward /\ s.distance + s.speed >= s.end
  <2>1. Placed([s EXCEPT !.distance = s.end])
    BY <1>1, DistanceKeepsPlace
  <2> QED
    BY <1>3, <2>1, BoundHitKeepsPlace DEF Move
<1>4. CASE s.speed # 0 /\ s.forward /\ ~(s.distance + s.speed >= s.end)
  <2>1. s.distance + s.speed \in Nat /\ s.distance + s.speed <= Route[s.route]
    BY <1>1, <1>4
  <2> QED
    BY <1>4, <2>1, DistanceKeepsPlace DEF Move
<1>5. CASE s.speed # 0 /\ ~s.forward /\ s.distance - s.speed <= s.start
  <2>1. Placed([s EXCEPT !.distance = s.start])
    BY <1>1, DistanceKeepsPlace
  <2> QED
    BY <1>5, <2>1, BoundHitKeepsPlace DEF Move
<1>6. CASE s.speed # 0 /\ ~s.forward /\ ~(s.distance - s.speed <= s.start)
  <2>1. s.distance - s.speed \in Nat /\ s.distance - s.speed <= Route[s.route]
    BY <1>1, <1>6
  <2> QED
    BY <1>6, <2>1, DistanceKeepsPlace DEF Move
<1> QED
  BY <1>2, <1>3, <1>4, <1>5, <1>6

LEMMA TickedKeepsPlace ==
    ASSUME NEW s, Placed(s)
    PROVE  \A t \in Ticked(s) : Placed(t)
BY TransitionKeepsPlace, ScenarioKeepsPlace, MoveKeepsPlace DEF Ticked

-----------------------------------------------------------------------------
(* The requests.                                                           *)

LEMMA AddedIsPlaced ==
    ASSUME NEW body \in Creation, NEW d \in 1..MaxDuration
    PROVE  Placed(Added(body, d))
<1> DEFINE length == Route[body.route]
           start == AtMost(body.start, length)
           end == AtLeast(start, AtMost(body.end, length))
           stop == IF end = 0 THEN length ELSE end
<1> USE LocomotiveAssumption
<1>1. length \in Nat /\ body.start \in Nat /\ body.end \in Nat
  BY DEF Creation
<1>2. start \in Nat /\ start <= length
  BY <1>1, AtMostIsBoth
<1>3. AtMost(body.end, length) \in Nat /\ AtMost(body.end, length) <= length
  BY <1>1, AtMostIsBoth
<1>4. stop \in Nat /\ stop <= length
  <2> HIDE DEF start
  <2> QED
    BY <1>1, <1>2, <1>3 DEF AtLeast
<1>5. Added(body, d) =
        [route |-> body.route, mode |-> body.mode, scenario |-> body.scenario,
         auto |-> body.auto, speed |-> body.speed, distance |-> start, start |-> start,
         end |-> stop, onArrival |-> body.onArrival, arrived |-> FALSE, forward |-> TRUE,
         modeTicks |-> 0, modeDuration |-> d, scenarioTick |-> 0, igbt |-> 0, brake |-> 0]
  BY DEF Added
<1> HIDE DEF start, stop
<1>6. body.speed \in Nat /\ 0 \in 0..Ramp /\ 0 \in 0..EmergencyRamp
  BY DEF Creation
<1> QED
  BY <1>1, <1>2, <1>4, <1>5, <1>6 DEF Placed, State, Creation

LEMMA OnNewRouteKeepsPlace ==
    ASSUME NEW s, Placed(s), NEW route \in Optional(DOMAIN Route)
    PROVE  Placed(OnNewRoute(s, route))
<1>1. CASE route = None
  BY <1>1 DEF OnNewRoute
<1>2. CASE route # None
  <2>1. route \in DOMAIN Route /\ Route[route] \in Nat
    BY <1>2, RouteIsNat DEF Optional
  <2>2. Placed(OnNewRoute(s, route))
    <3> DEFINE t == [s EXCEPT !.route = route, !.start = 0, !.end = Route[route], !.distance = 0]
    <3>1. s \in State
      BY DEF Placed
    <3>2. t \in State
      BY <2>1, <3>1 DEF State
    <3>3. t.route = route /\ t.start = 0 /\ t.end = Route[route] /\ t.distance = 0
      BY <3>1 DEF State
    <3> HIDE DEF t
    <3>4. Placed(t)
      BY <2>1, <3>2, <3>3 DEF Placed
    <3> QED
      BY <1>2, <3>4 DEF OnNewRoute, t
  <2> QED
    BY <2>2
<1> QED
  BY <1>1, <1>2

LEMMA InSegmentKeepsPlace ==
    ASSUME NEW s, Placed(s), NEW patch \in Patch
    PROVE  Placed(InSegment(s, patch))
<1> DEFINE length == Route[s.route]
           start == IF patch.start = None THEN s.start ELSE AtMost(patch.start, length)
           end == IF patch.end = None THEN s.end ELSE AtLeast(start, AtMost(patch.end, length))
           distance == Clamp(start, s.distance, end)
<1>1. s \in State /\ length \in Nat /\ {s.start, s.end, s.distance} \subseteq Nat
      /\ s.start <= length /\ s.end <= length /\ s.distance <= length
  BY RouteIsNat DEF Placed, State
<1>2. patch.start \in Nat \cup {None} /\ patch.end \in Nat \cup {None}
  BY DEF Patch, Optional
<1>3. start \in Nat /\ start <= length
  BY <1>1, <1>2, AtMostIsBoth
<1>4. end \in Nat /\ end <= length
  <2>1. ASSUME patch.end # None
        PROVE  AtMost(patch.end, length) \in Nat /\ AtMost(patch.end, length) <= length
    BY <1>1, <1>2, <2>1, AtMostIsBoth
  <2> HIDE DEF start
  <2> QED
    BY <1>1, <1>3, <2>1 DEF AtLeast
<1>5. distance \in Nat /\ distance <= length
  <2> HIDE DEF start, end
  <2>1. AtMost(s.distance, end) \in Nat /\ AtMost(s.distance, end) <= end
    BY <1>1, <1>4, AtMostIsBoth
  <2> QED
    BY <1>1, <1>3, <1>4, <2>1 DEF Clamp, AtLeast
<1>6. InSegment(s, patch) = [s EXCEPT !.start = start, !.end = end, !.distance = distance]
  BY DEF InSegment
<1> HIDE DEF start, end, distance
<1> QED
  BY <1>1, <1>3, <1>4, <1>5, <1>6 DEF Placed, State

LEMMA InScenarioKeepsPlace ==
    ASSUME NEW s, Placed(s), NEW scenario \in Optional(Scenario)
    PROVE  Placed(InScenario(s, scenario))
<1>1. CASE scenario \in {None, s.scenario}
  BY <1>1 DEF InScenario
<1>2. CASE scenario \notin {None, s.scenario}
  <2>1. scenario \in Scenario /\ 0 \in 0..Ramp /\ 0 \in 0..EmergencyRamp
    BY <1>2, LocomotiveAssumption DEF Optional
  <2> QED
    BY <1>2, <2>1 DEF InScenario, Placed, State
<1> QED
  BY <1>1, <1>2

LEMMA UpdatedKeepsPlace ==
    ASSUME NEW s, Placed(s), NEW patch \in Patch
    PROVE  Placed(Updated(s, patch))
<1> DEFINE t == InScenario(InSegment(OnNewRoute(s, patch.route), patch), patch.scenario)
<1>1. patch.route \in Optional(DOMAIN Route) /\ patch.scenario \in Optional(Scenario)
  BY DEF Patch
<1>2. Placed(t)
  BY <1>1, OnNewRouteKeepsPlace, InSegmentKeepsPlace, InScenarioKeepsPlace
<1>3. Updated(s, patch) =
        [t EXCEPT !.mode = Given(patch.mode, t.mode),
                  !.modeTicks = IF patch.mode = None THEN t.modeTicks ELSE 0,
                  !.onArrival = Given(patch.onArrival, t.onArrival),
                  !.auto = Given(patch.auto, t.auto),
                  !.speed = Given(patch.speed, t.speed)]
  BY DEF Updated
<1> HIDE DEF t
<1>4. t \in State
  BY <1>2 DEF Placed
<1>5. Given(patch.mode, t.mode) \in Mode
  BY <1>4 DEF Given, Patch, Optional, State
<1>6. Given(patch.onArrival, t.onArrival) \in OnArrival
  BY <1>4 DEF Given, Patch, Optional, State
<1>7. Given(patch.auto, t.auto) \in BOOLEAN
  BY <1>4 DEF Given, Patch, Optional, State
<1>8. Given(patch.speed, t.speed) \in Nat
  BY <1>4, LocomotiveAssumption DEF Given, Patch, Optional, State
<1>9. (IF patch.mode = None THEN t.modeTicks ELSE 0) \in Nat
  BY <1>4 DEF State
<1> DEFINE m == Given(patch.mode, t.mode)
           n == IF patch.mode = None THEN t.modeTicks ELSE 0
           a == Given(patch.onArrival, t.onArrival)
           b == Given(patch.auto, t.auto)
           v == Given(patch.speed, t.speed)
           u == [t EXCEPT !.mode = m, !.modeTicks = n, !.onArrival = a, !.auto = b, !.speed = v]
<1> HIDE DEF m, n, a, b, v
<1>10. u \in State
  BY <1>4, <1>5, <1>6, <1>7, <1>8, <1>9 DEF State, m, n, a, b, v
<1>11. u.route = t.route /\ u.distance = t.distance /\ u.start = t.start /\ u.end = t.end
  BY <1>4 DEF State
<1>12. Placed(u)
  BY <1>2, <1>10, <1>11 DEF Placed
<1> QED
  BY <1>3, <1>12 DEF m, n, a, b, v

-----------------------------------------------------------------------------
(* The ramps of the scenarios.                                             *)

\* The place on its ramp of the scenario a locomotive is in: at the start of it, or where the
\* override that the scenario drives stands.
OnRamp(s) ==
    /\ s.scenario = "degradation" => s.scenarioTick = 0 \/ s.igbt = s.scenarioTick
    /\ s.scenario = "emergency" =>
        s.scenarioTick = 0 \/ s.brake = AtMost(s.scenarioTick, EmergencyRamp)

\* The scenario and its overrides stay as they are.
SameRamps(s, t) ==
    /\ t \in State
    /\ t.scenario = s.scenario /\ t.scenarioTick = s.scenarioTick
    /\ t.igbt = s.igbt /\ t.brake = s.brake

\* An override moves by one step of its ramp, or starts afresh.
NextOnRamp(i, j) == j \in {0, 1, i, i + 1}

LEMMA SpeedKeepsRamps ==
    ASSUME NEW s \in State, NEW v \in Nat
    PROVE  SameRamps(s, [s EXCEPT !.speed = v])
BY DEF SameRamps, State

LEMMA TimerKeepsRamps ==
    ASSUME NEW s \in State, NEW n \in Nat
    PROVE  SameRamps(s, [s EXCEPT !.modeTicks = n])
BY DEF SameRamps, State

LEMMA EnterKeepsRamps ==
    ASSUME NEW s \in State, NEW mode \in Mode
    PROVE  \A t \in Enter(s, mode) : SameRamps(s, t)
<1>1. ASSUME NEW d \in 1..MaxDuration
      PROVE  SameRamps(s, [s EXCEPT !.mode = mode, !.modeTicks = 0, !.modeDuration = d])
  BY DEF SameRamps, State
<1> QED
  BY <1>1 DEF Enter

LEMMA LastsKeepsRamps ==
    ASSUME NEW s, NEW u, SameRamps(s, u), NEW mode \in Mode
    PROVE  \A t \in Lasts(u, mode) : SameRamps(s, t)
<1>1. \A t \in Lasts(u, mode) : SameRamps(u, t)
  BY EnterKeepsRamps DEF Lasts, SameRamps
<1> QED
  BY <1>1 DEF SameRamps

LEMMA TransitionKeepsRamps ==
    ASSUME NEW s \in State
    PROVE  \A t \in Transition(s) : SameRamps(s, t)
<1> DEFINE t == [s EXCEPT !.modeTicks = @ + 1]
<1>1. SameRamps(s, t) /\ t \in State /\ t.speed \in Nat /\ t.forward \in BOOLEAN
      /\ s.mode \in Mode /\ s.auto \in BOOLEAN
  <2>1. s.modeTicks \in Nat /\ s.modeTicks + 1 \in Nat
    BY DEF State
  <2>2. SameRamps(s, t)
    BY <2>1, TimerKeepsRamps
  <2> QED
    BY <2>2 DEF SameRamps, State
<1> HIDE DEF t
<1>2. ASSUME NEW v \in Nat PROVE SameRamps(s, [t EXCEPT !.speed = v])
  <2>1. SameRamps(t, [t EXCEPT !.speed = v])
    BY <1>1, SpeedKeepsRamps
  <2> QED
    BY <1>1, <2>1 DEF SameRamps
<1>3. CASE ~s.auto
  BY <1>3 DEF Transition, SameRamps
<1>4. CASE s.auto /\ s.mode = "depot"
  <2>1. Transition(s) = Lasts(t, "departure")
    BY <1>4 DEF Transition, t
  <2> QED
    BY <1>1, <2>1, LastsKeepsRamps DEF Mode
<1>5. CASE s.auto /\ s.mode = "departure"
  <2>1. Transition(s)
          = Lasts([t EXCEPT !.speed = AtMost(DepartMax, t.speed + Accelerate)], "cruising")
    BY <1>5 DEF Transition, t
  <2>2. AtMost(DepartMax, t.speed + Accelerate) \in Nat
    BY <1>1, Parameters DEF AtMost
  <2> QED
    BY <1>2, <2>1, <2>2, LastsKeepsRamps DEF Mode
<1>6. CASE s.auto /\ s.mode = "cruising"
  <2>1. Transition(s)
          = UNION {Lasts([t EXCEPT !.speed = v], "arrival") : v \in CruiseMin..CruiseMax}
    BY <1>6 DEF Transition, t
  <2>2. ASSUME NEW v \in CruiseMin..CruiseMax
        PROVE  \A u \in Lasts([t EXCEPT !.speed = v], "arrival") : SameRamps(s, u)
    <3>1. SameRamps(s, [t EXCEPT !.speed = v])
      BY <1>2, Parameters
    <3> QED
      BY <3>1, LastsKeepsRamps DEF Mode
  <2> QED
    BY <2>1, <2>2
<1>7. CASE s.auto /\ s.mode = "arrival" /\ t.modeTicks >= t.modeDuration
  <2> DEFINE u == [t EXCEPT !.speed = 0, !.forward = ~t.forward]
  <2>1. Transition(s) = Enter(u, "depot")
    BY <1>7 DEF Transition, t
  <2>2. SameRamps(s, u)
    BY <1>1 DEF SameRamps, State
  <2>3. \A x \in Enter(u, "depot") : SameRamps(u, x)
    BY <2>2, EnterKeepsRamps DEF SameRamps, Mode
  <2> QED
    BY <2>1, <2>2, <2>3 DEF SameRamps
<1>8. CASE s.auto /\ s.mode = "arrival" /\ ~(t.modeTicks >= t.modeDuration)
  <2>1. Transition(s) = {[t EXCEPT !.speed = AtLeast(0, t.speed - SlowDown)]}
    BY <1>8 DEF Transition, t
  <2>2. AtLeast(0, t.speed - SlowDown) \in Nat
    BY <1>1, Parameters DEF AtLeast
  <2> QED
    BY <1>2, <2>1, <2>2
<1>9. CASE s.auto /\ s.mode = "aess_sleep"
  <2>1. Transition(s) = Lasts([t EXCEPT !.speed = 0], "departure")
    BY <1>9 DEF Transition, t
  <2> QED
    BY <1>2, <2>1, LastsKeepsRamps DEF Mode
<1>10. CASE s.auto /\ s.mode = "emergency"
  <2>1. Transition(s) = Lasts([t EXCEPT !.speed = AtLeast(0, t.speed - Brake)], "recovery")
    BY <1>10 DEF Transition, t
  <2>2. AtLeast(0, t.speed - Brake) \in Nat
    BY <1>1, Parameters DEF AtLeast
  <2> QED
    BY <1>2, <2>1, <2>2, LastsKeepsRamps DEF Mode
<1>11. CASE s.auto /\ s.mode = "recovery"
  <2>1. Transition(s)
          = Lasts([t EXCEPT !.speed = AtMost(RecoverMax, t.speed + PickUp)], "cruising")
    BY <1>11 DEF Transition, t
  <2>2. AtMost(RecoverMax, t.speed + PickUp) \in Nat
    BY <1>1, Parameters DEF AtMost
  <2> QED
    BY <1>2, <2>1, <2>2, LastsKeepsRamps DEF Mode
<1> QED
  BY <1>1, <1>3, <1>4, <1>5, <1>6, <1>7, <1>8, <1>9, <1>10, <1>11 DEF Mode

LEMMA MoveKeepsRamps ==
    ASSUME NEW s, Placed(s)
    PROVE  SameRamps(s, Move(s))
<1>1. s \in State /\ Move(s) \in State
  BY MoveKeepsPlace DEF Placed
<1>2. ASSUME NEW u \in State, NEW atEnd \in BOOLEAN
      PROVE  /\ BoundHit(u, atEnd).scenario = u.scenario
             /\ BoundHit(u, atEnd).scenarioTick = u.scenarioTick
             /\ BoundHit(u, atEnd).igbt = u.igbt
             /\ BoundHit(u, atEnd).brake = u.brake
  <2>1. u.onArrival \in OnArrival
    BY DEF State
  <2> QED
    BY <2>1 DEF BoundHit, OnArrival, State
<1>3. ASSUME NEW d \in Nat
      PROVE  SameRamps(s, [s EXCEPT !.distance = d])
  BY <1>1 DEF SameRamps, State
<1>4. s.speed \in Nat /\ s.distance \in Nat /\ s.start \in Nat /\ s.end \in Nat
  BY <1>1 DEF State
<1>5. CASE s.speed = 0
  BY <1>1, <1>5 DEF Move, SameRamps
<1>6. CASE s.speed # 0 /\ s.forward /\ s.distance + s.speed >= s.end
  <2> DEFINE u == [s EXCEPT !.distance = s.end]
  <2>1. Move(s) = BoundHit(u, TRUE)
    BY <1>6 DEF Move
  <2>2. SameRamps(s, u)
    BY <1>3, <1>4
  <2> HIDE DEF u
  <2> QED
    BY <1>1, <1>2, <2>1, <2>2 DEF SameRamps
<1>7. CASE s.speed # 0 /\ s.forward /\ ~(s.distance + s.speed >= s.end)
  <2>1. Move(s) = [s EXCEPT !.distance = s.distance + s.speed]
    BY <1>7 DEF Move
  <2> QED
    BY <1>3, <1>4, <2>1
<1>8. CASE s.speed # 0 /\ ~s.forward /\ s.distance - s.speed <= s.start
  <2> DEFINE u == [s EXCEPT !.distance = s.start]
  <2>1. Move(s) = BoundHit(u, FALSE)
    BY <1>8 DEF Move
  <2>2. SameRamps(s, u)
    BY <1>3, <1>4
  <2> HIDE DEF u
  <2> QED
    BY <1>1, <1>2, <2>1, <2>2 DEF SameRamps
<1>9. CASE s.speed # 0 /\ ~s.forward /\ ~(s.distance - s.speed <= s.start)
  <2>1. Move(s) = [s EXCEPT !.distance = s.distance - s.speed]
    BY <1>9 DEF Move
  <2>2. s.distance - s.speed \in Nat
    BY <1>4, <1>9
  <2> QED
    BY <1>3, <2>1, <2>2
<1> QED
  BY <1>5, <1>6, <1>7, <1>8, <1>9

\* A tick of a scenario: its override goes one step up the ramp, the other has none.
LEMMA ScenarioRamps ==
    ASSUME NEW s \in State, OnRamp(s)
    PROVE  /\ OnRamp(ApplyScenario(s))
           /\ NextOnRamp(s.igbt, ApplyScenario(s).igbt)
           /\ NextOnRamp(s.brake, ApplyScenario(s).brake)
<1> DEFINE n == AtMost(s.scenarioTick + 1, Ramp)
           a == ApplyScenario(s)
<1>1. s.scenarioTick \in 0..Ramp /\ s.igbt \in 0..Ramp /\ s.brake \in 0..EmergencyRamp
      /\ s.scenario \in Scenario
  BY DEF State
<1>2. /\ n \in 1..Ramp
      /\ s.scenarioTick = 0 => n = 1
      /\ n \in {s.scenarioTick, s.scenarioTick + 1}
  BY <1>1, LocomotiveAssumption DEF AtMost
<1>3. CASE s.scenario = "normal"
  <2>1. a.scenario = s.scenario /\ a.igbt = 0 /\ a.brake = 0
    BY <1>3 DEF ApplyScenario, State
  <2> QED
    BY <1>3, <2>1 DEF OnRamp, NextOnRamp
<1>4. CASE s.scenario = "degradation"
  <2>1. a.scenario = s.scenario /\ a.scenarioTick = n /\ a.igbt = n /\ a.brake = 0
    BY <1>4 DEF ApplyScenario, State
  <2>2. n \in {0, 1, s.igbt, s.igbt + 1}
    BY <1>2, <1>4 DEF OnRamp
  <2> HIDE DEF n, a
  <2> QED
    BY <1>4, <2>1, <2>2 DEF OnRamp, NextOnRamp, a
<1>5. CASE s.scenario = "emergency"
  <2>1. /\ a.scenario = s.scenario /\ a.scenarioTick = n /\ a.igbt = 0
        /\ a.brake = AtMost(n, EmergencyRamp)
    BY <1>5 DEF ApplyScenario, Emergency, State
  <2>2. AtMost(n, EmergencyRamp) \in {0, 1, s.brake, s.brake + 1}
    <3> HIDE DEF n
    <3>1. CASE s.scenarioTick = 0
      BY <1>2, <3>1, LocomotiveAssumption DEF AtMost
    <3>2. CASE s.brake = AtMost(s.scenarioTick, EmergencyRamp)
      BY <1>1, <1>2, <3>2, LocomotiveAssumption DEF AtMost
    <3> QED
      BY <1>5, <3>1, <3>2 DEF OnRamp
  <2> HIDE DEF n, a
  <2> QED
    BY <1>5, <2>1, <2>2 DEF OnRamp, NextOnRamp, a
<1> QED
  BY <1>1, <1>3, <1>4, <1>5 DEF Scenario

LEMMA TickedRamps ==
    ASSUME NEW s, Placed(s), OnRamp(s)
    PROVE  \A t \in Ticked(s) :
              OnRamp(t) /\ NextOnRamp(s.igbt, t.igbt) /\ NextOnRamp(s.brake, t.brake)
<1>1. ASSUME NEW u \in Transition(s)
      PROVE  /\ OnRamp(Move(ApplyScenario(u)))
             /\ NextOnRamp(s.igbt, Move(ApplyScenario(u)).igbt)
             /\ NextOnRamp(s.brake, Move(ApplyScenario(u)).brake)
  <2> DEFINE a == ApplyScenario(u)
  <2>1. s \in State /\ Placed(u) /\ SameRamps(s, u)
    BY TransitionKeepsPlace, TransitionKeepsRamps DEF Placed
  <2>2. OnRamp(u) /\ u \in State /\ u.igbt = s.igbt /\ u.brake = s.brake
    BY <2>1 DEF SameRamps, OnRamp
  <2>3. OnRamp(a) /\ NextOnRamp(s.igbt, a.igbt) /\ NextOnRamp(s.brake, a.brake)
    BY <2>2, ScenarioRamps
  <2>4. SameRamps(a, Move(a))
    BY <2>1, ScenarioKeepsPlace, MoveKeepsRamps
  <2> HIDE DEF a
  <2>5. OnRamp(Move(a)) /\ NextOnRamp(s.igbt, Move(a).igbt) /\ NextOnRamp(s.brake, Move(a).brake)
    BY <2>3, <2>4 DEF SameRamps, OnRamp
  <2> QED
    BY <2>5 DEF a
<1> QED
  BY <1>1 DEF Ticked

\* A request leaves the overrides alone or takes them away, and puts a scenario that it
\* changes at the start of its ramp.
LEMMA UpdatedRamps ==
    ASSUME NEW s, Placed(s), OnRamp(s), NEW patch \in Patch
    PROVE  /\ OnRamp(Updated(s, patch))
           /\ NextOnRamp(s.igbt, Updated(s, patch).igbt)
           /\ NextOnRamp(s.brake, Updated(s, patch).brake)
<1> DEFINE r == OnNewRoute(s, patch.route)
           g == InSegment(r, patch)
           t == InScenario(g, patch.scenario)
<1>1. patch.route \in Optional(DOMAIN Route) /\ patch.scenario \in Optional(Scenario)
  BY DEF Patch
<1>2. Placed(r) /\ Placed(g) /\ Placed(t)
  BY <1>1, OnNewRouteKeepsPlace, InSegmentKeepsPlace, InScenarioKeepsPlace
<1>3. r \in State /\ g \in State /\ t \in State /\ s \in State
  BY <1>2 DEF Placed
<1>4. SameRamps(s, r)
  BY <1>3 DEF OnNewRoute, SameRamps, State
<1> HIDE DEF r
<1>5. SameRamps(r, g)
  BY <1>3 DEF InSegment, SameRamps, State
<1> HIDE DEF g
<1>6. OnRamp(g) /\ g.igbt = s.igbt /\ g.brake = s.brake
  BY <1>4, <1>5 DEF SameRamps, OnRamp
<1>7. OnRamp(t) /\ t.igbt \in {0, g.igbt} /\ t.brake \in {0, g.brake}
  <2>1. CASE patch.scenario \in {None, g.scenario}
    BY <1>6, <2>1 DEF InScenario
  <2>2. CASE patch.scenario \notin {None, g.scenario}
    <3>1. /\ t.scenarioTick = 0
          /\ t.igbt \in {0, g.igbt} /\ t.brake \in {0, g.brake}
      BY <1>3, <2>2 DEF InScenario, State
    <3> QED
      BY <3>1 DEF OnRamp
  <2> QED
    BY <2>1, <2>2
<1>8. SameRamps(t, Updated(s, patch))
  <2>1. Updated(s, patch) \in State
    BY UpdatedKeepsPlace DEF Placed
  <2>2. Updated(s, patch) =
          [t EXCEPT !.mode = Given(patch.mode, t.mode),
                    !.modeTicks = IF patch.mode = None THEN t.modeTicks ELSE 0,
                    !.onArrival = Given(patch.onArrival, t.onArrival),
                    !.auto = Given(patch.auto, t.auto),
                    !.speed = Given(patch.speed, t.speed)]
    BY DEF Updated, g, r
  <2> HIDE DEF t
  <2>3. /\ Updated(s, patch).scenario = t.scenario
        /\ Updated(s, patch).scenarioTick = t.scenarioTick
        /\ Updated(s, patch).igbt = t.igbt /\ Updated(s, patch).brake = t.brake
    BY <1>3, <2>2 DEF State
  <2> QED
    BY <2>1, <2>3 DEF SameRamps
<1> HIDE DEF t
<1> QED
  BY <1>6, <1>7, <1>8 DEF SameRamps, OnRamp, NextOnRamp

-----------------------------------------------------------------------------
(* The theorems.                                                           *)

\* The inductive invariant.
Inv ==
    /\ loco = None \/ Placed(loco)
    /\ requests \in 0..MaxRequests

LEMMA InitInv == Init => Inv
BY LocomotiveAssumption DEF Init, Inv

LEMMA StepInv == Inv /\ [Next]_vars => Inv'
<1> SUFFICES ASSUME Inv, [Next]_vars PROVE Inv'
  OBVIOUS
<1>1. ASSUME Asked PROVE requests' \in 0..MaxRequests
  BY <1>1, LocomotiveAssumption DEF Inv, Asked
<1>2. CASE Create
  <2>1. PICK body \in Creations, d \in 1..MaxDuration : loco' = Added(body, d)
    BY <1>2 DEF Create
  <2>2. body \in Creation
    BY LocomotiveAssumption
  <2> QED
    BY <1>1, <1>2, <2>1, <2>2, AddedIsPlaced DEF Inv, Create
<1>3. CASE Update
  <2>1. PICK patch \in Patches : loco' = Updated(loco, patch)
    BY <1>3 DEF Update
  <2>2. patch \in Patch /\ Placed(loco)
    BY <1>3, LocomotiveAssumption DEF Inv, Update
  <2> QED
    BY <1>1, <1>3, <2>1, <2>2, UpdatedKeepsPlace DEF Inv, Update
<1>4. CASE Delete
  BY <1>1, <1>4 DEF Inv, Delete
<1>5. CASE Tick
  <2>1. PICK s \in Ticked(loco) : loco' = IF Dropped(s) THEN None ELSE s
    BY <1>5 DEF Tick
  <2>2. Placed(loco)
    BY <1>5 DEF Inv, Tick
  <2> QED
    BY <1>5, <2>1, <2>2, TickedKeepsPlace DEF Inv, Tick
<1>6. CASE UNCHANGED vars
  BY <1>6 DEF Inv, vars
<1> QED
  BY <1>2, <1>3, <1>4, <1>5, <1>6 DEF Next

LEMMA SpecInv == Spec => []Inv
BY InitInv, StepInv, PTL DEF Spec

\* Every request leaves the fleet with a well-formed locomotive, or none.
THEOREM LocomotiveIsTyped == Spec => []TypeOK
<1>1. Inv => TypeOK
  BY DEF Inv, Placed, TypeOK
<1> QED
  BY <1>1, SpecInv, PTL

\* Neither a tick nor any request leaves a locomotive, or an end of its segment, off its
\* route: route_geometry's position_at() is never asked for a place that the route has not.
THEOREM LocomotiveStaysOnRoute == Spec => []OnRoute
<1>1. Inv => OnRoute
  BY DEF Inv, Placed, State, OnRoute
<1> QED
  BY <1>1, SpecInv, PTL

\* The inductive invariant of the ramps.
RampInv == loco = None \/ OnRamp(loco)

LEMMA RampInit == Init => RampInv
BY DEF Init, RampInv

\* What a step does to the ramps.
LEMMA RampStep ==
    ASSUME Inv, RampInv, [Next]_vars
    PROVE  /\ RampInv'
           /\ loco # None /\ loco' # None =>
                NextOnRamp(loco.igbt, loco'.igbt) /\ NextOnRamp(loco.brake, loco'.brake)
<1>1. CASE Create
  <2>1. PICK body \in Creations, d \in 1..MaxDuration : loco' = Added(body, d)
    BY <1>1 DEF Create
  <2>2. Added(body, d).scenarioTick = 0
    BY DEF Added
  <2> QED
    BY <1>1, <2>1, <2>2 DEF Create, RampInv, OnRamp
<1>2. CASE Update
  <2>1. PICK patch \in Patches : loco' = Updated(loco, patch)
    BY <1>2 DEF Update
  <2>2. patch \in Patch /\ Placed(loco) /\ OnRamp(loco)
    BY <1>2, LocomotiveAssumption DEF Inv, RampInv, Update
  <2> QED
    BY <2>1, <2>2, UpdatedRamps DEF RampInv
<1>3. CASE Delete
  BY <1>3 DEF Delete, RampInv
<1>4. CASE Tick
  <2>1. PICK s \in Ticked(loco) : loco' = IF Dropped(s) THEN None ELSE s
    BY <1>4 DEF Tick
  <2>2. Placed(loco) /\ OnRamp(loco)
    BY <1>4 DEF Inv, RampInv, Tick
  <2>3. OnRamp(s) /\ NextOnRamp(loco.igbt, s.igbt) /\ NextOnRamp(loco.brake, s.brake)
    BY <2>2, TickedRamps
  <2> QED
    BY <2>1, <2>3 DEF RampInv
<1>5. CASE UNCHANGED vars
  BY <1>5 DEF vars, RampInv, NextOnRamp
<1> QED
  BY <1>1, <1>2, <1>3, <1>4, <1>5 DEF Next

\* locomotive_state.py:130, "re-arming a scenario gives a fresh ramp": however scenarios,
\* modes and routes are switched between two ticks, an override starts at the first step of
\* its ramp and moves by one, for ramps of any length.
THEOREM RampsStartAfresh == Spec => FreshRamp
<1>1. Inv /\ RampInv /\ [Next]_vars => RampInv'
  BY RampStep
<1>2. Inv /\ RampInv /\ [Next]_vars =>
        [loco # None /\ loco' # None =>
            /\ loco'.igbt \in {0, 1, loco.igbt, loco.igbt + 1}
            /\ loco'.brake \in {0, 1, loco.brake, loco.brake + 1}]_vars
  BY RampStep DEF NextOnRamp
<1> QED
  BY <1>1, <1>2, RampInit, SpecInv, PTL DEF Spec, FreshRamp
=============================================================================
